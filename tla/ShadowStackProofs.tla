--------------------------- MODULE ShadowStackProofs ---------------------------
(***************************************************************************)
(* For every set of programs: the bounds that SoftBound passes on the      *)
(* shadow stack are those of the pointers, and frames match calls, so long *)
(* as the loads of what a call returned come right after the call.         *)
(* ShadowStackPassProofs says what code the pass leaves behind. Here       *)
(* follows what an activation knows while it executes that code, and what  *)
(* the frames hold; every action of the running program keeps both         *)
(* (RunInv).                                                               *)
(***************************************************************************)
EXTENDS ShadowStackPassProofs

-----------------------------------------------------------------------------
(* An activation *)

Available(act, o) == o.kind = "inst" => o.at \in DOMAIN act.val

\* What the register is to hold.
Element(act, r) ==
  IF r.of.kind = "undef" THEN NullObject ELSE ValueOf(act, r.of)[r.k]

IsActivation(F, c, act) ==
  /\ act = [fun |-> act.fun, at |-> act.at, done |-> act.done, args |-> act.args,
            cond |-> act.cond, val |-> act.val, wit |-> act.wit]
  /\ act.at \in DOMAIN F.body
  /\ act.done \in 0 .. Len(c[act.at])
  /\ act.cond \in BOOLEAN
  /\ DOMAIN act.args = DOMAIN F.params
  /\ \A j \in DOMAIN F.params : F.params[j] = "p" => act.args[j] \in Object
  /\ act.val = [d \in DOMAIN act.val |-> act.val[d]]
  /\ act.wit = [r \in DOMAIN act.wit |-> act.wit[r]]

\* Values are there where they may be used, and the registers of a witness
\* stand for the elements of the value.
ValuesFit(F, m, act) ==
  /\ \A d \in DOMAIN act.val :
       /\ d \in 1 .. act.at - 1
       /\ F.body[d].op \in {"call", "select", "extract", "insert"}
       /\ DOMAIN act.val[d] = DOMAIN ResultType(F.body[d]).elems
       /\ \A k \in PointersIn(ResultType(F.body[d])) : act.val[d][k] \in Object
       /\ Inst(d) \in DOMAIN m =>
            \A k \in DOMAIN m[Inst(d)] :
              /\ Available(act, m[Inst(d)][k].of)
              /\ Element(act, m[Inst(d)][k]) = act.val[d][k]
  /\ \A d \in 1 .. act.at - 1 :
       Produces(F.body[d]) /\ Dominates(F, d, act.at) => d \in DOMAIN act.val

Chosen(ins, cond) == IF cond THEN ins.yes ELSE ins.no

RegistersFit(F, m, act) ==
  \A r \in DOMAIN act.wit :
    /\ r.of.kind \in {"arg", "inst"}
    /\ IF Available(act, r.of) THEN act.wit[r] = Element(act, r)
       ELSE /\ r.of = Inst(act.at) /\ F.body[act.at].op = "select"
            /\ act.wit[r] = ValueOf(act, Chosen(F.body[act.at], act.cond))[r.k]

\* The activation was in front of instruction h and went on.
Visited(act, h) == h = 1 \/ h \in DOMAIN act.val \/ h - 1 \in DOMAIN act.val

RegistersFilled(c, act) ==
  \A h \in 1 .. act.at : \A k \in DOMAIN c[h] :
    /\ IF h = act.at THEN k <= act.done ELSE Visited(act, h)
    /\ c[h][k].op \in Fills
    => c[h][k].reg \in DOMAIN act.wit

ActivationFits(F, c, m, act) ==
  /\ IsActivation(F, c, act)
  /\ ValuesFit(F, m, act)
  /\ RegistersFit(F, m, act)
  /\ RegistersFilled(c, act)

\* The size of the frame that the activation has open, 0 if there is none.
OpenSize(F, c, act) ==
  IF \E k \in 1 .. act.done : c[act.at][k].op = "alloc" THEN FrameSize(F.body[act.at])
  ELSE IF /\ act.at > 1 /\ F.body[act.at - 1].op = "call"
          /\ \A k \in 1 .. act.done : c[act.at][k].op # "dealloc"
    THEN FrameSize(F.body[act.at - 1])
  ELSE 0

-----------------------------------------------------------------------------
(* Frames. Call a has a frame of size[a] open, the run-time one of size last. *)

IsOwner(size, shd, owner) ==
  /\ owner \in [1 .. Len(shd) -> 1 .. Len(size) + 1]
  /\ \A d, e \in 1 .. Len(shd) : d < e => owner[d] < owner[e]
  /\ owner[Len(shd)] = Len(size) + 1
  /\ \A a \in 1 .. Len(size) : size[a] # 0 <=> \E d \in 1 .. Len(shd) : owner[d] = a

FramesFit(size, shd, last) ==
  /\ IsSequence(shd) /\ Len(shd) > 0
  /\ \E owner \in [1 .. Len(shd) -> 1 .. Len(size) + 1] :
       /\ IsOwner(size, shd, owner)
       /\ \A d \in 1 .. Len(shd) - 1 : DOMAIN shd[d] = 0 .. size[owner[d]] - 1
       /\ DOMAIN shd[Len(shd)] = 0 .. last - 1

\* The innermost frame holds the arguments on entry, what was stored, and
\* what was returned.
ArgumentsHeld(F, c, act, frame) ==
  act.at = 1 /\ (\A k \in 1 .. act.done : c[1][k].op \in Fills) =>
    \A j \in DOMAIN F.params : F.params[j] = "p" =>
      /\ ArgumentSlot(F, j) \in DOMAIN frame
      /\ frame[ArgumentSlot(F, j)] = act.args[j]

StoresHeld(c, act, frame) ==
  \A k \in 1 .. act.done : c[act.at][k].op = "store" =>
    /\ c[act.at][k].slot \in DOMAIN frame
    /\ frame[c[act.at][k].slot] = BoundsIn(act, c[act.at][k].reg)

ResultsHeld(F, c, act, frame) ==
  LET ret == F.body[act.at - 1].ret IN
  /\ act.at > 1 /\ F.body[act.at - 1].op = "call"
  /\ \A k \in 1 .. act.done : c[act.at][k].op \in Fills
  => \A n \in DOMAIN ComputeIndices(ret) :
       /\ n - 1 \in DOMAIN frame
       /\ act.at - 1 \in DOMAIN act.val
       /\ frame[n - 1] = act.val[act.at - 1][ComputeIndices(ret)[n]]

FrameHolds(F, c, act, frame) ==
  /\ ArgumentsHeld(F, c, act, frame)
  /\ StoresHeld(c, act, frame)
  /\ ResultsHeld(F, c, act, frame)

-----------------------------------------------------------------------------
(* An instrumented function runs *)

Instrumented(F, c, m) ==
  /\ Layout(F, c, m, Len(F.body) + 1)
  /\ \A i \in DOMAIN F.body : NeedsMet(F, m, i)

\* What the layout of an instrumented function consists of.
LEMMA InstrumentedParts ==
  ASSUME NEW p, WellFormed(p), NEW F, IsFunction(p, F), NEW c, NEW m, Instrumented(F, c, m)
  PROVE  /\ WitnessesFit(F, m) /\ SourcesAreFilled(F, c, m)
         /\ \A i \in DOMAIN F.body :
              /\ IsSequence(c[i]) /\ IsOrdered(c[i]) /\ IsHandled(F, c, m, i)
              /\ Len(c[i]) \in Nat /\ DOMAIN c[i] = 1 .. Len(c[i])
              /\ \A k \in DOMAIN c[i] : IsItem(F, c, m, Len(F.body) + 1, i, k)
<1>1. /\ WitnessesFit(F, m) /\ SourcesAreFilled(F, c, m)
      /\ \A i \in DOMAIN F.body : IsSequence(c[i]) /\ IsOrdered(c[i])
      /\ \A i \in DOMAIN F.body : \A k \in DOMAIN c[i] :
           IsItem(F, c, m, Len(F.body) + 1, i, k)
      /\ \A i \in DOMAIN F.body : i < Len(F.body) + 1 => IsHandled(F, c, m, i)
  BY DEF Instrumented, Layout
<1>2. \A i \in DOMAIN F.body : i < Len(F.body) + 1
  BY DEF IsFunction
<1>3. \A i \in DOMAIN F.body : Len(c[i]) \in Nat /\ DOMAIN c[i] = 1 .. Len(c[i])
  BY <1>1, SequenceDomain
<1> QED  BY <1>1, <1>2, <1>3

\* Values that may be used are there.
LEMMA ValueThere ==
  ASSUME NEW p, WellFormed(p), NEW F, IsFunction(p, F), NEW c, NEW m, NEW act,
         IsActivation(F, c, act), ValuesFit(F, m, act), NEW o, IsValue(F, o, act.at)
  PROVE  /\ Available(act, o)
         /\ DOMAIN ValueOf(act, o) = DOMAIN TypeOf(F, o).elems
         /\ \A k \in PointersIn(TypeOf(F, o)) : ValueOf(act, o)[k] \in Object
<1>0. act.at \in DOMAIN F.body
  BY DEF IsActivation
<1>1. CASE o.kind = "inst"
  <2>1. /\ o.at \in 1 .. act.at - 1 /\ Dominates(F, o.at, act.at)
        /\ Produces(F.body[o.at])
    BY <1>0, <1>1, ValueTyped
  <2>2. o.at \in DOMAIN act.val
    BY <2>1 DEF ValuesFit
  <2>3. TypeOf(F, o) = ResultType(F.body[o.at]) /\ ValueOf(act, o) = act.val[o.at]
    BY <1>1 DEF TypeOf, ValueOf
  <2> QED  BY <2>2, <2>3 DEF ValuesFit, Available
<1>2. CASE o.kind = "arg"
  <2>1. o.at \in DOMAIN F.params /\ F.params[o.at] = "p"
    BY <1>0, <1>2, ValueTyped
  <2>2. TypeOf(F, o) = Pointer /\ ValueOf(act, o) = <<act.args[o.at]>>
    BY <1>2, <2>1 DEF TypeOf, ValueOf, Pointer
  <2>3. act.args[o.at] \in Object
    BY <2>1 DEF IsActivation
  <2> QED  BY <1>2, <2>2, <2>3, PointerIsType DEF Available
<1>3. CASE o.kind = "global"
  <2>1. TypeOf(F, o) = Pointer /\ ValueOf(act, o) = <<GlobalObject>>
    BY <1>3 DEF TypeOf, ValueOf
  <2> QED  BY <1>3, <2>1, PointerIsType, ObjectAssumption DEF Available
<1>4. CASE o.kind = "int"
  <2>1. TypeOf(F, o) = Integer /\ ValueOf(act, o) = <<NoObject>>
    BY <1>4 DEF TypeOf, ValueOf
  <2> QED  BY <1>4, <2>1, PointerIsType DEF Available
<1> QED  BY <1>0, <1>1, <1>2, <1>3, <1>4, ValueTyped

\* The elements of a value; there are none of an undefined aggregate.
ElementOf(act, o, k) == IF o.kind = "undef" THEN NullObject ELSE ValueOf(act, o)[k]

\* The registers of a witness stand for the elements of the value.
LEMMA WitnessElements ==
  ASSUME NEW p, WellFormed(p), NEW F, IsFunction(p, F), NEW m, NEW act,
         WitnessesFit(F, m), ValuesFit(F, m, act), NEW o \in DOMAIN m, Available(act, o),
         NEW k \in DOMAIN m[o]
  PROVE  Available(act, m[o][k].of) /\ Element(act, m[o][k]) = ElementOf(act, o, k)
<1>1. IsNode(F, o) /\ m[o] = Witness(F, m, o)
  BY DEF WitnessesFit
<1>2. CASE o.kind = "inst"
  <2>1. o = Inst(o.at) /\ o.at \in DOMAIN act.val
    BY <1>1, <1>2, NodeTyped DEF Available
  <2>2. Available(act, m[o][k].of) /\ Element(act, m[o][k]) = act.val[o.at][k]
    BY <2>1 DEF ValuesFit
  <2> QED  BY <1>2, <2>2 DEF ElementOf, ValueOf
<1>3. CASE o.kind # "inst"
  <2>1. m[o] = Sources(TypeOf(F, o), o)
    BY <1>1, <1>3 DEF Witness
  <2>2. m[o][k] = Register(o, k)
    BY <2>1 DEF Sources
  <2> QED  BY <2>2 DEF Register, Element, ElementOf
<1> QED  BY <1>2, <1>3

\* A register is filled by one of the first n items.
FilledBefore(s, n, r) == \E q \in 1 .. n : s[q].op \in Fills /\ s[q].reg = r

\* A register that is filled in front of the instruction is filled by an item.
LEMMA ReadyHere ==
  ASSUME NEW F, NEW c, NEW n \in Int, NEW r, NEW i \in Int, Ready(F, c, i, n + 1, r),
         Location(F, r.of) = i, r.of.kind \notin {"global", "undef"}
  PROVE  FilledBefore(c[i], n, r)
<1>1. PICK q \in 1 .. (n + 1) - 1 : c[i][q].op \in Fills /\ c[i][q].reg = r
  BY DEF Ready
<1>2. q \in 1 .. n
  BY <1>1
<1> QED  BY <1>1, <1>2 DEF FilledBefore

\* What was filled before the next item has bounds.
LEMMA RegisterFilled ==
  ASSUME NEW p, WellFormed(p), NEW F, IsFunction(p, F), NEW c, NEW m, NEW act,
         Instrumented(F, c, m), IsActivation(F, c, act), RegistersFilled(c, act),
         NEW o \in DOMAIN m, NEW k \in DOMAIN m[o],
         Ready(F, c, act.at, act.done + 1, m[o][k]), Available(act, m[o][k].of),
         m[o][k].of.kind \in {"arg", "inst"}
  PROVE  m[o][k] \in DOMAIN act.wit
<1> DEFINE r == m[o][k]
           L == Location(F, r.of)
<1>1. /\ WitnessesFit(F, m) /\ SourcesAreFilled(F, c, m) /\ ComesFrom(F, m, o, r)
  BY InstrumentedParts DEF WitnessesFit
<1>2. /\ r = Register(r.of, r.k) /\ r.of \in DOMAIN m /\ r.k \in DOMAIN m[r.of]
      /\ r.of.kind \in {"global", "undef"} \/ IsSource(F, r.of)
  BY <1>1 DEF ComesFrom
<1> HIDE DEF r
<1>3. IsSource(F, r.of) /\ IsNode(F, r.of)
  BY <1>1, <1>2 DEF r, WitnessesFit
<1>4. act.at \in DOMAIN F.body /\ act.done \in 0 .. Len(c[act.at]) /\ F.body # <<>>
      /\ DOMAIN F.body = 1 .. Len(F.body) /\ Len(F.body) \in Nat
      /\ Len(c[act.at]) \in Nat /\ DOMAIN c[act.at] = 1 .. Len(c[act.at])
  BY InstrumentedParts DEF IsActivation, IsFunction
<1>5. CASE L = act.at /\ \E q \in 1 .. act.done :
             c[act.at][q].op \in Fills /\ c[act.at][q].reg = r
  <2>1. PICK q \in 1 .. act.done : c[act.at][q].op \in Fills /\ c[act.at][q].reg = r
    BY <1>5
  <2>2. q \in DOMAIN c[act.at] /\ q <= act.done /\ act.at \in 1 .. act.at
    BY <1>4
  <2> QED  BY <2>1, <2>2 DEF RegistersFilled, r
<1>6. CASE L < act.at
  <2>1. L \in DOMAIN F.body
    BY <1>3, <1>4, Locations
  <2>2. IsFilled(c[L], r)
    BY <1>1, <1>2, <1>3 DEF SourcesAreFilled
  <2>3. PICK q \in DOMAIN c[L] : c[L][q].op \in Fills /\ c[L][q].reg = r
    BY <2>2 DEF IsFilled
  <2>4. Visited(act, L)
    <3>1. CASE r.of.kind = "arg"
      <4>1. L = 1
        BY <1>3, <1>4, <3>1, Locations
      <4> QED  BY <4>1 DEF Visited
    <3>2. CASE r.of.kind = "inst"
      <4>1. r.of.at \in DOMAIN act.val
        BY <3>2 DEF Available, r
      <4>2. r.of.at \in DOMAIN F.body
        BY <1>3, <3>2, NodeTyped
      <4>3. CASE F.body[r.of.at].op = "call"
        <5>1. L = r.of.at + 1
          BY <1>3, <1>4, <3>2, <4>3, Locations
        <5>2. L - 1 = r.of.at
          BY <1>4, <4>2, <5>1
        <5> QED  BY <4>1, <5>2 DEF Visited
      <4>4. CASE F.body[r.of.at].op = "select"
        <5>1. L = r.of.at
          BY <1>3, <1>4, <3>2, <4>4, Locations
        <5> QED  BY <4>1, <5>1 DEF Visited
      <4> QED  BY <1>3, <3>2, <4>3, <4>4 DEF IsSource
    <3> QED  BY <3>1, <3>2 DEF r
  <2>5. L \in 1 .. act.at /\ L # act.at
    BY <1>4, <1>6, <2>1
  <2> QED  BY <2>3, <2>4, <2>5 DEF RegistersFilled, r
<1>7. r.of.kind \notin {"global", "undef"}
  BY DEF r
<1>8. Ready(F, c, act.at, act.done + 1, r)
  BY DEF r
<1>9. CASE L # act.at /\ ~(L < act.at)
  BY <1>7, <1>8, <1>9 DEF Ready
<1>10. CASE L = act.at
  <2>1. FilledBefore(c[act.at], act.done, r)
    BY <1>4, <1>7, <1>8, <1>10, ReadyHere
  <2> QED  BY <1>5, <1>10, <2>1 DEF FilledBefore
<1> QED  BY <1>6, <1>9, <1>10

\* A register that is filled holds the bounds of its element.
LEMMA BoundsRight ==
  ASSUME NEW p, WellFormed(p), NEW F, IsFunction(p, F), NEW c, NEW m, NEW act,
         Instrumented(F, c, m), ActivationFits(F, c, m, act),
         NEW o \in DOMAIN m, Available(act, o), NEW k \in DOMAIN m[o],
         Ready(F, c, act.at, act.done + 1, m[o][k])
  PROVE  BoundsIn(act, m[o][k]) = ElementOf(act, o, k)
<1> DEFINE r == m[o][k]
<1>1. WitnessesFit(F, m) /\ ComesFrom(F, m, o, r)
  BY InstrumentedParts DEF WitnessesFit
<1>2. Available(act, r.of) /\ Element(act, r) = ElementOf(act, o, k)
  BY <1>1, WitnessElements DEF ActivationFits
<1>3. r = Register(r.of, r.k) /\ r.of \in DOMAIN m /\ r.k \in DOMAIN m[r.of] /\ IsNode(F, r.of)
  BY <1>1 DEF ComesFrom, WitnessesFit
<1>4. CASE r.of.kind \in {"arg", "inst"}
  <2>1. r \in DOMAIN act.wit
    BY <1>2, <1>4, RegisterFilled DEF ActivationFits
  <2> HIDE DEF r
  <2>2. act.wit[r] = Element(act, r)
    BY <1>2, <2>1 DEF ActivationFits, RegistersFit
  <2>3. BoundsIn(act, r) = act.wit[r]
    BY <1>4 DEF BoundsIn
  <2>4. BoundsIn(act, r) = ElementOf(act, o, k)
    BY <1>2, <2>2, <2>3
  <2> QED  BY <2>4 DEF r
<1>5. CASE r.of.kind = "global"
  <2>1. TypeOf(F, r.of) = Pointer
    BY <1>3, <1>5, NodeTyped
  <2>2. r.k = 1
    BY <1>1, <1>3, <2>1, PointerIsType DEF WitnessesFit
  <2> HIDE DEF r
  <2>3. Element(act, r) = GlobalObject /\ BoundsIn(act, r) = GlobalObject
    BY <1>5, <2>2 DEF Element, ValueOf, BoundsIn
  <2> QED  BY <1>2, <2>3 DEF r
<1>6. CASE r.of.kind = "undef"
  BY <1>2, <1>6 DEF Element, BoundsIn
<1>7. r.of.kind \in {"arg", "inst", "global", "undef"}
  BY <1>3, NodeTyped
<1> QED  BY <1>4, <1>5, <1>6, <1>7

\* The same behind all that is inserted before an instruction.
LEMMA BoundsRightAtEnd ==
  ASSUME NEW p, WellFormed(p), NEW F, IsFunction(p, F), NEW c, NEW m, NEW act,
         Instrumented(F, c, m), ActivationFits(F, c, m, act), act.done = Len(c[act.at]),
         NEW o \in DOMAIN m, IsValue(F, o, act.at), NEW k \in DOMAIN m[o]
  PROVE  BoundsIn(act, m[o][k]) = ValueOf(act, o)[k]
<1>1. IsActivation(F, c, act) /\ ValuesFit(F, m, act) /\ act.at \in DOMAIN F.body
  BY DEF ActivationFits, IsActivation
<1>2. Available(act, o)
  BY <1>1, ValueThere
<1>3. /\ WitnessesFit(F, m) /\ SourcesAreFilled(F, c, m) /\ IsSequence(c[act.at])
      /\ Len(c[act.at]) \in Nat
  BY <1>1, InstrumentedParts
<1>4. act.done + 1 \in Int /\ act.done + 1 > Len(c[act.at])
  BY <1>3
<1>5. Ready(F, c, act.at, act.done + 1, m[o][k])
  BY <1>1, <1>3, <1>4, WitnessReady
<1>6. o.kind # "undef"
  BY <1>1, ValueTyped
<1> QED  BY <1>2, <1>5, <1>6, BoundsRight DEF ElementOf

\* An activation at `at' with `done' items executed, values val and registers wit.
Moved(act, i, n, val, wit) ==
  [fun |-> act.fun, at |-> i, done |-> n, args |-> act.args, cond |-> act.cond,
   val |-> val, wit |-> wit]

HasValuesOf(act2, act) ==
  /\ \A o : ValueOf(act2, o) = ValueOf(act, o)
  /\ \A o : Available(act2, o) <=> Available(act, o)
  /\ \A r : Element(act2, r) = Element(act, r)

\* Where an activation is does not change its values.
LEMMA SameValues ==
  ASSUME NEW act, NEW i, NEW n, NEW wit
  PROVE  HasValuesOf(Moved(act, i, n, act.val, wit), act)
<1> DEFINE act2 == Moved(act, i, n, act.val, wit)
<1>1. act2.args = act.args /\ act2.val = act.val
  BY DEF Moved
<1> HIDE DEF act2
<1>2. \A o : ValueOf(act2, o) = ValueOf(act, o)
  BY <1>1 DEF ValueOf
<1>3. \A o : Available(act2, o) <=> Available(act, o)
  BY <1>1 DEF Available
<1>4. \A r : Element(act2, r) = Element(act, r)
  BY <1>2 DEF Element
<1>5. HasValuesOf(act2, act)
  BY <1>2, <1>3, <1>4 DEF HasValuesOf
<1> QED  BY <1>5 DEF act2

\* Behind one more item.
LEMMA BehindFits ==
  ASSUME NEW F, NEW c, NEW m, NEW act, ActivationFits(F, c, m, act),
         Len(c[act.at]) \in Nat, act.done < Len(c[act.at]), act.at \in Int,
         NEW wit, wit = [r \in DOMAIN wit |-> wit[r]], DOMAIN act.wit \subseteq DOMAIN wit,
         c[act.at][act.done + 1].op \in Fills => c[act.at][act.done + 1].reg \in DOMAIN wit,
         \A r \in DOMAIN wit :
           /\ r.of.kind \in {"arg", "inst"}
           /\ IF Available(act, r.of) THEN wit[r] = Element(act, r)
              ELSE /\ r.of = Inst(act.at) /\ F.body[act.at].op = "select"
                   /\ wit[r] = ValueOf(act, Chosen(F.body[act.at], act.cond))[r.k]
  PROVE  ActivationFits(F, c, m, Moved(act, act.at, act.done + 1, act.val, wit))
<1> DEFINE act2 == Moved(act, act.at, act.done + 1, act.val, wit)
<1>1. /\ act2 = [fun |-> act2.fun, at |-> act2.at, done |-> act2.done, args |-> act2.args,
                 cond |-> act2.cond, val |-> act2.val, wit |-> act2.wit]
      /\ act2.at = act.at /\ act2.done = act.done + 1 /\ act2.args = act.args
      /\ act2.cond = act.cond /\ act2.val = act.val /\ act2.wit = wit
  BY DEF Moved
<1>2. /\ \A o : ValueOf(act2, o) = ValueOf(act, o)
      /\ \A o : Available(act2, o) <=> Available(act, o)
      /\ \A r : Element(act2, r) = Element(act, r)
  <2>1. HasValuesOf(act2, act)
    BY SameValues
  <2> HIDE DEF act2
  <2> QED  BY <2>1 DEF HasValuesOf
<1> HIDE DEF act2
<1>3. IsActivation(F, c, act) /\ ValuesFit(F, m, act) /\ RegistersFilled(c, act)
  BY DEF ActivationFits
<1>4. IsActivation(F, c, act2)
  <2>1. act.done + 1 \in 0 .. Len(c[act.at])
    BY <1>3 DEF IsActivation
  <2> QED  BY <1>1, <1>3, <2>1 DEF IsActivation
<1>5. ValuesFit(F, m, act2)
  BY <1>1, <1>2, <1>3 DEF ValuesFit
<1>6. RegistersFit(F, m, act2)
  BY <1>1, <1>2 DEF RegistersFit
<1>7. RegistersFilled(c, act2)
  <2> SUFFICES ASSUME NEW h \in 1 .. act.at, NEW k \in DOMAIN c[h],
                      IF h = act.at THEN k <= act.done + 1 ELSE Visited(act2, h),
                      c[h][k].op \in Fills
               PROVE  c[h][k].reg \in DOMAIN wit
    BY <1>1 DEF RegistersFilled
  <2>1. CASE h = act.at /\ k = act.done + 1
    BY <2>1
  <2>2. CASE h = act.at /\ k # act.done + 1
    <3>1. k <= act.done
      <4>1. k <= act.done + 1
        BY <2>2
      <4>2. act.done \in Int /\ k \in Int
        BY <1>3, <2>2 DEF IsActivation
      <4> QED  BY <2>2, <4>1, <4>2
    <3> QED  BY <1>3, <2>2, <3>1 DEF RegistersFilled
  <2>3. CASE h # act.at
    <3>1. Visited(act, h)
      BY <1>1, <2>3 DEF Visited
    <3> QED  BY <1>3, <2>3, <3>1 DEF RegistersFilled
  <2> QED  BY <2>1, <2>2, <2>3
<1>8. ActivationFits(F, c, m, act2)
  BY <1>4, <1>5, <1>6, <1>7 DEF ActivationFits
<1> QED  BY <1>8 DEF act2

\* What dominates a later instruction dominates an earlier one.
LEMMA DominatesEarlier ==
  ASSUME NEW F, NEW d \in Int, NEW n \in Int, NEW j \in Int, d < j, j <= n, Dominates(F, d, n)
  PROVE  Dominates(F, d, j)
<1>1. d .. j - 1 \subseteq d .. n - 1
  OBVIOUS
<1> QED  BY <1>1 DEF Dominates

\* At a later instruction, from one that does not produce a value.
LEMMA AdvanceFits ==
  ASSUME NEW F, NEW c, NEW m, NEW act, ActivationFits(F, c, m, act),
         DOMAIN F.body = 1 .. Len(F.body), Len(F.body) \in Nat,
         Len(c[act.at]) \in Nat, DOMAIN c[act.at] = 1 .. Len(c[act.at]),
         act.done = Len(c[act.at]),
         NEW n \in DOMAIN F.body, act.at < n, Len(c[n]) \in Nat, DOMAIN c[n] = 1 .. Len(c[n]),
         F.body[act.at].op # "select",
         \A d \in 1 .. n - 1 :
           Produces(F.body[d]) /\ Dominates(F, d, n) => d \in DOMAIN act.val
  PROVE  ActivationFits(F, c, m, Moved(act, n, 0, act.val, act.wit))
<1> DEFINE act2 == Moved(act, n, 0, act.val, act.wit)
<1>1. /\ act2 = [fun |-> act2.fun, at |-> act2.at, done |-> act2.done, args |-> act2.args,
                 cond |-> act2.cond, val |-> act2.val, wit |-> act2.wit]
      /\ act2.at = n /\ act2.done = 0 /\ act2.args = act.args
      /\ act2.cond = act.cond /\ act2.val = act.val /\ act2.wit = act.wit
  BY DEF Moved
<1>2. /\ \A o : ValueOf(act2, o) = ValueOf(act, o)
      /\ \A o : Available(act2, o) <=> Available(act, o)
      /\ \A r : Element(act2, r) = Element(act, r)
  <2>1. HasValuesOf(act2, act)
    BY SameValues
  <2> HIDE DEF act2
  <2> QED  BY <2>1 DEF HasValuesOf
<1> HIDE DEF act2
<1>3. IsActivation(F, c, act) /\ ValuesFit(F, m, act) /\ RegistersFilled(c, act)
      /\ RegistersFit(F, m, act)
  BY DEF ActivationFits
<1>4. act.at \in 1 .. Len(F.body) /\ n \in 1 .. Len(F.body)
  BY <1>3 DEF IsActivation
<1>5. IsActivation(F, c, act2)
  <2>1. 0 \in 0 .. Len(c[n])
    OBVIOUS
  <2> QED  BY <1>1, <1>3, <2>1 DEF IsActivation
<1>6. ValuesFit(F, m, act2)
  <2>1. \A d \in DOMAIN act.val : d \in 1 .. n - 1
    <3>1. \A d \in DOMAIN act.val : d \in 1 .. act.at - 1
      BY <1>3 DEF ValuesFit
    <3> QED  BY <1>4, <3>1
  <2> QED  BY <1>1, <1>2, <1>3, <2>1 DEF ValuesFit
<1>7. RegistersFit(F, m, act2)
  BY <1>1, <1>2, <1>3 DEF RegistersFit
<1>8. RegistersFilled(c, act2)
  <2> SUFFICES ASSUME NEW h \in 1 .. n, NEW k \in DOMAIN c[h],
                      IF h = n THEN k <= 0 ELSE Visited(act2, h),
                      c[h][k].op \in Fills
               PROVE  c[h][k].reg \in DOMAIN act.wit
    BY <1>1 DEF RegistersFilled
  <2>1. h # n
    <3> SUFFICES ASSUME h = n PROVE FALSE
      OBVIOUS
    <3>1. k \in 1 .. Len(c[n]) /\ k <= 0
      OBVIOUS
    <3> QED  BY <3>1
  <2>2. Visited(act, h)
    BY <1>1, <2>1 DEF Visited
  <2>3. \A d \in DOMAIN act.val : d \in 1 .. act.at - 1
    BY <1>3 DEF ValuesFit
  <2>4. h <= act.at
    BY <1>4, <2>2, <2>3 DEF Visited
  <2>5. h = act.at => k <= act.done
    OBVIOUS
  <2> QED  BY <1>3, <1>4, <2>2, <2>4, <2>5 DEF RegistersFilled
<1>9. ActivationFits(F, c, m, act2)
  BY <1>5, <1>6, <1>7, <1>8 DEF ActivationFits
<1> QED  BY <1>9 DEF act2

\* Behind an instruction that produces a value.
LEMMA ProducedFits ==
  ASSUME NEW F, NEW c, NEW m, NEW act, ActivationFits(F, c, m, act),
         DOMAIN F.body = 1 .. Len(F.body), Len(F.body) \in Nat,
         Len(c[act.at]) \in Nat, DOMAIN c[act.at] = 1 .. Len(c[act.at]),
         act.done = Len(c[act.at]), act.at + 1 \in DOMAIN F.body,
         Len(c[act.at + 1]) \in Nat, DOMAIN c[act.at + 1] = 1 .. Len(c[act.at + 1]),
         F.body[act.at].op \in {"call", "select", "extract", "insert"},
         NEW elems, DOMAIN elems = DOMAIN ResultType(F.body[act.at]).elems,
         \A k \in PointersIn(ResultType(F.body[act.at])) : elems[k] \in Object,
         Inst(act.at) \in DOMAIN m =>
           \A k \in DOMAIN m[Inst(act.at)] :
             \/ m[Inst(act.at)][k] = Register(Inst(act.at), k)
             \/ /\ Available(act, m[Inst(act.at)][k].of)
                /\ Element(act, m[Inst(act.at)][k]) = elems[k],
         F.body[act.at].op = "select" =>
           elems = ValueOf(act, Chosen(F.body[act.at], act.cond))
  PROVE  ActivationFits(F, c, m, Moved(act, act.at + 1, 0, Updated(act.val, act.at, elems),
                                       act.wit))
<1> DEFINE i == act.at
           val2 == Updated(act.val, i, elems)
           act2 == Moved(act, i + 1, 0, val2, act.wit)
<1>1. /\ act2 = [fun |-> act2.fun, at |-> act2.at, done |-> act2.done, args |-> act2.args,
                 cond |-> act2.cond, val |-> act2.val, wit |-> act2.wit]
      /\ act2.at = i + 1 /\ act2.done = 0 /\ act2.args = act.args
      /\ act2.cond = act.cond /\ act2.val = val2 /\ act2.wit = act.wit
  BY DEF Moved
<1> HIDE DEF act2
<1>2. IsActivation(F, c, act) /\ ValuesFit(F, m, act) /\ RegistersFilled(c, act)
      /\ RegistersFit(F, m, act)
  BY DEF ActivationFits
<1>3. i \in 1 .. Len(F.body) /\ i + 1 \in 1 .. Len(F.body)
  BY <1>2 DEF IsActivation
<1>4. /\ val2 = [d \in DOMAIN val2 |-> val2[d]]
      /\ DOMAIN val2 = DOMAIN act.val \cup {i} /\ val2[i] = elems
      /\ \A d \in DOMAIN act.val : d # i => val2[d] = act.val[d]
  BY DEF Updated
<1> HIDE DEF val2
<1>5. \A d \in DOMAIN act.val : d \in 1 .. i - 1 /\ d # i
  <2>1. \A d \in DOMAIN act.val : d \in 1 .. i - 1
    BY <1>2 DEF ValuesFit
  <2> QED  BY <1>3, <2>1
<1>6. \A o : Available(act, o) => Available(act2, o) /\ ValueOf(act2, o) = ValueOf(act, o)
  <2> TAKE o
  <2>1. o.kind = "inst" /\ o.at \in DOMAIN act.val =>
           o.at \in DOMAIN act2.val /\ act2.val[o.at] = act.val[o.at]
    BY <1>1, <1>4, <1>5
  <2>2. act2.args = act.args
    BY <1>1
  <2> QED  BY <2>1, <2>2 DEF Available, ValueOf
<1>7. \A r : Available(act, r.of) => Available(act2, r.of) /\ Element(act2, r) = Element(act, r)
  BY <1>6 DEF Element
<1>8. Available(act2, Inst(i)) /\ ValueOf(act2, Inst(i)) = elems
      /\ \A k : Element(act2, Register(Inst(i), k)) = elems[k]
  <2>1. Inst(i).kind = "inst" /\ Inst(i).at = i
    BY Kinds
  <2>2. Available(act2, Inst(i)) /\ ValueOf(act2, Inst(i)) = elems
    BY <1>1, <1>4, <2>1 DEF Available, ValueOf
  <2>3. \A k : Register(Inst(i), k).of = Inst(i) /\ Register(Inst(i), k).k = k
    BY DEF Register
  <2>4. ASSUME NEW k  PROVE Element(act2, Register(Inst(i), k)) = elems[k]
    <3>1. Register(Inst(i), k).of.kind # "undef"
      BY <2>1, <2>3
    <3> QED  BY <2>2, <2>3, <3>1 DEF Element
  <2> QED  BY <2>2, <2>4
<1>9. IsActivation(F, c, act2)
  <2>1. 0 \in 0 .. Len(c[i + 1])
    OBVIOUS
  <2> QED  BY <1>1, <1>2, <1>4, <2>1 DEF IsActivation
<1>10. ValuesFit(F, m, act2)
  <2>1. ASSUME NEW d \in DOMAIN val2
        PROVE  /\ d \in 1 .. act2.at - 1
               /\ F.body[d].op \in {"call", "select", "extract", "insert"}
               /\ DOMAIN val2[d] = DOMAIN ResultType(F.body[d]).elems
               /\ \A k \in PointersIn(ResultType(F.body[d])) : val2[d][k] \in Object
               /\ Inst(d) \in DOMAIN m =>
                    \A k \in DOMAIN m[Inst(d)] :
                      /\ Available(act2, m[Inst(d)][k].of)
                      /\ Element(act2, m[Inst(d)][k]) = val2[d][k]
    <3>1. CASE d = i
      <4>1. d \in 1 .. act2.at - 1
        BY <1>1, <1>3, <3>1
      <4>2. ASSUME Inst(i) \in DOMAIN m, NEW k \in DOMAIN m[Inst(i)]
            PROVE  /\ Available(act2, m[Inst(i)][k].of)
                   /\ Element(act2, m[Inst(i)][k]) = elems[k]
        <5>1. CASE m[Inst(i)][k] = Register(Inst(i), k)
          BY <1>8, <5>1 DEF Register
        <5>2. CASE /\ Available(act, m[Inst(i)][k].of)
                   /\ Element(act, m[Inst(i)][k]) = elems[k]
          BY <1>7, <5>2
        <5> QED  BY <4>2, <5>1, <5>2
      <4> QED  BY <1>4, <3>1, <4>1, <4>2
    <3>2. CASE d # i
      <4>1. d \in DOMAIN act.val /\ val2[d] = act.val[d]
        BY <1>4, <3>2
      <4>2. /\ F.body[d].op \in {"call", "select", "extract", "insert"}
            /\ DOMAIN act.val[d] = DOMAIN ResultType(F.body[d]).elems
            /\ \A k \in PointersIn(ResultType(F.body[d])) : act.val[d][k] \in Object
            /\ Inst(d) \in DOMAIN m =>
                 \A k \in DOMAIN m[Inst(d)] :
                   /\ Available(act, m[Inst(d)][k].of)
                   /\ Element(act, m[Inst(d)][k]) = act.val[d][k]
        BY <1>2, <4>1 DEF ValuesFit
      <4>3. d \in 1 .. act2.at - 1
        BY <1>1, <1>3, <1>5, <4>1
      <4> QED  BY <1>7, <4>1, <4>2, <4>3
    <3> QED  BY <3>1, <3>2
  <2>2. ASSUME NEW d \in 1 .. act2.at - 1, Produces(F.body[d]), Dominates(F, d, act2.at)
        PROVE  d \in DOMAIN val2
    <3>1. CASE d = i
      BY <1>4, <3>1
    <3>2. CASE d # i
      <4>1. d \in 1 .. i - 1 /\ d < i /\ d \in Int /\ i \in Int /\ act2.at \in Int /\ i <= act2.at
        BY <1>1, <1>3, <3>2
      <4>2. Dominates(F, d, i)
        BY <2>2, <4>1, DominatesEarlier
      <4> QED  BY <1>2, <1>4, <2>2, <4>1, <4>2 DEF ValuesFit
    <3> QED  BY <3>1, <3>2
  <2> QED  BY <1>1, <2>1, <2>2 DEF ValuesFit
<1>11. RegistersFit(F, m, act2)
  <2> SUFFICES ASSUME NEW r \in DOMAIN act.wit
               PROVE  /\ r.of.kind \in {"arg", "inst"}
                      /\ Available(act2, r.of) /\ act.wit[r] = Element(act2, r)
    BY <1>1 DEF RegistersFit
  <2>1. r.of.kind \in {"arg", "inst"}
    BY <1>2 DEF RegistersFit
  <2>2. CASE Available(act, r.of)
    BY <1>2, <1>7, <2>1, <2>2 DEF RegistersFit
  <2>3. CASE ~Available(act, r.of)
    <3>1. /\ r.of = Inst(i) /\ F.body[i].op = "select"
          /\ act.wit[r] = ValueOf(act, Chosen(F.body[i], act.cond))[r.k]
      BY <1>2, <2>3 DEF RegistersFit
    <3>2. Element(act2, r) = elems[r.k]
      BY <1>8, <3>1, Kinds DEF Element
    <3> QED  BY <1>8, <2>1, <3>1, <3>2
  <2> QED  BY <2>2, <2>3
<1>12. RegistersFilled(c, act2)
  <2> SUFFICES ASSUME NEW h \in 1 .. i + 1, NEW k \in DOMAIN c[h],
                      IF h = i + 1 THEN k <= 0 ELSE Visited(act2, h),
                      c[h][k].op \in Fills
               PROVE  c[h][k].reg \in DOMAIN act.wit
    BY <1>1 DEF RegistersFilled
  <2>1. h # i + 1
    <3> SUFFICES ASSUME h = i + 1 PROVE FALSE
      OBVIOUS
    <3>1. k \in 1 .. Len(c[i + 1]) /\ k <= 0
      OBVIOUS
    <3> QED  BY <3>1
  <2>2. h \in 1 .. i
    BY <1>3, <2>1
  <2>3. h # i => Visited(act, h)
    <3> SUFFICES ASSUME h # i PROVE Visited(act, h)
      OBVIOUS
    <3>1. h - 1 # i
      BY <1>3, <2>2
    <3> QED  BY <1>1, <1>4, <2>1, <3>1 DEF Visited
  <2>4. h = i => k <= act.done
    OBVIOUS
  <2> QED  BY <1>2, <2>2, <2>3, <2>4 DEF RegistersFilled
<1>13. ActivationFits(F, c, m, act2)
  BY <1>9, <1>10, <1>11, <1>12 DEF ActivationFits
<1> QED  BY <1>13 DEF act2, val2

\* On entry.
LEMMA EntryFits ==
  ASSUME NEW p, WellFormed(p), NEW F, IsFunction(p, F), F.body # <<>>, NEW c, NEW m,
         Instrumented(F, c, m), NEW f, NEW args, DOMAIN args = DOMAIN F.params,
         \A j \in DOMAIN F.params : F.params[j] = "p" => args[j] \in Object,
         NEW cond \in BOOLEAN
  PROVE  ActivationFits(F, c, m, Activation(f, args, cond))
<1> DEFINE act == Activation(f, args, cond)
<1>1. /\ act = [fun |-> act.fun, at |-> act.at, done |-> act.done, args |-> act.args,
                cond |-> act.cond, val |-> act.val, wit |-> act.wit]
      /\ act.at = 1 /\ act.done = 0 /\ act.args = args
      /\ act.cond = cond /\ act.val = <<>> /\ act.wit = <<>>
  BY DEF Activation
<1> HIDE DEF act
<1>2. DOMAIN act.val = {} /\ DOMAIN act.wit = {}
      /\ act.val = [d \in DOMAIN act.val |-> act.val[d]]
      /\ act.wit = [d \in DOMAIN act.wit |-> act.wit[d]]
  BY <1>1
<1>3. 1 \in DOMAIN F.body
  BY DEF IsFunction
<1>4. Len(c[1]) \in Nat /\ DOMAIN c[1] = 1 .. Len(c[1])
  BY <1>3, InstrumentedParts
<1>5. IsActivation(F, c, act)
  BY <1>1, <1>2, <1>3, <1>4 DEF IsActivation
<1>6. ValuesFit(F, m, act)
  BY <1>1, <1>2 DEF ValuesFit
<1>7. RegistersFit(F, m, act)
  BY <1>2 DEF RegistersFit
<1>8. RegistersFilled(c, act)
  <2>1. \A h \in 1 .. act.at : h = act.at /\ DOMAIN c[h] = 1 .. Len(c[1])
    BY <1>1, <1>4
  <2>2. \A k \in 1 .. Len(c[1]) : ~(k <= act.done)
    BY <1>1, <1>4
  <2> QED  BY <2>1, <2>2 DEF RegistersFilled
<1>9. ActivationFits(F, c, m, act)
  BY <1>5, <1>6, <1>7, <1>8 DEF ActivationFits
<1> QED  BY <1>9 DEF act

\* An activation of an instrumented function of a program.
Runs(p, F, c, m, act) ==
  /\ WellFormed(p) /\ IsFunction(p, F) /\ F.body # <<>>
  /\ Instrumented(F, c, m)
  /\ ActivationFits(F, c, m, act)

\* What an activation consists of.
LEMMA RunsParts ==
  ASSUME NEW p, NEW F, NEW c, NEW m, NEW act, Runs(p, F, c, m, act)
  PROVE  /\ DOMAIN F.body = 1 .. Len(F.body) /\ Len(F.body) \in Nat
         /\ act.at \in DOMAIN F.body /\ act.at \in Int /\ act.at >= 1
         /\ \A i \in DOMAIN F.body : Len(c[i]) \in Nat /\ DOMAIN c[i] = 1 .. Len(c[i])
         /\ act.done \in 0 .. Len(c[act.at]) /\ act.done \in Int
         /\ IsActivation(F, c, act) /\ ValuesFit(F, m, act)
         /\ RegistersFit(F, m, act) /\ RegistersFilled(c, act)
         /\ WitnessesFit(F, m) /\ SourcesAreFilled(F, c, m)
<1>1. DOMAIN F.body = 1 .. Len(F.body) /\ Len(F.body) \in Nat
  BY DEF Runs, IsFunction
<1>2. /\ IsActivation(F, c, act) /\ ValuesFit(F, m, act)
      /\ RegistersFit(F, m, act) /\ RegistersFilled(c, act)
  BY DEF Runs, ActivationFits
<1>3. /\ WitnessesFit(F, m) /\ SourcesAreFilled(F, c, m)
      /\ \A i \in DOMAIN F.body : Len(c[i]) \in Nat /\ DOMAIN c[i] = 1 .. Len(c[i])
  BY InstrumentedParts DEF Runs
<1>4. act.at \in DOMAIN F.body /\ act.done \in 0 .. Len(c[act.at])
  BY <1>2 DEF IsActivation
<1>5. act.at \in Int /\ act.at >= 1 /\ act.done \in Int
  BY <1>1, <1>4
<1> QED  BY <1>1, <1>2, <1>3, <1>4, <1>5

\* What was executed before item n + 1 in front of instruction i.
None(s, n, ops) == \A q \in 1 .. n : s[q].op \notin ops
Some(s, n, op) == \E q \in 1 .. n : s[q].op = op

\* Which items come before the next one.
LEMMA ItemOrder ==
  ASSUME NEW p, WellFormed(p), NEW F, IsFunction(p, F), NEW c, NEW m, Instrumented(F, c, m),
         NEW i \in DOMAIN F.body, NEW n \in Nat, n < Len(c[i])
  PROVE  /\ c[i][n + 1].op \in Fills \cup {"dealloc"} => None(c[i], n, {"alloc", "store"})
         /\ c[i][n + 1].op = "dealloc" => None(c[i], n, {"dealloc"})
         /\ c[i][n + 1].op = "alloc" => None(c[i], n, {"alloc", "store"})
         /\ c[i][n + 1].op \in {"alloc", "store"} /\ i > 1 /\ HasFrame(F, i - 1)
              => Some(c[i], n, "dealloc")
         /\ c[i][n + 1].op = "store" /\ HasFrame(F, i) => Some(c[i], n, "alloc")
<1> DEFINE s == c[i]
           op == s[n + 1].op
<1>1. /\ IsOrdered(s) /\ Len(s) \in Nat /\ DOMAIN s = 1 .. Len(s)
      /\ IsHandled(F, c, m, i)
  BY InstrumentedParts
<1>2. n + 1 \in DOMAIN s /\ \A q \in 1 .. n : q \in DOMAIN s /\ q < n + 1
  BY <1>1
<1>3. \A k \in DOMAIN s : k < n + 1 => k \in 1 .. n
  BY <1>1
<1> HIDE DEF s
<1>4. op \in Fills \cup {"dealloc"} => None(s, n, {"alloc", "store"})
  <2> SUFFICES ASSUME op \in Fills \cup {"dealloc"}, NEW q \in 1 .. n
               PROVE  s[q].op \notin {"alloc", "store"}
    BY DEF None
  <2>1. ~(n + 1 < q)
    OBVIOUS
  <2> QED  BY <1>1, <1>2, <2>1 DEF IsOrdered
<1>5. op = "dealloc" => None(s, n, {"dealloc"})
  <2> SUFFICES ASSUME op = "dealloc", NEW q \in 1 .. n
               PROVE  s[q].op # "dealloc"
    BY DEF None
  <2>1. ~(n + 1 = q)
    OBVIOUS
  <2> QED  BY <1>1, <1>2, <2>1 DEF IsOrdered
<1>6. op = "alloc" => None(s, n, {"alloc", "store"})
  <2> SUFFICES ASSUME op = "alloc", NEW q \in 1 .. n
               PROVE  s[q].op \notin {"alloc", "store"}
    BY DEF None
  <2>1. ~(n + 1 = q) /\ ~(n + 1 < q)
    OBVIOUS
  <2> QED  BY <1>1, <1>2, <2>1 DEF IsOrdered
<1>7. op \in {"alloc", "store"} /\ i > 1 /\ HasFrame(F, i - 1) => Some(s, n, "dealloc")
  <2> SUFFICES ASSUME op \in {"alloc", "store"}, i > 1, HasFrame(F, i - 1)
               PROVE  Some(s, n, "dealloc")
    OBVIOUS
  <2>1. i - 1 \in DOMAIN F.body /\ (i - 1) + 1 = i
    BY DEF IsFunction
  <2> DEFINE j == i - 1
  <2>2. IsHandled(F, c, m, j)
    BY <2>1, InstrumentedParts
  <2>3. \E k \in DOMAIN c[j + 1] : c[j + 1][k].op = "dealloc"
    BY <2>2 DEF IsHandled
  <2>4. PICK k \in DOMAIN s : s[k].op = "dealloc"
    BY <2>1, <2>3 DEF s
  <2>5. k < n + 1
    BY <1>1, <1>2, <2>4 DEF IsOrdered
  <2> QED  BY <1>3, <2>4, <2>5 DEF Some
<1>8. op = "store" /\ HasFrame(F, i) => Some(s, n, "alloc")
  <2> SUFFICES ASSUME op = "store", HasFrame(F, i)
               PROVE  Some(s, n, "alloc")
    OBVIOUS
  <2>1. PICK k \in DOMAIN s : s[k].op = "alloc"
    BY <1>1 DEF IsHandled, s
  <2>2. k < n + 1
    BY <1>1, <1>2, <2>1 DEF IsOrdered
  <2> QED  BY <1>3, <2>1, <2>2 DEF Some
<1> QED  BY <1>4, <1>5, <1>6, <1>7, <1>8 DEF s

\* The same for all that was executed before the instruction.
LEMMA ItemsAtEnd ==
  ASSUME NEW p, WellFormed(p), NEW F, IsFunction(p, F), NEW c, NEW m, Instrumented(F, c, m),
         NEW i \in DOMAIN F.body
  PROVE  /\ i > 1 /\ HasFrame(F, i - 1) => Some(c[i], Len(c[i]), "dealloc")
         /\ HasFrame(F, i) => Some(c[i], Len(c[i]), "alloc")
         /\ ~HasFrame(F, i) => None(c[i], Len(c[i]), {"alloc"})
<1>1. /\ Len(c[i]) \in Nat /\ DOMAIN c[i] = 1 .. Len(c[i])
      /\ IsHandled(F, c, m, i)
      /\ \A k \in DOMAIN c[i] : IsItem(F, c, m, Len(F.body) + 1, i, k)
  BY InstrumentedParts
<1>2. ASSUME i > 1, HasFrame(F, i - 1)  PROVE Some(c[i], Len(c[i]), "dealloc")
  <2> DEFINE j == i - 1
  <2>1. j \in DOMAIN F.body /\ j + 1 = i
    BY <1>2 DEF IsFunction
  <2>2. IsHandled(F, c, m, j)
    BY <2>1, InstrumentedParts
  <2>3. \E k \in DOMAIN c[j + 1] : c[j + 1][k].op = "dealloc"
    BY <1>2, <2>2 DEF IsHandled
  <2> QED  BY <1>1, <2>1, <2>3 DEF Some
<1>3. HasFrame(F, i) => Some(c[i], Len(c[i]), "alloc")
  BY <1>1 DEF IsHandled, Some
<1>4. ~HasFrame(F, i) => None(c[i], Len(c[i]), {"alloc"})
  BY <1>1 DEF IsItem, None
<1> QED  BY <1>2, <1>3, <1>4

NextItem(c, act) == c[act.at][act.done + 1]
HasItem(c, act) == act.done < Len(c[act.at])

\* The next item is one of the layout.
LEMMA NextItemIs ==
  ASSUME NEW p, NEW F, NEW c, NEW m, NEW act, Runs(p, F, c, m, act), HasItem(c, act)
  PROVE  /\ IsItem(F, c, m, Len(F.body) + 1, act.at, act.done + 1)
         /\ act.done + 1 \in DOMAIN c[act.at] /\ act.done \in Nat
         /\ \A q \in 1 .. act.done : q \in DOMAIN c[act.at]
<1>1. act.done + 1 \in DOMAIN c[act.at] /\ act.done \in Nat
      /\ \A q \in 1 .. act.done : q \in DOMAIN c[act.at]
  BY RunsParts DEF HasItem
<1>2. IsItem(F, c, m, Len(F.body) + 1, act.at, act.done + 1)
  BY <1>1, RunsParts, InstrumentedParts DEF Runs
<1> QED  BY <1>1, <1>2

\* What is loaded is still there.
LEMMA FillsBeforeLoad ==
  ASSUME NEW p, NEW F, NEW c, NEW m, NEW act, Runs(p, F, c, m, act), HasItem(c, act),
         NextItem(c, act).op = "load", LoadsFirst(c)
  PROVE  \A k \in 1 .. act.done : c[act.at][k].op \in Fills
<1> SUFFICES ASSUME NEW k \in 1 .. act.done  PROVE c[act.at][k].op \in Fills
  OBVIOUS
<1> DEFINE i == act.at
<1>1. /\ act.done + 1 \in DOMAIN c[i] /\ act.done \in Nat /\ k \in DOMAIN c[i]
      /\ i \in DOMAIN F.body
  BY NextItemIs, RunsParts
<1>2. CASE i = 1
  <2>1. IsItem(F, c, m, Len(F.body) + 1, 1, k)
    BY <1>1, <1>2, InstrumentedParts DEF Runs
  <2>2. c[i][k].op \in Fills \cup {"alloc", "store"}
    BY <1>2, <2>1 DEF IsItem, Fills
  <2>3. None(c[i], act.done, {"alloc", "store"})
    <3>1. c[i][act.done + 1].op \in Fills \cup {"dealloc"}
      BY DEF NextItem, Fills
    <3> QED  BY <1>1, <3>1, ItemOrder DEF Runs, HasItem
  <2> QED  BY <2>2, <2>3 DEF None
<1>3. CASE i # 1
  <2>1. i \in DOMAIN c
    <3>1. DOMAIN c = DOMAIN F.body
      BY DEF Runs, Instrumented, Layout
    <3> QED  BY <1>1, <3>1
  <2>2. \A q \in 1 .. (act.done + 1) - 1 : c[i][q].op = "load"
    BY <1>1, <1>3, <2>1 DEF LoadsFirst, NextItem
  <2>3. k \in 1 .. (act.done + 1) - 1
    BY <1>1
  <2> QED  BY <2>2, <2>3 DEF Fills
<1> QED  BY <1>2, <1>3

\* A load gets the bounds of the element that its register stands for.
LEMMA LoadRight ==
  ASSUME NEW p, NEW F, NEW c, NEW m, NEW act, Runs(p, F, c, m, act), HasItem(c, act),
         NextItem(c, act).op = "load", LoadsFirst(c),
         NEW frame, FrameHolds(F, c, act, frame)
  PROVE  LET x == NextItem(c, act) IN
         /\ x.slot \in DOMAIN frame
         /\ x.reg.of.kind \in {"arg", "inst"} /\ Available(act, x.reg.of)
         /\ frame[x.slot] = Element(act, x.reg)
<1> DEFINE i == act.at
           x == NextItem(c, act)
<1>1. \A k \in 1 .. act.done : c[i][k].op \in Fills
  BY FillsBeforeLoad
<1>2. IsLoad(F, m, i, x)
  BY NextItemIs DEF IsItem, NextItem
<1> HIDE DEF x
<1>3. CASE i = 1
  <2>1. PICK j \in DOMAIN F.params :
          F.params[j] = "p" /\ x = Load(Register(Arg(j), 1), ArgumentSlot(F, j))
    BY <1>2, <1>3 DEF IsLoad
  <2>2. ArgumentSlot(F, j) \in DOMAIN frame /\ frame[ArgumentSlot(F, j)] = act.args[j]
    BY <1>1, <1>3, <2>1 DEF FrameHolds, ArgumentsHeld
  <2>3. x.reg = Register(Arg(j), 1) /\ x.slot = ArgumentSlot(F, j)
    BY <2>1 DEF Load
  <2>4. x.reg.of = Arg(j) /\ x.reg.k = 1
    BY <2>3 DEF Register
  <2>5. Element(act, x.reg) = act.args[j]
    BY <2>4, Kinds DEF Element, ValueOf
  <2> QED  BY <2>2, <2>3, <2>4, <2>5, Kinds DEF Available, x
<1>4. CASE i # 1
  <2> DEFINE ret == F.body[i - 1].ret
  <2>1. PICK n \in DOMAIN ComputeIndices(ret) :
          F.body[i - 1].op = "call" /\
          x = Load(Register(Inst(i - 1), ComputeIndices(ret)[n]), n - 1)
    BY <1>2, <1>4 DEF IsLoad
  <2>2. i > 1
    BY <1>4, RunsParts
  <2>3. /\ n - 1 \in DOMAIN frame /\ i - 1 \in DOMAIN act.val
        /\ frame[n - 1] = act.val[i - 1][ComputeIndices(ret)[n]]
    BY <1>1, <2>1, <2>2 DEF FrameHolds, ResultsHeld
  <2>4. x.reg = Register(Inst(i - 1), ComputeIndices(ret)[n]) /\ x.slot = n - 1
    BY <2>1 DEF Load
  <2>5. x.reg.of = Inst(i - 1) /\ x.reg.k = ComputeIndices(ret)[n]
    BY <2>4 DEF Register
  <2>6. Element(act, x.reg) = act.val[i - 1][ComputeIndices(ret)[n]]
    BY <2>5, Kinds DEF Element, ValueOf
  <2> QED  BY <2>3, <2>4, <2>5, <2>6, Kinds DEF Available, x
<1> QED  BY <1>3, <1>4

\* A choice has the bounds of the value that is selected.
LEMMA ChoiceRight ==
  ASSUME NEW p, NEW F, NEW c, NEW m, NEW act, Runs(p, F, c, m, act), HasItem(c, act),
         NextItem(c, act).op = "choice"
  PROVE  LET x == NextItem(c, act)
             bounds == BoundsIn(act, IF act.cond THEN x.yes ELSE x.no)
         IN
         /\ x.reg.of = Inst(act.at) /\ F.body[act.at].op = "select"
         /\ ~Available(act, x.reg.of)
         /\ bounds = ValueOf(act, Chosen(F.body[act.at], act.cond))[x.reg.k]
<1> DEFINE i == act.at
           x == NextItem(c, act)
           ins == F.body[i]
           o == Chosen(ins, act.cond)
           r == IF act.cond THEN x.yes ELSE x.no
<1>names. /\ act.at = i /\ NextItem(c, act) = x /\ F.body[i] = ins
          /\ Chosen(ins, act.cond) = o /\ (IF act.cond THEN x.yes ELSE x.no) = r
  OBVIOUS
<1> HIDE DEF i, x, ins, o, r
<1>1. IsChoice(F, c, m, i, act.done + 1, x)
  BY <1>names, NextItemIs DEF IsItem, NextItem
<1> HIDE DEF x
<1>2. /\ ins.op = "select" /\ Inst(i) \in DOMAIN m
      /\ x.reg = Register(Inst(i), x.reg.k) /\ x.reg.k \in DOMAIN m[Inst(i)]
      /\ x = Choice(x.reg, m[ins.yes][x.reg.k], m[ins.no][x.reg.k])
      /\ Ready(F, c, i, act.done + 1, x.yes) /\ Ready(F, c, i, act.done + 1, x.no)
  BY <1>names, <1>1 DEF IsChoice
<1>3. i \in DOMAIN F.body /\ WitnessesFit(F, m) /\ ValuesFit(F, m, act)
      /\ IsActivation(F, c, act) /\ WellFormed(p) /\ IsFunction(p, F)
  BY <1>names, RunsParts DEF Runs
<1>4. /\ IsType(ins.ty)
      /\ IsValueOf(F, ins.yes, i, ins.ty) /\ IsValueOf(F, ins.no, i, ins.ty)
  BY <1>names, <1>2, <1>3, Instructions
<1>5. IsValue(F, o, i) /\ TypeOf(F, o) = ins.ty
  BY <1>names, <1>4 DEF IsValueOf, Chosen
<1>6. o \in DOMAIN m /\ x.reg.k \in DOMAIN m[o]
  <2>1. Uses(F, Inst(i)) = <<ins.yes, ins.no>>
    BY <1>names, <1>2, Kinds DEF Uses
  <2>2. \A n \in DOMAIN Uses(F, Inst(i)) : Uses(F, Inst(i))[n] \in DOMAIN m
    BY <1>2, <1>3 DEF WitnessesFit
  <2>3. ins.yes \in DOMAIN m /\ ins.no \in DOMAIN m
    <3> DEFINE u == <<ins.yes, ins.no>>
    <3>1. 1 \in DOMAIN u /\ 2 \in DOMAIN u /\ u[1] = ins.yes /\ u[2] = ins.no
      OBVIOUS
    <3> HIDE DEF u
    <3>2. Uses(F, Inst(i)) = u
      BY <2>1 DEF u
    <3> QED  BY <2>2, <3>1, <3>2
  <2>4. o \in DOMAIN m
    BY <1>names, <2>3 DEF Chosen
  <2>5. DOMAIN m[Inst(i)] = PointersIn(TypeOf(F, Inst(i))) /\ TypeOf(F, Inst(i)) = ins.ty
    <3>1. DOMAIN m[Inst(i)] = PointersIn(TypeOf(F, Inst(i)))
      BY <1>2, <1>3 DEF WitnessesFit
    <3>2. Inst(i).kind = "inst" /\ Inst(i).at = i
      BY Kinds
    <3>3. TypeOf(F, Inst(i)) = ResultType(ins) /\ ResultType(ins) = ins.ty
      BY <1>names, <1>2, <3>2 DEF TypeOf, ResultType
    <3> QED  BY <3>1, <3>3
  <2>6. DOMAIN m[o] = PointersIn(ins.ty)
    BY <1>3, <1>5, <2>4 DEF WitnessesFit
  <2> QED  BY <1>2, <2>4, <2>5, <2>6
<1>7. r = m[o][x.reg.k] /\ Ready(F, c, i, act.done + 1, r)
  <2>1. x.yes = m[ins.yes][x.reg.k] /\ x.no = m[ins.no][x.reg.k]
    BY <1>2 DEF Choice
  <2> QED  BY <1>names, <1>2, <2>1 DEF Chosen
<1>8. Available(act, o) /\ o.kind # "undef"
  <2>1. Available(act, o)
    BY <1>names, <1>3, <1>5, ValueThere
  <2>2. o.kind # "undef"
    BY <1>3, <1>5, ValueTyped
  <2> QED  BY <2>1, <2>2
<1> HIDE DEF o, r
<1>9. BoundsIn(act, r) = ValueOf(act, o)[x.reg.k]
  <2>1. BoundsIn(act, m[o][x.reg.k]) = ElementOf(act, o, x.reg.k)
    BY <1>names, <1>6, <1>7, <1>8, BoundsRight DEF Runs
  <2> QED  BY <1>7, <1>8, <2>1 DEF ElementOf
<1>10. x.reg.of = Inst(i)
  BY <1>2 DEF Register
<1>11. ~Available(act, Inst(i))
  <2>1. \A d \in DOMAIN act.val : d \in 1 .. i - 1
    BY <1>names, <1>3 DEF ValuesFit
  <2>2. i \notin 1 .. i - 1
    BY RunsParts
  <2> QED  BY <2>1, <2>2, Kinds DEF Available
<1> QED  BY <1>names, <1>2, <1>9, <1>10, <1>11 DEF r, o, x

\* A load or choice fills its register with the bounds of the value.
LEMMA FillFits ==
  ASSUME NEW p, NEW F, NEW c, NEW m, NEW act, Runs(p, F, c, m, act), HasItem(c, act),
         NEW r, NextItem(c, act).reg = r, r.of.kind \in {"arg", "inst"}, NEW b,
         IF Available(act, r.of) THEN b = Element(act, r)
         ELSE /\ r.of = Inst(act.at) /\ F.body[act.at].op = "select"
              /\ b = ValueOf(act, Chosen(F.body[act.at], act.cond))[r.k]
  PROVE  ActivationFits(F, c, m,
           Moved(act, act.at, act.done + 1, act.val, Updated(act.wit, r, b)))
<1> DEFINE wit == Updated(act.wit, r, b)
<1>1. /\ wit = [s \in DOMAIN wit |-> wit[s]] /\ DOMAIN wit = DOMAIN act.wit \cup {r}
      /\ wit[r] = b /\ \A s \in DOMAIN act.wit : s # r => wit[s] = act.wit[s]
  BY DEF Updated
<1> HIDE DEF wit
<1>2. RegistersFit(F, m, act) /\ act.at \in Int /\ Len(c[act.at]) \in Nat
      /\ ActivationFits(F, c, m, act)
  BY RunsParts DEF Runs
<1>3. \A s \in DOMAIN wit :
        /\ s.of.kind \in {"arg", "inst"}
        /\ IF Available(act, s.of) THEN wit[s] = Element(act, s)
           ELSE /\ s.of = Inst(act.at) /\ F.body[act.at].op = "select"
                /\ wit[s] = ValueOf(act, Chosen(F.body[act.at], act.cond))[s.k]
  <2> TAKE s \in DOMAIN wit
  <2>1. CASE s = r
    BY <1>1, <2>1
  <2>2. CASE s # r
    BY <1>1, <1>2, <2>2 DEF RegistersFit
  <2> QED  BY <2>1, <2>2
<1>4. ActivationFits(F, c, m, Moved(act, act.at, act.done + 1, act.val, wit))
  BY <1>1, <1>2, <1>3, BehindFits DEF HasItem, NextItem
<1> QED  BY <1>4 DEF wit

\* Other items fill no register.
LEMMA PlainFits ==
  ASSUME NEW p, NEW F, NEW c, NEW m, NEW act, Runs(p, F, c, m, act), HasItem(c, act),
         NextItem(c, act).op \notin Fills
  PROVE  ActivationFits(F, c, m, Moved(act, act.at, act.done + 1, act.val, act.wit))
<1>1. RegistersFit(F, m, act) /\ act.at \in Int /\ Len(c[act.at]) \in Nat
      /\ ActivationFits(F, c, m, act) /\ IsActivation(F, c, act)
  BY RunsParts DEF Runs
<1>2. \A s \in DOMAIN act.wit :
        /\ s.of.kind \in {"arg", "inst"}
        /\ IF Available(act, s.of) THEN act.wit[s] = Element(act, s)
           ELSE /\ s.of = Inst(act.at) /\ F.body[act.at].op = "select"
                /\ act.wit[s] = ValueOf(act, Chosen(F.body[act.at], act.cond))[s.k]
  BY <1>1 DEF RegistersFit
<1> DEFINE wit == act.wit
<1> HIDE DEF wit
<1>3. wit = [s \in DOMAIN wit |-> wit[s]] /\ DOMAIN act.wit \subseteq DOMAIN wit
  BY <1>1 DEF IsActivation, wit
<1>4. ActivationFits(F, c, m, Moved(act, act.at, act.done + 1, act.val, wit))
  BY <1>1, <1>2, <1>3, BehindFits DEF HasItem, NextItem, wit
<1> QED  BY <1>4 DEF wit

\* Instructions that produce no value.
LEMMA NextFits ==
  ASSUME NEW p, NEW F, NEW c, NEW m, NEW act, Runs(p, F, c, m, act),
         act.done = Len(c[act.at]), F.body[act.at].op \in {"access", "br"}
  PROVE  /\ act.at + 1 \in DOMAIN F.body
         /\ ActivationFits(F, c, m, Moved(act, act.at + 1, 0, act.val, act.wit))
<1>1. act.at \in DOMAIN F.body /\ ValuesFit(F, m, act) /\ act.at \in Int
  BY RunsParts
<1>2. act.at + 1 \in DOMAIN F.body
  BY <1>1, Instructions DEF Runs
<1>3. ASSUME NEW d \in 1 .. (act.at + 1) - 1, Produces(F.body[d]), Dominates(F, d, act.at + 1)
      PROVE  d \in DOMAIN act.val
  <2>1. d # act.at
    BY <1>3 DEF Produces
  <2>2. d \in 1 .. act.at - 1 /\ d < act.at /\ act.at <= act.at + 1 /\ act.at + 1 \in Int
        /\ d \in Int
    BY <1>1, <2>1
  <2>3. Dominates(F, d, act.at)
    BY <1>1, <1>3, <2>2, DominatesEarlier
  <2> QED  BY <1>1, <1>3, <2>2, <2>3 DEF ValuesFit
<1> DEFINE n == act.at + 1
<1>4. n \in DOMAIN F.body /\ act.at < n
      /\ \A d \in 1 .. n - 1 : Produces(F.body[d]) /\ Dominates(F, d, n) => d \in DOMAIN act.val
  BY <1>1, <1>2, <1>3
<1> HIDE DEF n
<1>5. /\ DOMAIN F.body = 1 .. Len(F.body) /\ Len(F.body) \in Nat
      /\ Len(c[act.at]) \in Nat /\ DOMAIN c[act.at] = 1 .. Len(c[act.at])
      /\ Len(c[n]) \in Nat /\ DOMAIN c[n] = 1 .. Len(c[n])
      /\ ActivationFits(F, c, m, act)
  BY <1>1, <1>4, RunsParts DEF Runs
<1>6. ActivationFits(F, c, m, Moved(act, n, 0, act.val, act.wit))
  BY <1>4, <1>5, AdvanceFits
<1> QED  BY <1>2, <1>6 DEF n

\* The next return.
NextReturn(F, i) ==
  LET returns == {r \in i .. Len(F.body) : F.body[r].op = "ret"} IN
  CHOOSE r \in returns : \A q \in returns : r <= q

\* A branch that skips the code up to the next return.
LEMMA BranchFits ==
  ASSUME NEW p, NEW F, NEW c, NEW m, NEW act, Runs(p, F, c, m, act),
         act.done = Len(c[act.at]), F.body[act.at].op = "br"
  PROVE  LET next == NextReturn(F, act.at) IN
         /\ next \in DOMAIN F.body /\ F.body[next].op = "ret"
         /\ next + 1 \in DOMAIN F.body
         /\ ActivationFits(F, c, m, Moved(act, next + 1, 0, act.val, act.wit))
<1> DEFINE returns == {r \in act.at .. Len(F.body) : F.body[r].op = "ret"}
           next == NextReturn(F, act.at)
<1>1. /\ act.at \in DOMAIN F.body /\ ValuesFit(F, m, act) /\ act.at \in Int /\ act.at >= 1
      /\ DOMAIN F.body = 1 .. Len(F.body) /\ Len(F.body) \in Nat
  BY RunsParts
<1>2. PICK e \in act.at + 1 .. Len(F.body) - 1 : F.body[e].op = "ret"
  BY <1>1, Instructions DEF Runs
<1>3. next \in returns /\ \A q \in returns : next <= q
  <2>1. e \in returns
    BY <1>1, <1>2
  <2>2. \A n, l \in Int : IsFiniteSet(n .. l)
    BY FS_Interval
  <2>3. IsFiniteSet(returns)
    <3>1. IsFiniteSet(act.at .. Len(F.body))
      BY <1>1, <2>2
    <3> QED  BY <3>1, FS_Subset
  <2>4. returns \subseteq Int /\ returns # {}
    BY <1>1, <2>1
  <2>5. next = CHOOSE r \in returns : \A q \in returns : r <= q
    BY DEF NextReturn
  <2> HIDE DEF returns, next
  <2>6. \E r \in returns : \A q \in returns : r <= q
    BY <2>3, <2>4, LeastExists
  <2> QED  BY <2>5, <2>6
<1>4. e \in returns
  BY <1>1, <1>2
<1>5. next \in act.at .. Len(F.body) /\ F.body[next].op = "ret"
      /\ \A q \in act.at .. Len(F.body) : F.body[q].op = "ret" => next <= q
  BY <1>3
<1>6. next <= e
  BY <1>3, <1>4
<1> HIDE DEF next, returns
<1>7. next \in DOMAIN F.body /\ next + 1 \in DOMAIN F.body /\ next # act.at /\ next \in Int
  BY <1>1, <1>2, <1>5, <1>6
<1> DEFINE n == next + 1
<1>8. ASSUME NEW d \in 1 .. n - 1, Produces(F.body[d]), Dominates(F, d, n)
      PROVE  d \in DOMAIN act.val
  <2>1. d # act.at
    BY <1>8 DEF Produces
  <2>2. n \in Int /\ d \in Int /\ act.at <= n
    BY <1>1, <1>5, <1>7
  <2>3. CASE d < act.at
    <3>1. Dominates(F, d, act.at)
      BY <1>1, <1>8, <2>2, <2>3, DominatesEarlier
    <3>2. d \in 1 .. act.at - 1
      BY <1>1, <2>3
    <3> QED  BY <1>1, <1>8, <3>1, <3>2 DEF ValuesFit
  <2>4. CASE d > act.at
    <3>1. act.at \in 1 .. d - 1 /\ next \in d .. n - 1
      BY <1>1, <1>7, <2>4
    <3>2. PICK q \in act.at .. d - 1 : F.body[q].op = "ret"
      BY <1>5, <1>8, <3>1 DEF Dominates
    <3>3. q \in act.at .. Len(F.body) /\ q < next
      BY <1>1, <1>7, <3>1
    <3>4. next <= q
      BY <1>5, <3>2, <3>3
    <3> QED  BY <1>7, <3>3, <3>4
  <2> QED  BY <1>1, <2>1, <2>2, <2>3, <2>4
<1>9. n \in DOMAIN F.body /\ act.at < n
  BY <1>1, <1>5, <1>7
<1> HIDE DEF n
<1>10. /\ Len(c[act.at]) \in Nat /\ DOMAIN c[act.at] = 1 .. Len(c[act.at])
       /\ Len(c[n]) \in Nat /\ DOMAIN c[n] = 1 .. Len(c[n])
       /\ ActivationFits(F, c, m, act)
  BY <1>1, <1>9, RunsParts DEF Runs
<1>11. ActivationFits(F, c, m, Moved(act, n, 0, act.val, act.wit))
  BY <1>1, <1>8, <1>9, <1>10, AdvanceFits
<1> QED  BY <1>5, <1>7, <1>11 DEF n, next, returns

\* What an instruction may produce.
IsResult(F, m, act, elems) ==
  LET ins == F.body[act.at]
      o == Inst(act.at)
  IN
  /\ DOMAIN elems = DOMAIN ResultType(ins).elems
  /\ \A k \in PointersIn(ResultType(ins)) : elems[k] \in Object
  /\ o \in DOMAIN m =>
       \A k \in DOMAIN m[o] :
         \/ m[o][k] = Register(o, k)
         \/ Available(act, m[o][k].of) /\ Element(act, m[o][k]) = elems[k]
  /\ ins.op = "select" => elems = ValueOf(act, Chosen(ins, act.cond))

\* The activation goes on with what its instruction produced.
LEMMA ResultFits ==
  ASSUME NEW p, NEW F, NEW c, NEW m, NEW act, Runs(p, F, c, m, act),
         act.done = Len(c[act.at]),
         F.body[act.at].op \in {"call", "select", "extract", "insert"},
         NEW elems, IsResult(F, m, act, elems)
  PROVE  /\ act.at + 1 \in DOMAIN F.body
         /\ ActivationFits(F, c, m, Moved(act, act.at + 1, 0,
                                          Updated(act.val, act.at, elems), act.wit))
<1>1. act.at \in DOMAIN F.body
  BY RunsParts
<1>2. act.at + 1 \in DOMAIN F.body
  BY <1>1, Instructions DEF Runs
<1>3. /\ DOMAIN F.body = 1 .. Len(F.body) /\ Len(F.body) \in Nat
      /\ Len(c[act.at]) \in Nat /\ DOMAIN c[act.at] = 1 .. Len(c[act.at])
      /\ Len(c[act.at + 1]) \in Nat /\ DOMAIN c[act.at + 1] = 1 .. Len(c[act.at + 1])
      /\ ActivationFits(F, c, m, act)
  BY <1>1, <1>2, RunsParts DEF Runs
<1>4. /\ DOMAIN elems = DOMAIN ResultType(F.body[act.at]).elems
      /\ \A k \in PointersIn(ResultType(F.body[act.at])) : elems[k] \in Object
      /\ Inst(act.at) \in DOMAIN m =>
           \A k \in DOMAIN m[Inst(act.at)] :
             \/ m[Inst(act.at)][k] = Register(Inst(act.at), k)
             \/ /\ Available(act, m[Inst(act.at)][k].of)
                /\ Element(act, m[Inst(act.at)][k]) = elems[k]
      /\ F.body[act.at].op = "select" =>
           elems = ValueOf(act, Chosen(F.body[act.at], act.cond))
  BY DEF IsResult
<1> QED  BY <1>2, <1>3, <1>4, ProducedFits

\* The witness of the instruction that is executed.
LEMMA OwnWitness ==
  ASSUME NEW p, NEW F, NEW c, NEW m, NEW act, Runs(p, F, c, m, act), Inst(act.at) \in DOMAIN m
  PROVE  /\ m[Inst(act.at)] = InstructionWitness(F, m, Inst(act.at))
         /\ DOMAIN m[Inst(act.at)] = PointersIn(ResultType(F.body[act.at]))
         /\ \A n \in DOMAIN Uses(F, Inst(act.at)) : Uses(F, Inst(act.at))[n] \in DOMAIN m
<1> DEFINE o == Inst(act.at)
<1>1. WitnessesFit(F, m) /\ o.kind = "inst" /\ o.at = act.at
  BY RunsParts, Kinds
<1>2. m[o] = Witness(F, m, o) /\ DOMAIN m[o] = PointersIn(TypeOf(F, o))
      /\ \A n \in DOMAIN Uses(F, o) : Uses(F, o)[n] \in DOMAIN m
  BY <1>1 DEF WitnessesFit
<1>3. Witness(F, m, o) = InstructionWitness(F, m, o)
      /\ TypeOf(F, o) = ResultType(F.body[act.at])
  BY <1>1 DEF Witness, TypeOf
<1> QED  BY <1>2, <1>3

\* A call: whatever has the type.
LEMMA CallResult ==
  ASSUME NEW p, NEW F, NEW c, NEW m, NEW act, Runs(p, F, c, m, act),
         F.body[act.at].op = "call", NEW elems,
         DOMAIN elems = DOMAIN F.body[act.at].ret.elems,
         \A k \in PointersIn(F.body[act.at].ret) : elems[k] \in Object
  PROVE  IsResult(F, m, act, elems)
<1> DEFINE o == Inst(act.at)
<1>names. /\ Inst(act.at) = o
  OBVIOUS
<1> HIDE DEF o
<1>1. ResultType(F.body[act.at]) = F.body[act.at].ret
  BY DEF ResultType
<1>2. ASSUME o \in DOMAIN m, NEW k \in DOMAIN m[o]  PROVE m[o][k] = Register(o, k)
  <2>1. m[o] = Sources(F.body[act.at].ret, o)
    <3>1. m[o] = InstructionWitness(F, m, o) /\ o.at = act.at
      BY <1>names, <1>2, OwnWitness, Kinds
    <3> HIDE DEF o
    <3> QED  BY <3>1 DEF InstructionWitness
  <2> QED  BY <1>2, <2>1 DEF Sources
<1> QED  BY <1>names, <1>1, <1>2 DEF IsResult

\* A select produces what it chooses, with the bounds that were chosen.
LEMMA SelectResult ==
  ASSUME NEW p, NEW F, NEW c, NEW m, NEW act, Runs(p, F, c, m, act),
         F.body[act.at].op = "select"
  PROVE  IsResult(F, m, act, ValueOf(act, Chosen(F.body[act.at], act.cond)))
<1> DEFINE o == Inst(act.at)
           ins == F.body[act.at]
           from == Chosen(ins, act.cond)
<1>names. /\ Inst(act.at) = o /\ F.body[act.at] = ins /\ Chosen(ins, act.cond) = from
  OBVIOUS
<1> HIDE DEF o, ins, from
<1>1. act.at \in DOMAIN F.body /\ ValuesFit(F, m, act) /\ IsActivation(F, c, act)
      /\ WellFormed(p) /\ IsFunction(p, F)
  BY RunsParts DEF Runs
<1>2. IsValueOf(F, ins.yes, act.at, ins.ty) /\ IsValueOf(F, ins.no, act.at, ins.ty)
      /\ ResultType(ins) = ins.ty
  BY <1>names, <1>1, Instructions DEF ResultType
<1>3. IsValue(F, from, act.at) /\ TypeOf(F, from) = ins.ty
  BY <1>names, <1>2 DEF IsValueOf, Chosen
<1>4. /\ DOMAIN ValueOf(act, from) = DOMAIN ins.ty.elems
      /\ \A k \in PointersIn(ins.ty) : ValueOf(act, from)[k] \in Object
  BY <1>1, <1>3, ValueThere
<1>5. ASSUME o \in DOMAIN m, NEW k \in DOMAIN m[o]  PROVE m[o][k] = Register(o, k)
  <2>1. m[o] = [l \in DOMAIN m[ins.yes] |-> Register(o, l)]
    <3>1. m[o] = InstructionWitness(F, m, o) /\ o.at = act.at
      BY <1>names, <1>5, OwnWitness, Kinds
    <3> HIDE DEF o
    <3> QED  BY <1>names, <3>1 DEF InstructionWitness
  <2> QED  BY <1>5, <2>1
<1> QED  BY <1>names, <1>2, <1>4, <1>5 DEF IsResult

\* extractvalue produces an element, with the bounds of the element.
LEMMA ExtractResult ==
  ASSUME NEW p, NEW F, NEW c, NEW m, NEW act, Runs(p, F, c, m, act),
         F.body[act.at].op = "extract"
  PROVE  IsResult(F, m, act, <<ValueOf(act, F.body[act.at].val)[F.body[act.at].k]>>)
<1> DEFINE o == Inst(act.at)
           ins == F.body[act.at]
           e == ValueOf(act, ins.val)[ins.k]
           elems == <<e>>
<1>names. /\ Inst(act.at) = o /\ F.body[act.at] = ins /\ ValueOf(act, ins.val)[ins.k] = e
          /\ <<e>> = elems
  OBVIOUS
<1> HIDE DEF o, ins, e, elems
<1>1. act.at \in DOMAIN F.body /\ ValuesFit(F, m, act) /\ IsActivation(F, c, act)
      /\ WellFormed(p) /\ IsFunction(p, F) /\ WitnessesFit(F, m)
  BY RunsParts DEF Runs
<1>2. /\ IsValue(F, ins.val, act.at) /\ ins.k \in PointersIn(TypeOf(F, ins.val))
      /\ ResultType(ins) = Pointer
  BY <1>names, <1>1, Instructions DEF ResultType
<1>3. e \in Object /\ Available(act, ins.val) /\ ins.val.kind # "undef"
  BY <1>names, <1>1, <1>2, ValueThere, ValueTyped
<1>4. ASSUME o \in DOMAIN m, NEW k \in DOMAIN m[o]
      PROVE  k = 1 /\ Available(act, m[o][k].of) /\ Element(act, m[o][k]) = e
  <2>1. m[o] = [l \in {1} |-> m[ins.val][ins.k]]
    <3>1. m[o] = InstructionWitness(F, m, o) /\ o.at = act.at
      BY <1>names, <1>4, OwnWitness, Kinds
    <3> HIDE DEF o
    <3> QED  BY <1>names, <3>1 DEF InstructionWitness
  <2>2. k = 1 /\ m[o][k] = m[ins.val][ins.k]
    BY <1>4, <2>1
  <2>3. ins.val \in DOMAIN m
    <3>1. Uses(F, o) = <<ins.val>>
      BY <1>names, Kinds DEF Uses
    <3>2. 1 \in DOMAIN Uses(F, o) /\ Uses(F, o)[1] = ins.val
      BY <3>1
    <3> QED  BY <1>names, <1>4, <3>2, OwnWitness
  <2>4. ins.k \in DOMAIN m[ins.val]
    BY <1>1, <1>2, <2>3 DEF WitnessesFit
  <2>5. Available(act, m[ins.val][ins.k].of)
        /\ Element(act, m[ins.val][ins.k]) = ElementOf(act, ins.val, ins.k)
    BY <1>1, <1>3, <2>3, <2>4, WitnessElements
  <2> QED  BY <1>names, <1>3, <2>2, <2>5 DEF ElementOf
<1> HIDE DEF e
<1>5. elems[1] = e /\ DOMAIN elems = {1}
  BY <1>names
<1> HIDE DEF elems
<1>6. IsResult(F, m, act, elems)
  BY <1>names, <1>2, <1>3, <1>4, <1>5, PointerIsType DEF IsResult
<1> QED  BY <1>names, <1>6 DEF elems, e

\* The aggregate that is inserted into.
InsertedInto(act, ins) ==
  IF ins.agg.kind = "undef" THEN [k \in DOMAIN ins.ty.elems |-> NullObject]
                            ELSE ValueOf(act, ins.agg)

\* insertvalue replaces an element and its bounds.
LEMMA InsertResult ==
  ASSUME NEW p, NEW F, NEW c, NEW m, NEW act, Runs(p, F, c, m, act),
         F.body[act.at].op = "insert"
  PROVE  LET ins == F.body[act.at] IN
         IsResult(F, m, act,
                  [InsertedInto(act, ins) EXCEPT ![ins.k] = ValueOf(act, ins.val)[1]])
<1> DEFINE o == Inst(act.at)
           i == act.at
           ins == F.body[i]
           agg == InsertedInto(act, ins)
           e == ValueOf(act, ins.val)[1]
           elems == [agg EXCEPT ![ins.k] = e]
<1>names. /\ Inst(act.at) = o /\ act.at = i /\ F.body[i] = ins
          /\ InsertedInto(act, ins) = agg /\ ValueOf(act, ins.val)[1] = e
          /\ [agg EXCEPT ![ins.k] = e] = elems
  OBVIOUS
<1> HIDE DEF o, i, ins, agg, e, elems
<1>1. i \in DOMAIN F.body /\ ValuesFit(F, m, act) /\ IsActivation(F, c, act)
      /\ WellFormed(p) /\ IsFunction(p, F) /\ WitnessesFit(F, m)
  BY <1>names, RunsParts DEF Runs
<1>2. /\ IsType(ins.ty)
      /\ ins.agg = Undef(i) \/ IsValueOf(F, ins.agg, i, ins.ty)
      /\ ins.k \in DOMAIN ins.ty.elems
      /\ IsValueOf(F, ins.val, i, Type(<<ins.ty.elems[ins.k]>>))
      /\ ResultType(ins) = ins.ty
  BY <1>names, <1>1, Instructions DEF ResultType
<1>3. ins.ty.elems[ins.k] \in ElementType
  BY <1>2, TypesList
<1>4. IsPointer(ins.val) <=> ins.ty.elems[ins.k] = "p"
  BY <1>1, <1>2, <1>3, PointerValues
<1>5. IsPointer(ins.val) => TypeOf(F, ins.val) = Pointer /\ e \in Object
  <2> SUFFICES ASSUME IsPointer(ins.val)
               PROVE  TypeOf(F, ins.val) = Pointer /\ e \in Object
    OBVIOUS
  <2>1. IsValue(F, ins.val, i) /\ TypeOf(F, ins.val) = Pointer
    BY <1>2, <1>3, <1>4, LetterTypes DEF IsValueOf
  <2>2. \A k \in PointersIn(Pointer) : ValueOf(act, ins.val)[k] \in Object
    BY <1>names, <1>1, <2>1, ValueThere
  <2> QED  BY <1>names, <2>1, <2>2, PointerIsType
<1>6. /\ agg = [k \in DOMAIN ins.ty.elems |-> agg[k]] \/ DOMAIN agg = DOMAIN ins.ty.elems
      /\ \A k \in PointersIn(ins.ty) : agg[k] \in Object
      /\ Available(act, ins.agg)
      /\ \A k \in PointersIn(ins.ty) : ElementOf(act, ins.agg, k) = agg[k]
  <2>1. CASE ins.agg = Undef(i)
    <3>1. ins.agg.kind = "undef"
      BY <2>1, Kinds
    <3> QED  BY <1>names, <3>1, ObjectAssumption DEF InsertedInto, Available, ElementOf, PointersIn
  <2>2. CASE IsValueOf(F, ins.agg, i, ins.ty)
    <3>1. IsValue(F, ins.agg, i) /\ TypeOf(F, ins.agg) = ins.ty
      BY <2>2 DEF IsValueOf
    <3>2. ins.agg.kind # "undef"
      BY <1>1, <3>1, ValueTyped
    <3>3. agg = ValueOf(act, ins.agg)
      BY <1>names, <3>2 DEF InsertedInto
    <3>4. /\ Available(act, ins.agg) /\ DOMAIN ValueOf(act, ins.agg) = DOMAIN ins.ty.elems
          /\ \A k \in PointersIn(ins.ty) : ValueOf(act, ins.agg)[k] \in Object
      BY <1>names, <1>1, <3>1, ValueThere
    <3> QED  BY <3>2, <3>3, <3>4 DEF ElementOf
  <2> QED  BY <1>2, <2>1, <2>2
<1> HIDE DEF agg, e
<1>7. /\ DOMAIN elems = DOMAIN agg /\ DOMAIN agg = DOMAIN ins.ty.elems
      /\ elems[ins.k] = e
      /\ \A k \in DOMAIN ins.ty.elems : k # ins.k => elems[k] = agg[k]
  BY <1>names, <1>2, <1>6
<1> HIDE DEF elems
<1>8. PointersIn(ins.ty) \subseteq DOMAIN ins.ty.elems
      /\ \A k \in PointersIn(ins.ty) : ins.ty.elems[k] = "p"
  BY DEF PointersIn
<1>9. \A k \in PointersIn(ins.ty) : elems[k] \in Object
  BY <1>4, <1>5, <1>6, <1>7, <1>8
<1>10. ASSUME o \in DOMAIN m, NEW k \in DOMAIN m[o]
       PROVE  Available(act, m[o][k].of) /\ Element(act, m[o][k]) = elems[k]
  <2>1. k \in PointersIn(ins.ty) /\ k \in DOMAIN ins.ty.elems
    BY <1>names, <1>2, <1>8, <1>10, OwnWitness
  <2>2. \A n \in DOMAIN Uses(F, o) : Uses(F, o)[n] \in DOMAIN m
    BY <1>names, <1>10, OwnWitness
  <2>3. ASSUME ins.agg \in DOMAIN m, k # ins.k, m[o][k] = m[ins.agg][k],
               k \in DOMAIN m[ins.agg]
        PROVE  Available(act, m[o][k].of) /\ Element(act, m[o][k]) = elems[k]
    <3>1. Available(act, m[ins.agg][k].of)
          /\ Element(act, m[ins.agg][k]) = ElementOf(act, ins.agg, k)
      BY <1>1, <1>6, <2>3, WitnessElements
    <3> QED  BY <1>6, <1>7, <2>1, <2>3, <3>1
  <2>4. CASE IsPointer(ins.val)
    <3>1. /\ ins.agg \in DOMAIN m /\ ins.val \in DOMAIN m
      <4> DEFINE u == <<ins.agg, ins.val>>
      <4>1. Uses(F, o) = u
        BY <1>names, <2>4, Kinds DEF Uses
      <4>2. 1 \in DOMAIN u /\ 2 \in DOMAIN u /\ u[1] = ins.agg /\ u[2] = ins.val
        OBVIOUS
      <4> HIDE DEF u
      <4> QED  BY <2>2, <4>1, <4>2
    <3>2. m[o] = [l \in DOMAIN m[ins.agg] \cup {ins.k} |->
                    IF l = ins.k THEN m[ins.val][1] ELSE m[ins.agg][l]]
      <4>1. m[o] = InstructionWitness(F, m, o) /\ o.at = act.at
        BY <1>names, <1>10, OwnWitness, Kinds
      <4>2. F.body[o.at] = ins
        BY <1>names, <4>1
      <4>3. ins.op = "insert"
        BY <1>names
      <4> QED  BY <2>4, <4>1, <4>2, <4>3 DEF InstructionWitness
    <3>3. CASE k = ins.k
      <4>1. m[o][k] = m[ins.val][1]
        BY <1>10, <3>2, <3>3
      <4>2. 1 \in DOMAIN m[ins.val] /\ IsValue(F, ins.val, i)
        BY <1>1, <1>2, <1>5, <2>4, <3>1, PointerIsType DEF WitnessesFit, IsValueOf
      <4>3. Available(act, ins.val) /\ ins.val.kind # "undef"
        BY <1>names, <1>1, <4>2, ValueThere, ValueTyped
      <4>4. Available(act, m[ins.val][1].of)
            /\ Element(act, m[ins.val][1]) = ElementOf(act, ins.val, 1)
        BY <1>1, <3>1, <4>2, <4>3, WitnessElements
      <4> QED  BY <1>7, <3>3, <4>1, <4>3, <4>4 DEF ElementOf, e
    <3>4. CASE k # ins.k
      <4>1. m[o][k] = m[ins.agg][k] /\ k \in DOMAIN m[ins.agg]
        BY <1>10, <3>2, <3>4
      <4> QED  BY <2>3, <3>1, <3>4, <4>1
    <3> QED  BY <3>3, <3>4
  <2>5. CASE ~IsPointer(ins.val)
    <3>1. ins.agg \in DOMAIN m
      <4>1. Uses(F, o) = <<ins.agg>>
        BY <1>names, <2>5, Kinds DEF Uses
      <4>2. 1 \in DOMAIN Uses(F, o) /\ Uses(F, o)[1] = ins.agg
        BY <4>1
      <4> QED  BY <2>2, <4>2
    <3>2. m[o] = m[ins.agg]
      <4>1. m[o] = InstructionWitness(F, m, o) /\ o.at = act.at
        BY <1>names, <1>10, OwnWitness, Kinds
      <4>2. F.body[o.at] = ins
        BY <1>names, <4>1
      <4>3. ins.op = "insert"
        BY <1>names
      <4> QED  BY <2>5, <4>1, <4>2, <4>3 DEF InstructionWitness
    <3>3. k # ins.k
      BY <1>4, <1>8, <2>1, <2>5
    <3> QED  BY <1>10, <2>3, <3>1, <3>2, <3>3
  <2> QED  BY <2>4, <2>5
<1>11. IsResult(F, m, act, elems)
  BY <1>names, <1>2, <1>7, <1>9, <1>10 DEF IsResult
<1> QED  BY <1>names, <1>11 DEF elems, agg, e

-----------------------------------------------------------------------------
(* The frames *)

Fitting(size, shd, last, owner) ==
  /\ IsOwner(size, shd, owner)
  /\ \A d \in 1 .. Len(shd) - 1 : DOMAIN shd[d] = 0 .. size[owner[d]] - 1
  /\ DOMAIN shd[Len(shd)] = 0 .. last - 1

\* Nothing was allocated or deallocated.
LEMMA FramesStay ==
  ASSUME NEW size, NEW shd, NEW last, FramesFit(size, shd, last),
         NEW size2, Len(size2) = Len(size), Len(size) \in Nat,
         \A a \in 1 .. Len(size) : size2[a] = size[a],
         NEW shd2, IsSequence(shd2), Len(shd2) = Len(shd),
         \A d \in 1 .. Len(shd) : DOMAIN shd2[d] = DOMAIN shd[d]
  PROVE  FramesFit(size2, shd2, last)
<1>1. PICK owner \in [1 .. Len(shd) -> 1 .. Len(size) + 1] : Fitting(size, shd, last, owner)
  BY DEF FramesFit, Fitting
<1>2. Len(shd) \in Nat /\ Len(shd) > 0
  BY SequenceDomain DEF FramesFit
<1>3. IsOwner(size2, shd2, owner)
  BY <1>1, <1>2 DEF Fitting, IsOwner
<1>4. \A d \in 1 .. Len(shd2) - 1 : DOMAIN shd2[d] = 0 .. size2[owner[d]] - 1
  <2> SUFFICES ASSUME NEW d \in 1 .. Len(shd) - 1
               PROVE  DOMAIN shd2[d] = 0 .. size2[owner[d]] - 1
    OBVIOUS
  <2>1. d \in 1 .. Len(shd) /\ Len(shd) \in 1 .. Len(shd) /\ d < Len(shd)
    BY <1>2
  <2>2. owner[d] < owner[Len(shd)] /\ owner[Len(shd)] = Len(size) + 1
        /\ owner[d] \in 1 .. Len(size) + 1
    BY <1>1, <2>1 DEF Fitting, IsOwner
  <2>3. owner[d] \in 1 .. Len(size)
    BY <2>2
  <2> QED  BY <1>1, <2>1, <2>3 DEF Fitting
<1>5. DOMAIN shd2[Len(shd2)] = 0 .. last - 1
  BY <1>1, <1>2 DEF Fitting
<1> QED  BY <1>1, <1>2, <1>3, <1>4, <1>5 DEF FramesFit

\* A frame other than that of the run-time belongs to a call.
CallsOwn(size, shd, owner) ==
  /\ Len(shd) \in Nat /\ Len(shd) > 0
  /\ owner \in [1 .. Len(shd) -> 1 .. Len(size) + 1]
  /\ owner[Len(shd)] = Len(size) + 1
  /\ \A d \in 1 .. Len(shd) - 1 : owner[d] \in 1 .. Len(size) /\ size[owner[d]] # 0
  /\ \A d \in 1 .. Len(shd) : owner[d] \in 1 .. Len(size) => size[owner[d]] # 0
  /\ \A d, e \in 1 .. Len(shd) : d < e => owner[d] < owner[e]
  /\ \A a \in 1 .. Len(size) : size[a] # 0 => \E d \in 1 .. Len(shd) - 1 : owner[d] = a

\* Every frame but the last one belongs to a call.
LEMMA OwnersAreCalls ==
  ASSUME NEW size, NEW shd, NEW last, FramesFit(size, shd, last), Len(size) \in Nat,
         NEW owner, Fitting(size, shd, last, owner)
  PROVE  CallsOwn(size, shd, owner)
<1>1. Len(shd) \in Nat /\ Len(shd) > 0
  BY SequenceDomain DEF FramesFit
<1>2. /\ owner \in [1 .. Len(shd) -> 1 .. Len(size) + 1]
      /\ \A d, e \in 1 .. Len(shd) : d < e => owner[d] < owner[e]
      /\ owner[Len(shd)] = Len(size) + 1
      /\ \A a \in 1 .. Len(size) : size[a] # 0 <=> \E d \in 1 .. Len(shd) : owner[d] = a
  BY DEF Fitting, IsOwner
<1>3. \A d \in 1 .. Len(shd) : owner[d] \in 1 .. Len(size) => size[owner[d]] # 0
  BY <1>2
<1>4. ASSUME NEW d \in 1 .. Len(shd) - 1
      PROVE  owner[d] \in 1 .. Len(size) /\ size[owner[d]] # 0
  <2>1. d \in 1 .. Len(shd) /\ Len(shd) \in 1 .. Len(shd) /\ d < Len(shd)
    BY <1>1
  <2>2. owner[d] < Len(size) + 1 /\ owner[d] \in 1 .. Len(size) + 1
    BY <1>2, <2>1
  <2>3. owner[d] \in 1 .. Len(size)
    BY <2>2
  <2> QED  BY <1>3, <2>1, <2>3
<1>5. ASSUME NEW a \in 1 .. Len(size), size[a] # 0
      PROVE  \E d \in 1 .. Len(shd) - 1 : owner[d] = a
  <2>1. PICK d \in 1 .. Len(shd) : owner[d] = a
    BY <1>2, <1>5
  <2>2. d # Len(shd)
    <3>1. a # Len(size) + 1
      OBVIOUS
    <3> QED  BY <1>2, <2>1, <3>1
  <2>3. d \in 1 .. Len(shd) - 1
    BY <1>1, <2>2
  <2> QED  BY <2>1, <2>3
<1> QED  BY <1>1, <1>2, <1>3, <1>4, <1>5 DEF CallsOwn

\* The innermost call gets a frame.
LEMMA FramesPush ==
  ASSUME NEW size, NEW shd, NEW last, FramesFit(size, shd, last),
         Len(size) \in Nat \ {0}, size[1] = 0,
         NEW size2, Len(size2) = Len(size), size2[1] # 0,
         \A a \in 2 .. Len(size) : size2[a] = size[a],
         NEW fr, DOMAIN fr = 0 .. size2[1] - 1
  PROVE  FramesFit(size2, <<fr>> \o shd, last)
<1>1. PICK owner \in [1 .. Len(shd) -> 1 .. Len(size) + 1] : Fitting(size, shd, last, owner)
  BY DEF FramesFit, Fitting
<1>2. /\ Len(shd) \in Nat /\ Len(shd) > 0
      /\ owner[Len(shd)] = Len(size) + 1
      /\ \A d \in 1 .. Len(shd) : owner[d] \in 1 .. Len(size) => size[owner[d]] # 0
      /\ \A d \in 1 .. Len(shd) - 1 : owner[d] \in 1 .. Len(size)
      /\ \A d, e \in 1 .. Len(shd) : d < e => owner[d] < owner[e]
      /\ \A a \in 1 .. Len(size) : size[a] # 0 => \E d \in 1 .. Len(shd) - 1 : owner[d] = a
  <2>1. CallsOwn(size, shd, owner)
    BY <1>1, OwnersAreCalls
  <2> QED  BY <2>1 DEF CallsOwn
<1> DEFINE n == Len(shd)
           shd2 == <<fr>> \o shd
           owner2 == [d \in 1 .. n + 1 |-> IF d = 1 THEN 1 ELSE owner[d - 1]]
<1>3. IsSequence(shd)
  BY DEF FramesFit
<1>4. /\ IsSequence(shd2) /\ Len(shd2) = n + 1 /\ shd2[1] = fr
      /\ \A k \in 1 .. n : shd2[k + 1] = shd[k]
      /\ \A k \in 2 .. n + 1 : k - 1 \in 1 .. n /\ shd2[k] = shd[k - 1]
  BY <1>3, Pushed
<1> HIDE DEF shd2
<1>5. /\ owner2 \in [1 .. n + 1 -> 1 .. Len(size) + 1] /\ owner2[1] = 1
      /\ \A d \in 2 .. n + 1 : owner2[d] = owner[d - 1]
      /\ \A d \in 1 .. n : owner2[d + 1] = owner[d]
  BY <1>1, <1>2
<1> HIDE DEF owner2
<1>6. \A d \in 1 .. n : owner[d] > 1
  <2> TAKE d \in 1 .. n
  <2>1. owner[d] # 1
    BY <1>2
  <2> QED  BY <1>1, <2>1
<1>7. ASSUME NEW d \in 1 .. n + 1, NEW e \in 1 .. n + 1, d < e
      PROVE  owner2[d] < owner2[e]
  <2>1. e \in 2 .. n + 1 /\ e - 1 \in 1 .. n
    BY <1>2, <1>7
  <2>2. CASE d = 1
    BY <1>5, <1>6, <2>1, <2>2
  <2>3. CASE d # 1
    <3>1. d \in 2 .. n + 1 /\ d - 1 \in 1 .. n /\ d - 1 < e - 1
      BY <1>2, <1>7, <2>3
    <3> QED  BY <1>2, <1>5, <2>1, <3>1
  <2> QED  BY <2>2, <2>3
<1>8. ASSUME NEW a \in 1 .. Len(size2)
      PROVE  size2[a] # 0 <=> \E d \in 1 .. n + 1 : owner2[d] = a
  <2>1. CASE a = 1
    <3>1. 1 \in 1 .. n + 1
      BY <1>2
    <3> QED  BY <1>5, <2>1, <3>1
  <2>2. CASE a # 1
    <3>1. a \in 2 .. Len(size) /\ a \in 1 .. Len(size) /\ size2[a] = size[a]
      BY <2>2
    <3>2. ASSUME size[a] # 0  PROVE \E d \in 1 .. n + 1 : owner2[d] = a
      <4>1. PICK d \in 1 .. n - 1 : owner[d] = a
        BY <1>2, <3>1, <3>2
      <4>2. d + 1 \in 1 .. n + 1 /\ d \in 1 .. n
        BY <1>2
      <4> QED  BY <1>5, <4>1, <4>2
    <3>3. ASSUME NEW d \in 1 .. n + 1, owner2[d] = a  PROVE size[a] # 0
      <4>1. d # 1
        BY <1>5, <2>2, <3>3
      <4>2. d \in 2 .. n + 1 /\ d - 1 \in 1 .. n
        BY <1>2, <4>1
      <4> QED  BY <1>2, <1>5, <3>1, <3>3, <4>2
    <3> QED  BY <3>1, <3>2, <3>3
  <2> QED  BY <2>1, <2>2
<1>9. owner2[n + 1] = Len(size) + 1
  <2>1. n \in 1 .. n
    BY <1>2
  <2> QED  BY <1>2, <1>5, <2>1
<1>10. IsOwner(size2, shd2, owner2)
  BY <1>4, <1>5, <1>7, <1>8, <1>9 DEF IsOwner
<1>11. ASSUME NEW d \in 1 .. Len(shd2) - 1
       PROVE  DOMAIN shd2[d] = 0 .. size2[owner2[d]] - 1
  <2>1. CASE d = 1
    BY <1>4, <1>5, <2>1
  <2>2. CASE d # 1
    <3>1. d \in 2 .. n + 1 /\ d - 1 \in 1 .. n - 1 /\ d - 1 \in 1 .. n
      BY <1>2, <1>4, <2>2
    <3>2. owner[d - 1] \in 2 .. Len(size)
      BY <1>2, <1>6, <3>1
    <3>3. DOMAIN shd[d - 1] = 0 .. size[owner[d - 1]] - 1
      BY <1>1, <3>1 DEF Fitting
    <3> QED  BY <1>4, <1>5, <3>1, <3>2, <3>3
  <2> QED  BY <2>1, <2>2
<1>12. DOMAIN shd2[Len(shd2)] = 0 .. last - 1
  <2>1. n \in 1 .. n
    BY <1>2
  <2> QED  BY <1>1, <1>4, <2>1 DEF Fitting
<1>13. FramesFit(size2, shd2, last)
  <2>1. Len(shd2) > 0
    BY <1>2, <1>4
  <2> QED  BY <1>4, <1>5, <1>10, <1>11, <1>12, <2>1 DEF FramesFit
<1> QED  BY <1>13 DEF shd2

\* The frame of the innermost call that has one is the innermost frame.
LEMMA TopFrame ==
  ASSUME NEW size, NEW shd, NEW last, FramesFit(size, shd, last), Len(size) \in Nat,
         NEW a \in 1 .. Len(size), size[a] # 0, \A b \in 1 .. a - 1 : size[b] = 0
  PROVE  /\ Len(shd) > 1 /\ DOMAIN shd[1] = 0 .. size[a] - 1
         /\ \A owner : Fitting(size, shd, last, owner) => owner[1] = a
<1>1. ASSUME NEW owner, Fitting(size, shd, last, owner)
      PROVE  Len(shd) > 1 /\ DOMAIN shd[1] = 0 .. size[a] - 1 /\ owner[1] = a
  <2>1. /\ Len(shd) \in Nat /\ Len(shd) > 0
        /\ \A d \in 1 .. Len(shd) - 1 : owner[d] \in 1 .. Len(size) /\ size[owner[d]] # 0
        /\ \A d, e \in 1 .. Len(shd) : d < e => owner[d] < owner[e]
        /\ \E d \in 1 .. Len(shd) - 1 : owner[d] = a
    <3>1. CallsOwn(size, shd, owner)
      BY <1>1, OwnersAreCalls
    <3> QED  BY <3>1 DEF CallsOwn
  <2>2. PICK d \in 1 .. Len(shd) - 1 : owner[d] = a
    BY <2>1
  <2>3. 1 \in 1 .. Len(shd) - 1 /\ Len(shd) > 1
    BY <2>1, <2>2
  <2>4. owner[1] \in 1 .. Len(size) /\ size[owner[1]] # 0
    BY <2>1, <2>3
  <2>5. owner[1] = a
    <3>1. d # 1 => owner[1] < a
      <4>1. d # 1 => 1 < d /\ 1 \in 1 .. Len(shd) /\ d \in 1 .. Len(shd)
        BY <2>1
      <4> QED  BY <2>1, <2>2, <4>1
    <3>2. ~(owner[1] < a)
      <4>1. owner[1] < a => owner[1] \in 1 .. a - 1
        BY <2>4
      <4> QED  BY <2>4, <4>1
    <3> QED  BY <2>2, <3>1, <3>2
  <2>6. DOMAIN shd[1] = 0 .. size[owner[1]] - 1
    BY <1>1, <2>3 DEF Fitting
  <2> QED  BY <2>3, <2>5, <2>6
<1>2. PICK owner \in [1 .. Len(shd) -> 1 .. Len(size) + 1] : Fitting(size, shd, last, owner)
  BY DEF FramesFit, Fitting
<1>3. Len(shd) > 1 /\ DOMAIN shd[1] = 0 .. size[a] - 1
  BY <1>1, <1>2
<1> QED  BY <1>1, <1>3

\* The innermost call gives up its frame.
LEMMA FramesPop ==
  ASSUME NEW size, NEW shd, NEW last, FramesFit(size, shd, last),
         Len(size) \in Nat \ {0}, size[1] # 0,
         NEW size2, Len(size2) = Len(size), size2[1] = 0,
         \A a \in 2 .. Len(size) : size2[a] = size[a]
  PROVE  shd # <<>> /\ FramesFit(size2, Tail(shd), last)
<1>1. PICK owner \in [1 .. Len(shd) -> 1 .. Len(size) + 1] : Fitting(size, shd, last, owner)
  BY DEF FramesFit, Fitting
<1>2. /\ Len(shd) \in Nat
      /\ owner[Len(shd)] = Len(size) + 1
      /\ \A d \in 1 .. Len(shd) : owner[d] \in 1 .. Len(size) => size[owner[d]] # 0
      /\ \A d \in 1 .. Len(shd) - 1 : owner[d] \in 1 .. Len(size)
      /\ \A d, e \in 1 .. Len(shd) : d < e => owner[d] < owner[e]
      /\ \A a \in 1 .. Len(size) : size[a] # 0 => \E d \in 1 .. Len(shd) - 1 : owner[d] = a
  <2>1. CallsOwn(size, shd, owner)
    BY <1>1, OwnersAreCalls
  <2> QED  BY <2>1 DEF CallsOwn
<1>3. Len(shd) > 1 /\ owner[1] = 1
  <2>1. 1 \in 1 .. Len(size) /\ \A b \in 1 .. 1 - 1 : size[b] = 0
    OBVIOUS
  <2> QED  BY <1>1, <2>1, TopFrame
<1>4. IsSequence(shd) /\ shd # <<>>
  BY <1>3, ShortSequences DEF FramesFit
<1> DEFINE n == Len(shd)
           shd2 == Tail(shd)
           owner2 == [d \in 1 .. n - 1 |-> owner[d + 1]]
<1>5. /\ IsSequence(shd2) /\ Len(shd2) = n - 1
      /\ \A k \in 1 .. n - 1 : shd2[k] = shd[k + 1]
  BY <1>4, Popped
<1> HIDE DEF shd2
<1>6. /\ owner2 \in [1 .. n - 1 -> 1 .. Len(size) + 1]
      /\ \A d \in 1 .. n - 1 : owner2[d] = owner[d + 1] /\ d + 1 \in 1 .. n
  BY <1>1, <1>2
<1> HIDE DEF owner2
<1>7. \A d \in 1 .. n : d # 1 => owner[d] > 1
  <2> TAKE d \in 1 .. n
  <2>1. 1 \in 1 .. n /\ (d # 1 => 1 < d)
    BY <1>2
  <2> QED  BY <1>2, <1>3, <2>1
<1>8. ASSUME NEW d \in 1 .. n - 1, NEW e \in 1 .. n - 1, d < e
      PROVE  owner2[d] < owner2[e]
  <2>1. d + 1 \in 1 .. n /\ e + 1 \in 1 .. n /\ d + 1 < e + 1
    BY <1>2, <1>8
  <2> QED  BY <1>2, <1>6, <2>1
<1>9. ASSUME NEW a \in 1 .. Len(size2)
      PROVE  size2[a] # 0 <=> \E d \in 1 .. n - 1 : owner2[d] = a
  <2>1. ASSUME NEW d \in 1 .. n - 1, owner2[d] = a  PROVE size2[a] # 0
    <3>1. d + 1 \in 1 .. n /\ d + 1 # 1
      BY <1>2
    <3>2. owner[d + 1] = a /\ a > 1 /\ a \in 1 .. Len(size)
      BY <1>6, <1>7, <2>1, <3>1
    <3>3. a \in 2 .. Len(size)
      BY <3>2
    <3>4. size[a] # 0
      BY <1>2, <3>1, <3>2
    <3> QED  BY <3>3, <3>4
  <2>2. ASSUME size2[a] # 0  PROVE \E d \in 1 .. n - 1 : owner2[d] = a
    <3>1. a \in 2 .. Len(size) /\ size[a] # 0 /\ a \in 1 .. Len(size)
      <4>1. a # 1
        BY <2>2
      <4>2. a \in 2 .. Len(size)
        BY <4>1
      <4> QED  BY <2>2, <4>2
    <3>2. PICK d \in 1 .. n - 1 : owner[d] = a
      BY <1>2, <3>1
    <3>3. d # 1
      BY <1>3, <3>1, <3>2
    <3>4. d - 1 \in 1 .. n - 1 /\ (d - 1) + 1 = d
      BY <1>2, <3>3
    <3> QED  BY <1>6, <3>2, <3>4
  <2> QED  BY <2>1, <2>2
<1>10. owner2[n - 1] = Len(size) + 1
  <2>1. n - 1 \in 1 .. n - 1 /\ (n - 1) + 1 = n
    BY <1>2, <1>3
  <2> QED  BY <1>2, <1>6, <2>1
<1>11. IsOwner(size2, shd2, owner2)
  BY <1>5, <1>6, <1>8, <1>9, <1>10 DEF IsOwner
<1>12. ASSUME NEW d \in 1 .. Len(shd2) - 1
       PROVE  DOMAIN shd2[d] = 0 .. size2[owner2[d]] - 1
  <2>1. d \in 1 .. n - 1 /\ d + 1 \in 1 .. n - 1 /\ d + 1 \in 1 .. n /\ d + 1 # 1
    BY <1>2, <1>5
  <2>2. owner[d + 1] \in 2 .. Len(size)
    BY <1>2, <1>7, <2>1
  <2>3. DOMAIN shd[d + 1] = 0 .. size[owner[d + 1]] - 1
    BY <1>1, <2>1 DEF Fitting
  <2> QED  BY <1>5, <1>6, <2>1, <2>2, <2>3
<1>13. DOMAIN shd2[Len(shd2)] = 0 .. last - 1
  <2>1. n - 1 \in 1 .. n - 1 /\ (n - 1) + 1 = n
    BY <1>2, <1>3
  <2>2. DOMAIN shd[n] = 0 .. last - 1
    BY <1>1 DEF Fitting
  <2> QED  BY <1>5, <2>1, <2>2
<1>14. FramesFit(size2, shd2, last)
  <2>1. Len(shd2) > 0
    BY <1>2, <1>3, <1>5
  <2> QED  BY <1>5, <1>6, <1>11, <1>12, <1>13, <2>1 DEF FramesFit
<1> QED  BY <1>4, <1>14 DEF shd2

\* A call without a frame is added inside.
LEMMA FramesEnter ==
  ASSUME NEW size, NEW shd, NEW last, FramesFit(size, shd, last), Len(size) \in Nat,
         NEW size2, Len(size2) = Len(size) + 1, size2[1] = 0,
         \A a \in 1 .. Len(size) : size2[a + 1] = size[a]
  PROVE  FramesFit(size2, shd, last)
<1>1. PICK owner \in [1 .. Len(shd) -> 1 .. Len(size) + 1] : Fitting(size, shd, last, owner)
  BY DEF FramesFit, Fitting
<1>2. /\ Len(shd) \in Nat /\ Len(shd) > 0
      /\ owner[Len(shd)] = Len(size) + 1
      /\ \A d \in 1 .. Len(shd) : owner[d] \in 1 .. Len(size) => size[owner[d]] # 0
      /\ \A d \in 1 .. Len(shd) - 1 : owner[d] \in 1 .. Len(size)
      /\ \A d, e \in 1 .. Len(shd) : d < e => owner[d] < owner[e]
      /\ \A a \in 1 .. Len(size) : size[a] # 0 => \E d \in 1 .. Len(shd) - 1 : owner[d] = a
  <2>1. CallsOwn(size, shd, owner)
    BY <1>1, OwnersAreCalls
  <2> QED  BY <2>1 DEF CallsOwn
<1> DEFINE n == Len(shd)
           owner2 == [d \in 1 .. n |-> owner[d] + 1]
<1>3. /\ owner2 \in [1 .. n -> 1 .. Len(size2) + 1]
      /\ \A d \in 1 .. n : owner2[d] = owner[d] + 1 /\ owner[d] \in 1 .. Len(size) + 1
  BY <1>1, <1>2
<1> HIDE DEF owner2
<1>4. ASSUME NEW d \in 1 .. n, NEW e \in 1 .. n, d < e
      PROVE  owner2[d] < owner2[e]
  BY <1>2, <1>3, <1>4
<1>5. ASSUME NEW a \in 1 .. Len(size2)
      PROVE  size2[a] # 0 <=> \E d \in 1 .. n : owner2[d] = a
  <2>1. CASE a = 1
    BY <1>3, <2>1
  <2>2. CASE a # 1
    <3>1. a - 1 \in 1 .. Len(size) /\ size2[a] = size[a - 1]
      <4>1. a - 1 \in 1 .. Len(size) /\ (a - 1) + 1 = a
        BY <2>2
      <4> QED  BY <4>1
    <3>2. ASSUME size2[a] # 0  PROVE \E d \in 1 .. n : owner2[d] = a
      <4>1. PICK d \in 1 .. n - 1 : owner[d] = a - 1
        BY <1>2, <3>1, <3>2
      <4>2. d \in 1 .. n
        BY <1>2
      <4>3. owner2[d] = owner[d] + 1
        BY <1>3, <4>2
      <4>4. (a - 1) + 1 = a
        OBVIOUS
      <4> QED  BY <4>1, <4>2, <4>3, <4>4
    <3>3. ASSUME NEW d \in 1 .. n, owner2[d] = a  PROVE size2[a] # 0
      <4>1. owner2[d] = owner[d] + 1 /\ owner[d] \in Int
        BY <1>3
      <4>2. owner[d] = a - 1
        BY <3>3, <4>1
      <4> QED  BY <1>2, <3>1, <4>2
    <3> QED  BY <3>2, <3>3
  <2> QED  BY <2>1, <2>2
<1>6. owner2[n] = Len(size2) + 1
  BY <1>2, <1>3
<1>7. IsOwner(size2, shd, owner2)
  BY <1>3, <1>4, <1>5, <1>6 DEF IsOwner
<1>8. ASSUME NEW d \in 1 .. n - 1
      PROVE  DOMAIN shd[d] = 0 .. size2[owner2[d]] - 1
  <2>1. d \in 1 .. n /\ owner[d] \in 1 .. Len(size)
    BY <1>2
  <2>2. DOMAIN shd[d] = 0 .. size[owner[d]] - 1
    BY <1>1 DEF Fitting
  <2> QED  BY <1>3, <2>1, <2>2
<1>9. DOMAIN shd[n] = 0 .. last - 1
  BY <1>1 DEF Fitting
<1>10. IsSequence(shd)
  BY DEF FramesFit
<1> QED  BY <1>2, <1>3, <1>7, <1>8, <1>9, <1>10 DEF FramesFit

\* The innermost call returns.
LEMMA FramesLeave ==
  ASSUME NEW size, NEW shd, NEW last, FramesFit(size, shd, last),
         Len(size) \in Nat \ {0}, size[1] = 0,
         NEW size2, Len(size2) = Len(size) - 1,
         \A a \in 1 .. Len(size) - 1 : size2[a] = size[a + 1]
  PROVE  FramesFit(size2, shd, last)
<1>1. PICK owner \in [1 .. Len(shd) -> 1 .. Len(size) + 1] : Fitting(size, shd, last, owner)
  BY DEF FramesFit, Fitting
<1>2. /\ Len(shd) \in Nat /\ Len(shd) > 0
      /\ owner[Len(shd)] = Len(size) + 1
      /\ \A d \in 1 .. Len(shd) : owner[d] \in 1 .. Len(size) => size[owner[d]] # 0
      /\ \A d \in 1 .. Len(shd) - 1 : owner[d] \in 1 .. Len(size)
      /\ \A d, e \in 1 .. Len(shd) : d < e => owner[d] < owner[e]
      /\ \A a \in 1 .. Len(size) : size[a] # 0 => \E d \in 1 .. Len(shd) - 1 : owner[d] = a
  <2>1. CallsOwn(size, shd, owner)
    BY <1>1, OwnersAreCalls
  <2> QED  BY <2>1 DEF CallsOwn
<1> DEFINE n == Len(shd)
           owner2 == [d \in 1 .. n |-> owner[d] - 1]
<1>3. \A d \in 1 .. n : owner[d] \in 2 .. Len(size) + 1
  <2> TAKE d \in 1 .. n
  <2>1. owner[d] # 1
    BY <1>2
  <2> QED  BY <1>1, <2>1
<1>4. /\ owner2 \in [1 .. n -> 1 .. Len(size2) + 1]
      /\ \A d \in 1 .. n : owner2[d] = owner[d] - 1
  BY <1>2, <1>3
<1> HIDE DEF owner2
<1>5. ASSUME NEW d \in 1 .. n, NEW e \in 1 .. n, d < e
      PROVE  owner2[d] < owner2[e]
  BY <1>2, <1>3, <1>4, <1>5
<1>6. ASSUME NEW a \in 1 .. Len(size2)
      PROVE  size2[a] # 0 <=> \E d \in 1 .. n : owner2[d] = a
  <2>1. a + 1 \in 1 .. Len(size) /\ size2[a] = size[a + 1]
    OBVIOUS
  <2>2. ASSUME size2[a] # 0  PROVE \E d \in 1 .. n : owner2[d] = a
    <3>1. PICK d \in 1 .. n - 1 : owner[d] = a + 1
      BY <1>2, <2>1, <2>2
    <3>2. d \in 1 .. n
      BY <1>2
    <3> QED  BY <1>4, <3>1, <3>2
  <2>3. ASSUME NEW d \in 1 .. n, owner2[d] = a  PROVE size2[a] # 0
    <3>1. owner[d] = a + 1
      BY <1>3, <1>4, <2>3
    <3> QED  BY <1>2, <2>1, <3>1
  <2> QED  BY <2>2, <2>3
<1>7. owner2[n] = Len(size2) + 1
  BY <1>2, <1>4
<1>8. IsOwner(size2, shd, owner2)
  BY <1>4, <1>5, <1>6, <1>7 DEF IsOwner
<1>9. ASSUME NEW d \in 1 .. n - 1
      PROVE  DOMAIN shd[d] = 0 .. size2[owner2[d]] - 1
  <2>1. d \in 1 .. n /\ owner[d] \in 1 .. Len(size)
    BY <1>2
  <2>2. DOMAIN shd[d] = 0 .. size[owner[d]] - 1
    BY <1>1 DEF Fitting
  <2>3. owner2[d] \in 1 .. Len(size) - 1 /\ owner2[d] + 1 = owner[d]
    <3>1. owner2[d] = owner[d] - 1 /\ owner[d] \in 2 .. Len(size)
      BY <1>3, <1>4, <2>1
    <3> QED  BY <3>1
  <2>4. size2[owner2[d]] = size[owner2[d] + 1]
    BY <2>3
  <2> QED  BY <2>2, <2>3, <2>4
<1>10. DOMAIN shd[n] = 0 .. last - 1
  BY <1>1 DEF Fitting
<1>11. IsSequence(shd)
  BY DEF FramesFit
<1> QED  BY <1>2, <1>4, <1>8, <1>9, <1>10, <1>11 DEF FramesFit

\* As many frames as calls that have one, and that of the run-time.
LEMMA FramesCounted ==
  ASSUME NEW size, NEW shd, NEW last, FramesFit(size, shd, last), Len(size) \in Nat
  PROVE  /\ Len(shd) \in Nat
         /\ Cardinality({a \in 1 .. Len(size) : size[a] # 0}) = Len(shd) - 1
<1>1. PICK owner \in [1 .. Len(shd) -> 1 .. Len(size) + 1] : Fitting(size, shd, last, owner)
  BY DEF FramesFit, Fitting
<1> DEFINE n == Len(shd) - 1
           S == {a \in 1 .. Len(size) : size[a] # 0}
           f == [d \in 1 .. n |-> owner[d]]
<1>2. /\ Len(shd) \in Nat /\ n \in Nat
      /\ \A d \in 1 .. n : owner[d] \in S
      /\ \A d, e \in 1 .. Len(shd) : d < e => owner[d] < owner[e]
      /\ \A a \in S : \E d \in 1 .. n : owner[d] = a
      /\ \A d \in 1 .. n : owner[d] \in Int /\ d \in 1 .. Len(shd)
  <2>1. CallsOwn(size, shd, owner)
    BY <1>1, OwnersAreCalls
  <2> QED  BY <2>1 DEF CallsOwn
<1> HIDE DEF n, S
<1>3. f \in [1 .. n -> S] /\ \A a \in S : \E d \in 1 .. n : f[d] = a
  BY <1>2
<1>4. \A d, e \in 1 .. n : f[d] = f[e] => d = e
  <2> SUFFICES ASSUME NEW d \in 1 .. n, NEW e \in 1 .. n, owner[d] = owner[e]
               PROVE  d = e
    OBVIOUS
  <2>1. ~(d < e) /\ ~(e < d)
    BY <1>2
  <2> QED  BY <1>2, <2>1
<1> HIDE DEF f
<1>5. ExistsBijection(1 .. n, S)
  <2>1. f \in Injection(1 .. n, S)
    BY <1>3, <1>4 DEF Injection, IsInjective
  <2>2. f \in Surjection(1 .. n, S)
    BY <1>3 DEF Surjection
  <2> QED  BY <2>1, <2>2 DEF ExistsBijection, Bijection
<1>6. Cardinality(S) = n
  BY <1>2, <1>5, FS_CountingElements
<1> QED  BY <1>2, <1>6 DEF S, n

\* No frame of a call is empty.
LEMMA FramesNotEmpty ==
  ASSUME NEW size, NEW shd, NEW last, FramesFit(size, shd, last), Len(size) \in Nat,
         \A a \in 1 .. Len(size) : size[a] \in Nat
  PROVE  \A d \in 1 .. Len(shd) - 1 : DOMAIN shd[d] # {}
<1> SUFFICES ASSUME NEW d \in 1 .. Len(shd) - 1  PROVE DOMAIN shd[d] # {}
  OBVIOUS
<1>1. PICK owner \in [1 .. Len(shd) -> 1 .. Len(size) + 1] : Fitting(size, shd, last, owner)
  BY DEF FramesFit, Fitting
<1>2. owner[d] \in 1 .. Len(size) /\ size[owner[d]] # 0
  <2>1. CallsOwn(size, shd, owner)
    BY <1>1, OwnersAreCalls
  <2> QED  BY <2>1 DEF CallsOwn
<1>3. DOMAIN shd[d] = 0 .. size[owner[d]] - 1
  BY <1>1 DEF Fitting
<1> DEFINE s == size[owner[d]]
<1>4. s \in Nat /\ s # 0
  BY <1>2
<1> HIDE DEF s
<1>5. 0 \in 0 .. s - 1
  BY <1>4
<1> QED  BY <1>3, <1>5 DEF s

-----------------------------------------------------------------------------
(* The frame that an activation has open *)

FrameOf(F, i) == IF F.body[i].op = "call" THEN FrameSize(F.body[i]) ELSE 0

\* A call has a frame if and only if its size is not 0.
LEMMA FrameSizes ==
  ASSUME NEW p, WellFormed(p), NEW F, IsFunction(p, F), NEW i \in DOMAIN F.body
  PROVE  FrameOf(F, i) \in Nat /\ (HasFrame(F, i) <=> FrameOf(F, i) # 0)
<1>1. F.body[i].op = "call" => FrameSize(F.body[i]) \in Nat
  BY CallSlots
<1> QED  BY <1>1 DEF FrameOf, HasFrame

\* By what was executed in front of the instruction.
LEMMA OpenSizeIs ==
  ASSUME NEW p, NEW F, NEW c, NEW m, NEW act, Runs(p, F, c, m, act)
  PROVE  /\ Some(c[act.at], act.done, "alloc") => OpenSize(F, c, act) = FrameOf(F, act.at)
         /\ None(c[act.at], act.done, {"alloc"}) /\ act.at > 1
            /\ None(c[act.at], act.done, {"dealloc"})
              => OpenSize(F, c, act) = FrameOf(F, act.at - 1)
         /\ None(c[act.at], act.done, {"alloc"}) /\ Some(c[act.at], act.done, "dealloc")
              => OpenSize(F, c, act) = 0
         /\ None(c[act.at], act.done, {"alloc"}) /\ act.at = 1 => OpenSize(F, c, act) = 0
<1>1. ASSUME Some(c[act.at], act.done, "alloc")
      PROVE  OpenSize(F, c, act) = FrameOf(F, act.at)
  <2>1. PICK q \in 1 .. act.done : c[act.at][q].op = "alloc"
    BY <1>1 DEF Some
  <2>2. q \in DOMAIN c[act.at] /\ act.at \in DOMAIN F.body
    BY RunsParts
  <2>3. HasFrame(F, act.at)
    <3>1. IsItem(F, c, m, Len(F.body) + 1, act.at, q)
      BY <2>2, InstrumentedParts DEF Runs
    <3> QED  BY <2>1, <3>1 DEF IsItem
  <2> QED  BY <2>1, <2>3 DEF OpenSize, HasFrame, FrameOf
<1>2. ASSUME None(c[act.at], act.done, {"alloc"}), act.at > 1,
             None(c[act.at], act.done, {"dealloc"})
      PROVE  OpenSize(F, c, act) = FrameOf(F, act.at - 1)
  BY <1>2 DEF OpenSize, None, FrameOf
<1>3. ASSUME None(c[act.at], act.done, {"alloc"}), Some(c[act.at], act.done, "dealloc")
      PROVE  OpenSize(F, c, act) = 0
  BY <1>3 DEF OpenSize, None, Some
<1>4. ASSUME None(c[act.at], act.done, {"alloc"}), act.at = 1
      PROVE  OpenSize(F, c, act) = 0
  BY <1>4 DEF OpenSize, None
<1> QED  BY <1>1, <1>2, <1>3, <1>4

\* There is an item of a kind or none.
LEMMA NoneOrSome ==
  ASSUME NEW s, NEW n, NEW op
  PROVE  None(s, n, {op}) \/ Some(s, n, op)
BY DEF None, Some

\* The same with one more item.
LEMMA OneMore ==
  ASSUME NEW s, NEW n \in Nat, NEW op
  PROVE  /\ s[n + 1].op # op =>
              /\ None(s, n + 1, {op}) <=> None(s, n, {op})
              /\ Some(s, n + 1, op) <=> Some(s, n, op)
         /\ s[n + 1].op = op => Some(s, n + 1, op)
<1>1. 1 .. n + 1 = (1 .. n) \cup {n + 1}
  OBVIOUS
<1> QED  BY <1>1 DEF None, Some

\* A function is entered without a frame.
LEMMA SizeOnEntry ==
  ASSUME NEW F, NEW c, NEW act, act.at = 1, act.done = 0
  PROVE  OpenSize(F, c, act) = 0
BY DEF OpenSize

\* Behind an instruction, before any item.
LEMMA SizeBehind ==
  ASSUME NEW F, NEW c, NEW act, act.at > 1, act.done = 0
  PROVE  OpenSize(F, c, act) = FrameOf(F, act.at - 1)
BY DEF OpenSize, FrameOf

\* Behind all items.
LEMMA SizeAtEnd ==
  ASSUME NEW p, NEW F, NEW c, NEW m, NEW act, Runs(p, F, c, m, act),
         act.done = Len(c[act.at])
  PROVE  OpenSize(F, c, act) = FrameOf(F, act.at)
<1> DEFINE i == act.at
           s == c[i]
<1>1. i \in DOMAIN F.body /\ i \in Int /\ i >= 1 /\ DOMAIN F.body = 1 .. Len(F.body)
      /\ Len(F.body) \in Nat /\ WellFormed(p) /\ IsFunction(p, F) /\ Instrumented(F, c, m)
  BY RunsParts DEF Runs
<1>2. CASE HasFrame(F, i)
  <2>1. Some(s, act.done, "alloc")
    BY <1>1, <1>2, ItemsAtEnd
  <2> QED  BY <2>1, OpenSizeIs
<1>3. CASE ~HasFrame(F, i)
  <2>1. None(s, act.done, {"alloc"})
    BY <1>1, <1>3, ItemsAtEnd
  <2>2. FrameOf(F, i) = 0
    BY <1>1, <1>3, FrameSizes
  <2>3. CASE i = 1
    BY <2>1, <2>2, <2>3, OpenSizeIs
  <2>4. CASE i # 1 /\ Some(s, act.done, "dealloc")
    BY <2>1, <2>2, <2>4, OpenSizeIs
  <2>5. CASE i # 1 /\ None(s, act.done, {"dealloc"})
    <3>1. i - 1 \in DOMAIN F.body /\ i > 1
      BY <1>1, <2>5
    <3>2. ~HasFrame(F, i - 1)
      <4>1. HasFrame(F, i - 1) => Some(s, act.done, "dealloc")
        BY <1>1, <3>1, ItemsAtEnd
      <4> QED  BY <2>5, <4>1 DEF None, Some
    <3>3. FrameOf(F, i - 1) = 0
      BY <1>1, <3>1, <3>2, FrameSizes
    <3> QED  BY <2>1, <2>2, <2>5, <3>1, <3>3, OpenSizeIs
  <2> QED  BY <2>3, <2>4, <2>5, NoneOrSome
<1> QED  BY <1>2, <1>3

\* An item that neither allocates nor deallocates.
LEMMA SizeStays ==
  ASSUME NEW F, NEW c, NEW act, act.done \in Nat,
         NextItem(c, act).op \notin {"alloc", "dealloc"},
         NEW act2, act2.at = act.at, act2.done = act.done + 1
  PROVE  OpenSize(F, c, act2) = OpenSize(F, c, act)
<1>1. 1 .. act.done + 1 = (1 .. act.done) \cup {act.done + 1}
  OBVIOUS
<1>2. (\E k \in 1 .. act2.done : c[act2.at][k].op = "alloc")
        <=> \E k \in 1 .. act.done : c[act.at][k].op = "alloc"
  BY <1>1 DEF NextItem
<1>3. (\A k \in 1 .. act2.done : c[act2.at][k].op # "dealloc")
        <=> \A k \in 1 .. act.done : c[act.at][k].op # "dealloc"
  BY <1>1 DEF NextItem
<1> QED  BY <1>2, <1>3 DEF OpenSize

\* An allocation opens the frame of the call.
LEMMA SizeAllocated ==
  ASSUME NEW p, NEW F, NEW c, NEW m, NEW act, Runs(p, F, c, m, act), HasItem(c, act),
         NextItem(c, act).op = "alloc",
         NEW act2, act2.at = act.at, act2.done = act.done + 1
  PROVE  /\ OpenSize(F, c, act) = 0
         /\ OpenSize(F, c, act2) = NextItem(c, act).size
         /\ NextItem(c, act).size # 0
<1> DEFINE i == act.at
           s == c[i]
           n == act.done
<1>1. i \in DOMAIN F.body /\ i \in Int /\ i >= 1 /\ DOMAIN F.body = 1 .. Len(F.body)
      /\ Len(F.body) \in Nat /\ WellFormed(p) /\ IsFunction(p, F) /\ Instrumented(F, c, m)
      /\ n \in Nat /\ n < Len(s) /\ s[n + 1].op = "alloc"
  BY RunsParts, NextItemIs DEF Runs, HasItem, NextItem
<1>2. None(s, n, {"alloc", "store"})
      /\ (i > 1 /\ HasFrame(F, i - 1) => Some(s, n, "dealloc"))
  BY <1>1, ItemOrder
<1>3. None(s, n, {"alloc"})
  BY <1>2 DEF None
<1>4. OpenSize(F, c, act) = 0
  <2>1. CASE i = 1
    BY <1>3, <2>1, OpenSizeIs
  <2>2. CASE i # 1 /\ Some(s, n, "dealloc")
    BY <1>3, <2>2, OpenSizeIs
  <2>3. CASE i # 1 /\ None(s, n, {"dealloc"})
    <3>1. i - 1 \in DOMAIN F.body /\ i > 1
      BY <1>1, <2>3
    <3>2. ~HasFrame(F, i - 1)
      BY <1>2, <2>3, <3>1 DEF None, Some
    <3>3. FrameOf(F, i - 1) = 0
      BY <1>1, <3>1, <3>2, FrameSizes
    <3> QED  BY <1>3, <2>3, <3>1, <3>3, OpenSizeIs
  <2> QED  BY <2>1, <2>2, <2>3, NoneOrSome
<1>5. HasFrame(F, i) /\ NextItem(c, act).size = FrameSize(F.body[i])
  <2>1. HasFrame(F, i) /\ NextItem(c, act) = Allocate(FrameSize(F.body[i]))
    BY NextItemIs DEF IsItem, NextItem
  <2> QED  BY <2>1 DEF Allocate
<1>6. OpenSize(F, c, act2) = FrameSize(F.body[i])
  <2>1. n + 1 \in 1 .. act2.done /\ c[act2.at][n + 1].op = "alloc"
    BY <1>1
  <2> QED  BY <2>1 DEF OpenSize
<1> QED  BY <1>4, <1>5, <1>6 DEF HasFrame

\* A deallocation closes the frame that is open.
LEMMA SizeDeallocated ==
  ASSUME NEW p, NEW F, NEW c, NEW m, NEW act, Runs(p, F, c, m, act), HasItem(c, act),
         NextItem(c, act).op = "dealloc",
         NEW act2, act2.at = act.at, act2.done = act.done + 1
  PROVE  OpenSize(F, c, act) # 0 /\ OpenSize(F, c, act2) = 0
<1> DEFINE i == act.at
           s == c[i]
           n == act.done
<1>1. i \in DOMAIN F.body /\ i \in Int /\ i >= 1 /\ DOMAIN F.body = 1 .. Len(F.body)
      /\ Len(F.body) \in Nat /\ WellFormed(p) /\ IsFunction(p, F) /\ Instrumented(F, c, m)
      /\ n \in Nat /\ n < Len(s) /\ s[n + 1].op = "dealloc"
  BY RunsParts, NextItemIs DEF Runs, HasItem, NextItem
<1>2. None(s, n, {"alloc", "store"}) /\ None(s, n, {"dealloc"})
  BY <1>1, ItemOrder
<1>3. None(s, n, {"alloc"})
  BY <1>2 DEF None
<1>4. i > 1 /\ HasFrame(F, i - 1)
  <2>1. i \in 2 .. Len(F.body) + 1 /\ HasFrame(F, i - 1)
    BY NextItemIs DEF IsItem, NextItem
  <2> QED  BY <2>1
<1>5. OpenSize(F, c, act) # 0
  <2>1. i - 1 \in DOMAIN F.body
    BY <1>1, <1>4
  <2>2. FrameOf(F, i - 1) # 0
    BY <1>1, <1>4, <2>1, FrameSizes
  <2> QED  BY <1>2, <1>3, <1>4, <2>2, OpenSizeIs
<1>6. OpenSize(F, c, act2) = 0
  <2>1. 1 .. n + 1 = (1 .. n) \cup {n + 1}
    BY <1>1
  <2>2. \A k \in 1 .. act2.done : c[act2.at][k].op # "alloc"
    BY <1>1, <1>3, <2>1 DEF None
  <2>3. n + 1 \in 1 .. act2.done /\ c[act2.at][n + 1].op = "dealloc"
    BY <1>1
  <2> QED  BY <2>2, <2>3 DEF OpenSize
<1> QED  BY <1>5, <1>6

\* The size of a frame.
LEMMA SizeIsNat ==
  ASSUME NEW p, NEW F, NEW c, NEW m, NEW act, Runs(p, F, c, m, act)
  PROVE  OpenSize(F, c, act) \in Nat
<1> DEFINE i == act.at
           s == c[i]
           n == act.done
<1>1. i \in DOMAIN F.body /\ i \in Int /\ i >= 1 /\ DOMAIN F.body = 1 .. Len(F.body)
      /\ Len(F.body) \in Nat /\ WellFormed(p) /\ IsFunction(p, F)
  BY RunsParts DEF Runs
<1>2. FrameOf(F, i) \in Nat /\ (i > 1 => FrameOf(F, i - 1) \in Nat)
  <2>1. i > 1 => i - 1 \in DOMAIN F.body
    BY <1>1
  <2> QED  BY <1>1, <2>1, FrameSizes
<1>3. CASE Some(s, n, "alloc")
  BY <1>2, <1>3, OpenSizeIs
<1>4. CASE None(s, n, {"alloc"}) /\ i = 1
  BY <1>4, OpenSizeIs
<1>5. CASE None(s, n, {"alloc"}) /\ Some(s, n, "dealloc")
  BY <1>5, OpenSizeIs
<1>6. CASE None(s, n, {"alloc"}) /\ None(s, n, {"dealloc"}) /\ i > 1
  BY <1>2, <1>6, OpenSizeIs
<1> QED  BY <1>1, <1>3, <1>4, <1>5, <1>6, NoneOrSome

-----------------------------------------------------------------------------
(* What the innermost frame holds *)

\* Filling a register changes no frame.
LEMMA FillHolds ==
  ASSUME NEW p, NEW F, NEW c, NEW m, NEW act, Runs(p, F, c, m, act), HasItem(c, act),
         NextItem(c, act).op \in Fills, NEW frame, FrameHolds(F, c, act, frame), NEW wit
  PROVE  FrameHolds(F, c, Moved(act, act.at, act.done + 1, act.val, wit), frame)
<1> DEFINE i == act.at
           n == act.done
           act2 == Moved(act, i, n + 1, act.val, wit)
<1>1. /\ act2.at = i /\ act2.done = n + 1 /\ act2.args = act.args /\ act2.val = act.val
      /\ n \in Nat
  BY NextItemIs DEF Moved
<1>2. \A k \in 1 .. n : k \in 1 .. n + 1
  BY <1>1
<1>3. n + 1 \in 1 .. n + 1 /\ \A k \in 1 .. n + 1 : k = n + 1 \/ k \in 1 .. n
  BY <1>1
<1>4. None(c[i], n, {"alloc", "store"})
  <2>1. c[i][n + 1].op \in Fills \cup {"dealloc"}
    BY DEF NextItem
  <2>2. n < Len(c[i]) /\ i \in DOMAIN F.body
    BY RunsParts DEF HasItem
  <2> QED  BY <1>1, <2>1, <2>2, ItemOrder DEF Runs
<1> HIDE DEF act2
<1>5. ArgumentsHeld(F, c, act2, frame)
  BY <1>1, <1>2 DEF FrameHolds, ArgumentsHeld
<1>6. StoresHeld(c, act2, frame)
  <2>1. \A k \in 1 .. n + 1 : c[i][k].op # "store"
    BY <1>3, <1>4 DEF None, NextItem, Fills
  <2> QED  BY <1>1, <2>1 DEF StoresHeld
<1>7. ResultsHeld(F, c, act2, frame)
  BY <1>1, <1>2 DEF FrameHolds, ResultsHeld
<1> QED  BY <1>5, <1>6, <1>7 DEF FrameHolds, act2

\* A frame that was just allocated holds nothing yet, and nothing is needed of
\* the one that deallocation leaves behind.
LEMMA OtherFrameHolds ==
  ASSUME NEW p, NEW F, NEW c, NEW m, NEW act, Runs(p, F, c, m, act), HasItem(c, act),
         NextItem(c, act).op \in {"alloc", "dealloc"}, NEW frame, NEW wit
  PROVE  FrameHolds(F, c, Moved(act, act.at, act.done + 1, act.val, wit), frame)
<1> DEFINE i == act.at
           n == act.done
           act2 == Moved(act, i, n + 1, act.val, wit)
<1>1. act2.at = i /\ act2.done = n + 1 /\ n \in Nat
  BY NextItemIs DEF Moved
<1>2. n + 1 \in 1 .. n + 1 /\ \A k \in 1 .. n + 1 : k = n + 1 \/ k \in 1 .. n
  BY <1>1
<1>3. None(c[i], n, {"alloc", "store"})
  <2>1. c[i][n + 1].op \in {"alloc", "dealloc"}
    BY DEF NextItem
  <2>2. n < Len(c[i]) /\ i \in DOMAIN F.body
    BY RunsParts DEF HasItem
  <2> QED  BY <1>1, <2>1, <2>2, ItemOrder DEF Runs
<1>4. c[i][n + 1].op \notin Fills
  BY DEF NextItem, Fills
<1> HIDE DEF act2
<1>5. ArgumentsHeld(F, c, act2, frame)
  BY <1>1, <1>2, <1>4 DEF ArgumentsHeld
<1>6. StoresHeld(c, act2, frame)
  <2>1. \A k \in 1 .. n + 1 : c[i][k].op # "store"
    BY <1>2, <1>3 DEF None, NextItem
  <2> QED  BY <1>1, <2>1 DEF StoresHeld
<1>7. ResultsHeld(F, c, act2, frame)
  BY <1>1, <1>2, <1>4 DEF ResultsHeld
<1> QED  BY <1>5, <1>6, <1>7 DEF FrameHolds, act2

\* Stores in front of one instruction are for different slots.
LEMMA SlotsDiffer ==
  ASSUME NEW p, NEW F, NEW c, NEW m, NEW act, Runs(p, F, c, m, act),
         NEW k \in DOMAIN c[act.at], NEW l \in DOMAIN c[act.at],
         c[act.at][k].op = "store", c[act.at][l].op = "store",
         c[act.at][k].slot = c[act.at][l].slot
  PROVE  c[act.at][k] = c[act.at][l]
<1> DEFINE i == act.at
           x == c[i][k]
           y == c[i][l]
           ins == F.body[i]
<1>names. act.at = i /\ c[i][k] = x /\ c[i][l] = y /\ F.body[i] = ins
  OBVIOUS
<1>1. i \in DOMAIN F.body /\ WellFormed(p) /\ IsFunction(p, F)
  BY RunsParts DEF Runs
<1>2. IsStore(F, m, i, x) /\ IsStore(F, m, i, y)
  <2>1. /\ IsItem(F, c, m, Len(F.body) + 1, i, k)
        /\ IsItem(F, c, m, Len(F.body) + 1, i, l)
    BY <1>1, InstrumentedParts DEF Runs
  <2> QED  BY <2>1 DEF IsItem
<1>3. x.slot = y.slot
  OBVIOUS
<1> HIDE DEF x, y, ins
<1>4. CASE ins.op = "call"
  <2>1. PICK j1 \in PointerArguments(ins) : x = ArgumentStore(m, ins, j1)
    BY <1>names, <1>2, <1>4 DEF IsStore
  <2>2. PICK j2 \in PointerArguments(ins) : y = ArgumentStore(m, ins, j2)
    BY <1>names, <1>2, <1>4 DEF IsStore
  <2>3. x.slot = CallSlot(ins, j1) /\ y.slot = CallSlot(ins, j2)
    BY <2>1, <2>2 DEF ArgumentStore, Store
  <2>4. \A j, j0 \in PointerArguments(ins) : CallSlot(ins, j) = CallSlot(ins, j0) => j = j0
    BY <1>names, <1>1, <1>4, CallSlots
  <2>5. j1 = j2
    BY <1>3, <2>3, <2>4
  <2> QED  BY <1>names, <2>1, <2>2, <2>5
<1>5. CASE ins.op # "call"
  <2>1. PICK n1 \in DOMAIN ComputeIndices(F.ret) : x = ReturnStore(F, m, ins.val, n1)
    BY <1>names, <1>2, <1>5 DEF IsStore
  <2>2. PICK n2 \in DOMAIN ComputeIndices(F.ret) : y = ReturnStore(F, m, ins.val, n2)
    BY <1>names, <1>2, <1>5 DEF IsStore
  <2>3. x.slot = n1 - 1 /\ y.slot = n2 - 1
    BY <2>1, <2>2 DEF ReturnStore, Store
  <2>4. n1 \in Int /\ n2 \in Int
    BY <1>1, IndicesList DEF IsFunction
  <2>5. n1 - 1 = n2 - 1
    BY <1>3, <2>3
  <2>6. n1 = n2
    BY <2>4, <2>5
  <2> QED  BY <1>names, <2>1, <2>2, <2>6
<1> QED  BY <1>4, <1>5

\* A store is held in its slot, and no other store is lost.
LEMMA StoreHolds ==
  ASSUME NEW p, NEW F, NEW c, NEW m, NEW act, Runs(p, F, c, m, act), HasItem(c, act),
         NextItem(c, act).op = "store", NEW frame, FrameHolds(F, c, act, frame),
         NextItem(c, act).slot \in DOMAIN frame
  PROVE  LET x == NextItem(c, act) IN
         FrameHolds(F, c, Moved(act, act.at, act.done + 1, act.val, act.wit),
                    [frame EXCEPT ![x.slot] = BoundsIn(act, x.reg)])
<1> DEFINE i == act.at
           n == act.done
           x == NextItem(c, act)
           act2 == Moved(act, i, n + 1, act.val, act.wit)
           frame2 == [frame EXCEPT ![x.slot] = BoundsIn(act, x.reg)]
<1>1. act2.at = i /\ act2.done = n + 1 /\ act2.wit = act.wit /\ n \in Nat
      /\ n + 1 \in DOMAIN c[i] /\ \A k \in 1 .. n : k \in DOMAIN c[i]
  BY NextItemIs DEF Moved
<1>2. n + 1 \in 1 .. n + 1 /\ \A k \in 1 .. n + 1 : k = n + 1 \/ k \in 1 .. n
  BY <1>1
<1>3. \A r : BoundsIn(act2, r) = BoundsIn(act, r)
  BY <1>1 DEF BoundsIn
<1>4. c[i][n + 1].op \notin Fills
  BY DEF NextItem, Fills
<1> HIDE DEF act2
<1>5. ArgumentsHeld(F, c, act2, frame2)
  BY <1>1, <1>2, <1>4 DEF ArgumentsHeld
<1>6. ResultsHeld(F, c, act2, frame2)
  BY <1>1, <1>2, <1>4 DEF ResultsHeld
<1>7. x = c[i][n + 1] /\ x.slot \in DOMAIN frame /\ x.op = "store"
  BY DEF NextItem
<1> HIDE DEF x
<1>8. ASSUME NEW k \in 1 .. n + 1, c[i][k].op = "store"
      PROVE  /\ c[i][k].slot \in DOMAIN frame2
             /\ frame2[c[i][k].slot] = BoundsIn(act2, c[i][k].reg)
  <2>1. CASE c[i][k].slot = x.slot
    <3>1. c[i][k] = x
      <4>1. k \in DOMAIN c[i]
        BY <1>1, <1>2
      <4> QED  BY <1>1, <1>7, <1>8, <2>1, <4>1, SlotsDiffer
    <3> QED  BY <1>3, <1>7, <3>1
  <2>2. CASE c[i][k].slot # x.slot
    <3>1. k \in 1 .. n
      BY <1>2, <1>7, <2>2
    <3>2. c[i][k].slot \in DOMAIN frame /\ frame[c[i][k].slot] = BoundsIn(act, c[i][k].reg)
      BY <1>8, <3>1 DEF FrameHolds, StoresHeld
    <3> QED  BY <1>3, <2>2, <3>2
  <2> QED  BY <2>1, <2>2
<1> HIDE DEF frame2
<1>9. StoresHeld(c, act2, frame2)
  BY <1>1, <1>8 DEF StoresHeld
<1>10. FrameHolds(F, c, act2, frame2)
  BY <1>5, <1>6, <1>9 DEF FrameHolds
<1> QED  BY <1>10 DEF act2, frame2, x

\* Where a store goes, and that it stores the bounds of an object.
StoreFits(F, c, act) ==
  LET x == NextItem(c, act)
      ins == F.body[act.at]
  IN
  /\ BoundsIn(act, x.reg) \in Object
  /\ \/ /\ ins.op = "call" /\ FrameSize(ins) # 0 /\ OpenSize(F, c, act) = FrameSize(ins)
        /\ x.slot \in 0 .. FrameSize(ins) - 1
     \/ /\ ins.op = "ret" /\ OpenSize(F, c, act) = 0
        /\ NumberOfPointers(F.ret) # 0
        /\ x.slot \in 0 .. NumberOfPointers(F.ret) - 1

\* Before a return stores anything, the function's own frames are gone.
LEMMA NoFrameLeft ==
  ASSUME NEW p, NEW F, NEW c, NEW m, NEW act, Runs(p, F, c, m, act), HasItem(c, act),
         NextItem(c, act).op = "store", F.body[act.at].op = "ret"
  PROVE  OpenSize(F, c, act) = 0
<1> DEFINE i == act.at
           s == c[i]
           n == act.done
<1>1. /\ i \in DOMAIN F.body /\ i \in Int /\ i >= 1 /\ n \in Nat /\ n < Len(s)
      /\ DOMAIN F.body = 1 .. Len(F.body) /\ Len(F.body) \in Nat
  BY RunsParts, NextItemIs DEF HasItem
<1>2. None(s, n, {"alloc"})
  <2>1. ASSUME NEW q \in 1 .. n  PROVE s[q].op # "alloc"
    <3>1. q \in DOMAIN c[i]
      BY NextItemIs
    <3>2. IsItem(F, c, m, Len(F.body) + 1, i, q)
      BY <1>1, <3>1, InstrumentedParts DEF Runs
    <3> QED  BY <3>2 DEF IsItem, HasFrame
  <2> QED  BY <2>1 DEF None
<1>3. CASE Some(s, n, "dealloc")
  BY <1>2, <1>3, OpenSizeIs
<1>4. CASE None(s, n, {"dealloc"})
  <2>1. CASE i = 1
    BY <1>2, <2>1, OpenSizeIs
  <2>2. CASE i > 1
    <3>1. OpenSize(F, c, act) = FrameOf(F, i - 1)
      BY <1>2, <1>4, <2>2, OpenSizeIs
    <3>2. ~HasFrame(F, i - 1)
      <4>1. ~Some(s, n, "dealloc")
        BY <1>4 DEF None, Some
      <4>2. s[n + 1].op \in {"alloc", "store"}
        BY DEF NextItem
      <4> QED  BY <1>1, <2>2, <4>1, <4>2, ItemOrder DEF Runs
    <3>3. i - 1 \in DOMAIN F.body
      BY <1>1, <2>2
    <3>4. FrameOf(F, i - 1) = 0
      BY <3>2, <3>3, FrameSizes DEF Runs
    <3> QED  BY <3>1, <3>4
  <2> QED  BY <1>1, <2>1, <2>2
<1> QED  BY <1>3, <1>4, NoneOrSome

\* A value's bounds, where a store of them comes next, are those of an object.
LEMMA StoredIsObject ==
  ASSUME NEW p, NEW F, NEW c, NEW m, NEW act, Runs(p, F, c, m, act), HasItem(c, act),
         NextItem(c, act).op = "store",
         NEW o \in DOMAIN m, NEW ty, IsValueOf(F, o, act.at, ty), NEW k \in PointersIn(ty),
         NextItem(c, act).reg = m[o][k]
  PROVE  BoundsIn(act, NextItem(c, act).reg) \in Object
<1>1. IsValue(F, o, act.at) /\ TypeOf(F, o) = ty /\ act.at \in DOMAIN F.body
  BY RunsParts DEF IsValueOf
<1>2. k \in DOMAIN m[o]
  BY <1>1, RunsParts DEF WitnessesFit
<1>3. Available(act, o) /\ ValueOf(act, o)[k] \in Object
  BY <1>1, RunsParts, ValueThere DEF Runs
<1>4. o.kind # "undef"
  BY <1>1, ValueTyped DEF Runs
<1>5. Ready(F, c, act.at, act.done + 1, m[o][k])
  <2>1. IsItem(F, c, m, Len(F.body) + 1, act.at, act.done + 1)
    BY NextItemIs
  <2>2. Ready(F, c, act.at, act.done + 1, NextItem(c, act).reg)
    BY <2>1 DEF IsItem, NextItem
  <2> QED  BY <2>2
<1>6. BoundsIn(act, m[o][k]) = ElementOf(act, o, k)
  BY <1>2, <1>3, <1>5, BoundsRight DEF Runs
<1> QED  BY <1>3, <1>4, <1>6 DEF ElementOf

\* A store of an argument goes to the frame of the call, one of a result to that of the caller.
LEMMA StoreRight ==
  ASSUME NEW p, NEW F, NEW c, NEW m, NEW act, Runs(p, F, c, m, act), HasItem(c, act),
         NextItem(c, act).op = "store"
  PROVE  StoreFits(F, c, act)
<1> DEFINE i == act.at
           x == NextItem(c, act)
           ins == F.body[i]
<1>names. /\ act.at = i /\ NextItem(c, act) = x /\ F.body[i] = ins
  OBVIOUS
<1> HIDE DEF i, x, ins
<1>1. i \in DOMAIN F.body /\ WellFormed(p) /\ IsFunction(p, F) /\ IsStore(F, m, i, x)
  BY <1>names, RunsParts, NextItemIs DEF Runs, IsItem, NextItem
<1> HIDE DEF x
<1>2. CASE ins.op = "call"
  <2>1. PICK j \in PointerArguments(ins) :
          ins.args[j] \in DOMAIN m /\ x = ArgumentStore(m, ins, j)
    BY <1>names, <1>1, <1>2 DEF IsStore
  <2>2. x.reg = m[ins.args[j]][1] /\ x.slot = CallSlot(ins, j)
    BY <2>1 DEF ArgumentStore, Store
  <2>3. /\ CallSlot(ins, j) \in Nat /\ CallSlot(ins, j) < FrameSize(ins)
        /\ FrameSize(ins) \in Nat
    BY <1>names, <1>1, <1>2, CallSlots
  <2>4. FrameSize(ins) # 0 /\ CallSlot(ins, j) \in 0 .. FrameSize(ins) - 1
    BY <2>3
  <2>5. BoundsIn(act, x.reg) \in Object
    <3> DEFINE o == ins.args[j]
               e == p[ins.fun].params[j]
    <3>1. j \in DOMAIN ins.args /\ IsPointer(o)
      BY DEF PointerArguments
    <3>2. IsValueOf(F, o, i, Type(<<e>>)) /\ e \in ElementType
      <4>1. IsValueOf(F, o, i, Type(<<e>>))
        BY <1>names, <1>1, <1>2, <3>1, CallInstruction
      <4>2. DOMAIN ins.args = DOMAIN p[ins.fun].params
        BY <1>names, <1>1, <1>2, CallInstruction
      <4>3. p[ins.fun].params \in Seq(ElementType)
        BY <1>names, <1>1, <1>2, CallInstruction
      <4> QED  BY <3>1, <4>1, <4>2, <4>3
    <3>3. e = "p"
      BY <1>1, <3>1, <3>2, PointerValues
    <3>4. IsValueOf(F, o, i, Pointer)
      BY <3>2, <3>3 DEF Pointer
    <3>5. 1 \in PointersIn(Pointer)
      BY PointerIsType
    <3> HIDE DEF o
    <3>6. o \in DOMAIN m /\ x.reg = m[o][1]
      BY <2>1, <2>2 DEF o
    <3>7. NextItem(c, act).reg = m[o][1]
      BY <3>6 DEF x
    <3>8. BoundsIn(act, NextItem(c, act).reg) \in Object
      BY <1>names, <3>4, <3>5, <3>6, <3>7, StoredIsObject
    <3> QED  BY <3>8 DEF x
  <2>6. OpenSize(F, c, act) = FrameSize(ins)
    <3>1. HasFrame(F, i)
      BY <1>names, <1>2, <2>4 DEF HasFrame
    <3>2. act.done \in Nat /\ act.done < Len(c[i]) /\ c[i][act.done + 1].op = "store"
      BY <1>names, NextItemIs DEF HasItem, NextItem
    <3>3. Some(c[i], act.done, "alloc")
      BY <1>1, <3>1, <3>2, ItemOrder DEF Runs
    <3>4. OpenSize(F, c, act) = FrameOf(F, i)
      BY <1>names, <3>3, OpenSizeIs
    <3> QED  BY <1>names, <1>2, <3>4 DEF FrameOf
  <2> QED  BY <1>names, <1>2, <2>2, <2>4, <2>5, <2>6 DEF StoreFits, x
<1>3. CASE ins.op # "call"
  <2>1. PICK n \in DOMAIN ComputeIndices(F.ret) :
          x = ReturnStore(F, m, ins.val, n)
    BY <1>names, <1>1, <1>3 DEF IsStore
  <2>2. ins.op = "ret" /\ ins.val \in DOMAIN m
    BY <1>names, <1>1, <1>3 DEF IsStore
  <2> DEFINE k == ComputeIndices(F.ret)[n]
  <2>3. x.reg = m[ins.val][k] /\ x.slot = n - 1
    BY <2>1 DEF ReturnStore, Store
  <2>4. /\ n - 1 \in Nat /\ n - 1 < NumberOfPointers(F.ret) /\ k \in PointersIn(F.ret)
        /\ NumberOfPointers(F.ret) \in Nat
    BY <1>1, IndicesList, TypesList DEF IsFunction
  <2>5. NumberOfPointers(F.ret) # 0 /\ n - 1 \in 0 .. NumberOfPointers(F.ret) - 1
    BY <2>4
  <2>6. IsValueOf(F, ins.val, i, F.ret)
    BY <1>names, <1>1, <2>2, Instructions
  <2> HIDE DEF k
  <2>7. BoundsIn(act, NextItem(c, act).reg) \in Object
    <3>1. NextItem(c, act).reg = m[ins.val][k]
      BY <2>3 DEF x
    <3> QED  BY <1>names, <2>2, <2>4, <2>6, <3>1, StoredIsObject
  <2>8. OpenSize(F, c, act) = 0
    BY <1>names, <2>2, NoFrameLeft
  <2> QED  BY <1>names, <2>2, <2>3, <2>5, <2>7, <2>8 DEF StoreFits, x
<1> QED  BY <1>2, <1>3

\* What the frame holds when the call or the return is executed.
ArgumentPassed(act, call, j, frame) ==
  /\ CallSlot(call, j) \in DOMAIN frame
  /\ frame[CallSlot(call, j)] = ValueOf(act, call.args[j])[1]

\* In front of a call, the frame holds the bounds of its arguments.
LEMMA ArgumentsStored ==
  ASSUME NEW p, NEW F, NEW c, NEW m, NEW act, Runs(p, F, c, m, act),
         act.done = Len(c[act.at]), F.body[act.at].op = "call",
         NEW frame, FrameHolds(F, c, act, frame), NEW j \in PointerArguments(F.body[act.at])
  PROVE  ArgumentPassed(act, F.body[act.at], j, frame)
<1> DEFINE i == act.at
           ins == F.body[i]
           o == ins.args[j]
<1>names. /\ act.at = i /\ F.body[i] = ins /\ ins.args[j] = o
  OBVIOUS
<1> HIDE DEF i, ins, o
<1>1. i \in DOMAIN F.body /\ WellFormed(p) /\ IsFunction(p, F) /\ IsHandled(F, c, m, i)
      /\ DOMAIN c[i] = 1 .. act.done
  BY <1>names, RunsParts, InstrumentedParts DEF Runs
<1>2. o \in DOMAIN m /\ \E k \in DOMAIN c[i] : c[i][k] = ArgumentStore(m, ins, j)
  BY <1>names, <1>1 DEF IsHandled
<1>3. PICK k \in 1 .. act.done : c[i][k] = ArgumentStore(m, ins, j)
  BY <1>1, <1>2
<1>4. c[i][k].op = "store" /\ c[i][k].slot = CallSlot(ins, j) /\ c[i][k].reg = m[o][1]
  BY <1>names, <1>3 DEF ArgumentStore, Store
<1>5. CallSlot(ins, j) \in DOMAIN frame /\ frame[CallSlot(ins, j)] = BoundsIn(act, m[o][1])
  BY <1>names, <1>4 DEF FrameHolds, StoresHeld
<1>6. IsValue(F, o, i) /\ TypeOf(F, o) = Pointer
  BY <1>names, <1>1, PointerArgument
<1>7. 1 \in DOMAIN m[o]
  BY <1>2, <1>6, PointerIsType, RunsParts DEF WitnessesFit
<1>8. BoundsIn(act, m[o][1]) = ValueOf(act, o)[1]
  BY <1>names, <1>1, <1>2, <1>6, <1>7, BoundsRightAtEnd DEF Runs
<1> QED  BY <1>names, <1>5, <1>8 DEF ArgumentPassed

\* In front of a return, the frame holds the bounds of what is returned.
LEMMA ResultsStored ==
  ASSUME NEW p, NEW F, NEW c, NEW m, NEW act, Runs(p, F, c, m, act),
         act.done = Len(c[act.at]), F.body[act.at].op = "ret",
         NEW frame, FrameHolds(F, c, act, frame), NEW n \in DOMAIN ComputeIndices(F.ret)
  PROVE  /\ n - 1 \in DOMAIN frame
         /\ frame[n - 1] = ValueOf(act, F.body[act.at].val)[ComputeIndices(F.ret)[n]]
<1> DEFINE i == act.at
           o == F.body[i].val
           l == ComputeIndices(F.ret)[n]
<1>1. i \in DOMAIN F.body /\ WellFormed(p) /\ IsFunction(p, F) /\ IsHandled(F, c, m, i)
      /\ DOMAIN c[i] = 1 .. act.done
  BY RunsParts, InstrumentedParts DEF Runs
<1>2. o \in DOMAIN m /\ \E k \in DOMAIN c[i] : c[i][k] = ReturnStore(F, m, o, n)
  BY <1>1 DEF IsHandled
<1>3. PICK k \in 1 .. act.done : c[i][k] = ReturnStore(F, m, o, n)
  BY <1>1, <1>2
<1>4. c[i][k].op = "store" /\ c[i][k].slot = n - 1 /\ c[i][k].reg = m[o][l]
  BY <1>3 DEF ReturnStore, Store
<1>5. n - 1 \in DOMAIN frame /\ frame[n - 1] = BoundsIn(act, m[o][l])
  <2>1. /\ c[i][k].slot \in DOMAIN frame
        /\ frame[c[i][k].slot] = BoundsIn(act, c[i][k].reg)
    BY <1>4 DEF FrameHolds, StoresHeld
  <2> QED  BY <1>4, <2>1
<1>6. IsValueOf(F, o, i, F.ret)
  BY <1>1, Instructions
<1>7. IsValue(F, o, i) /\ l \in DOMAIN m[o]
  <2>1. IsValue(F, o, i) /\ TypeOf(F, o) = F.ret
    BY <1>6 DEF IsValueOf
  <2>2. l \in PointersIn(F.ret)
    BY <1>1, IndicesList DEF IsFunction
  <2>3. DOMAIN m[o] = PointersIn(TypeOf(F, o))
    BY <1>2, RunsParts DEF WitnessesFit
  <2> QED  BY <2>1, <2>2, <2>3
<1> HIDE DEF o, l
<1>8. BoundsIn(act, m[o][l]) = ValueOf(act, o)[l]
  BY <1>1, <1>2, <1>7, BoundsRightAtEnd DEF Runs
<1> QED  BY <1>5, <1>8 DEF o, l

\* Behind an instruction that is no call nothing is expected of the frame.
LEMMA NextHolds ==
  ASSUME NEW F, NEW c, NEW act, act.at \in Int, act.at > 1, act.done = 0,
         F.body[act.at - 1].op # "call", NEW frame
  PROVE  FrameHolds(F, c, act, frame)
<1>1. act.at # 1
  OBVIOUS
<1>2. 1 .. act.done = {}
  OBVIOUS
<1> QED  BY <1>1, <1>2 DEF FrameHolds, ArgumentsHeld, StoresHeld, ResultsHeld

\* Behind a call, the bounds of what it returned.
LEMMA ResultHolds ==
  ASSUME NEW F, NEW c, NEW act, act.at \in Int, act.at >= 1, NEW elems, NEW wit, NEW frame,
         \A n \in DOMAIN ComputeIndices(F.body[act.at].ret) :
           /\ n - 1 \in DOMAIN frame
           /\ frame[n - 1] = elems[ComputeIndices(F.body[act.at].ret)[n]]
  PROVE  FrameHolds(F, c, Moved(act, act.at + 1, 0, Updated(act.val, act.at, elems), wit),
                    frame)
<1> DEFINE i == act.at
           act2 == Moved(act, i + 1, 0, Updated(act.val, i, elems), wit)
<1>1. /\ act2.at = i + 1 /\ act2.done = 0 /\ act2.at # 1 /\ act2.at - 1 = i
      /\ i \in DOMAIN act2.val /\ act2.val[i] = elems
  BY DEF Moved, Updated
<1>2. 1 .. act2.done = {}
  BY <1>1
<1> HIDE DEF act2
<1>3. ResultsHeld(F, c, act2, frame)
  BY <1>1 DEF ResultsHeld
<1>4. FrameHolds(F, c, act2, frame)
  BY <1>1, <1>2, <1>3 DEF FrameHolds, ArgumentsHeld, StoresHeld
<1> QED  BY <1>4 DEF act2

\* On entry, the bounds of the arguments.
LEMMA EntryHolds ==
  ASSUME NEW F, NEW c, NEW f, NEW args, NEW cond, NEW frame,
         \A j \in DOMAIN F.params : F.params[j] = "p" =>
           ArgumentSlot(F, j) \in DOMAIN frame /\ frame[ArgumentSlot(F, j)] = args[j]
  PROVE  FrameHolds(F, c, Activation(f, args, cond), frame)
<1> DEFINE act == Activation(f, args, cond)
<1>1. act.at = 1 /\ act.done = 0 /\ act.args = args
  BY DEF Activation
<1>2. 1 .. act.done = {} /\ ~(act.at > 1)
  BY <1>1
<1> HIDE DEF act
<1>3. FrameHolds(F, c, act, frame)
  BY <1>1, <1>2 DEF FrameHolds, ArgumentsHeld, StoresHeld, ResultsHeld
<1> QED  BY <1>3 DEF act

-----------------------------------------------------------------------------
(* The active calls s and the shadow stack shd of an instrumented program p   *)
(* with the code cs and the witnesses ms.                                     *)

IsInstrumented(p, cs, ms) ==
  /\ p \in Programs /\ WellFormed(p)
  /\ \A f \in Function : p[f].body # <<>> =>
       Instrumented(p[f], cs[f], ms[f]) /\ LoadsFirst(cs[f])

Fits(p, cs, ms, act) ==
  /\ act.fun \in Function /\ p[act.fun].body # <<>>
  /\ ActivationFits(p[act.fun], cs[act.fun], ms[act.fun], act)

\* The activation is at a call of f.
Waits(p, cs, act, f) ==
  /\ p[act.fun].body[act.at].op = "call"
  /\ p[act.fun].body[act.at].fun = f
  /\ act.done = Len(cs[act.fun][act.at])

StackFits(p, cs, ms, s) ==
  /\ IsSequence(s) /\ Len(s) <= MaxDepth
  /\ \A a \in 1 .. Len(s) : Fits(p, cs, ms, s[a])
  /\ \A a \in 2 .. Len(s) : Waits(p, cs, s[a], s[a - 1].fun)
  /\ s # <<>> => s[Len(s)].fun = Main

SizeOf(p, cs, act) == OpenSize(p[act.fun], cs[act.fun], act)
SizesOf(p, cs, s) == [a \in 1 .. Len(s) |-> SizeOf(p, cs, s[a])]

SlotsFit(shd) ==
  /\ IsSequence(shd)
  /\ \A d \in DOMAIN shd : \A slot \in DOMAIN shd[d] : shd[d][slot] \in Object \cup {Stale}

ShadowFits(p, cs, s, shd) ==
  s # <<>> =>
    /\ FramesFit(SizesOf(p, cs, s), shd, Len(p[Main].params))
    /\ FrameHolds(p[s[1].fun], cs[s[1].fun], s[1], shd[1])

\* An activation of an instrumented program.
LEMMA FitRuns ==
  ASSUME NEW p, NEW cs, NEW ms, IsInstrumented(p, cs, ms), NEW act, Fits(p, cs, ms, act)
  PROVE  /\ Runs(p, p[act.fun], cs[act.fun], ms[act.fun], act)
         /\ LoadsFirst(cs[act.fun])
BY DEF IsInstrumented, Fits, Runs, WellFormed

\* The innermost activation.
LEMMA StackParts ==
  ASSUME NEW p, NEW cs, NEW ms, NEW s, StackFits(p, cs, ms, s), s # <<>>
  PROVE  /\ Len(s) \in Nat \ {0} /\ DOMAIN s = 1 .. Len(s) /\ 1 \in 1 .. Len(s)
         /\ Fits(p, cs, ms, s[1])
<1>1. IsSequence(s)
  BY DEF StackFits
<1>2. Len(s) \in Nat \ {0} /\ DOMAIN s = 1 .. Len(s)
  BY <1>1, Popped
<1>3. 1 \in 1 .. Len(s)
  BY <1>2
<1> QED  BY <1>2, <1>3 DEF StackFits

\* There is one size for each activation.
LEMMA SizesList ==
  ASSUME NEW p, NEW cs, NEW s, IsSequence(s)
  PROVE  /\ IsSequence(SizesOf(p, cs, s)) /\ Len(SizesOf(p, cs, s)) = Len(s)
         /\ Len(s) \in Nat
         /\ \A a \in 1 .. Len(s) : SizesOf(p, cs, s)[a] = SizeOf(p, cs, s[a])
<1> DEFINE t == SizesOf(p, cs, s)
<1>1. Len(s) \in Nat
  BY DEF IsSequence
<1>2. /\ DOMAIN t = 1 .. Len(s) /\ t = [a \in 1 .. Len(s) |-> t[a]]
      /\ \A a \in 1 .. Len(s) : t[a] = SizeOf(p, cs, s[a])
  BY DEF SizesOf
<1> HIDE DEF t
<1>3. IsSequence(t) /\ Len(t) = Len(s)
  BY <1>1, <1>2, FunctionIsSequence
<1> QED  BY <1>1, <1>2, <1>3 DEF t

\* The innermost activation goes on.
Replaced(act, s) == <<act>> \o Tail(s)

\* The stack after the innermost activation went on.
LEMMA ReplacedParts ==
  ASSUME NEW s, IsSequence(s), s # <<>>, NEW act
  PROVE  /\ IsSequence(Replaced(act, s)) /\ Len(Replaced(act, s)) = Len(s)
         /\ Len(s) \in Nat \ {0}
         /\ Replaced(act, s) # <<>> /\ Replaced(act, s)[1] = act
         /\ \A a \in 2 .. Len(s) : Replaced(act, s)[a] = s[a]
<1>1. /\ Len(s) \in Nat \ {0} /\ IsSequence(Tail(s)) /\ Len(Tail(s)) = Len(s) - 1
      /\ \A k \in 1 .. Len(s) - 1 : Tail(s)[k] = s[k + 1]
  BY Popped
<1> DEFINE t == Tail(s)
<1> HIDE DEF t
<1>2. /\ IsSequence(<<act>> \o t) /\ Len(<<act>> \o t) = Len(t) + 1
      /\ (<<act>> \o t)[1] = act
      /\ \A k \in 2 .. Len(t) + 1 : k - 1 \in 1 .. Len(t) /\ (<<act>> \o t)[k] = t[k - 1]
  BY <1>1, Pushed DEF t
<1>3. Len(<<act>> \o t) = Len(s)
  BY <1>1, <1>2 DEF t
<1>4. ASSUME NEW a \in 2 .. Len(s)  PROVE (<<act>> \o t)[a] = s[a]
  <2>1. a \in 2 .. Len(t) + 1 /\ a - 1 \in 1 .. Len(s) - 1 /\ (a - 1) + 1 = a
    BY <1>1 DEF t
  <2>2. t[a - 1] = s[(a - 1) + 1]
    BY <1>1, <2>1 DEF t
  <2> QED  BY <1>2, <2>1, <2>2
<1>5. <<act>> \o t # <<>>
  BY <1>1, <1>3, ShortSequences
<1> QED  BY <1>1, <1>2, <1>3, <1>4, <1>5 DEF Replaced, t

\* The other activations wait as before.
LEMMA StackReplaced ==
  ASSUME NEW p, NEW cs, NEW ms, NEW s, StackFits(p, cs, ms, s), s # <<>>,
         NEW act, Fits(p, cs, ms, act), act.fun = s[1].fun
  PROVE  StackFits(p, cs, ms, Replaced(act, s))
<1> DEFINE t == Replaced(act, s)
<1>1. /\ IsSequence(t) /\ Len(t) = Len(s) /\ Len(s) \in Nat \ {0}
      /\ t # <<>> /\ t[1] = act
      /\ \A a \in 2 .. Len(s) : t[a] = s[a]
  BY ReplacedParts DEF StackFits
<1> HIDE DEF t
<1>2. \A a \in 1 .. Len(s) : t[a].fun = s[a].fun
  <2>1. \A a \in 1 .. Len(s) : a = 1 \/ a \in 2 .. Len(s)
    BY <1>1
  <2> QED  BY <1>1, <2>1
<1>3. \A a \in 1 .. Len(t) : Fits(p, cs, ms, t[a])
  <2>1. \A a \in 1 .. Len(t) : a = 1 \/ (a \in 2 .. Len(s) /\ a \in 1 .. Len(s))
    BY <1>1
  <2> QED  BY <1>1, <2>1 DEF StackFits
<1>4. ASSUME NEW a \in 2 .. Len(t)  PROVE Waits(p, cs, t[a], t[a - 1].fun)
  <2>1. a \in 2 .. Len(s) /\ a - 1 \in 1 .. Len(s)
    BY <1>1
  <2>2. Waits(p, cs, s[a], s[a - 1].fun)
    BY <2>1 DEF StackFits
  <2> QED  BY <1>1, <1>2, <2>1, <2>2
<1>5. t[Len(t)].fun = Main
  <2>1. Len(s) \in 1 .. Len(s)
    BY <1>1
  <2> QED  BY <1>1, <1>2, <2>1 DEF StackFits
<1>6. Len(t) <= MaxDepth
  BY <1>1 DEF StackFits
<1>7. StackFits(p, cs, ms, t)
  BY <1>1, <1>3, <1>4, <1>5, <1>6 DEF StackFits
<1> QED  BY <1>7 DEF t

\* A call adds an activation.
LEMMA StackPushed ==
  ASSUME NEW p, NEW cs, NEW ms, NEW s, StackFits(p, cs, ms, s), s # <<>>,
         Len(s) < MaxDepth, NEW act, Fits(p, cs, ms, act), Waits(p, cs, s[1], act.fun)
  PROVE  StackFits(p, cs, ms, <<act>> \o s)
<1> DEFINE t == <<act>> \o s
<1>1. /\ IsSequence(t) /\ Len(t) = Len(s) + 1 /\ Len(s) \in Nat /\ t[1] = act
      /\ \A k \in 1 .. Len(s) : t[k + 1] = s[k]
      /\ \A k \in 2 .. Len(s) + 1 : k - 1 \in 1 .. Len(s) /\ t[k] = s[k - 1]
  BY Pushed DEF StackFits
<1>2. Len(s) \in Nat \ {0}
  BY StackParts
<1> HIDE DEF t
<1>3. \A a \in 1 .. Len(t) : Fits(p, cs, ms, t[a])
  <2>1. \A a \in 1 .. Len(t) : a = 1 \/ a \in 2 .. Len(s) + 1
    BY <1>1
  <2> QED  BY <1>1, <2>1 DEF StackFits
<1>4. ASSUME NEW a \in 2 .. Len(t)  PROVE Waits(p, cs, t[a], t[a - 1].fun)
  <2> DEFINE b == a - 1
  <2>1. b \in 1 .. Len(s) /\ t[a] = s[b] /\ b \in Int
    BY <1>1
  <2> HIDE DEF b
  <2>2. CASE b = 1
    BY <1>1, <2>1, <2>2 DEF b
  <2>3. CASE b # 1
    <3>1. b \in 2 .. Len(s) /\ b \in 2 .. Len(s) + 1
      BY <1>1, <2>1, <2>3
    <3>2. t[b] = s[b - 1] /\ Waits(p, cs, s[b], s[b - 1].fun)
      BY <1>1, <3>1 DEF StackFits
    <3> QED  BY <2>1, <3>2 DEF b
  <2> QED  BY <2>2, <2>3
<1>5. t[Len(t)].fun = Main
  <2>1. Len(s) \in 1 .. Len(s)
    BY <1>2
  <2>2. t[Len(s) + 1] = s[Len(s)]
    BY <1>1, <2>1
  <2> QED  BY <1>1, <2>2 DEF StackFits
<1>6. Len(t) <= MaxDepth
  BY <1>1, DepthAssumption
<1>7. StackFits(p, cs, ms, t)
  BY <1>1, <1>3, <1>4, <1>5, <1>6 DEF StackFits
<1> QED  BY <1>7 DEF t

\* A return removes one.
LEMMA StackPopped ==
  ASSUME NEW p, NEW cs, NEW ms, NEW s, StackFits(p, cs, ms, s), s # <<>>, Len(s) # 1
  PROVE  /\ StackFits(p, cs, ms, Tail(s)) /\ Tail(s) # <<>>
         /\ Tail(s)[1] = s[2] /\ Waits(p, cs, s[2], s[1].fun) /\ Len(s) >= 2
<1> DEFINE t == Tail(s)
<1>1. /\ Len(s) \in Nat \ {0} /\ IsSequence(t) /\ Len(t) = Len(s) - 1
      /\ \A k \in 1 .. Len(s) - 1 : t[k] = s[k + 1]
  BY Popped DEF StackFits
<1>2. Len(s) >= 2 /\ 1 \in 1 .. Len(s) - 1 /\ 2 \in 2 .. Len(s) /\ 1 + 1 = 2 /\ 2 - 1 = 1
  BY <1>1
<1> HIDE DEF t
<1>3. t # <<>>
  BY <1>1, <1>2, ShortSequences
<1>4. t[1] = s[2] /\ Waits(p, cs, s[2], s[1].fun)
  <2>1. t[1] = s[1 + 1]
    BY <1>1, <1>2
  <2>2. Waits(p, cs, s[2], s[2 - 1].fun)
    BY <1>2 DEF StackFits
  <2> QED  BY <1>2, <2>1, <2>2
<1>5. \A a \in 1 .. Len(t) : Fits(p, cs, ms, t[a])
  <2>1. \A a \in 1 .. Len(t) : a \in 1 .. Len(s) - 1 /\ a + 1 \in 1 .. Len(s)
    BY <1>1
  <2> QED  BY <1>1, <2>1 DEF StackFits
<1>6. ASSUME NEW a \in 2 .. Len(t)  PROVE Waits(p, cs, t[a], t[a - 1].fun)
  <2>1. /\ a \in 1 .. Len(s) - 1 /\ a - 1 \in 1 .. Len(s) - 1 /\ a + 1 \in 2 .. Len(s)
        /\ (a - 1) + 1 = a /\ (a + 1) - 1 = a
    BY <1>1
  <2>2. t[a] = s[a + 1] /\ t[a - 1] = s[(a - 1) + 1]
    BY <1>1, <2>1
  <2>3. Waits(p, cs, s[a + 1], s[(a + 1) - 1].fun)
    BY <2>1 DEF StackFits
  <2> QED  BY <2>1, <2>2, <2>3
<1>7. t[Len(t)].fun = Main
  <2>1. Len(t) \in 1 .. Len(s) - 1 /\ Len(t) + 1 = Len(s)
    BY <1>1, <1>2
  <2>2. t[Len(t)] = s[Len(t) + 1]
    BY <1>1, <2>1
  <2> QED  BY <2>1, <2>2 DEF StackFits
<1>8. Len(t) <= MaxDepth
  BY <1>1, DepthAssumption DEF StackFits
<1>9. StackFits(p, cs, ms, t)
  BY <1>1, <1>5, <1>6, <1>7, <1>8 DEF StackFits
<1> QED  BY <1>2, <1>3, <1>4, <1>9 DEF t

NoEmptyFrame(shd) == \A d \in 1 .. Len(shd) - 1 : DOMAIN shd[d] # {}

RunFits(p, cs, ms, s, shd) ==
  /\ IsInstrumented(p, cs, ms)
  /\ StackFits(p, cs, ms, s)
  /\ SlotsFit(shd) /\ NoEmptyFrame(shd)
  /\ ShadowFits(p, cs, s, shd)

\* No frame is empty but that of the run-time.
LEMMA RunReached ==
  ASSUME NEW p, NEW cs, NEW ms, IsInstrumented(p, cs, ms),
         NEW s, StackFits(p, cs, ms, s), s # <<>>,
         NEW shd, SlotsFit(shd), ShadowFits(p, cs, s, shd)
  PROVE  RunFits(p, cs, ms, s, shd)
<1>1. IsSequence(s)
  BY DEF StackFits
<1>2. /\ Len(SizesOf(p, cs, s)) = Len(s) /\ Len(s) \in Nat
      /\ \A a \in 1 .. Len(s) : SizesOf(p, cs, s)[a] = SizeOf(p, cs, s[a])
  BY <1>1, SizesList
<1>3. \A a \in 1 .. Len(s) : SizeOf(p, cs, s[a]) \in Nat
  <2> SUFFICES ASSUME NEW a \in 1 .. Len(s)  PROVE SizeOf(p, cs, s[a]) \in Nat
    OBVIOUS
  <2>1. Fits(p, cs, ms, s[a])
    BY DEF StackFits
  <2> DEFINE act == s[a]
  <2> HIDE DEF act
  <2>2. Runs(p, p[act.fun], cs[act.fun], ms[act.fun], act)
    BY <2>1, FitRuns DEF act
  <2>3. SizeOf(p, cs, act) \in Nat
    BY <2>2, SizeIsNat DEF SizeOf
  <2> QED  BY <2>3 DEF act
<1>4. NoEmptyFrame(shd)
  <2> DEFINE size == SizesOf(p, cs, s)
  <2>1. FramesFit(size, shd, Len(p[Main].params))
    BY DEF ShadowFits
  <2>2. Len(size) \in Nat /\ \A a \in 1 .. Len(size) : size[a] \in Nat
    BY <1>2, <1>3
  <2> HIDE DEF size
  <2>3. \A d \in 1 .. Len(shd) - 1 : DOMAIN shd[d] # {}
    BY <2>1, <2>2, FramesNotEmpty
  <2> QED  BY <2>3 DEF NoEmptyFrame
<1> QED  BY <1>4 DEF RunFits

\* The innermost activation.
LEMMA TopRuns ==
  ASSUME NEW p, NEW cs, NEW ms, NEW s, NEW shd, RunFits(p, cs, ms, s, shd), s # <<>>,
         NEW top, s[1] = top, NEW F, p[top.fun] = F, NEW c, cs[top.fun] = c,
         NEW size, SizesOf(p, cs, s) = size
  PROVE  /\ Runs(p, F, c, ms[top.fun], top) /\ LoadsFirst(c)
         /\ FrameHolds(F, c, top, shd[1])
         /\ FramesFit(size, shd, Len(p[Main].params))
         /\ Len(size) = Len(s) /\ Len(s) \in Nat \ {0} /\ size[1] = OpenSize(F, c, top)
         /\ Len(shd) \in Nat \ {0} /\ DOMAIN shd = 1 .. Len(shd) /\ shd # <<>>
<1>1. IsInstrumented(p, cs, ms) /\ StackFits(p, cs, ms, s) /\ SlotsFit(shd)
  BY DEF RunFits
<1>2. /\ Len(s) \in Nat \ {0} /\ DOMAIN s = 1 .. Len(s) /\ 1 \in 1 .. Len(s)
      /\ Fits(p, cs, ms, s[1])
  BY <1>1, StackParts
<1>3. /\ FramesFit(SizesOf(p, cs, s), shd, Len(p[Main].params))
      /\ FrameHolds(p[s[1].fun], cs[s[1].fun], s[1], shd[1])
  BY DEF RunFits, ShadowFits
<1>4. /\ Len(SizesOf(p, cs, s)) = Len(s)
      /\ SizesOf(p, cs, s)[1] = OpenSize(p[s[1].fun], cs[s[1].fun], s[1])
  <2>1. /\ Len(SizesOf(p, cs, s)) = Len(s)
        /\ \A a \in 1 .. Len(s) : SizesOf(p, cs, s)[a] = SizeOf(p, cs, s[a])
    BY <1>1, SizesList DEF StackFits
  <2> QED  BY <1>2, <2>1 DEF SizeOf
<1>5. /\ Runs(p, p[s[1].fun], cs[s[1].fun], ms[s[1].fun], s[1])
      /\ LoadsFirst(cs[s[1].fun])
  BY <1>1, <1>2, FitRuns
<1>6. IsSequence(shd) /\ Len(shd) > 0
  BY <1>3 DEF FramesFit
<1>7. Len(shd) \in Nat \ {0} /\ DOMAIN shd = 1 .. Len(shd)
  BY <1>6, SequenceDomain
<1>8. shd # <<>>
  BY <1>6, ShortSequences
<1> QED  BY <1>2, <1>3, <1>4, <1>5, <1>7, <1>8

\* Sizes of the frames of the calls after the innermost one went on.
SizesMove(p, cs, s, n, size2) ==
  /\ Len(size2) = Len(s) /\ size2[1] = n
  /\ \A a \in 2 .. Len(s) : size2[a] = SizesOf(p, cs, s)[a]

\* The innermost activation goes on and a frame comes or goes.
LEMMA TopMoves ==
  ASSUME NEW p, NEW cs, NEW ms, NEW s, NEW shd, RunFits(p, cs, ms, s, shd), s # <<>>,
         NEW act, act.fun = s[1].fun,
         ActivationFits(p[act.fun], cs[act.fun], ms[act.fun], act),
         NEW shd2, SlotsFit(shd2),
         \A size2 : SizesMove(p, cs, s, SizeOf(p, cs, act), size2) =>
                      FramesFit(size2, shd2, Len(p[Main].params)),
         FrameHolds(p[act.fun], cs[act.fun], act, shd2[1])
  PROVE  RunFits(p, cs, ms, Replaced(act, s), shd2)
<1> DEFINE t == Replaced(act, s)
<1>1. /\ IsInstrumented(p, cs, ms) /\ StackFits(p, cs, ms, s) /\ IsSequence(s)
      /\ Fits(p, cs, ms, s[1])
  BY StackParts DEF RunFits, StackFits
<1>2. /\ IsSequence(t) /\ Len(t) = Len(s) /\ Len(s) \in Nat \ {0}
      /\ t # <<>> /\ t[1] = act
      /\ \A a \in 2 .. Len(s) : t[a] = s[a]
  BY <1>1, ReplacedParts
<1>3. Fits(p, cs, ms, act)
  BY <1>1 DEF Fits
<1>4. StackFits(p, cs, ms, t)
  BY <1>1, <1>3, StackReplaced
<1> HIDE DEF t
<1>5. SizesMove(p, cs, s, SizeOf(p, cs, act), SizesOf(p, cs, t))
  <2>1. /\ Len(SizesOf(p, cs, t)) = Len(t)
        /\ \A a \in 1 .. Len(t) : SizesOf(p, cs, t)[a] = SizeOf(p, cs, t[a])
    BY <1>2, SizesList
  <2>2. \A a \in 1 .. Len(s) : SizesOf(p, cs, s)[a] = SizeOf(p, cs, s[a])
    BY <1>1, SizesList
  <2>3. 1 \in 1 .. Len(t) /\ \A a \in 2 .. Len(s) : a \in 1 .. Len(s)
    BY <1>2
  <2> QED  BY <1>2, <2>1, <2>2, <2>3 DEF SizesMove
<1>6. ShadowFits(p, cs, t, shd2)
  <2>1. FramesFit(SizesOf(p, cs, t), shd2, Len(p[Main].params))
    BY <1>5
  <2> QED  BY <1>2, <2>1 DEF ShadowFits
<1>7. RunFits(p, cs, ms, t, shd2)
  BY <1>1, <1>2, <1>4, <1>6, RunReached
<1> QED  BY <1>7 DEF t

\* The same where no frame came or went.
LEMMA TopMovesOn ==
  ASSUME NEW p, NEW cs, NEW ms, NEW s, NEW shd, RunFits(p, cs, ms, s, shd), s # <<>>,
         NEW act, act.fun = s[1].fun,
         ActivationFits(p[act.fun], cs[act.fun], ms[act.fun], act),
         SizeOf(p, cs, act) = SizeOf(p, cs, s[1]),
         NEW shd2, SlotsFit(shd2), Len(shd2) = Len(shd),
         \A d \in 1 .. Len(shd) : DOMAIN shd2[d] = DOMAIN shd[d],
         FrameHolds(p[act.fun], cs[act.fun], act, shd2[1])
  PROVE  RunFits(p, cs, ms, Replaced(act, s), shd2)
<1> DEFINE size == SizesOf(p, cs, s)
           last == Len(p[Main].params)
<1>1. /\ FramesFit(size, shd, last) /\ Len(size) = Len(s) /\ Len(s) \in Nat \ {0}
      /\ size[1] = SizeOf(p, cs, s[1])
  BY TopRuns DEF SizeOf
<1>2. IsSequence(shd2)
  BY DEF SlotsFit
<1> HIDE DEF last
<1>3. ASSUME NEW size2, SizesMove(p, cs, s, SizeOf(p, cs, act), size2)
      PROVE  FramesFit(size2, shd2, last)
  <2>1. Len(size2) = Len(size) /\ \A a \in 2 .. Len(size) : size2[a] = size[a]
    BY <1>1, <1>3 DEF SizesMove
  <2>2. size2[1] = size[1]
    BY <1>1, <1>3 DEF SizesMove
  <2> HIDE DEF size
  <2>3. \A a \in 1 .. Len(size) : a = 1 \/ a \in 2 .. Len(size)
    BY <1>1
  <2>4. \A a \in 1 .. Len(size) : size2[a] = size[a]
    BY <2>1, <2>2, <2>3
  <2> QED  BY <1>1, <1>2, <2>1, <2>4, FramesStay
<1>4. \A size2 : SizesMove(p, cs, s, SizeOf(p, cs, act), size2) =>
                   FramesFit(size2, shd2, Len(p[Main].params))
  BY <1>3 DEF last
<1> QED  BY <1>4, TopMoves

-----------------------------------------------------------------------------
(* The inserted code that is executed next                                  *)

ItemIs(cs, s, x, op) ==
  /\ s # <<>>
  /\ HasItem(cs[s[1].fun], s[1])
  /\ x = NextItem(cs[s[1].fun], s[1]) /\ x.op = op

\* The innermost activation behind it.
MovedOn(act, wit) == Moved(act, act.at, act.done + 1, act.val, wit)

\* An activation behind the next item.
LEMMA MovedParts ==
  ASSUME NEW act, NEW i, NEW n, NEW val, NEW wit
  PROVE  LET act2 == Moved(act, i, n, val, wit) IN
         act2.fun = act.fun /\ act2.at = i /\ act2.done = n
BY DEF Moved

\* A frame is allocated.
LEMMA AllocateKeeps ==
  ASSUME NEW p, NEW cs, NEW ms, NEW s, NEW shd, RunFits(p, cs, ms, s, shd),
         NEW x, ItemIs(cs, s, x, "alloc")
  PROVE  RunFits(p, cs, ms, Replaced(MovedOn(s[1], s[1].wit), s),
                 <<[slot \in 0 .. x.size - 1 |-> Stale]>> \o shd)
<1> DEFINE top == s[1]
           F == p[top.fun]
           c == cs[top.fun]
           m == ms[top.fun]
           act == MovedOn(top, top.wit)
           fr == [slot \in 0 .. x.size - 1 |-> Stale]
           shd2 == <<fr>> \o shd
           size == SizesOf(p, cs, s)
           last == Len(p[Main].params)
<1>1. s # <<>> /\ HasItem(c, top) /\ x = NextItem(c, top) /\ x.op = "alloc"
  BY DEF ItemIs
<1>2. /\ Runs(p, F, c, m, top) /\ FramesFit(size, shd, last)
      /\ Len(size) = Len(s) /\ Len(s) \in Nat \ {0} /\ size[1] = OpenSize(F, c, top)
      /\ Len(shd) \in Nat \ {0} /\ DOMAIN shd = 1 .. Len(shd)
  BY <1>1, TopRuns
<1>3. act.fun = top.fun /\ act.at = top.at /\ act.done = top.done + 1
  BY MovedParts DEF MovedOn
<1>4. ActivationFits(F, c, m, act)
  <2>1. NextItem(c, top).op \notin Fills
    BY <1>1 DEF Fills
  <2> QED  BY <1>1, <1>2, <2>1, PlainFits DEF MovedOn
<1>5. OpenSize(F, c, top) = 0 /\ OpenSize(F, c, act) = x.size /\ x.size # 0
  BY <1>1, <1>2, <1>3, SizeAllocated
<1>6. FrameHolds(F, c, act, fr)
  BY <1>1, <1>2, OtherFrameHolds DEF MovedOn
<1> HIDE DEF act, fr, last, size
<1>7. ASSUME NEW size2, SizesMove(p, cs, s, SizeOf(p, cs, act), size2)
      PROVE  FramesFit(size2, shd2, last)
  <2>1. /\ Len(size2) = Len(size) /\ size2[1] = x.size
        /\ \A a \in 2 .. Len(size) : size2[a] = size[a]
    BY <1>2, <1>3, <1>5, <1>7 DEF SizesMove, SizeOf, size
  <2>2. DOMAIN fr = 0 .. size2[1] - 1
    BY <2>1 DEF fr
  <2> QED  BY <1>2, <1>5, <2>1, <2>2, FramesPush
<1>8. IsSequence(shd)
  BY DEF RunFits, SlotsFit
<1>9. /\ IsSequence(shd2) /\ shd2[1] = fr /\ DOMAIN shd2 = 1 .. Len(shd) + 1
      /\ \A k \in 2 .. Len(shd) + 1 : k - 1 \in 1 .. Len(shd) /\ shd2[k] = shd[k - 1]
  BY <1>8, Pushed
<1> HIDE DEF shd2
<1>10. SlotsFit(shd2)
  <2>1. \A slot \in DOMAIN fr : fr[slot] \in Object \cup {Stale}
    BY DEF fr
  <2>2. \A d \in DOMAIN shd : \A slot \in DOMAIN shd[d] : shd[d][slot] \in Object \cup {Stale}
    BY DEF RunFits, SlotsFit
  <2>3. \A d \in DOMAIN shd2 : d = 1 \/ d \in 2 .. Len(shd) + 1
    BY <1>2, <1>9
  <2> QED  BY <1>2, <1>9, <2>1, <2>2, <2>3 DEF SlotsFit
<1>11. FrameHolds(p[act.fun], cs[act.fun], act, shd2[1])
  BY <1>3, <1>6, <1>9
<1>12. \A size2 : SizesMove(p, cs, s, SizeOf(p, cs, act), size2) =>
                    FramesFit(size2, shd2, Len(p[Main].params))
  BY <1>7 DEF last
<1>13. RunFits(p, cs, ms, Replaced(act, s), shd2)
  BY <1>1, <1>3, <1>4, <1>10, <1>11, <1>12, TopMoves
<1> QED  BY <1>13 DEF shd2, fr, act

\* A frame is deallocated.
LEMMA DeallocateKeeps ==
  ASSUME NEW p, NEW cs, NEW ms, NEW s, NEW shd, RunFits(p, cs, ms, s, shd),
         NEW x, ItemIs(cs, s, x, "dealloc")
  PROVE  RunFits(p, cs, ms, Replaced(MovedOn(s[1], s[1].wit), s), Tail(shd))
<1> DEFINE top == s[1]
           F == p[top.fun]
           c == cs[top.fun]
           m == ms[top.fun]
           act == MovedOn(top, top.wit)
           shd2 == Tail(shd)
           size == SizesOf(p, cs, s)
           last == Len(p[Main].params)
<1>1. s # <<>> /\ HasItem(c, top) /\ x = NextItem(c, top) /\ x.op = "dealloc"
  BY DEF ItemIs
<1>2. /\ Runs(p, F, c, m, top) /\ FramesFit(size, shd, last)
      /\ Len(size) = Len(s) /\ Len(s) \in Nat \ {0} /\ size[1] = OpenSize(F, c, top)
      /\ Len(shd) \in Nat \ {0} /\ DOMAIN shd = 1 .. Len(shd) /\ shd # <<>>
  BY <1>1, TopRuns
<1>3. act.fun = top.fun /\ act.at = top.at /\ act.done = top.done + 1
  BY MovedParts DEF MovedOn
<1>4. ActivationFits(F, c, m, act)
  <2>1. NextItem(c, top).op \notin Fills
    BY <1>1 DEF Fills
  <2> QED  BY <1>1, <1>2, <2>1, PlainFits DEF MovedOn
<1>5. OpenSize(F, c, top) # 0 /\ OpenSize(F, c, act) = 0
  BY <1>1, <1>2, <1>3, SizeDeallocated
<1>6. FrameHolds(F, c, act, shd2[1])
  BY <1>1, <1>2, OtherFrameHolds DEF MovedOn
<1> HIDE DEF act, last, size
<1>7. ASSUME NEW size2, SizesMove(p, cs, s, SizeOf(p, cs, act), size2)
      PROVE  FramesFit(size2, shd2, last)
  <2>1. /\ Len(size2) = Len(size) /\ size2[1] = 0
        /\ \A a \in 2 .. Len(size) : size2[a] = size[a]
    BY <1>2, <1>3, <1>5, <1>7 DEF SizesMove, SizeOf, size
  <2> QED  BY <1>2, <1>5, <2>1, FramesPop
<1>8. IsSequence(shd)
  BY DEF RunFits, SlotsFit
<1>9. /\ IsSequence(shd2) /\ DOMAIN shd2 = 1 .. Len(shd) - 1
      /\ \A k \in 1 .. Len(shd) - 1 : shd2[k] = shd[k + 1]
  BY <1>2, <1>8, Popped
<1> HIDE DEF shd2
<1>10. SlotsFit(shd2)
  <2>1. \A d \in DOMAIN shd : \A slot \in DOMAIN shd[d] : shd[d][slot] \in Object \cup {Stale}
    BY DEF RunFits, SlotsFit
  <2>2. \A d \in 1 .. Len(shd) - 1 : d + 1 \in DOMAIN shd
    BY <1>2
  <2> QED  BY <1>9, <2>1, <2>2 DEF SlotsFit
<1>11. FrameHolds(p[act.fun], cs[act.fun], act, shd2[1])
  BY <1>3, <1>6
<1>12. \A size2 : SizesMove(p, cs, s, SizeOf(p, cs, act), size2) =>
                    FramesFit(size2, shd2, Len(p[Main].params))
  BY <1>7 DEF last
<1>13. RunFits(p, cs, ms, Replaced(act, s), shd2)
  BY <1>1, <1>3, <1>4, <1>10, <1>11, <1>12, TopMoves
<1> QED  BY <1>13 DEF shd2, act

\* A slot of the innermost frame gets other bounds.
Written(shd, slot, bounds) == [shd EXCEPT ![1] = [@ EXCEPT ![slot] = bounds]]

\* Nothing else changes.
OnlyWritten(shd, shd2, slot, bounds) ==
  /\ SlotsFit(shd2) /\ Len(shd2) = Len(shd)
  /\ \A d \in 1 .. Len(shd) : DOMAIN shd2[d] = DOMAIN shd[d]
  /\ shd2[1] = [shd[1] EXCEPT ![slot] = bounds]

\* One slot of the innermost frame is written.
LEMMA WrittenParts ==
  ASSUME NEW shd, SlotsFit(shd), shd # <<>>, NEW slot, NEW bounds \in Object
  PROVE  OnlyWritten(shd, Written(shd, slot, bounds), slot, bounds)
<1> DEFINE shd2 == Written(shd, slot, bounds)
           n == Len(shd)
<1>1. IsSequence(shd) /\ n \in Nat \ {0} /\ DOMAIN shd = 1 .. n
  BY Popped DEF SlotsFit
<1>2. DOMAIN shd2 = 1 .. n /\ shd2 = [d \in 1 .. n |-> shd2[d]]
  BY <1>1 DEF Written
<1>3. 1 \in DOMAIN shd
  BY <1>1
<1>4. shd2[1] = [shd[1] EXCEPT ![slot] = bounds]
  BY <1>3 DEF Written
<1>5. \A d \in DOMAIN shd : d # 1 => shd2[d] = shd[d]
  BY DEF Written
<1> HIDE DEF shd2
<1>6. IsSequence(shd2) /\ Len(shd2) = n
  BY <1>1, <1>2, FunctionIsSequence
<1>7. \A d \in DOMAIN shd2 : DOMAIN shd2[d] = DOMAIN shd[d]
  BY <1>1, <1>2, <1>4, <1>5
<1>8. \A d \in DOMAIN shd2 : \A l \in DOMAIN shd2[d] : shd2[d][l] \in Object \cup {Stale}
  <2> SUFFICES ASSUME NEW d \in DOMAIN shd2, NEW l \in DOMAIN shd2[d]
               PROVE  shd2[d][l] \in Object \cup {Stale}
    OBVIOUS
  <2>1. d \in DOMAIN shd /\ l \in DOMAIN shd[d]
    BY <1>1, <1>2, <1>7
  <2>2. shd[d][l] \in Object \cup {Stale}
    BY <2>1 DEF SlotsFit
  <2>3. CASE d = 1 /\ l = slot
    BY <1>4, <2>1, <2>3
  <2>4. CASE d = 1 /\ l # slot
    BY <1>4, <2>1, <2>2, <2>4
  <2>5. CASE d # 1
    BY <1>5, <2>1, <2>2, <2>5
  <2> QED  BY <2>3, <2>4, <2>5
<1> QED  BY <1>2, <1>4, <1>6, <1>7, <1>8 DEF SlotsFit, shd2, OnlyWritten

\* Where a store goes, there is a slot.
LEMMA StoreSlot ==
  ASSUME NEW p, NEW cs, NEW ms, NEW s, NEW shd, RunFits(p, cs, ms, s, shd),
         NEW x, ItemIs(cs, s, x, "store")
  PROVE  shd # <<>> /\ x.slot \in DOMAIN shd[1] /\ BoundsIn(s[1], x.reg) \in Object
<1> DEFINE top == s[1]
           F == p[top.fun]
           c == cs[top.fun]
           m == ms[top.fun]
           size == SizesOf(p, cs, s)
           last == Len(p[Main].params)
           ins == F.body[top.at]
<1>names. /\ s[1] = top /\ p[top.fun] = F /\ cs[top.fun] = c /\ ms[top.fun] = m
          /\ SizesOf(p, cs, s) = size /\ Len(p[Main].params) = last /\ F.body[top.at] = ins
  OBVIOUS
<1> HIDE DEF top, F, c, m, size, last, ins
<1>1. s # <<>> /\ HasItem(c, top) /\ NextItem(c, top) = x /\ x.op = "store"
  BY <1>names DEF ItemIs
<1>2. /\ Runs(p, F, c, m, top) /\ FramesFit(size, shd, last)
      /\ Len(size) = Len(s) /\ Len(s) \in Nat \ {0} /\ size[1] = OpenSize(F, c, top)
      /\ shd # <<>>
  BY <1>names, <1>1, TopRuns
<1>3. StoreFits(F, c, top)
  BY <1>1, <1>2, StoreRight
<1>4. BoundsIn(top, x.reg) \in Object
  BY <1>1, <1>3 DEF StoreFits
<1>5. CASE ins.op = "call"
  <2>1. /\ FrameSize(ins) # 0 /\ size[1] = FrameSize(ins)
        /\ x.slot \in 0 .. FrameSize(ins) - 1
    BY <1>names, <1>1, <1>2, <1>3, <1>5 DEF StoreFits
  <2> HIDE DEF size, last
  <2>2. 1 \in 1 .. Len(size) /\ size[1] # 0 /\ \A b \in 1 .. 1 - 1 : size[b] = 0
    BY <1>2, <2>1
  <2>3. DOMAIN shd[1] = 0 .. size[1] - 1
    BY <1>2, <2>2, TopFrame
  <2> QED  BY <1>names, <1>2, <1>4, <2>1, <2>3
<1>6. CASE ins.op # "call"
  <2>1. /\ ins.op = "ret" /\ size[1] = 0 /\ NumberOfPointers(F.ret) # 0
        /\ x.slot \in 0 .. NumberOfPointers(F.ret) - 1
    BY <1>names, <1>1, <1>2, <1>3, <1>6 DEF StoreFits
  <2>2. IsInstrumented(p, cs, ms) /\ StackFits(p, cs, ms, s) /\ IsSequence(s)
    BY DEF RunFits, StackFits
  <2>3. Len(s) # 1
    <3>1. SUFFICES ASSUME Len(s) = 1  PROVE FALSE
      OBVIOUS
    <3>2. top.fun = Main
      BY <1>names, <1>1, <2>2, <3>1 DEF StackFits
    <3>3. p \in Programs
      BY <2>2 DEF IsInstrumented
    <3>4. NumberOfPointers(p[Main].ret) = 0
      BY <3>3, ProgramAssumption
    <3> QED  BY <1>names, <2>1, <3>2, <3>4
  <2>4. /\ Waits(p, cs, s[2], top.fun) /\ Len(s) >= 2 /\ 2 \in 1 .. Len(s)
    <3>1. Waits(p, cs, s[2], s[1].fun) /\ Len(s) >= 2
      BY <1>1, <2>2, <2>3, StackPopped
    <3> QED  BY <1>names, <1>2, <3>1
  <2> DEFINE out == s[2]
             G == p[out.fun]
             call == G.body[out.at]
  <2>5. Fits(p, cs, ms, s[2])
    BY <2>2, <2>4 DEF StackFits
  <2> HIDE DEF out
  <2>6. Runs(p, G, cs[out.fun], ms[out.fun], out)
    BY <2>2, <2>5, FitRuns DEF out
  <2>7. call.op = "call" /\ call.fun = top.fun /\ out.done = Len(cs[out.fun][out.at])
    BY <2>4 DEF Waits, out
  <2>8. SizeOf(p, cs, out) = FrameSize(call)
    <3>1. OpenSize(G, cs[out.fun], out) = FrameOf(G, out.at)
      BY <2>6, <2>7, SizeAtEnd
    <3> QED  BY <2>7, <3>1 DEF FrameOf, SizeOf
  <2>9. /\ FrameSize(call) \in Nat /\ NumberOfPointers(F.ret) <= FrameSize(call)
        /\ NumberOfPointers(F.ret) \in Nat
    <3>1. out.at \in DOMAIN G.body /\ WellFormed(p) /\ IsFunction(p, G)
      BY <2>6, RunsParts DEF Runs
    <3>2. /\ FrameSize(call) \in Nat
          /\ NumberOfPointers(call.ret) <= FrameSize(call)
      BY <2>7, <3>1, CallSlots
    <3>3. call.ret = p[call.fun].ret /\ IsType(call.ret)
      BY <2>7, <3>1, CallInstruction
    <3>4. call.ret = F.ret /\ NumberOfPointers(call.ret) \in Nat
      BY <1>names, <2>7, <3>3, TypesList
    <3> QED  BY <3>2, <3>4
  <2>10. size[2] = FrameSize(call)
    BY <1>names, <2>2, <2>4, <2>8, SizesList DEF out
  <2> HIDE DEF size, last, call
  <2>11. /\ 2 \in 1 .. Len(size) /\ size[2] # 0
         /\ \A b \in 1 .. 2 - 1 : size[b] = 0
    BY <1>2, <2>1, <2>4, <2>9, <2>10
  <2>12. DOMAIN shd[1] = 0 .. size[2] - 1
    BY <1>2, <2>11, TopFrame
  <2>13. x.slot \in 0 .. size[2] - 1
    BY <2>1, <2>9, <2>10
  <2> QED  BY <1>names, <1>2, <1>4, <2>12, <2>13
<1> QED  BY <1>5, <1>6

\* A slot is stored.
LEMMA StoreKeeps ==
  ASSUME NEW p, NEW cs, NEW ms, NEW s, NEW shd, RunFits(p, cs, ms, s, shd),
         NEW x, ItemIs(cs, s, x, "store")
  PROVE  RunFits(p, cs, ms, Replaced(MovedOn(s[1], s[1].wit), s),
                 Written(shd, x.slot, BoundsIn(s[1], x.reg)))
<1> DEFINE top == s[1]
           F == p[top.fun]
           c == cs[top.fun]
           m == ms[top.fun]
           act == MovedOn(top, top.wit)
           shd2 == Written(shd, x.slot, BoundsIn(top, x.reg))
<1>1. s # <<>> /\ HasItem(c, top) /\ x = NextItem(c, top) /\ x.op = "store"
  BY DEF ItemIs
<1>2. /\ Runs(p, F, c, m, top) /\ FrameHolds(F, c, top, shd[1]) /\ top.done \in Nat
  BY <1>1, TopRuns, NextItemIs
<1>3. act.fun = top.fun /\ act.at = top.at /\ act.done = top.done + 1
  BY MovedParts DEF MovedOn
<1>4. ActivationFits(F, c, m, act)
  <2>1. NextItem(c, top).op \notin Fills
    BY <1>1 DEF Fills
  <2> QED  BY <1>1, <1>2, <2>1, PlainFits DEF MovedOn
<1>5. shd # <<>> /\ x.slot \in DOMAIN shd[1] /\ BoundsIn(top, x.reg) \in Object
  BY StoreSlot
<1>6. FrameHolds(F, c, act, [shd[1] EXCEPT ![x.slot] = BoundsIn(top, x.reg)])
  BY <1>1, <1>2, <1>5, StoreHolds DEF MovedOn
<1>7. SizeOf(p, cs, act) = SizeOf(p, cs, top)
  <2>1. OpenSize(F, c, act) = OpenSize(F, c, top)
    BY <1>1, <1>2, <1>3, SizeStays
  <2> QED  BY <1>3, <2>1 DEF SizeOf
<1>8. SlotsFit(shd)
  BY DEF RunFits
<1>9. /\ SlotsFit(shd2) /\ Len(shd2) = Len(shd)
      /\ \A d \in 1 .. Len(shd) : DOMAIN shd2[d] = DOMAIN shd[d]
      /\ shd2[1] = [shd[1] EXCEPT ![x.slot] = BoundsIn(top, x.reg)]
  <2>1. OnlyWritten(shd, shd2, x.slot, BoundsIn(top, x.reg))
    BY <1>5, <1>8, WrittenParts
  <2> QED  BY <2>1 DEF OnlyWritten
<1> HIDE DEF act, shd2
<1>10. FrameHolds(p[act.fun], cs[act.fun], act, shd2[1])
  BY <1>3, <1>6, <1>9
<1>11. RunFits(p, cs, ms, Replaced(act, s), shd2)
  BY <1>1, <1>3, <1>4, <1>7, <1>9, <1>10, TopMovesOn
<1> QED  BY <1>11 DEF act, shd2

\* A register is filled with the right bounds.
LEMMA FillKeeps ==
  ASSUME NEW p, NEW cs, NEW ms, NEW s, NEW shd, RunFits(p, cs, ms, s, shd), s # <<>>,
         NEW top, s[1] = top, NEW F, p[top.fun] = F, NEW c, cs[top.fun] = c,
         HasItem(c, top), NEW x, NextItem(c, top) = x, x.op \in Fills,
         NEW r, x.reg = r, r.of.kind \in {"arg", "inst"}, NEW b,
         IF Available(top, r.of) THEN b = Element(top, r)
         ELSE /\ r.of = Inst(top.at) /\ F.body[top.at].op = "select"
              /\ b = ValueOf(top, Chosen(F.body[top.at], top.cond))[r.k]
  PROVE  RunFits(p, cs, ms, Replaced(MovedOn(top, Updated(top.wit, r, b)), s), shd)
<1> DEFINE m == ms[top.fun]
           act == MovedOn(top, Updated(top.wit, r, b))
<1>1. /\ Runs(p, F, c, m, top) /\ FrameHolds(F, c, top, shd[1]) /\ top.done \in Nat
  BY TopRuns, NextItemIs
<1>2. act.fun = top.fun /\ act.at = top.at /\ act.done = top.done + 1
  BY MovedParts DEF MovedOn
<1>3. ActivationFits(F, c, m, act)
  BY <1>1, FillFits DEF MovedOn
<1>4. NextItem(c, top).op \in Fills
  OBVIOUS
<1>5. FrameHolds(F, c, act, shd[1])
  BY <1>1, <1>4, FillHolds DEF MovedOn
<1>6. SizeOf(p, cs, act) = SizeOf(p, cs, top)
  <2>1. OpenSize(F, c, act) = OpenSize(F, c, top)
    BY <1>1, <1>2, <1>4, SizeStays DEF Fills
  <2> QED  BY <1>2, <2>1 DEF SizeOf
<1>7. SlotsFit(shd)
  BY DEF RunFits
<1> HIDE DEF act
<1>8. FrameHolds(p[act.fun], cs[act.fun], act, shd[1])
  BY <1>2, <1>5
<1>9. RunFits(p, cs, ms, Replaced(act, s), shd)
  BY <1>2, <1>3, <1>6, <1>7, <1>8, TopMovesOn
<1> QED  BY <1>9 DEF act

\* What is loaded is there and is right.
LEMMA LoadSlot ==
  ASSUME NEW p, NEW cs, NEW ms, NEW s, NEW shd, RunFits(p, cs, ms, s, shd),
         NEW x, ItemIs(cs, s, x, "load")
  PROVE  /\ shd # <<>> /\ x.slot \in DOMAIN shd[1]
         /\ x.reg.of.kind \in {"arg", "inst"} /\ Available(s[1], x.reg.of)
         /\ shd[1][x.slot] = Element(s[1], x.reg)
<1> DEFINE top == s[1]
           F == p[top.fun]
           c == cs[top.fun]
           m == ms[top.fun]
<1>names. /\ s[1] = top /\ p[top.fun] = F /\ cs[top.fun] = c /\ ms[top.fun] = m
  OBVIOUS
<1> HIDE DEF top, F, c, m
<1>1. s # <<>> /\ HasItem(c, top) /\ NextItem(c, top) = x /\ x.op = "load"
  BY <1>names DEF ItemIs
<1>2. /\ Runs(p, F, c, m, top) /\ LoadsFirst(c) /\ FrameHolds(F, c, top, shd[1])
      /\ shd # <<>>
  BY <1>names, <1>1, TopRuns
<1> QED  BY <1>names, <1>1, <1>2, LoadRight

\* A slot is loaded.
LEMMA LoadKeeps ==
  ASSUME NEW p, NEW cs, NEW ms, NEW s, NEW shd, RunFits(p, cs, ms, s, shd),
         NEW x, ItemIs(cs, s, x, "load")
  PROVE  RunFits(p, cs, ms,
                 Replaced(MovedOn(s[1], Updated(s[1].wit, x.reg, shd[1][x.slot])), s), shd)
<1> DEFINE top == s[1]
           F == p[top.fun]
           c == cs[top.fun]
           r == x.reg
           b == shd[1][x.slot]
<1>names. /\ s[1] = top /\ p[top.fun] = F /\ cs[top.fun] = c /\ x.reg = r
          /\ shd[1][x.slot] = b
  OBVIOUS
<1> HIDE DEF top, F, c, r, b
<1>1. r.of.kind \in {"arg", "inst"} /\ Available(top, r.of) /\ b = Element(top, r)
  BY <1>names, LoadSlot
<1>2. s # <<>> /\ HasItem(c, top) /\ NextItem(c, top) = x /\ x.op \in Fills
  BY <1>names DEF ItemIs, Fills
<1>3. RunFits(p, cs, ms, Replaced(MovedOn(top, Updated(top.wit, r, b)), s), shd)
  BY <1>names, <1>1, <1>2, FillKeeps
<1> QED  BY <1>names, <1>3

\* Bounds are chosen.
LEMMA ChoiceKeeps ==
  ASSUME NEW p, NEW cs, NEW ms, NEW s, NEW shd, RunFits(p, cs, ms, s, shd),
         NEW x, ItemIs(cs, s, x, "choice")
  PROVE  LET b == BoundsIn(s[1], IF s[1].cond THEN x.yes ELSE x.no) IN
         RunFits(p, cs, ms, Replaced(MovedOn(s[1], Updated(s[1].wit, x.reg, b)), s), shd)
<1> DEFINE top == s[1]
           F == p[top.fun]
           c == cs[top.fun]
           m == ms[top.fun]
           r == x.reg
           b == BoundsIn(top, IF top.cond THEN x.yes ELSE x.no)
<1>names. /\ s[1] = top /\ p[top.fun] = F /\ cs[top.fun] = c /\ ms[top.fun] = m
          /\ x.reg = r /\ BoundsIn(top, IF top.cond THEN x.yes ELSE x.no) = b
  OBVIOUS
<1> HIDE DEF top, F, c, m, r, b
<1>1. s # <<>> /\ HasItem(c, top) /\ NextItem(c, top) = x /\ x.op = "choice"
  BY <1>names DEF ItemIs
<1>2. Runs(p, F, c, m, top)
  BY <1>names, <1>1, TopRuns
<1>3. /\ r.of = Inst(top.at) /\ F.body[top.at].op = "select"
      /\ ~Available(top, r.of)
      /\ b = ValueOf(top, Chosen(F.body[top.at], top.cond))[r.k]
  BY <1>names, <1>1, <1>2, ChoiceRight
<1>4. r.of.kind \in {"arg", "inst"} /\ x.op \in Fills
  BY <1>1, <1>3, Kinds DEF Fills
<1> HIDE DEF b
<1>5. RunFits(p, cs, ms, Replaced(MovedOn(top, Updated(top.wit, r, b)), s), shd)
  BY <1>names, <1>1, <1>3, <1>4, FillKeeps
<1> QED  BY <1>names, <1>5 DEF b

-----------------------------------------------------------------------------
(* The instruction that is executed next                                    *)

InstructionIs(p, cs, s, ins, op) ==
  /\ s # <<>>
  /\ s[1].done = Len(cs[s[1].fun][s[1].at])
  /\ ins = p[s[1].fun].body[s[1].at] /\ ins.op = op

\* The activation behind it, with or without a result.
MovedToNext(act) == Moved(act, act.at + 1, 0, act.val, act.wit)
MovedWith(act, elems) == Moved(act, act.at + 1, 0, Updated(act.val, act.at, elems), act.wit)

\* No call was executed.
LEMMA AdvanceKeeps ==
  ASSUME NEW p, NEW cs, NEW ms, NEW s, NEW shd, RunFits(p, cs, ms, s, shd), s # <<>>,
         s[1].done = Len(cs[s[1].fun][s[1].at]),
         p[s[1].fun].body[s[1].at].op # "call",
         NEW act, act.fun = s[1].fun, act.at \in Int, act.at > 1, act.done = 0,
         p[act.fun].body[act.at - 1].op # "call",
         ActivationFits(p[act.fun], cs[act.fun], ms[act.fun], act)
  PROVE  RunFits(p, cs, ms, Replaced(act, s), shd)
<1> DEFINE top == s[1]
           F == p[top.fun]
           c == cs[top.fun]
<1>names. /\ s[1] = top /\ p[top.fun] = F /\ cs[top.fun] = c
  OBVIOUS
<1> HIDE DEF top, F, c
<1>1. Runs(p, F, c, ms[top.fun], top)
  BY <1>names, TopRuns
<1>2. OpenSize(F, c, top) = 0
  <2>1. OpenSize(F, c, top) = FrameOf(F, top.at)
    BY <1>names, <1>1, SizeAtEnd
  <2> QED  BY <1>names, <2>1 DEF FrameOf
<1>3. OpenSize(F, c, act) = 0
  <2>1. OpenSize(F, c, act) = FrameOf(F, act.at - 1)
    BY SizeBehind
  <2> QED  BY <1>names, <2>1 DEF FrameOf
<1>4. SizeOf(p, cs, act) = SizeOf(p, cs, top)
  BY <1>names, <1>2, <1>3 DEF SizeOf
<1>5. FrameHolds(F, c, act, shd[1])
  BY <1>names, NextHolds
<1>6. FrameHolds(p[act.fun], cs[act.fun], act, shd[1])
  BY <1>names, <1>5
<1>7. SlotsFit(shd)
  BY DEF RunFits
<1> QED  BY <1>names, <1>4, <1>6, <1>7, TopMovesOn

\* An access, or a branch that is not taken.
LEMMA NextKeeps ==
  ASSUME NEW p, NEW cs, NEW ms, NEW s, NEW shd, RunFits(p, cs, ms, s, shd),
         NEW ins, InstructionIs(p, cs, s, ins, "access") \/ InstructionIs(p, cs, s, ins, "br")
  PROVE  RunFits(p, cs, ms, Replaced(MovedToNext(s[1]), s), shd)
<1> DEFINE top == s[1]
           F == p[top.fun]
           c == cs[top.fun]
           m == ms[top.fun]
           act == MovedToNext(top)
<1>names. /\ s[1] = top /\ p[top.fun] = F /\ cs[top.fun] = c /\ ms[top.fun] = m
          /\ MovedToNext(top) = act
  OBVIOUS
<1> HIDE DEF top, F, c, m, act
<1>1. /\ s # <<>> /\ top.done = Len(c[top.at]) /\ F.body[top.at].op \in {"access", "br"}
  BY <1>names DEF InstructionIs
<1>2. Runs(p, F, c, m, top)
  BY <1>names, <1>1, TopRuns
<1>3. top.at \in Int /\ top.at >= 1
  BY <1>2, RunsParts
<1>4. ActivationFits(F, c, m, act)
  BY <1>names, <1>1, <1>2, NextFits DEF MovedToNext
<1>5. act.fun = top.fun /\ act.at = top.at + 1 /\ act.done = 0
  BY <1>names, MovedParts DEF MovedToNext
<1> HIDE DEF act
<1>6. act.at \in Int /\ act.at > 1 /\ act.at - 1 = top.at
  BY <1>3, <1>5
<1>7. RunFits(p, cs, ms, Replaced(act, s), shd)
  BY <1>names, <1>1, <1>4, <1>5, <1>6, AdvanceKeeps
<1> QED  BY <1>names, <1>7 DEF act

\* A branch that is taken.
LEMMA BranchKeeps ==
  ASSUME NEW p, NEW cs, NEW ms, NEW s, NEW shd, RunFits(p, cs, ms, s, shd),
         NEW ins, InstructionIs(p, cs, s, ins, "br")
  PROVE  LET next == NextReturn(p[s[1].fun], s[1].at) IN
         RunFits(p, cs, ms, Replaced(Moved(s[1], next + 1, 0, s[1].val, s[1].wit), s), shd)
<1> DEFINE top == s[1]
           F == p[top.fun]
           c == cs[top.fun]
           m == ms[top.fun]
           next == NextReturn(F, top.at)
           act == Moved(top, next + 1, 0, top.val, top.wit)
<1>names. /\ s[1] = top /\ p[top.fun] = F /\ cs[top.fun] = c /\ ms[top.fun] = m
          /\ NextReturn(F, top.at) = next
          /\ Moved(top, next + 1, 0, top.val, top.wit) = act
  OBVIOUS
<1> HIDE DEF top, F, c, m, next, act
<1>1. s # <<>> /\ top.done = Len(c[top.at]) /\ F.body[top.at].op = "br"
  BY <1>names DEF InstructionIs
<1>2. Runs(p, F, c, m, top)
  BY <1>names, <1>1, TopRuns
<1>3. /\ next \in DOMAIN F.body /\ F.body[next].op = "ret"
      /\ ActivationFits(F, c, m, act)
  <2> HIDE DEF F, c, m, top
  <2>1. next \in DOMAIN F.body
    BY <1>names, <1>1, <1>2, BranchFits
  <2>2. F.body[next].op = "ret"
    BY <1>names, <1>1, <1>2, BranchFits
  <2>3. ActivationFits(F, c, m, act)
    BY <1>names, <1>1, <1>2, BranchFits
  <2> QED  BY <2>1, <2>2, <2>3
<1>4. DOMAIN F.body = 1 .. Len(F.body) /\ Len(F.body) \in Nat
  BY <1>2, RunsParts
<1>5. act.fun = top.fun /\ act.at = next + 1 /\ act.done = 0
  BY <1>names, MovedParts
<1> HIDE DEF act, next
<1>6. act.at \in Int /\ act.at > 1 /\ act.at - 1 = next
  BY <1>3, <1>4, <1>5
<1>7. RunFits(p, cs, ms, Replaced(act, s), shd)
  BY <1>names, <1>1, <1>3, <1>5, <1>6, AdvanceKeeps
<1> QED  BY <1>names, <1>7 DEF act, next

\* A result that is no call's.
LEMMA ResultKeeps ==
  ASSUME NEW p, NEW cs, NEW ms, NEW s, NEW shd, RunFits(p, cs, ms, s, shd),
         NEW ins, NEW op \in {"select", "extract", "insert"}, InstructionIs(p, cs, s, ins, op),
         NEW elems, IsResult(p[s[1].fun], ms[s[1].fun], s[1], elems)
  PROVE  RunFits(p, cs, ms, Replaced(MovedWith(s[1], elems), s), shd)
<1> DEFINE top == s[1]
           F == p[top.fun]
           c == cs[top.fun]
           m == ms[top.fun]
           act == MovedWith(top, elems)
<1>names. /\ s[1] = top /\ p[top.fun] = F /\ cs[top.fun] = c /\ ms[top.fun] = m
          /\ MovedWith(top, elems) = act
  OBVIOUS
<1> HIDE DEF top, F, c, m, act
<1>1. s # <<>> /\ top.done = Len(c[top.at]) /\ F.body[top.at].op = op
  BY <1>names DEF InstructionIs
<1>2. Runs(p, F, c, m, top)
  BY <1>names, <1>1, TopRuns
<1>3. top.at \in Int /\ top.at >= 1
  BY <1>2, RunsParts
<1>4. ActivationFits(F, c, m, act)
  BY <1>names, <1>1, <1>2, ResultFits DEF MovedWith
<1>5. act.fun = top.fun /\ act.at = top.at + 1 /\ act.done = 0
  BY <1>names, MovedParts DEF MovedWith
<1> HIDE DEF act
<1>6. act.at \in Int /\ act.at > 1 /\ act.at - 1 = top.at
  BY <1>3, <1>5
<1>7. RunFits(p, cs, ms, Replaced(act, s), shd)
  BY <1>names, <1>1, <1>4, <1>5, <1>6, AdvanceKeeps
<1> QED  BY <1>names, <1>7 DEF act

\* A select is executed.
LEMMA SelectKeeps ==
  ASSUME NEW p, NEW cs, NEW ms, NEW s, NEW shd, RunFits(p, cs, ms, s, shd),
         NEW ins, InstructionIs(p, cs, s, ins, "select")
  PROVE  RunFits(p, cs, ms,
                 Replaced(MovedWith(s[1], ValueOf(s[1], Chosen(ins, s[1].cond))), s), shd)
<1>1. /\ s # <<>> /\ ins = p[s[1].fun].body[s[1].at] /\ ins.op = "select"
  BY DEF InstructionIs
<1>2. Runs(p, p[s[1].fun], cs[s[1].fun], ms[s[1].fun], s[1])
  BY <1>1, TopRuns
<1>3. IsResult(p[s[1].fun], ms[s[1].fun], s[1], ValueOf(s[1], Chosen(ins, s[1].cond)))
  BY <1>1, <1>2, SelectResult
<1> QED  BY <1>3, ResultKeeps

\* extractvalue is executed.
LEMMA ExtractKeeps ==
  ASSUME NEW p, NEW cs, NEW ms, NEW s, NEW shd, RunFits(p, cs, ms, s, shd),
         NEW ins, InstructionIs(p, cs, s, ins, "extract")
  PROVE  RunFits(p, cs, ms,
                 Replaced(MovedWith(s[1], <<ValueOf(s[1], ins.val)[ins.k]>>), s), shd)
<1>1. /\ s # <<>> /\ ins = p[s[1].fun].body[s[1].at] /\ ins.op = "extract"
  BY DEF InstructionIs
<1>2. Runs(p, p[s[1].fun], cs[s[1].fun], ms[s[1].fun], s[1])
  BY <1>1, TopRuns
<1>3. IsResult(p[s[1].fun], ms[s[1].fun], s[1], <<ValueOf(s[1], ins.val)[ins.k]>>)
  BY <1>1, <1>2, ExtractResult
<1> QED  BY <1>3, ResultKeeps

\* insertvalue is executed.
LEMMA InsertValueKeeps ==
  ASSUME NEW p, NEW cs, NEW ms, NEW s, NEW shd, RunFits(p, cs, ms, s, shd),
         NEW ins, InstructionIs(p, cs, s, ins, "insert")
  PROVE  RunFits(p, cs, ms,
                 Replaced(MovedWith(s[1], [InsertedInto(s[1], ins) EXCEPT
                                             ![ins.k] = ValueOf(s[1], ins.val)[1]]), s), shd)
<1>1. /\ s # <<>> /\ ins = p[s[1].fun].body[s[1].at] /\ ins.op = "insert"
  BY DEF InstructionIs
<1>2. Runs(p, p[s[1].fun], cs[s[1].fun], ms[s[1].fun], s[1])
  BY <1>1, TopRuns
<1>3. IsResult(p[s[1].fun], ms[s[1].fun], s[1],
               [InsertedInto(s[1], ins) EXCEPT ![ins.k] = ValueOf(s[1], ins.val)[1]])
  BY <1>1, <1>2, InsertResult
<1> QED  BY <1>3, ResultKeeps

\* A call of a function of the program.
IsCallOf(p, F, i, call, G) ==
  /\ WellFormed(p) /\ IsFunction(p, F) /\ i \in DOMAIN F.body
  /\ F.body[i] = call /\ call.op = "call" /\ p[call.fun] = G

\* What is returned is what the function returns, and the frame holds it.
LEMMA CallParts ==
  ASSUME NEW p, NEW F, NEW i, NEW call, NEW G, IsCallOf(p, F, i, call, G)
  PROVE  /\ call.fun \in Function /\ IsFunction(p, G) /\ call.ret = G.ret
         /\ DOMAIN call.args = DOMAIN G.params
         /\ FrameSize(call) \in Nat /\ NumberOfPointers(call.ret) <= FrameSize(call)
<1>1. /\ WellFormed(p) /\ IsFunction(p, F) /\ i \in DOMAIN F.body
      /\ F.body[i] = call /\ F.body[i].op = "call" /\ p[call.fun] = G
  BY DEF IsCallOf
<1>2. /\ call.fun \in Function /\ IsFunction(p, G) /\ call.ret = G.ret
      /\ DOMAIN call.args = DOMAIN G.params
  BY <1>1, CallInstruction
<1>3. FrameSize(call) \in Nat /\ NumberOfPointers(call.ret) <= FrameSize(call)
  BY <1>1, CallSlots
<1> QED  BY <1>2, <1>3

\* It passes a pointer parameter of the function in the slot that it reads.
LEMMA PointerPassed ==
  ASSUME NEW p, NEW F, NEW i, NEW call, NEW G, IsCallOf(p, F, i, call, G),
         NEW j \in DOMAIN G.params, G.params[j] = "p"
  PROVE  /\ j \in PointerArguments(call) /\ IsValueOf(F, call.args[j], i, Pointer)
         /\ CallSlot(call, j) = ArgumentSlot(G, j)
<1>0. /\ WellFormed(p) /\ IsFunction(p, F) /\ i \in DOMAIN F.body
      /\ F.body[i] = call /\ F.body[i].op = "call" /\ p[call.fun] = G
  BY DEF IsCallOf
<1>1. j \in DOMAIN call.args /\ IsValueOf(F, call.args[j], i, Type(<<G.params[j]>>))
  <2>1. DOMAIN call.args = DOMAIN G.params
    BY <1>0, CallInstruction
  <2>2. \A l \in DOMAIN call.args : IsValueOf(F, call.args[l], i, Type(<<G.params[l]>>))
    BY <1>0, CallInstruction
  <2> QED  BY <2>1, <2>2
<1>2. IsValueOf(F, call.args[j], i, Pointer)
  BY <1>1 DEF Pointer
<1>3. IsPointer(call.args[j])
  BY <1>0, <1>2, PointerValues
<1>4. CallSlot(call, j) = ArgumentSlot(G, j)
  <2>1. \A l \in DOMAIN G.params : CallSlot(call, l) = ArgumentSlot(G, l)
    BY <1>0, CallSlots
  <2> QED  BY <2>1
<1> QED  BY <1>1, <1>2, <1>3, <1>4 DEF PointerArguments

\* A function with a body is entered.
LEMMA CallKeeps ==
  ASSUME NEW p, NEW cs, NEW ms, NEW s, NEW shd, RunFits(p, cs, ms, s, shd),
         NEW call, InstructionIs(p, cs, s, call, "call"), p[call.fun].body # <<>>,
         Len(s) < MaxDepth, NEW cond \in BOOLEAN
  PROVE  RunFits(p, cs, ms,
           <<Activation(call.fun, [j \in DOMAIN call.args |-> ValueOf(s[1], call.args[j])[1]],
                        cond)>> \o s, shd)
<1> DEFINE top == s[1]
           F == p[top.fun]
           c == cs[top.fun]
           m == ms[top.fun]
           i == top.at
           f == call.fun
           G == p[f]
           args == [j \in DOMAIN call.args |-> ValueOf(top, call.args[j])[1]]
           act == Activation(f, args, cond)
           t == <<act>> \o s
           size == SizesOf(p, cs, s)
           last == Len(p[Main].params)
<1>names. /\ s[1] = top /\ p[top.fun] = F /\ cs[top.fun] = c /\ ms[top.fun] = m
          /\ top.at = i          /\ call.fun = f /\ p[call.fun] = G /\ SizesOf(p, cs, s) = size
          /\ Len(p[Main].params) = last
  OBVIOUS
<1> HIDE DEF top, F, c, m, i, f, G, size, last
<1>1. /\ s # <<>> /\ top.done = Len(c[i]) /\ F.body[i] = call /\ call.op = "call"
  BY <1>names DEF InstructionIs
<1>0. F.body[i].op = "call" /\ F.body[top.at].op = "call" /\ top.done = Len(c[top.at])
  BY <1>names, <1>1
<1>2. /\ Runs(p, F, c, m, top) /\ FrameHolds(F, c, top, shd[1])
      /\ FramesFit(size, shd, last) /\ Len(size) = Len(s) /\ Len(s) \in Nat \ {0}
  BY <1>names, <1>1, TopRuns
<1>3. /\ i \in DOMAIN F.body /\ WellFormed(p) /\ IsFunction(p, F)
      /\ IsActivation(F, c, top) /\ ValuesFit(F, m, top)
  BY <1>names, <1>2, RunsParts DEF Runs
<1>4. /\ f \in Function /\ IsFunction(p, G) /\ DOMAIN call.args = DOMAIN G.params
      /\ IsCallOf(p, F, i, call, G)
  <2>1. IsCallOf(p, F, i, call, G)
    BY <1>names, <1>1, <1>3 DEF IsCallOf
  <2> QED  BY <1>names, <2>1, CallParts
<1>5. ASSUME NEW j \in DOMAIN G.params, G.params[j] = "p"
      PROVE  /\ args[j] \in Object
             /\ j \in PointerArguments(call)
             /\ CallSlot(call, j) = ArgumentSlot(G, j)
  <2>1. /\ j \in PointerArguments(call) /\ IsValueOf(F, call.args[j], i, Pointer)
        /\ CallSlot(call, j) = ArgumentSlot(G, j)
    BY <1>4, <1>5, PointerPassed
  <2>2. IsValue(F, call.args[j], i) /\ TypeOf(F, call.args[j]) = Pointer
    BY <2>1 DEF IsValueOf
  <2>3. ValueOf(top, call.args[j])[1] \in Object
    <3> DEFINE o == call.args[j]
    <3>1. IsValue(F, o, top.at) /\ TypeOf(F, o) = Pointer
      BY <1>names, <2>2
    <3> HIDE DEF o
    <3>2. \A k \in PointersIn(TypeOf(F, o)) : ValueOf(top, o)[k] \in Object
      BY <1>3, <3>1, ValueThere
    <3>3. ValueOf(top, o)[1] \in Object
      BY <3>1, <3>2, PointerIsType
    <3> QED  BY <3>3 DEF o
  <2>4. j \in DOMAIN call.args
    BY <1>4
  <2> QED  BY <2>1, <2>3, <2>4
<1>6. IsInstrumented(p, cs, ms) /\ StackFits(p, cs, ms, s) /\ IsSequence(s) /\ SlotsFit(shd)
  BY DEF RunFits, StackFits
<1>7. ActivationFits(G, cs[f], ms[f], act)
  <2>1. Instrumented(G, cs[f], ms[f])
    BY <1>names, <1>4, <1>6 DEF IsInstrumented
  <2>2. DOMAIN args = DOMAIN G.params
    BY <1>4
  <2>3. \A j \in DOMAIN G.params : G.params[j] = "p" => args[j] \in Object
    BY <1>5
  <2> HIDE DEF args, G, f
  <2>4. G.body # <<>>
    BY DEF G, f
  <2> QED  BY <1>3, <1>4, <2>1, <2>2, <2>3, <2>4, EntryFits
<1>8. FrameHolds(G, cs[f], act, shd[1])
  <2>1. ASSUME NEW j \in DOMAIN G.params, G.params[j] = "p"
        PROVE  /\ ArgumentSlot(G, j) \in DOMAIN shd[1]
               /\ shd[1][ArgumentSlot(G, j)] = args[j]
    <3>1. j \in PointerArguments(call) /\ CallSlot(call, j) = ArgumentSlot(G, j)
      BY <1>5, <2>1
    <3>2. /\ CallSlot(call, j) \in DOMAIN shd[1]
          /\ shd[1][CallSlot(call, j)] = ValueOf(top, call.args[j])[1]
      <4>1. ArgumentPassed(top, call, j, shd[1])
        BY <1>names, <1>0, <1>1, <1>2, <3>1, ArgumentsStored
      <4> QED  BY <4>1 DEF ArgumentPassed
    <3>3. args[j] = ValueOf(top, call.args[j])[1]
      BY <1>4
    <3> QED  BY <3>1, <3>2, <3>3
  <2> HIDE DEF args
  <2> QED  BY <2>1, EntryHolds
<1>9. act.fun = f /\ act.at = 1 /\ act.done = 0
  BY DEF Activation
<1> HIDE DEF act
<1>10. StackFits(p, cs, ms, t)
  <2>1. Fits(p, cs, ms, act)
    BY <1>names, <1>4, <1>7, <1>9 DEF Fits
  <2>2. Waits(p, cs, s[1], act.fun)
    BY <1>names, <1>1, <1>9 DEF Waits
  <2> QED  BY <1>1, <1>6, <2>1, <2>2, StackPushed
<1>11. /\ IsSequence(t) /\ Len(t) = Len(s) + 1 /\ t[1] = act
       /\ \A k \in 1 .. Len(s) : t[k + 1] = s[k]
  BY <1>6, Pushed
<1> HIDE DEF t
<1>12. ShadowFits(p, cs, t, shd)
  <2> DEFINE size2 == SizesOf(p, cs, t)
  <2>1. /\ Len(size2) = Len(t) /\ \A a \in 1 .. Len(t) : size2[a] = SizeOf(p, cs, t[a])
    BY <1>11, SizesList
  <2>2. \A a \in 1 .. Len(s) : size[a] = SizeOf(p, cs, s[a])
    BY <1>names, <1>6, SizesList
  <2>3. size2[1] = 0
    <3>1. 1 \in 1 .. Len(t)
      BY <1>2, <1>11
    <3>2. SizeOf(p, cs, act) = 0
      BY <1>9, SizeOnEntry DEF SizeOf
    <3> QED  BY <1>11, <2>1, <3>1, <3>2
  <2>4. \A a \in 1 .. Len(size) : size2[a + 1] = size[a]
    <3>1. \A a \in 1 .. Len(size) : a + 1 \in 1 .. Len(t) /\ a \in 1 .. Len(s)
      BY <1>2, <1>11
    <3> QED  BY <1>11, <2>1, <2>2, <3>1
  <2> HIDE DEF size, size2, last
  <2>5. FramesFit(size2, shd, last)
    BY <1>2, <1>11, <2>1, <2>3, <2>4, FramesEnter
  <2> QED  BY <1>names, <1>8, <1>9, <1>11, <2>5 DEF ShadowFits, size2, last
<1>13. t # <<>>
  BY <1>2, <1>11, ShortSequences
<1>14. RunFits(p, cs, ms, t, shd)
  BY <1>6, <1>10, <1>12, <1>13, RunReached
<1> QED  BY <1>names, <1>14 DEF t, act

\* A wrapper stores what it returns in the first slot.
LEMMA WrapperKeeps ==
  ASSUME NEW p, NEW cs, NEW ms, NEW s, NEW shd, RunFits(p, cs, ms, s, shd),
         NEW call, InstructionIs(p, cs, s, call, "call"), p[call.fun].body = <<>>,
         NEW o \in Object
  PROVE  RunFits(p, cs, ms, Replaced(MovedWith(s[1], <<o>>), s), Written(shd, 0, o))
<1> DEFINE top == s[1]
           F == p[top.fun]
           c == cs[top.fun]
           m == ms[top.fun]
           i == top.at
           G == p[call.fun]
           act == MovedWith(top, <<o>>)
           z == 0
           shd2 == Written(shd, z, o)
           size == SizesOf(p, cs, s)
           last == Len(p[Main].params)
<1>names. /\ s[1] = top /\ p[top.fun] = F /\ cs[top.fun] = c /\ ms[top.fun] = m
          /\ top.at = i /\ p[call.fun] = G /\ SizesOf(p, cs, s) = size
          /\ Len(p[Main].params) = last
  OBVIOUS
<1> HIDE DEF top, F, c, m, i, G, size, last
<1>1. /\ s # <<>> /\ top.done = Len(c[i]) /\ F.body[i] = call /\ call.op = "call"
      /\ G.body = <<>>
  BY <1>names DEF InstructionIs
<1>0. F.body[top.at] = call /\ F.body[top.at].op = "call" /\ top.done = Len(c[top.at])
  BY <1>names, <1>1
<1>2. /\ Runs(p, F, c, m, top) /\ FramesFit(size, shd, last)
      /\ Len(size) = Len(s) /\ Len(s) \in Nat \ {0} /\ size[1] = OpenSize(F, c, top)
      /\ shd # <<>>
  BY <1>names, <1>1, TopRuns
<1>3. /\ i \in DOMAIN F.body /\ WellFormed(p) /\ IsFunction(p, F)
      /\ i \in Int /\ i >= 1
  BY <1>names, <1>2, RunsParts DEF Runs
<1>4. /\ call.ret = Pointer
      /\ FrameSize(call) \in Nat /\ NumberOfPointers(call.ret) <= FrameSize(call)
  <2>1. IsCallOf(p, F, i, call, G)
    BY <1>names, <1>1, <1>3 DEF IsCallOf
  <2>2. /\ IsFunction(p, G) /\ call.ret = G.ret
        /\ FrameSize(call) \in Nat /\ NumberOfPointers(call.ret) <= FrameSize(call)
    BY <2>1, CallParts
  <2> QED  BY <1>1, <2>2 DEF IsFunction
<1>5. IsResult(F, m, top, <<o>>)
  <2> DEFINE elems == <<o>>
  <2>1. DOMAIN elems = {1} /\ elems[1] = o
    OBVIOUS
  <2> HIDE DEF elems
  <2>2. DOMAIN elems = DOMAIN call.ret.elems /\ \A k \in PointersIn(call.ret) : elems[k] \in Object
    BY <1>4, <2>1, PointerIsType
  <2>3. /\ DOMAIN elems = DOMAIN F.body[top.at].ret.elems
        /\ \A k \in PointersIn(F.body[top.at].ret) : elems[k] \in Object
    BY <1>0, <2>2
  <2>4. IsResult(F, m, top, elems)
    BY <1>0, <1>2, <2>3, CallResult
  <2> QED  BY <2>4 DEF elems
<1>6. ActivationFits(F, c, m, act)
  BY <1>names, <1>1, <1>2, <1>5, ResultFits DEF MovedWith
<1>7. act.fun = top.fun /\ act.at = i + 1 /\ act.done = 0
  BY <1>names, MovedParts DEF MovedWith
<1>8. OpenSize(F, c, top) = FrameSize(call)
  <2>1. OpenSize(F, c, top) = FrameOf(F, i)
    BY <1>names, <1>1, <1>2, SizeAtEnd
  <2> QED  BY <1>1, <2>1 DEF FrameOf
<1>9. 0 \in DOMAIN shd[1]
  <2>2. FrameSize(call) \in Nat \ {0}
    BY <1>4, PointerIsType
  <2> HIDE DEF size, last
  <2>3. 1 \in 1 .. Len(size) /\ size[1] # 0 /\ \A b \in 1 .. 1 - 1 : size[b] = 0
    BY <1>2, <1>8, <2>2
  <2>4. DOMAIN shd[1] = 0 .. size[1] - 1
    BY <1>2, <2>3, TopFrame
  <2>5. 0 \in 0 .. FrameSize(call) - 1
    BY <2>2
  <2> QED  BY <1>2, <1>8, <2>4, <2>5
<1>10. SlotsFit(shd)
  BY DEF RunFits
<1>11. /\ SlotsFit(shd2) /\ Len(shd2) = Len(shd)
       /\ \A d \in 1 .. Len(shd) : DOMAIN shd2[d] = DOMAIN shd[d]
       /\ shd2[1] = [shd[1] EXCEPT ![z] = o]
  <2> HIDE DEF shd2, z
  <2>1. shd2 = Written(shd, z, o)
    BY DEF shd2
  <2>2. shd # <<>>
    BY <1>2
  <2>3. OnlyWritten(shd, Written(shd, z, o), z, o)
    BY <1>10, <2>2, WrittenParts
  <2> QED  BY <2>1, <2>3 DEF OnlyWritten
<1>12. SizeOf(p, cs, act) = SizeOf(p, cs, top)
  <2>1. act.at > 1 /\ act.at - 1 = i
    BY <1>3, <1>7
  <2>2. OpenSize(F, c, act) = FrameOf(F, i)
    BY <1>7, <2>1, SizeBehind
  <2>3. OpenSize(F, c, act) = FrameSize(call)
    BY <1>1, <2>2 DEF FrameOf
  <2> QED  BY <1>names, <1>7, <1>8, <2>3 DEF SizeOf
<1> HIDE DEF shd2
<1>13. FrameHolds(F, c, act, shd2[1])
  <2> DEFINE indices == ComputeIndices(F.body[top.at].ret)
             elems == <<o>>
  <2>1. elems[1] = o
    OBVIOUS
  <2> HIDE DEF elems
  <2>2. ASSUME NEW n \in DOMAIN indices
        PROVE  n - 1 \in DOMAIN shd2[1] /\ shd2[1][n - 1] = elems[indices[n]]
    <3>1. /\ n - 1 \in Nat /\ n - 1 < NumberOfPointers(Pointer)
          /\ indices[n] \in PointersIn(Pointer)
      BY <1>names, <1>1, <1>4, PointerIsType, IndicesList
    <3>2. n - 1 = 0 /\ indices[n] = 1
      <4>1. \A x \in Nat : x < 1 => x = 0
        OBVIOUS
      <4>2. n - 1 \in Nat /\ n - 1 < 1
        BY <3>1, PointerIsType
      <4>3. n - 1 = 0
        BY <4>1, <4>2
      <4> QED  BY <3>1, <4>3, PointerIsType
    <3>3. 0 \in DOMAIN shd2[1] /\ shd2[1][0] = o
      BY <1>9, <1>11
    <3> QED  BY <2>1, <3>2, <3>3
  <2>3. top.at \in Int /\ top.at >= 1
    BY <1>names, <1>3
  <2>4. FrameHolds(F, c, MovedWith(top, elems), shd2[1])
    BY <2>2, <2>3, ResultHolds DEF MovedWith
  <2> QED  BY <2>4 DEF elems
<1> HIDE DEF act
<1>14. FrameHolds(p[act.fun], cs[act.fun], act, shd2[1])
  BY <1>names, <1>7, <1>13
<1>15. RunFits(p, cs, ms, Replaced(act, s), shd2)
  BY <1>names, <1>1, <1>6, <1>7, <1>11, <1>12, <1>14, TopMovesOn
<1> QED  BY <1>names, <1>15 DEF act, shd2

\* A return from the innermost call, with the rest of the stack, the activation
\* that called, its function, its call and the value.
IsReturn(p, s, ret, rest, out, G, call, v) ==
  /\ Tail(s) = rest /\ s[2] = out /\ p[out.fun] = G /\ G.body[out.at] = call
  /\ ValueOf(s[1], ret.val) = v

\* A call of a function returns what the function returns.
LEMMA CalleeReturns ==
  ASSUME NEW p, NEW cs, NEW ms, NEW s, NEW shd, RunFits(p, cs, ms, s, shd),
         NEW ret, InstructionIs(p, cs, s, ret, "ret"), Len(s) # 1,
         NEW rest, NEW out, NEW G, NEW call, NEW v,
         IsReturn(p, s, ret, rest, out, G, call, v)
  PROVE  /\ StackFits(p, cs, ms, rest) /\ rest # <<>> /\ rest[1] = out
         /\ Runs(p, G, cs[out.fun], ms[out.fun], out)
         /\ out.done = Len(cs[out.fun][out.at]) /\ call.op = "call"
         /\ IsResult(G, ms[out.fun], out, v)
         /\ \A n \in DOMAIN ComputeIndices(call.ret) :
              n - 1 \in DOMAIN shd[1] /\ shd[1][n - 1] = v[ComputeIndices(call.ret)[n]]
<1> DEFINE top == s[1]
           F == p[top.fun]
           c == cs[top.fun]
           m == ms[top.fun]
           i == top.at
<1>0. /\ s[1] = top /\ p[top.fun] = F /\ cs[top.fun] = c /\ ms[top.fun] = m /\ top.at = i
      /\ Tail(s) = rest /\ s[2] = out /\ p[out.fun] = G /\ G.body[out.at] = call
      /\ ValueOf(top, ret.val) = v
  BY DEF IsReturn
<1> HIDE DEF top, F, c, m, i
<1>1. /\ s # <<>> /\ top.done = Len(c[top.at]) /\ ret = F.body[top.at] /\ ret.op = "ret"
  BY <1>0 DEF InstructionIs
<1>2. IsInstrumented(p, cs, ms) /\ StackFits(p, cs, ms, s)
  BY DEF RunFits
<1>3. StackFits(p, cs, ms, rest) /\ rest # <<>> /\ rest[1] = out /\ Waits(p, cs, out, top.fun)
  BY <1>0, <1>1, <1>2, StackPopped
<1>4. Runs(p, G, cs[out.fun], ms[out.fun], out)
  <2>1. Fits(p, cs, ms, rest[1])
    BY <1>3, StackParts
  <2>2. Fits(p, cs, ms, out)
    BY <1>3, <2>1
  <2> QED  BY <1>0, <1>2, <2>2, FitRuns
<1>5. /\ out.done = Len(cs[out.fun][out.at]) /\ call.op = "call" /\ call.fun = top.fun
  BY <1>0, <1>3 DEF Waits
<1>6. /\ Runs(p, F, c, m, top) /\ FrameHolds(F, c, top, shd[1])
  BY <1>0, <1>1, TopRuns
<1>7. /\ i \in DOMAIN F.body /\ WellFormed(p) /\ IsFunction(p, F)
      /\ IsActivation(F, c, top) /\ ValuesFit(F, m, top)
      /\ out.at \in DOMAIN G.body /\ IsFunction(p, G)
  <2>1. /\ i \in DOMAIN F.body /\ WellFormed(p) /\ IsFunction(p, F)
        /\ IsActivation(F, c, top) /\ ValuesFit(F, m, top)
    BY <1>0, <1>6, RunsParts DEF Runs
  <2>2. out.at \in DOMAIN G.body /\ IsFunction(p, G)
    BY <1>4, RunsParts DEF Runs
  <2> QED  BY <2>1, <2>2
<1>8. call.ret = F.ret
  <2>1. call.ret = p[call.fun].ret
    BY <1>0, <1>5, <1>7, CallInstruction
  <2> QED  BY <1>0, <1>5, <2>1
<1>9. IsValueOf(F, ret.val, top.at, F.ret)
  <2>1. F.body[i].op = "ret" /\ F.body[i] = ret
    BY <1>0, <1>1
  <2>2. IsValueOf(F, F.body[i].val, i, F.ret)
    BY <1>7, <2>1, Instructions
  <2> QED  BY <1>0, <2>1, <2>2
<1>10. /\ DOMAIN v = DOMAIN call.ret.elems
       /\ \A k \in PointersIn(call.ret) : v[k] \in Object
  <2>1. IsValue(F, ret.val, top.at) /\ TypeOf(F, ret.val) = F.ret
    BY <1>9 DEF IsValueOf
  <2>2. /\ DOMAIN v = DOMAIN F.ret.elems
        /\ \A k \in PointersIn(F.ret) : v[k] \in Object
    BY <1>0, <1>7, <2>1, ValueThere
  <2> QED  BY <1>8, <2>2
<1>11. IsResult(G, ms[out.fun], out, v)
  BY <1>0, <1>4, <1>5, <1>10, CallResult
<1>12. ASSUME NEW n \in DOMAIN ComputeIndices(call.ret)
       PROVE  n - 1 \in DOMAIN shd[1] /\ shd[1][n - 1] = v[ComputeIndices(call.ret)[n]]
  <2>1. /\ F.body[top.at].op = "ret" /\ F.body[top.at].val = ret.val
        /\ n \in DOMAIN ComputeIndices(F.ret)
    BY <1>1, <1>8
  <2>2. /\ n - 1 \in DOMAIN shd[1]
        /\ shd[1][n - 1] = ValueOf(top, F.body[top.at].val)[ComputeIndices(F.ret)[n]]
    BY <1>1, <1>6, <2>1, ResultsStored
  <2> QED  BY <1>0, <1>8, <2>1, <2>2
<1> QED  BY <1>3, <1>4, <1>5, <1>11, <1>12

\* A function returns to its caller.
LEMMA ReturnKeeps ==
  ASSUME NEW p, NEW cs, NEW ms, NEW s, NEW shd, RunFits(p, cs, ms, s, shd),
         NEW ret, InstructionIs(p, cs, s, ret, "ret"), Len(s) # 1
  PROVE  RunFits(p, cs, ms,
                 Replaced(MovedWith(s[2], ValueOf(s[1], ret.val)), Tail(s)), shd)
<1> DEFINE top == s[1]
           F == p[top.fun]
           c == cs[top.fun]
           i == top.at
           rest == Tail(s)
           out == s[2]
           G == p[out.fun]
           call == G.body[out.at]
           v == ValueOf(top, ret.val)
           act == MovedWith(out, v)
           t == Replaced(act, rest)
           size == SizesOf(p, cs, s)
           last == Len(p[Main].params)
<1>names. /\ s[1] = top /\ p[top.fun] = F /\ cs[top.fun] = c /\ top.at = i
          /\ Tail(s) = rest /\ s[2] = out /\ p[out.fun] = G /\ G.body[out.at] = call
          /\ ValueOf(top, ret.val) = v /\ SizesOf(p, cs, s) = size
          /\ Len(p[Main].params) = last
  OBVIOUS
<1> HIDE DEF top, F, c, i, rest, out, G, call, v, size, last
<1>0. IsReturn(p, s, ret, rest, out, G, call, v)
  BY <1>names DEF IsReturn
<1>1. /\ StackFits(p, cs, ms, rest) /\ rest # <<>> /\ rest[1] = out
      /\ Runs(p, G, cs[out.fun], ms[out.fun], out)
      /\ out.done = Len(cs[out.fun][out.at]) /\ call.op = "call"
      /\ IsResult(G, ms[out.fun], out, v)
  BY <1>0, CalleeReturns
<1>2. \A n \in DOMAIN ComputeIndices(call.ret) :
        n - 1 \in DOMAIN shd[1] /\ shd[1][n - 1] = v[ComputeIndices(call.ret)[n]]
  BY <1>0, CalleeReturns
<1>3. /\ s # <<>> /\ top.done = Len(c[top.at]) /\ F.body[top.at].op = "ret"
  BY <1>names DEF InstructionIs
<1>4. /\ Runs(p, F, c, ms[top.fun], top) /\ FramesFit(size, shd, last)
      /\ Len(size) = Len(s) /\ Len(s) \in Nat \ {0} /\ size[1] = OpenSize(F, c, top)
  BY <1>names, <1>3, TopRuns
<1>5. size[1] = 0
  <2>1. OpenSize(F, c, top) = FrameOf(F, top.at)
    BY <1>3, <1>4, SizeAtEnd
  <2> QED  BY <1>3, <1>4, <2>1 DEF FrameOf
<1>6. IsInstrumented(p, cs, ms) /\ IsSequence(s) /\ SlotsFit(shd) /\ IsSequence(rest)
      /\ StackFits(p, cs, ms, s)
  BY <1>1 DEF RunFits, StackFits
<1>7. /\ Len(rest) = Len(s) - 1 /\ \A k \in 1 .. Len(s) - 1 : rest[k] = s[k + 1]
  BY <1>names, <1>3, <1>6, Popped
<1>8. ActivationFits(G, cs[out.fun], ms[out.fun], act)
  BY <1>names, <1>1, ResultFits DEF MovedWith
<1>9. act.fun = out.fun /\ act.at = out.at + 1 /\ act.done = 0
  BY MovedParts DEF MovedWith
<1>10. out.at \in Int /\ out.at >= 1
  BY <1>1, RunsParts
<1>11. SizeOf(p, cs, act) = SizeOf(p, cs, out)
  <2>1. act.at > 1 /\ act.at - 1 = out.at
    BY <1>9, <1>10
  <2>2. OpenSize(G, cs[out.fun], act) = FrameOf(G, out.at)
    BY <1>9, <2>1, SizeBehind
  <2>3. OpenSize(G, cs[out.fun], out) = FrameOf(G, out.at)
    BY <1>1, SizeAtEnd
  <2> QED  BY <1>names, <1>9, <2>2, <2>3 DEF SizeOf
<1>12. FrameHolds(G, cs[out.fun], act, shd[1])
  <2>1. \A n \in DOMAIN ComputeIndices(G.body[out.at].ret) :
          /\ n - 1 \in DOMAIN shd[1]
          /\ shd[1][n - 1] = v[ComputeIndices(G.body[out.at].ret)[n]]
    BY <1>names, <1>2
  <2> QED  BY <1>10, <2>1, ResultHolds DEF MovedWith
<1> HIDE DEF act
<1>13. StackFits(p, cs, ms, t)
  <2>1. Fits(p, cs, ms, out)
    BY <1>1, StackParts
  <2>2. Fits(p, cs, ms, act)
    BY <1>names, <1>8, <1>9, <2>1 DEF Fits
  <2> QED  BY <1>1, <1>9, <2>2, StackReplaced
<1>14. /\ IsSequence(t) /\ Len(t) = Len(rest) /\ t # <<>> /\ t[1] = act
       /\ \A a \in 2 .. Len(rest) : t[a] = rest[a]
  BY <1>1, <1>6, ReplacedParts
<1> HIDE DEF t
<1>15. ShadowFits(p, cs, t, shd)
  <2> DEFINE size2 == SizesOf(p, cs, t)
  <2>1. /\ Len(size2) = Len(t) /\ \A a \in 1 .. Len(t) : size2[a] = SizeOf(p, cs, t[a])
    BY <1>14, SizesList
  <2>2. \A a \in 1 .. Len(s) : size[a] = SizeOf(p, cs, s[a])
    BY <1>names, <1>6, SizesList
  <2>3. ASSUME NEW a \in 1 .. Len(size) - 1  PROVE size2[a] = size[a + 1]
    <3>1. /\ a \in 1 .. Len(s) - 1 /\ a + 1 \in 1 .. Len(s) /\ a \in 1 .. Len(t)
          /\ a = 1 \/ a \in 2 .. Len(rest)
      BY <1>4, <1>7, <1>14
    <3>2. rest[a] = s[a + 1]
      BY <1>7, <3>1
    <3>3. SizeOf(p, cs, t[a]) = SizeOf(p, cs, rest[a])
      BY <1>1, <1>11, <1>14, <3>1
    <3> QED  BY <2>1, <2>2, <3>1, <3>2, <3>3
  <2> HIDE DEF size, size2, last
  <2>4. Len(size2) = Len(size) - 1
    BY <1>4, <1>7, <1>14, <2>1
  <2>5. FramesFit(size2, shd, last)
    BY <1>4, <1>5, <2>3, <2>4, FramesLeave
  <2>6. FrameHolds(p[t[1].fun], cs[t[1].fun], t[1], shd[1])
    BY <1>names, <1>9, <1>12, <1>14
  <2> QED  BY <2>5, <2>6 DEF ShadowFits, size2, last
<1>16. RunFits(p, cs, ms, t, shd)
  BY <1>6, <1>13, <1>14, <1>15, RunReached
<1> QED  BY <1>names, <1>16 DEF t, act, rest, v, out

\* Main returns.
LEMMA MainReturns ==
  ASSUME NEW p, NEW cs, NEW ms, NEW s, NEW shd, RunFits(p, cs, ms, s, shd)
  PROVE  RunFits(p, cs, ms, <<>>, shd)
<1> DEFINE t == <<>>
<1>1. IsSequence(t) /\ Len(t) = 0
  BY ShortSequences
<1>2. 1 .. 0 = {} /\ 2 .. 0 = {} /\ 0 <= MaxDepth
  BY DepthAssumption
<1>3. t = <<>>
  OBVIOUS
<1> HIDE DEF t
<1>4. StackFits(p, cs, ms, t) /\ ShadowFits(p, cs, t, shd)
  BY <1>1, <1>2, <1>3 DEF StackFits, ShadowFits
<1>5. RunFits(p, cs, ms, t, shd)
  BY <1>4 DEF RunFits
<1> QED  BY <1>5 DEF t

-----------------------------------------------------------------------------
(* The steps of the program                                                 *)

IsRecord(act) ==
  act = [fun |-> act.fun, at |-> act.at, done |-> act.done, args |-> act.args,
         cond |-> act.cond, val |-> act.val, wit |-> act.wit]

Record(f, i, n, args, cond, val, wit) ==
  [fun |-> f, at |-> i, done |-> n, args |-> args, cond |-> cond, val |-> val, wit |-> wit]

\* How the fields of an activation change.
LEMMA RecordChanges ==
  ASSUME NEW f, NEW i, NEW n, NEW args, NEW cond, NEW val, NEW wit, NEW x,
         NEW act, act = Record(f, i, n, args, cond, val, wit)
  PROVE  /\ act.fun = f /\ act.at = i /\ act.done = n /\ act.args = args
         /\ act.cond = cond /\ act.val = val /\ act.wit = wit
         /\ [act EXCEPT !.at = x] = Record(f, x, n, args, cond, val, wit)
         /\ [act EXCEPT !.done = x] = Record(f, i, x, args, cond, val, wit)
         /\ [act EXCEPT !.val = x] = Record(f, i, n, args, cond, x, wit)
         /\ [act EXCEPT !.wit = x] = Record(f, i, n, args, cond, val, x)
<1>1. /\ act.fun = f /\ act.at = i /\ act.done = n /\ act.args = args
      /\ act.cond = cond /\ act.val = val /\ act.wit = wit
  BY DEF Record
<1>2. [act EXCEPT !.at = x] = Record(f, x, n, args, cond, val, wit)
  BY DEF Record
<1>3. [act EXCEPT !.done = x] = Record(f, i, x, args, cond, val, wit)
  BY DEF Record
<1>4. [act EXCEPT !.val = x] = Record(f, i, n, args, cond, x, wit)
  BY DEF Record
<1>5. [act EXCEPT !.wit = x] = Record(f, i, n, args, cond, val, x)
  BY DEF Record
<1> QED  BY <1>1, <1>2, <1>3, <1>4, <1>5

\* The activations of the specification are those of the lemmas.
LEMMA ActivationMoves ==
  ASSUME NEW act, IsRecord(act)
  PROVE  /\ [act EXCEPT !.done = @ + 1] = MovedOn(act, act.wit)
         /\ \A r, b : [[act EXCEPT !.done = @ + 1] EXCEPT !.wit = Updated(@, r, b)]
                        = MovedOn(act, Updated(act.wit, r, b))
         /\ Next1(act) = MovedToNext(act)
         /\ \A n : Next1([act EXCEPT !.at = n]) = Moved(act, n + 1, 0, act.val, act.wit)
         /\ \A elems : Produced(act, elems) = MovedWith(act, elems)
<1>1. PICK f, i, n, args, cond, val, wit : act = Record(f, i, n, args, cond, val, wit)
  BY DEF IsRecord, Record
<1>2. /\ act.fun = f /\ act.at = i /\ act.done = n /\ act.args = args
      /\ act.cond = cond /\ act.val = val /\ act.wit = wit
  BY <1>1, RecordChanges
<1>3. \A j, k, v, w : Moved(act, j, k, v, w) = Record(f, j, k, args, cond, v, w)
  BY <1>2 DEF Moved, Record
<1>4. \A k, w : [[act EXCEPT !.done = k] EXCEPT !.wit = w] = Moved(act, i, k, val, w)
  <2> SUFFICES ASSUME NEW k, NEW w
               PROVE  [[act EXCEPT !.done = k] EXCEPT !.wit = w] = Moved(act, i, k, val, w)
    OBVIOUS
  <2> DEFINE a == [act EXCEPT !.done = k]
  <2>1. a = Record(f, i, k, args, cond, val, wit)
    BY <1>1, RecordChanges
  <2> HIDE DEF a
  <2>2. [a EXCEPT !.wit = w] = Record(f, i, k, args, cond, val, w)
    BY <2>1, RecordChanges
  <2>3. [a EXCEPT !.wit = w] = Moved(act, i, k, val, w)
    BY <1>3, <2>2
  <2> QED  BY <2>3 DEF a
<1>5. \A k : [act EXCEPT !.done = k] = Moved(act, i, k, val, wit)
  BY <1>1, <1>3, RecordChanges
<1>6. \A j, k : [act EXCEPT !.at = j, !.done = k] = Moved(act, j, k, val, wit)
  <2> SUFFICES ASSUME NEW j, NEW k
               PROVE  [[act EXCEPT !.at = j] EXCEPT !.done = k] = Moved(act, j, k, val, wit)
    OBVIOUS
  <2> DEFINE a == [act EXCEPT !.at = j]
  <2>1. a = Record(f, j, n, args, cond, val, wit)
    BY <1>1, RecordChanges
  <2> HIDE DEF a
  <2>2. [a EXCEPT !.done = k] = Record(f, j, k, args, cond, val, wit)
    BY <2>1, RecordChanges
  <2>3. [a EXCEPT !.done = k] = Moved(act, j, k, val, wit)
    BY <1>3, <2>2
  <2> QED  BY <2>3 DEF a
<1>7. \A j, v : [Moved(act, j, 0, val, wit) EXCEPT !.val = v] = Moved(act, j, 0, v, wit)
  BY <1>3, RecordChanges
<1>8. [act EXCEPT !.done = @ + 1] = MovedOn(act, act.wit)
  BY <1>2, <1>5 DEF MovedOn
<1>9. \A r, b : [[act EXCEPT !.done = @ + 1] EXCEPT !.wit = Updated(@, r, b)]
                   = MovedOn(act, Updated(act.wit, r, b))
  <2> SUFFICES ASSUME NEW r, NEW b
               PROVE  [[act EXCEPT !.done = @ + 1] EXCEPT !.wit = Updated(@, r, b)]
                        = MovedOn(act, Updated(act.wit, r, b))
    OBVIOUS
  <2> DEFINE a == [act EXCEPT !.done = act.done + 1]
             w == Updated(act.wit, r, b)
  <2>1. a.wit = act.wit
    <3>1. a = Record(f, i, n + 1, args, cond, val, wit)
      BY <1>1, <1>2, RecordChanges
    <3> HIDE DEF a
    <3>2. a.wit = wit
      BY <3>1, RecordChanges
    <3> QED  BY <1>2, <3>2
  <2>2. [a EXCEPT !.wit = w] = Moved(act, i, n + 1, val, w)
    <3> HIDE DEF w
    <3> QED  BY <1>2, <1>4
  <2>3. [a EXCEPT !.wit = Updated(a.wit, r, b)] = Moved(act, i, n + 1, val, w)
    <3> HIDE DEF a
    <3> QED  BY <2>1, <2>2
  <2> QED  BY <1>2, <2>3 DEF MovedOn
<1>10. Next1(act) = MovedToNext(act)
  BY <1>2, <1>6 DEF Next1, MovedToNext
<1>11. \A j : Next1([act EXCEPT !.at = j]) = Moved(act, j + 1, 0, act.val, act.wit)
  <2> SUFFICES ASSUME NEW j
               PROVE  Next1([act EXCEPT !.at = j]) = Moved(act, j + 1, 0, act.val, act.wit)
    OBVIOUS
  <2> DEFINE a == [act EXCEPT !.at = j]
             a2 == [a EXCEPT !.at = j + 1]
  <2>1. a = Record(f, j, n, args, cond, val, wit)
    BY <1>1, RecordChanges
  <2> HIDE DEF a
  <2>2. a2 = Record(f, j + 1, n, args, cond, val, wit)
    BY <2>1, RecordChanges
  <2>3. a.at = j
    BY <2>1, RecordChanges
  <2>4. Next1(a) = [a2 EXCEPT !.done = 0]
    BY <2>3 DEF Next1
  <2> HIDE DEF a2
  <2>5. [a2 EXCEPT !.done = 0] = Record(f, j + 1, 0, args, cond, val, wit)
    BY <2>2, RecordChanges
  <2>6. Next1(a) = Moved(act, j + 1, 0, act.val, act.wit)
    BY <1>2, <1>3, <2>4, <2>5
  <2> QED  BY <2>6 DEF a
<1>12. \A elems : Produced(act, elems) = MovedWith(act, elems)
  <2> SUFFICES ASSUME NEW elems  PROVE Produced(act, elems) = MovedWith(act, elems)
    OBVIOUS
  <2>1. MovedToNext(act) = Moved(act, i + 1, 0, val, wit)
    BY <1>2 DEF MovedToNext
  <2>2. Moved(act, i + 1, 0, val, wit).val = val
    BY <1>3, RecordChanges
  <2>3. Produced(act, elems) = [Moved(act, i + 1, 0, val, wit) EXCEPT
                                  !.val = Updated(val, i, elems)]
    BY <1>2, <1>10, <2>1, <2>2 DEF Produced
  <2> QED  BY <1>2, <1>7, <2>3 DEF MovedWith
<1> QED  BY <1>8, <1>9, <1>10, <1>11, <1>12

RunInv == RunFits(prog, code, made, stack, shadow)

\* The innermost activation has the fields of an activation.
LEMMA TopIsRecord ==
  ASSUME RunInv, stack # <<>>
  PROVE  IsRecord(Top)
<1>1. Runs(prog, prog[stack[1].fun], code[stack[1].fun], made[stack[1].fun], stack[1])
  BY TopRuns DEF RunInv
<1>2. IsActivation(prog[stack[1].fun], code[stack[1].fun], stack[1])
  BY <1>1, RunsParts
<1> QED  BY <1>2 DEF IsActivation, IsRecord, Top

\* The item that is executed is the next one.
LEMMA NextItemRuns ==
  ASSUME NEW op, Running(op)
  PROVE  ItemIs(code, stack, Item(Top), op) /\ stack # <<>>
BY DEF Running, IsRunning, Inserted, Item, Top, ItemIs, HasItem, NextItem

\* So is the instruction.
LEMMA NextInstructionRuns ==
  ASSUME NEW op, Executes(op)
  PROVE  InstructionIs(prog, code, stack, Instruction(Top), op) /\ stack # <<>>
BY DEF Executes, IsRunning, Inserted, Instruction, Fun, Top, InstructionIs

\* The actions of the running program keep the invariant, one after the other.
LEMMA AllocateStep ==
  ASSUME RunInv, AllocateShadowStack
  PROVE  RunInv'
<1>1. ItemIs(code, stack, Item(Top), "alloc") /\ stack # <<>>
  BY NextItemRuns DEF AllocateShadowStack
<1>2. Behind = MovedOn(Top, Top.wit)
  BY <1>1, TopIsRecord, ActivationMoves DEF Behind
<1>3. stack' = Replaced(MovedOn(Top, Top.wit), stack)
  BY <1>2 DEF AllocateShadowStack, Goes, Replaced
<1>4. shadow' = <<[slot \in 0 .. Item(Top).size - 1 |-> Stale]>> \o shadow
  BY DEF AllocateShadowStack
<1>5. RunFits(prog, code, made, stack', shadow')
  BY <1>1, <1>3, <1>4, AllocateKeeps DEF RunInv, Top
<1> QED  BY <1>5 DEF RunInv, AllocateShadowStack, passVars

\* DeallocateShadowStack.
LEMMA DeallocateStep ==
  ASSUME RunInv, DeallocateShadowStack
  PROVE  RunInv'
<1>1. ItemIs(code, stack, Item(Top), "dealloc") /\ stack # <<>>
  BY NextItemRuns DEF DeallocateShadowStack
<1>2. Behind = MovedOn(Top, Top.wit)
  BY <1>1, TopIsRecord, ActivationMoves DEF Behind
<1>3. stack' = Replaced(MovedOn(Top, Top.wit), stack) /\ shadow' = Tail(shadow)
  BY <1>2 DEF DeallocateShadowStack, Goes, Replaced
<1>4. RunFits(prog, code, made, stack', shadow')
  BY <1>1, <1>3, DeallocateKeeps DEF RunInv, Top
<1> QED  BY <1>4 DEF RunInv, DeallocateShadowStack, passVars

\* StoreShadowStack.
LEMMA StoreStep ==
  ASSUME RunInv, StoreShadowStack
  PROVE  RunInv'
<1>1. ItemIs(code, stack, Item(Top), "store") /\ stack # <<>>
  BY NextItemRuns DEF StoreShadowStack
<1>2. Behind = MovedOn(Top, Top.wit)
  BY <1>1, TopIsRecord, ActivationMoves DEF Behind
<1>3. stack' = Replaced(MovedOn(Top, Top.wit), stack)
  BY <1>2 DEF StoreShadowStack, Goes, Replaced
<1>4. shadow' = Written(shadow, Item(Top).slot, BoundsIn(Top, Item(Top).reg))
  BY DEF StoreShadowStack, Written, Slot
<1>5. RunFits(prog, code, made, stack', shadow')
  BY <1>1, <1>3, <1>4, StoreKeeps DEF RunInv, Top
<1> QED  BY <1>5 DEF RunInv, StoreShadowStack, passVars

\* LoadShadowStack.
LEMMA LoadStep ==
  ASSUME RunInv, LoadShadowStack
  PROVE  RunInv'
<1>1. ItemIs(code, stack, Item(Top), "load") /\ stack # <<>>
  BY NextItemRuns DEF LoadShadowStack
<1>2. \A r, b : Loaded(r, b) = MovedOn(Top, Updated(Top.wit, r, b))
  BY <1>1, TopIsRecord, ActivationMoves DEF Behind, Loaded
<1>3. stack' = Replaced(MovedOn(Top, Updated(Top.wit, Item(Top).reg,
                                             shadow[1][Item(Top).slot])), stack)
  BY <1>2 DEF LoadShadowStack, Goes, Replaced, Slot
<1>4. RunFits(prog, code, made, stack', shadow)
  BY <1>1, <1>3, LoadKeeps DEF RunInv, Top
<1> QED  BY <1>4 DEF RunInv, LoadShadowStack, passVars

\* ChooseWitness.
LEMMA ChooseStep ==
  ASSUME RunInv, ChooseWitness
  PROVE  RunInv'
<1> DEFINE b == BoundsIn(Top, IF Top.cond THEN Item(Top).yes ELSE Item(Top).no)
<1>1. ItemIs(code, stack, Item(Top), "choice") /\ stack # <<>>
  BY NextItemRuns DEF ChooseWitness
<1>2. \A r, e : Loaded(r, e) = MovedOn(Top, Updated(Top.wit, r, e))
  BY <1>1, TopIsRecord, ActivationMoves DEF Behind, Loaded
<1>3. stack' = Replaced(MovedOn(Top, Updated(Top.wit, Item(Top).reg, b)), stack)
  BY <1>2 DEF ChooseWitness, Goes, Replaced
<1>4. RunFits(prog, code, made, stack', shadow)
  BY <1>1, <1>3, ChoiceKeeps DEF RunInv, Top
<1> QED  BY <1>4 DEF RunInv, ChooseWitness, passVars

\* Access.
LEMMA AccessStep ==
  ASSUME RunInv, Access
  PROVE  RunInv'
<1>1. InstructionIs(prog, code, stack, Instruction(Top), "access") /\ stack # <<>>
  BY NextInstructionRuns DEF Access
<1>2. stack' = Replaced(MovedToNext(Top), stack)
  BY <1>1, TopIsRecord, ActivationMoves DEF Access, Goes, Replaced
<1>3. RunFits(prog, code, made, stack', shadow)
  BY <1>1, <1>2, NextKeeps DEF RunInv, Top
<1> QED  BY <1>3 DEF RunInv, Access, passVars

\* Branch.
LEMMA BranchStep ==
  ASSUME RunInv, Branch
  PROVE  RunInv'
<1> DEFINE next == NextReturn(Fun(Top), Top.at)
<1>1. InstructionIs(prog, code, stack, Instruction(Top), "br") /\ stack # <<>>
  BY NextInstructionRuns DEF Branch
<1>2. stack' = <<Next1(IF Top.cond THEN [Top EXCEPT !.at = next] ELSE Top)>> \o Tail(stack)
  BY DEF Branch, Goes, NextReturn
<1> HIDE DEF next
<1>3. CASE Top.cond
  <2>1. stack' = Replaced(Moved(Top, next + 1, 0, Top.val, Top.wit), stack)
    BY <1>1, <1>2, <1>3, TopIsRecord, ActivationMoves DEF Replaced
  <2>2. RunFits(prog, code, made, stack', shadow)
    BY <1>1, <2>1, BranchKeeps DEF RunInv, Top, Fun, next
  <2> QED  BY <2>2 DEF RunInv, Branch, passVars
<1>4. CASE ~Top.cond
  <2>1. stack' = Replaced(MovedToNext(Top), stack)
    BY <1>1, <1>2, <1>4, TopIsRecord, ActivationMoves DEF Replaced
  <2>2. RunFits(prog, code, made, stack', shadow)
    BY <1>1, <2>1, NextKeeps DEF RunInv, Top
  <2> QED  BY <2>2 DEF RunInv, Branch, passVars
<1> QED  BY <1>3, <1>4

\* Select.
LEMMA SelectStep ==
  ASSUME RunInv, Select
  PROVE  RunInv'
<1>1. InstructionIs(prog, code, stack, Instruction(Top), "select") /\ stack # <<>>
  BY NextInstructionRuns DEF Select
<1>2. stack' = Replaced(MovedWith(Top, ValueOf(Top, Chosen(Instruction(Top), Top.cond))), stack)
  BY <1>1, TopIsRecord, ActivationMoves DEF Select, Goes, Replaced, Chosen
<1>3. RunFits(prog, code, made, stack', shadow)
  BY <1>1, <1>2, SelectKeeps DEF RunInv, Top
<1> QED  BY <1>3 DEF RunInv, Select, passVars

\* ExtractValue.
LEMMA ExtractStep ==
  ASSUME RunInv, ExtractValue
  PROVE  RunInv'
<1>1. InstructionIs(prog, code, stack, Instruction(Top), "extract") /\ stack # <<>>
  BY NextInstructionRuns DEF ExtractValue
<1>2. stack' = Replaced(MovedWith(Top, <<ValueOf(Top, Instruction(Top).val)
                                           [Instruction(Top).k]>>), stack)
  BY <1>1, TopIsRecord, ActivationMoves DEF ExtractValue, Goes, Replaced
<1>3. RunFits(prog, code, made, stack', shadow)
  BY <1>1, <1>2, ExtractKeeps DEF RunInv, Top
<1> QED  BY <1>3 DEF RunInv, ExtractValue, passVars

\* InsertValue.
LEMMA InsertStep ==
  ASSUME RunInv, InsertValue
  PROVE  RunInv'
<1> DEFINE ins == Instruction(Top)
<1>1. InstructionIs(prog, code, stack, ins, "insert") /\ stack # <<>>
  BY NextInstructionRuns DEF InsertValue
<1>2. stack' = Replaced(MovedWith(Top, [InsertedInto(Top, ins) EXCEPT
                                          ![ins.k] = ValueOf(Top, ins.val)[1]]), stack)
  BY <1>1, TopIsRecord, ActivationMoves DEF InsertValue, Goes, Replaced, InsertedInto
<1>3. RunFits(prog, code, made, stack', shadow)
  BY <1>1, <1>2, InsertValueKeeps DEF RunInv, Top
<1> QED  BY <1>3 DEF RunInv, InsertValue, passVars

\* Call.
LEMMA CallStep ==
  ASSUME RunInv, Call
  PROVE  RunInv'
<1> DEFINE call == Instruction(Top)
<1>1. InstructionIs(prog, code, stack, call, "call") /\ stack # <<>>
  BY NextInstructionRuns DEF Call
<1>2. prog[call.fun].body # <<>> /\ Len(stack) < MaxDepth
  BY DEF Call, Callee
<1>3. PICK cond \in BOOLEAN :
        stack' = <<Activation(call.fun, [j \in DOMAIN call.args |->
                                           ValueOf(Top, call.args[j])[1]], cond)>> \o stack
  BY DEF Call, Callee
<1>4. RunFits(prog, code, made, stack', shadow)
  BY <1>1, <1>2, <1>3, CallKeeps DEF RunInv, Top
<1> QED  BY <1>4 DEF RunInv, Call, passVars

\* CallWrapper.
LEMMA WrapperStep ==
  ASSUME RunInv, CallWrapper
  PROVE  RunInv'
<1> DEFINE call == Instruction(Top)
<1>1. InstructionIs(prog, code, stack, call, "call") /\ stack # <<>>
  BY NextInstructionRuns DEF CallWrapper
<1>2. prog[call.fun].body = <<>>
  BY DEF CallWrapper, Callee
<1>3. PICK o \in Object :
        /\ shadow' = Written(shadow, 0, o)
        /\ stack' = <<Produced(Top, <<o>>)>> \o Tail(stack)
  BY DEF CallWrapper, Written, Goes
<1>4. stack' = Replaced(MovedWith(Top, <<o>>), stack)
  BY <1>1, <1>3, TopIsRecord, ActivationMoves DEF Replaced
<1>5. RunFits(prog, code, made, stack', shadow')
  BY <1>1, <1>2, <1>3, <1>4, WrapperKeeps DEF RunInv, Top
<1> QED  BY <1>5 DEF RunInv, CallWrapper, passVars

\* The stack below the caller.
LEMMA SecondPopped ==
  ASSUME NEW s, IsSequence(s), Len(s) >= 2
  PROVE  SubSeq(s, 3, Len(s)) = Tail(Tail(s))
<1>1. s # <<>> /\ Len(s) \in Nat
  BY ShortSequences DEF IsSequence
<1> DEFINE t == Tail(s)
           u == SubSeq(s, 3, Len(s))
<1>2. /\ IsSequence(t) /\ Len(t) = Len(s) - 1
      /\ \A k \in 1 .. Len(s) - 1 : t[k] = s[k + 1]
  BY <1>1, Popped
<1> HIDE DEF t
<1>3. t # <<>>
  <2>1. Len(t) # 0
    BY <1>1, <1>2
  <2> QED  BY <2>1, ShortSequences
<1>4. /\ IsSequence(Tail(t)) /\ Len(Tail(t)) = Len(t) - 1
      /\ \A k \in 1 .. Len(t) - 1 : Tail(t)[k] = t[k + 1]
  BY <1>2, <1>3, Popped
<1>5. u = [k \in 1 .. Len(s) - 2 |-> s[k + 2]]
  <2>1. s = [k \in 1 .. Len(s) |-> s[k]]
    BY DEF IsSequence
  <2> DEFINE S == {s[k] : k \in 1 .. Len(s)}
  <2>2. s \in Seq(S)
    BY <1>1, <2>1
  <2> HIDE DEF S
  <2>3. u = [k \in 1 .. (1 + Len(s) - 3) |-> s[3 + k - 1]]
    BY <2>2, <1>1
  <2>4. 1 + Len(s) - 3 = Len(s) - 2 /\ \A k \in 1 .. Len(s) - 2 : 3 + k - 1 = k + 2
    BY <1>1
  <2> QED  BY <2>3, <2>4
<1>6. Tail(t) = [k \in 1 .. Len(s) - 2 |-> Tail(t)[k]]
  <2>1. Len(Tail(t)) = Len(s) - 2
    BY <1>1, <1>2, <1>4
  <2> QED  BY <1>4, <2>1 DEF IsSequence
<1>7. ASSUME NEW k \in 1 .. Len(s) - 2  PROVE Tail(t)[k] = s[k + 2]
  <2>1. k \in 1 .. Len(t) - 1 /\ k + 1 \in 1 .. Len(s) - 1 /\ (k + 1) + 1 = k + 2
    BY <1>1, <1>2
  <2>2. Tail(t)[k] = t[k + 1]
    BY <1>4, <2>1
  <2>3. t[k + 1] = s[(k + 1) + 1]
    BY <1>2, <2>1
  <2> QED  BY <2>1, <2>2, <2>3
<1> HIDE DEF u
<1>8. Tail(t) = u
  BY <1>5, <1>6, <1>7
<1> QED  BY <1>8 DEF t, u

\* Return.
LEMMA ReturnStep ==
  ASSUME RunInv, Return
  PROVE  RunInv'
<1> DEFINE ret == Instruction(Top)
           v == ValueOf(Top, ret.val)
<1>1. InstructionIs(prog, code, stack, ret, "ret") /\ stack # <<>>
  BY NextInstructionRuns DEF Return
<1>2. UNCHANGED <<passVars, shadow>>
  BY DEF Return
<1>3. CASE Len(stack) = 1
  <2>1. stack' = <<>>
    BY <1>3 DEF Return
  <2>2. RunFits(prog, code, made, <<>>, shadow)
    BY MainReturns DEF RunInv
  <2> QED  BY <1>2, <2>1, <2>2 DEF RunInv, passVars
<1>4. CASE Len(stack) # 1
  <2>1. stack' = <<Produced(stack[2], v)>> \o SubSeq(stack, 3, Len(stack))
    BY <1>4 DEF Return
  <2>2. StackFits(prog, code, made, stack)
    BY DEF RunInv, RunFits
  <2>3. Len(stack) >= 2 /\ IsSequence(stack)
    BY <1>1, <1>4, <2>2, StackPopped DEF StackFits
  <2>4. SubSeq(stack, 3, Len(stack)) = Tail(Tail(stack))
    BY <2>3, SecondPopped
  <2>5. IsRecord(stack[2])
    <3>1. RunFits(prog, code, made, stack, shadow)
      BY DEF RunInv
    <3> HIDE DEF ret
    <3> DEFINE rest == Tail(stack)
               out == stack[2]
               G == prog[out.fun]
               call == G.body[out.at]
               w == ValueOf(stack[1], ret.val)
    <3>2. IsReturn(prog, stack, ret, rest, out, G, call, w)
      BY DEF IsReturn
    <3> HIDE DEF rest, out, G, call, w
    <3>3. Runs(prog, G, code[out.fun], made[out.fun], out)
      BY <1>1, <1>4, <3>1, <3>2, CalleeReturns
    <3>4. IsActivation(G, code[out.fun], out)
      BY <3>3, RunsParts
    <3> QED  BY <3>4 DEF IsActivation, IsRecord, out
  <2>6. Produced(stack[2], v) = MovedWith(stack[2], v)
    <3> HIDE DEF v
    <3> QED  BY <2>5, ActivationMoves
  <2>7. stack' = Replaced(MovedWith(stack[2], ValueOf(stack[1], ret.val)), Tail(stack))
    <3> HIDE DEF ret
    <3> QED  BY <2>1, <2>4, <2>6 DEF Replaced, Top
  <2>8. RunFits(prog, code, made, stack', shadow)
    <3> HIDE DEF ret
    <3> QED  BY <1>1, <1>4, <2>7, ReturnKeeps DEF RunInv
  <2> QED  BY <1>2, <2>8 DEF RunInv, passVars
<1> QED  BY <1>3, <1>4

-----------------------------------------------------------------------------
(* The run-time starts Main                                                 *)

\* The frame of the run-time.
LEMMA StartFrames ==
  ASSUME NEW size, Len(size) = 1, size[1] = 0,
         NEW shd, IsSequence(shd), Len(shd) = 1, NEW last, DOMAIN shd[1] = 0 .. last - 1
  PROVE  FramesFit(size, shd, last)
<1> DEFINE owner == [d \in 1 .. 1 |-> 2]
<1>1. owner \in [1 .. Len(shd) -> 1 .. Len(size) + 1] /\ owner[1] = 2
  OBVIOUS
<1> HIDE DEF owner
<1>2. IsOwner(size, shd, owner)
  <2>1. \A d, e \in 1 .. Len(shd) : d < e => owner[d] < owner[e]
    OBVIOUS
  <2>2. owner[Len(shd)] = Len(size) + 1
    BY <1>1
  <2>3. \A a \in 1 .. Len(size) : size[a] # 0 <=> \E d \in 1 .. Len(shd) : owner[d] = a
    BY <1>1
  <2> QED  BY <1>1, <2>1, <2>2, <2>3 DEF IsOwner
<1>3. \A d \in 1 .. Len(shd) - 1 : DOMAIN shd[d] = 0 .. size[owner[d]] - 1
  OBVIOUS
<1> QED  BY <1>1, <1>2, <1>3 DEF FramesFit

\* The arguments of Main lie in the slots from 0 on.
LEMMA MainArguments ==
  ASSUME NEW F, F.params \in Seq(ElementType), NumberOfPointers(F.ret) = 0,
         \A j \in DOMAIN F.params : F.params[j] = "p"
  PROVE  /\ DOMAIN F.params = 1 .. Len(F.params) /\ Len(F.params) \in Nat
         /\ \A j \in DOMAIN F.params : ArgumentSlot(F, j) = j - 1
<1>1. DOMAIN F.params = 1 .. Len(F.params) /\ Len(F.params) \in Nat
  OBVIOUS
<1>2. ASSUME NEW j \in DOMAIN F.params  PROVE ArgumentSlot(F, j) = j - 1
  <2>1. {i \in 1 .. j - 1 : F.params[i] = "p"} = 1 .. j - 1
    BY <1>1
  <2>2. j \in Int /\ j >= 1
    BY <1>1
  <2>3. Cardinality(1 .. j - 1) = j - 1
    BY <2>2, FS_Interval
  <2>4. ArgumentSlot(F, j) = NumberOfPointers(F.ret) + Cardinality(1 .. j - 1)
    BY <2>1, Zenon DEF ArgumentSlot
  <2> QED  BY <2>2, <2>3, <2>4
<1> QED  BY <1>1, <1>2

\* The first activation and its frame fit an instrumented program.
LEMMA StartRuns ==
  ASSUME NEW p, NEW cs, NEW ms, IsInstrumented(p, cs, ms), NEW cond \in BOOLEAN,
         NEW args \in [DOMAIN p[Main].params -> Object],
         NEW s, s = <<Activation(Main, args, cond)>>,
         NEW shd, shd = <<[slot \in 0 .. Len(args) - 1 |-> args[slot + 1]]>>
  PROVE  RunFits(p, cs, ms, s, shd)
<1> DEFINE F == p[Main]
           act == Activation(Main, args, cond)
           frame == [slot \in 0 .. Len(args) - 1 |-> args[slot + 1]]
<1>1. /\ p \in Programs /\ WellFormed(p) /\ Main \in Function
      /\ IsFunction(p, F) /\ F.body # <<>> /\ NumberOfPointers(F.ret) = 0
      /\ \A j \in DOMAIN F.params : F.params[j] = "p"
  BY ProgramAssumption DEF IsInstrumented, WellFormed
<1>2. F.params \in Seq(ElementType) /\ Instrumented(F, cs[Main], ms[Main])
  BY <1>1 DEF IsFunction, IsInstrumented
<1>3. /\ DOMAIN F.params = 1 .. Len(F.params) /\ Len(F.params) \in Nat
      /\ \A j \in DOMAIN F.params : ArgumentSlot(F, j) = j - 1
  <2> HIDE DEF F
  <2> QED  BY <1>1, <1>2, MainArguments
<1>4. /\ DOMAIN args = DOMAIN F.params /\ \A j \in DOMAIN F.params : args[j] \in Object
      /\ Len(args) = Len(F.params)
  <2>1. DOMAIN args = DOMAIN F.params /\ \A j \in DOMAIN F.params : args[j] \in Object
    OBVIOUS
  <2>2. args = [k \in 1 .. Len(F.params) |-> args[k]]
    BY <1>3
  <2>3. Len(args) = Len(F.params)
    BY <1>3, <2>1, <2>2, FunctionIsSequence
  <2> QED  BY <2>1, <2>3
<1>5. act.fun = Main /\ act.at = 1 /\ act.done = 0
  BY DEF Activation
<1>6. ActivationFits(F, cs[Main], ms[Main], act)
  <2> HIDE DEF F
  <2>1. WellFormed(p) /\ IsFunction(p, F)
    BY <1>1
  <2> QED  BY <1>1, <1>2, <1>4, <2>1, EntryFits
<1>7. frame = [slot \in 0 .. Len(F.params) - 1 |-> args[slot + 1]]
  BY <1>4
<1>8. /\ DOMAIN frame = 0 .. Len(F.params) - 1
      /\ \A slot \in DOMAIN frame : frame[slot] \in Object
      /\ \A j \in DOMAIN F.params : j - 1 \in DOMAIN frame /\ frame[j - 1] = args[j]
  <2>1. DOMAIN frame = 0 .. Len(F.params) - 1
    BY <1>7
  <2>2. ASSUME NEW slot \in DOMAIN frame  PROVE frame[slot] \in Object
    <3>1. slot + 1 \in DOMAIN F.params /\ frame[slot] = args[slot + 1]
      BY <1>3, <1>7, <2>1
    <3> QED  BY <1>4, <3>1
  <2>3. ASSUME NEW j \in DOMAIN F.params
        PROVE  j - 1 \in DOMAIN frame /\ frame[j - 1] = args[j]
    <3>1. j - 1 \in 0 .. Len(F.params) - 1 /\ (j - 1) + 1 = j
      BY <1>3
    <3> QED  BY <1>7, <3>1
  <2> QED  BY <2>1, <2>2, <2>3
<1> HIDE DEF act, frame
<1>9. /\ IsSequence(s) /\ Len(s) = 1 /\ s[1] = act /\ s # <<>>
      /\ IsSequence(shd) /\ Len(shd) = 1 /\ shd[1] = frame /\ DOMAIN shd = {1}
  <2>1. IsSequence(s) /\ Len(s) = 1 /\ s[1] = act
    BY ShortSequences DEF act
  <2>2. IsSequence(shd) /\ Len(shd) = 1 /\ shd[1] = frame
    BY ShortSequences DEF frame
  <2>3. s # <<>>
    BY <2>1, ShortSequences
  <2>4. DOMAIN shd = {1}
    BY <2>2, SequenceDomain
  <2> QED  BY <2>1, <2>2, <2>3, <2>4
<1>10. StackFits(p, cs, ms, s)
  <2>1. Fits(p, cs, ms, act)
    BY <1>1, <1>5, <1>6 DEF Fits
  <2>2. Len(s) <= MaxDepth
    BY <1>9, DepthAssumption
  <2>3. \A a \in 1 .. Len(s) : Fits(p, cs, ms, s[a])
    BY <1>9, <2>1
  <2>4. \A a \in 2 .. Len(s) : Waits(p, cs, s[a], s[a - 1].fun)
    BY <1>9
  <2>5. s[Len(s)].fun = Main
    BY <1>5, <1>9
  <2> QED  BY <1>9, <2>2, <2>3, <2>4, <2>5 DEF StackFits
<1>11. SlotsFit(shd)
  BY <1>8, <1>9 DEF SlotsFit
<1>12. FramesFit(SizesOf(p, cs, s), shd, Len(F.params))
  <2>1. Len(SizesOf(p, cs, s)) = 1 /\ SizesOf(p, cs, s)[1] = SizeOf(p, cs, act)
    <3>1. /\ Len(SizesOf(p, cs, s)) = Len(s)
          /\ \A a \in 1 .. Len(s) : SizesOf(p, cs, s)[a] = SizeOf(p, cs, s[a])
      <4>1. IsSequence(s)
        BY <1>9
      <4> QED  BY <4>1, SizesList
    <3>2. 1 \in 1 .. Len(s)
      BY <1>9
    <3> QED  BY <1>9, <3>1, <3>2
  <2>2. SizeOf(p, cs, act) = 0
    BY <1>5, SizeOnEntry DEF SizeOf
  <2>3. DOMAIN shd[1] = 0 .. Len(F.params) - 1
    BY <1>8, <1>9
  <2> HIDE DEF F
  <2> QED  BY <1>9, <2>1, <2>2, <2>3, StartFrames
<1>13. FrameHolds(F, cs[Main], act, frame)
  <2>1. \A j \in DOMAIN F.params : F.params[j] = "p" =>
          ArgumentSlot(F, j) \in DOMAIN frame /\ frame[ArgumentSlot(F, j)] = args[j]
    BY <1>3, <1>8
  <2> HIDE DEF F
  <2> QED  BY <2>1, EntryHolds DEF act
<1>14. ShadowFits(p, cs, s, shd)
  BY <1>5, <1>9, <1>12, <1>13 DEF ShadowFits
<1> QED  BY <1>1, <1>9, <1>10, <1>11, <1>14, RunReached

\* Once the pass is done, every function is instrumented.
LEMMA AllInstrumented ==
  PassInv /\ step = "done" /\ LoadsAreRightAfterTheCall => IsInstrumented(prog, code, made)
<1> SUFFICES ASSUME PassInv, step = "done", LoadsAreRightAfterTheCall
             PROVE  IsInstrumented(prog, code, made)
  OBVIOUS
<1>1. prog \in Programs /\ left = {}
  BY DEF PassInv, PassTypes
<1>2. WellFormed(prog)
  BY <1>1, ProgramsFit
<1>3. ASSUME NEW f \in Function, prog[f].body # <<>>
      PROVE  Instrumented(prog[f], code[f], made[f])
  <2>1. HasBody(f) /\ HandledUpTo(f) = Len(prog[f].body) + 1 /\ f \in Function \ left
    BY <1>1, <1>3 DEF HasBody, HandledUpTo
  <2>2. Layout(prog[f], code[f], made[f], Len(prog[f].body) + 1)
    BY <2>1 DEF PassInv
  <2>3. \A i \in DOMAIN prog[f].body : NeedsMet(prog[f], made[f], i)
    BY <2>1 DEF PassInv
  <2> QED  BY <2>2, <2>3 DEF Instrumented
<1>4. ASSUME NEW f \in Function  PROVE LoadsFirst(code[f])
  BY DEF LoadsFirst, LoadsAreRightAfterTheCall
<1> QED  BY <1>1, <1>2, <1>3, <1>4 DEF IsInstrumented

Starting ==
  \E cond \in BOOLEAN,
     args \in [DOMAIN prog[Main].params -> Object \ {GlobalObject, NullObject}] :
    Started(cond, args)

\* The program that starts fits what the pass left behind.
LEMMA ProgramStarts ==
  PassInv /\ step = "done" /\ LoadsAreRightAfterTheCall /\ Starting => RunInv
<1> SUFFICES ASSUME PassInv, step = "done", LoadsAreRightAfterTheCall, Starting
             PROVE  RunInv
  OBVIOUS
<1>1. IsInstrumented(prog, code, made)
  BY AllInstrumented
<1>2. PICK cond \in BOOLEAN, args \in [DOMAIN prog[Main].params -> Object] :
        Started(cond, args)
  BY DEF Starting
<1>3. /\ stack = <<Activation(Main, args, cond)>>
      /\ shadow = <<[slot \in 0 .. Len(args) - 1 |-> args[slot + 1]]>>
  BY <1>2 DEF Started
<1> QED  BY <1>1, <1>3, StartRuns DEF RunInv

-----------------------------------------------------------------------------
(* The inductive invariant                                                  *)

IInv ==
  /\ PassInv
  /\ step # "done" => Starting
  /\ step = "done" /\ LoadsAreRightAfterTheCall => RunInv

\* Every step of the program keeps the invariant.
LEMMA RunNextKeeps ==
  ASSUME RunInv, RunNext
  PROVE  RunInv'
<1>1. CASE AllocateShadowStack
  BY <1>1, AllocateStep
<1>2. CASE DeallocateShadowStack
  BY <1>2, DeallocateStep
<1>3. CASE StoreShadowStack
  BY <1>3, StoreStep
<1>4. CASE LoadShadowStack
  BY <1>4, LoadStep
<1>5. CASE ChooseWitness
  BY <1>5, ChooseStep
<1>6. CASE Access
  BY <1>6, AccessStep
<1>7. CASE Branch
  BY <1>7, BranchStep
<1>8. CASE Select
  BY <1>8, SelectStep
<1>9. CASE ExtractValue
  BY <1>9, ExtractStep
<1>10. CASE InsertValue
  BY <1>10, InsertStep
<1>11. CASE Call
  BY <1>11, CallStep
<1>12. CASE CallWrapper
  BY <1>12, WrapperStep
<1>13. CASE Return
  BY <1>13, ReturnStep
<1> QED  BY <1>1, <1>2, <1>3, <1>4, <1>5, <1>6, <1>7, <1>8, <1>9, <1>10, <1>11, <1>12,
            <1>13 DEF RunNext

\* IInv holds initially.
LEMMA RunStarts ==
  ASSUME Init
  PROVE  IInv
<1>1. PassInv
  BY PassStarts DEF Init
<1>2. step # "done"
  BY DEF Init, PassInit
<1>3. Starting
  BY DEF Init, Starting
<1> QED  BY <1>1, <1>2, <1>3 DEF IInv

\* The program waits for the pass.
LEMMA PassStepKeeps ==
  ASSUME IInv, PassNext, UNCHANGED <<stack, shadow>>
  PROVE  IInv'
<1>1. PassInv'
  BY PassKeeps DEF IInv
<1>2. step # "done" /\ prog' = prog
  <2>1. PassTypes
    BY DEF IInv, PassInv
  <2>2. step \in {"witnesses", "invariants"}
    BY DEF PassNext, NextTarget, WitnessExists, CreateRequirement, InsertWitnesses,
           WitnessesDone, HandleInvariant, NextFunction, IsRequested
  <2>3. prog' = prog
    BY DEF PassNext, NextTarget, WitnessExists, CreateRequirement, InsertWitnesses,
           WitnessesDone, HandleInvariant, NextFunction
  <2> QED  BY <2>2, <2>3
<1>3. Starting'
  BY <1>2 DEF IInv, Starting, Started
<1>4. (PassInv /\ step = "done" /\ LoadsAreRightAfterTheCall /\ Starting => RunInv)'
  BY ProgramStarts, PTL
<1> QED  BY <1>1, <1>3, <1>4 DEF IInv

\* IInv is inductive.
LEMMA InvariantKept ==
  ASSUME IInv, [Next]_vars
  PROVE  IInv'
<1>1. CASE PassNext /\ UNCHANGED <<stack, shadow>>
  BY <1>1, PassStepKeeps
<1>2. CASE RunNext
  <2>1. step = "done" /\ UNCHANGED passVars
    BY <1>2, RunNextRuns
  <2>2. PassInv'
    BY <2>1, PassStays DEF IInv
  <2>3. LoadsAreRightAfterTheCall' => RunInv'
    <3>1. LoadsAreRightAfterTheCall' <=> LoadsAreRightAfterTheCall
      BY <2>1 DEF LoadsAreRightAfterTheCall, passVars
    <3> QED  BY <1>2, <2>1, <3>1, RunNextKeeps DEF IInv
  <2>4. step' = "done"
    BY <2>1 DEF passVars
  <2> QED  BY <2>2, <2>3, <2>4 DEF IInv
<1>3. CASE UNCHANGED vars
  <2>1. UNCHANGED passVars /\ UNCHANGED <<stack, shadow>>
    BY <1>3 DEF vars
  <2>2. PassInv'
    BY <2>1, PassStays DEF IInv
  <2>3. Starting' <=> Starting
    BY <2>1 DEF Starting, Started, passVars
  <2>4. LoadsAreRightAfterTheCall' <=> LoadsAreRightAfterTheCall
    BY <2>1 DEF LoadsAreRightAfterTheCall, passVars
  <2>5. RunInv' <=> RunInv
    BY <2>1 DEF RunInv, passVars
  <2>6. step' = step
    BY <2>1 DEF passVars
  <2> QED  BY <2>2, <2>3, <2>4, <2>5, <2>6 DEF IInv
<1> QED  BY <1>1, <1>2, <1>3 DEF Next, RunNext

\* IInv holds throughout: after every step of the pass its layouts are as described,
\* and while the program runs its activations and frames fit them.
THEOREM InvariantHolds == Spec => []IInv
<1>1. Init => IInv
  BY RunStarts
<1>2. IInv /\ [Next]_vars => IInv'
  BY InvariantKept
<1> QED  BY <1>1, <1>2, PTL DEF Spec

-----------------------------------------------------------------------------
(* Before the program runs                                                  *)

IsStart(cond, args) ==
  /\ args \in [DOMAIN prog[Main].params -> Object \ {GlobalObject, NullObject}]
  /\ stack = <<Activation(Main, args, cond)>>
  /\ shadow = <<[slot \in 0 .. Len(args) - 1 |-> args[slot + 1]]>>

\* What is known before the pass is done.
LEMMA StartIs ==
  ASSUME PassInv, Starting
  PROVE  LET F == prog[Main] IN
         /\ prog \in Programs /\ IsFunction(prog, F) /\ F.body # <<>>
         /\ DOMAIN F.params = 1 .. Len(F.params) /\ Len(F.params) \in Nat
         /\ \A j \in DOMAIN F.params : ArgumentSlot(F, j) = j - 1
         /\ Len(stack) = 1 /\ stack # <<>> /\ DOMAIN stack = {1}
         /\ Top.fun = Main /\ Top.at = 1 /\ Top.done = 0 /\ Top.wit = <<>>
         /\ DOMAIN Top.args = DOMAIN F.params
         /\ Len(shadow) = 1 /\ shadow # <<>> /\ DOMAIN shadow = {1}
         /\ DOMAIN shadow[1] = 0 .. Len(F.params) - 1
         /\ \A slot \in DOMAIN shadow[1] :
              shadow[1][slot] \in Object /\ shadow[1][slot] = Top.args[slot + 1]
<1> DEFINE F == prog[Main]
<1>1. PICK cond, args : IsStart(cond, args)
  BY DEF Starting, Started, IsStart
<1>2. /\ prog \in Programs /\ IsFunction(prog, F) /\ F.body # <<>>
      /\ NumberOfPointers(F.ret) = 0 /\ \A j \in DOMAIN F.params : F.params[j] = "p"
  <2>1. prog \in Programs
    BY DEF PassInv, PassTypes
  <2> QED  BY <2>1, ProgramAssumption
<1>3. /\ DOMAIN F.params = 1 .. Len(F.params) /\ Len(F.params) \in Nat
      /\ \A j \in DOMAIN F.params : ArgumentSlot(F, j) = j - 1
  <2>1. F.params \in Seq(ElementType)
    BY <1>2 DEF IsFunction
  <2> HIDE DEF F
  <2> QED  BY <1>2, <2>1, MainArguments
<1>4. /\ DOMAIN args = DOMAIN F.params /\ \A j \in DOMAIN F.params : args[j] \in Object
      /\ Len(args) = Len(F.params)
  <2>1. DOMAIN args = DOMAIN F.params /\ \A j \in DOMAIN F.params : args[j] \in Object
    BY <1>1 DEF IsStart
  <2>2. args = [k \in 1 .. Len(F.params) |-> args[k]]
    BY <1>1, <1>3 DEF IsStart
  <2>3. Len(args) = Len(F.params)
    BY <1>3, <2>1, <2>2, FunctionIsSequence
  <2> QED  BY <2>1, <2>3
<1> DEFINE act == Activation(Main, args, cond)
           frame == [slot \in 0 .. Len(args) - 1 |-> args[slot + 1]]
<1>5. act.fun = Main /\ act.at = 1 /\ act.done = 0 /\ act.wit = <<>> /\ act.args = args
  BY DEF Activation
<1>6. /\ DOMAIN frame = 0 .. Len(F.params) - 1
      /\ \A slot \in DOMAIN frame : frame[slot] \in Object /\ frame[slot] = args[slot + 1]
  <2>1. DOMAIN frame = 0 .. Len(F.params) - 1
    BY <1>4
  <2>2. ASSUME NEW slot \in DOMAIN frame
        PROVE  frame[slot] \in Object /\ frame[slot] = args[slot + 1]
    <3>1. slot + 1 \in DOMAIN F.params /\ frame[slot] = args[slot + 1]
      BY <1>3, <2>1
    <3> QED  BY <1>4, <3>1
  <2> QED  BY <2>1, <2>2
<1> HIDE DEF act, frame
<1>7. /\ Len(stack) = 1 /\ stack # <<>> /\ DOMAIN stack = {1} /\ stack[1] = act
      /\ Len(shadow) = 1 /\ shadow # <<>> /\ DOMAIN shadow = {1} /\ shadow[1] = frame
  <2>1. stack = <<act>> /\ shadow = <<frame>>
    BY <1>1 DEF IsStart, act, frame
  <2>2. /\ IsSequence(stack) /\ Len(stack) = 1 /\ stack[1] = act
        /\ IsSequence(shadow) /\ Len(shadow) = 1 /\ shadow[1] = frame
    BY <2>1, ShortSequences
  <2>3. DOMAIN stack = {1} /\ DOMAIN shadow = {1}
    BY <2>2, SequenceDomain
  <2>4. stack # <<>> /\ shadow # <<>>
    BY <2>2, ShortSequences
  <2> QED  BY <2>2, <2>3, <2>4
<1>8. Top = act
  BY <1>7 DEF Top
<1> HIDE DEF F
<1>9. /\ Top.fun = Main /\ Top.at = 1 /\ Top.done = 0 /\ Top.wit = <<>>
      /\ DOMAIN Top.args = DOMAIN F.params
  BY <1>4, <1>5, <1>8
<1>10. /\ DOMAIN shadow[1] = 0 .. Len(F.params) - 1
       /\ \A slot \in DOMAIN shadow[1] :
            shadow[1][slot] \in Object /\ shadow[1][slot] = Top.args[slot + 1]
  BY <1>5, <1>6, <1>7, <1>8
<1> QED  BY <1>2, <1>3, <1>7, <1>9, <1>10 DEF F

\* Nothing is executed until then.
LEMMA NothingRunsYet ==
  ASSUME step # "done"
  PROVE  \A op : ~Running(op) /\ ~Executes(op)
BY DEF Running, Executes, IsRunning

-----------------------------------------------------------------------------
(* Arguments                                                                *)

\* The invariant implies ArgumentsArePassed.
LEMMA ArgumentsRight ==
  ASSUME IInv, LoadsAreRightAfterTheCall
  PROVE  ArgumentsArePassed
<1> SUFFICES ASSUME IsEntered, NEW j \in DOMAIN Top.args, Fun(Top).params[j] = "p"
             PROVE  /\ shadow # <<>>
                    /\ ArgumentSlot(Fun(Top), j) \in DOMAIN shadow[1]
                    /\ shadow[1][ArgumentSlot(Fun(Top), j)] = Top.args[j]
  BY DEF ArgumentsArePassed
<1>1. CASE step # "done"
  <2> DEFINE F == prog[Main]
  <2>1. PassInv /\ Starting
    BY <1>1 DEF IInv
  <2>2. /\ Top.fun = Main /\ shadow # <<>> /\ DOMAIN Top.args = DOMAIN F.params
        /\ DOMAIN F.params = 1 .. Len(F.params) /\ Len(F.params) \in Nat
        /\ ArgumentSlot(F, j) = j - 1
        /\ DOMAIN shadow[1] = 0 .. Len(F.params) - 1
        /\ \A slot \in DOMAIN shadow[1] : shadow[1][slot] = Top.args[slot + 1]
    BY <2>1, StartIs
  <2>3. j - 1 \in DOMAIN shadow[1] /\ (j - 1) + 1 = j
    BY <2>2
  <2>4. Fun(Top) = F
    BY <2>2 DEF Fun
  <2> HIDE DEF F
  <2> QED  BY <2>2, <2>3, <2>4
<1>2. CASE step = "done"
  <2>1. RunFits(prog, code, made, stack, shadow) /\ stack # <<>> /\ Top.at = 1 /\ Top.done = 0
    BY <1>2 DEF IInv, RunInv, IsEntered
  <2>2. /\ Runs(prog, Fun(Top), code[Top.fun], made[Top.fun], Top)
        /\ FrameHolds(Fun(Top), code[Top.fun], Top, shadow[1]) /\ shadow # <<>>
    BY <2>1, TopRuns DEF Top, Fun
  <2>3. DOMAIN Top.args = DOMAIN Fun(Top).params
    <3>1. IsActivation(Fun(Top), code[Top.fun], Top)
      BY <2>2, RunsParts
    <3> QED  BY <3>1 DEF IsActivation
  <2>4. ArgumentsHeld(Fun(Top), code[Top.fun], Top, shadow[1])
    BY <2>2 DEF FrameHolds
  <2>5. \A k \in 1 .. Top.done : code[Top.fun][1][k].op \in Fills
    BY <2>1
  <2> QED  BY <2>1, <2>2, <2>3, <2>4, <2>5 DEF ArgumentsHeld
<1> QED  BY <1>1, <1>2

-----------------------------------------------------------------------------
(* Bounds                                                                   *)

\* An access has a witness for its pointer.
LEMMA AccessNeeds ==
  ASSUME NEW p, WellFormed(p), NEW F, IsFunction(p, F), NEW i \in DOMAIN F.body,
         F.body[i].op = "access", NEW m, NeedsMet(F, m, i), WitnessesFit(F, m)
  PROVE  LET o == F.body[i].val IN
         o \in DOMAIN m /\ IsValue(F, o, i) /\ 1 \in DOMAIN m[o]
<1> DEFINE o == F.body[i].val
<1>1. IsValueOf(F, o, i, Pointer)
  BY Instructions
<1>2. Needs(F, F.body[i]) = <<o>>
  BY DEF Needs
<1>3. 1 \in DOMAIN <<o>> /\ <<o>>[1] = o
  OBVIOUS
<1>4. o \in DOMAIN m
  <2>1. \A n \in DOMAIN <<o>> : <<o>>[n] \in DOMAIN m
    BY <1>2 DEF NeedsMet
  <2> QED  BY <1>3, <2>1
<1> HIDE DEF o
<1>5. IsValue(F, o, i) /\ TypeOf(F, o) = Pointer
  BY <1>1 DEF IsValueOf
<1>6. 1 \in DOMAIN m[o]
  BY <1>4, <1>5, PointerIsType DEF WitnessesFit
<1> QED  BY <1>4, <1>5, <1>6 DEF o

\* The invariant implies WitnessesAreRight.
LEMMA WitnessesRight ==
  ASSUME IInv, LoadsAreRightAfterTheCall
  PROVE  WitnessesAreRight
<1>1. CASE step # "done"
  <2>1. PassInv /\ Starting
    BY <1>1 DEF IInv
  <2>2. DOMAIN stack = {1} /\ Top.wit = <<>>
    BY <2>1, StartIs
  <2>3. \A a \in DOMAIN stack : DOMAIN stack[a].wit = {}
    BY <2>2 DEF Top
  <2>4. ~Executes("access")
    BY <1>1, NothingRunsYet
  <2> QED  BY <2>3, <2>4 DEF WitnessesAreRight
<1>2. CASE step = "done"
  <2>1. RunFits(prog, code, made, stack, shadow)
    BY <1>2 DEF IInv, RunInv
  <2>2. IsInstrumented(prog, code, made) /\ StackFits(prog, code, made, stack)
    BY <2>1 DEF RunFits
  <2>3. ASSUME NEW a \in DOMAIN stack, NEW r \in DOMAIN stack[a].wit,
               r.of.kind = "arg" \/ r.of.at \in DOMAIN stack[a].val
        PROVE  stack[a].wit[r] = ValueOf(stack[a], r.of)[r.k]
    <3> DEFINE act == stack[a]
    <3>1. a \in 1 .. Len(stack)
      BY <2>2, SequenceDomain DEF StackFits
    <3>2. Fits(prog, code, made, act)
      BY <2>2, <3>1 DEF StackFits
    <3> HIDE DEF act
    <3>3. Runs(prog, prog[act.fun], code[act.fun], made[act.fun], act)
      BY <2>2, <3>2, FitRuns
    <3>4. RegistersFit(prog[act.fun], made[act.fun], act)
      BY <3>3, RunsParts
    <3>5. r \in DOMAIN act.wit /\ (r.of.kind = "arg" \/ r.of.at \in DOMAIN act.val)
      BY <2>3 DEF act
    <3>6. r.of.kind \in {"arg", "inst"} /\ Available(act, r.of)
      BY <3>4, <3>5 DEF RegistersFit, Available
    <3>7. act.wit[r] = Element(act, r)
      BY <3>4, <3>5, <3>6 DEF RegistersFit
    <3>8. act.wit[r] = ValueOf(act, r.of)[r.k]
      BY <3>6, <3>7 DEF Element
    <3> QED  BY <3>8 DEF act
  <2>4. ASSUME Executes("access")
        PROVE  LET val == Instruction(Top).val IN
               BoundsIn(Top, made[Top.fun][val][1]) = ValueOf(Top, val)[1]
    <3> DEFINE F == prog[Top.fun]
               c == code[Top.fun]
               m == made[Top.fun]
               o == F.body[Top.at].val
    <3>1. InstructionIs(prog, code, stack, Instruction(Top), "access") /\ stack # <<>>
      BY <2>4, NextInstructionRuns
    <3>2. Top.done = Len(c[Top.at]) /\ F.body[Top.at].op = "access"
      BY <3>1 DEF InstructionIs, Top
    <3>3. Runs(prog, F, c, m, Top)
      BY <2>1, <3>1, TopRuns DEF Top
    <3> HIDE DEF F, c, m
    <3>4. /\ WellFormed(prog) /\ IsFunction(prog, F) /\ Instrumented(F, c, m)
          /\ ActivationFits(F, c, m, Top)
      BY <3>3 DEF Runs
    <3>5. Top.at \in DOMAIN F.body /\ WitnessesFit(F, m)
      BY <3>3, RunsParts
    <3>6. NeedsMet(F, m, Top.at)
      BY <3>4, <3>5 DEF Instrumented
    <3>7. o \in DOMAIN m /\ IsValue(F, o, Top.at) /\ 1 \in DOMAIN m[o]
      <4> DEFINE i == Top.at
      <4>1. i \in DOMAIN F.body /\ NeedsMet(F, m, i) /\ F.body[i].op = "access"
        BY <3>2, <3>5, <3>6
      <4> HIDE DEF i
      <4>2. LET v == F.body[i].val IN
            v \in DOMAIN m /\ IsValue(F, v, i) /\ 1 \in DOMAIN m[v]
        BY <3>4, <3>5, <4>1, AccessNeeds
      <4> QED  BY <4>2 DEF i
    <3> HIDE DEF o
    <3>8. BoundsIn(Top, m[o][1]) = ValueOf(Top, o)[1]
      BY <3>2, <3>4, <3>7, BoundsRightAtEnd
    <3>9. Instruction(Top).val = o
      BY DEF Instruction, Fun, o, F
    <3> QED  BY <3>8, <3>9 DEF m
  <2> QED  BY <2>3, <2>4 DEF WitnessesAreRight
<1> QED  BY <1>1, <1>2

-----------------------------------------------------------------------------
(* Frames                                                                   *)

\* A call that waits has a frame if and only if it passes pointers.
LEMMA WaitingSize ==
  ASSUME NEW p, NEW cs, NEW ms, IsInstrumented(p, cs, ms),
         NEW act, Fits(p, cs, ms, act), NEW f, Waits(p, cs, act, f)
  PROVE  SizeOf(p, cs, act) # 0 <=> PassesPointers(p[act.fun].body[act.at])
<1> DEFINE F == p[act.fun]
           c == cs[act.fun]
           i == act.at
<1>1. Runs(p, F, c, ms[act.fun], act)
  BY FitRuns
<1>2. act.done = Len(c[i]) /\ F.body[i].op = "call"
  BY DEF Waits
<1> HIDE DEF F, c
<1>3. OpenSize(F, c, act) = FrameOf(F, i)
  BY <1>1, <1>2, SizeAtEnd
<1>4. WellFormed(p) /\ IsFunction(p, F) /\ i \in DOMAIN F.body
  BY <1>1, RunsParts DEF Runs
<1> HIDE DEF i
<1>5. FrameSize(F.body[i]) # 0 <=> PassesPointers(F.body[i])
  BY <1>2, <1>4, CallSlots
<1>6. OpenSize(F, c, act) = FrameSize(F.body[i])
  BY <1>2, <1>3 DEF FrameOf
<1>7. OpenSize(F, c, act) # 0 <=> PassesPointers(F.body[i])
  BY <1>5, <1>6
<1> QED  BY <1>7 DEF F, c, i, SizeOf

\* The invariant implies FramesMatchCalls.
LEMMA FramesRight ==
  ASSUME IInv, LoadsAreRightAfterTheCall
  PROVE  FramesMatchCalls
<1> DEFINE Outer == {a \in 2 .. Len(stack) : PassesPointers(Instruction(stack[a]))}
<1>1. CASE step # "done"
  <2>1. PassInv /\ Starting
    BY <1>1 DEF IInv
  <2>2. Len(stack) = 1 /\ Len(shadow) = 1
    BY <2>1, StartIs
  <2>3. Outer = {}
    BY <2>2
  <2>4. Cardinality({}) = 0
    BY FS_EmptySet
  <2>5. ~Running("load") /\ ~Running("store")
    BY <1>1, NothingRunsYet
  <2>6. Len(shadow) = 1 + Cardinality(Outer)
    BY <2>2, <2>3, <2>4
  <2> QED  BY <2>5, <2>6 DEF FramesMatchCalls
<1>2. CASE step = "done"
  <2>1. RunFits(prog, code, made, stack, shadow)
    BY <1>2 DEF IInv, RunInv
  <2>2. ASSUME Running("load") \/ Running("store")  PROVE SlotExists
    <3>1. CASE Running("load")
      <4>1. ItemIs(code, stack, Item(Top), "load")
        BY <3>1, NextItemRuns
      <4> QED  BY <2>1, <4>1, LoadSlot DEF SlotExists, Slot
    <3>2. CASE Running("store")
      <4>1. ItemIs(code, stack, Item(Top), "store")
        BY <3>2, NextItemRuns
      <4> QED  BY <2>1, <4>1, StoreSlot DEF SlotExists, Slot
    <3> QED  BY <2>2, <3>1, <3>2
  <2>3. ASSUME IsEntered \/ Executes("ret")
        PROVE  Len(shadow) = 1 + Cardinality(Outer)
    <3> DEFINE size == SizesOf(prog, code, stack)
               last == Len(prog[Main].params)
    <3>1. stack # <<>>
      BY <2>3 DEF IsEntered, Executes, IsRunning
    <3>2. IsInstrumented(prog, code, made) /\ StackFits(prog, code, made, stack)
      BY <2>1 DEF RunFits
    <3>3. /\ Runs(prog, prog[stack[1].fun], code[stack[1].fun], made[stack[1].fun], stack[1])
          /\ FramesFit(size, shadow, last)
          /\ Len(size) = Len(stack) /\ Len(stack) \in Nat \ {0}
          /\ size[1] = OpenSize(prog[stack[1].fun], code[stack[1].fun], stack[1])
      BY <2>1, <3>1, TopRuns
    <3>4. \A a \in 1 .. Len(stack) : size[a] = SizeOf(prog, code, stack[a])
      BY <3>2, SizesList DEF StackFits
    <3> HIDE DEF size, last
    <3>5. size[1] = 0
      <4>1. CASE IsEntered
        BY <3>3, <4>1, SizeOnEntry DEF IsEntered, Top
      <4>2. CASE Executes("ret")
        <5>1. InstructionIs(prog, code, stack, Instruction(Top), "ret")
          BY <4>2, NextInstructionRuns
        <5> DEFINE F == prog[stack[1].fun]
                   c == code[stack[1].fun]
        <5>2. stack[1].done = Len(c[stack[1].at]) /\ F.body[stack[1].at].op = "ret"
          BY <5>1 DEF InstructionIs
        <5> HIDE DEF F, c
        <5>3. OpenSize(F, c, stack[1]) = FrameOf(F, stack[1].at)
          BY <3>3, <5>2, SizeAtEnd DEF F, c
        <5>4. FrameOf(F, stack[1].at) = 0
          BY <5>2 DEF FrameOf
        <5> QED  BY <3>3, <5>3, <5>4 DEF F, c
      <4> QED  BY <2>3, <4>1, <4>2
    <3>6. ASSUME NEW a \in 2 .. Len(stack)
          PROVE  size[a] # 0 <=> PassesPointers(Instruction(stack[a]))
      <4>1. a \in 1 .. Len(stack)
        BY <3>3
      <4>2. Fits(prog, code, made, stack[a]) /\ Waits(prog, code, stack[a], stack[a - 1].fun)
        BY <3>2, <4>1 DEF StackFits
      <4>3. SizeOf(prog, code, stack[a]) # 0
              <=> PassesPointers(prog[stack[a].fun].body[stack[a].at])
        BY <3>2, <4>2, WaitingSize
      <4> QED  BY <3>4, <4>1, <4>3 DEF Instruction, Fun
    <3>7. Outer = {a \in 1 .. Len(size) : size[a] # 0}
      <4>1. \A a : a \in 1 .. Len(size) /\ size[a] # 0 => a \in 2 .. Len(stack)
        BY <3>3, <3>5
      <4>2. \A a \in 2 .. Len(stack) : a \in 1 .. Len(size)
        BY <3>3
      <4> HIDE DEF Outer
      <4>3. \A a : a \in Outer <=> a \in 2 .. Len(stack) /\ PassesPointers(Instruction(stack[a]))
        BY DEF Outer
      <4>4. \A a : a \in Outer <=> a \in {b \in 1 .. Len(size) : size[b] # 0}
        BY <3>6, <4>1, <4>2, <4>3
      <4> QED  BY <4>4
    <3>8. Len(shadow) \in Nat /\ Cardinality(Outer) = Len(shadow) - 1
      <4>1. /\ Len(shadow) \in Nat
            /\ Cardinality({a \in 1 .. Len(size) : size[a] # 0}) = Len(shadow) - 1
        BY <3>3, FramesCounted
      <4> HIDE DEF Outer
      <4> QED  BY <3>7, <4>1
    <3> HIDE DEF Outer
    <3> QED  BY <3>8
  <2> QED  BY <2>2, <2>3 DEF FramesMatchCalls
<1> QED  BY <1>1, <1>2

\* The invariant implies TypeOK.
LEMMA TypesRight ==
  ASSUME IInv, LoadsAreRightAfterTheCall
  PROVE  TypeOK
<1>1. CASE step # "done"
  <2> DEFINE F == prog[Main]
  <2>1. PassInv /\ Starting
    BY <1>1 DEF IInv
  <2>2. /\ prog \in Programs /\ IsFunction(prog, F) /\ F.body # <<>>
        /\ Len(stack) = 1 /\ DOMAIN stack = {1}
        /\ Top.fun = Main /\ Top.at = 1 /\ Top.done = 0
        /\ Len(shadow) = 1 /\ DOMAIN shadow = {1}
        /\ \A slot \in DOMAIN shadow[1] : shadow[1][slot] \in Object
    BY <2>1, StartIs
  <2>3. 1 \in DOMAIN F.body
    <3>1. Len(F.body) \in Nat /\ DOMAIN F.body = 1 .. Len(F.body)
      BY <2>2 DEF IsFunction
    <3>2. Len(F.body) # 0
      <4>1. WellFormed(prog)
        BY <2>2, ProgramsFit
      <4>2. IsSequence(F.body) => Len(F.body) # 0
        BY <2>2, EmptySequence
      <4>3. F.body[Len(F.body)].op = "ret" /\ \A i \in DOMAIN F.body : IsInstruction(prog, F, i)
        BY <2>2 DEF IsFunction
      <4> QED  BY <2>2, <3>1, <4>2, <4>3 DEF IsFunction, IsSequence
    <3> QED  BY <3>1, <3>2
  <2>4. Len(code[Main][1]) \in Nat
    <3>1. Main \in Function /\ HasBody(Main)
      BY <2>2, ProgramAssumption DEF HasBody
    <3>2. Layout(F, code[Main], made[Main], HandledUpTo(Main))
      BY <2>1, <3>1 DEF PassInv
    <3> QED  BY <2>3, <3>2 DEF Layout, IsSequence
  <2>5. /\ stack[1].at \in DOMAIN Fun(stack[1]).body
        /\ stack[1].done \in 0 .. Len(Inserted(stack[1]))
    BY <2>2, <2>3, <2>4 DEF Fun, Inserted, Top
  <2>6. Len(stack) <= MaxDepth
    BY <2>2, DepthAssumption
  <2>7. \A d \in 1 .. Len(shadow) - 1 : DOMAIN shadow[d] # {}
    BY <2>2
  <2> QED  BY <2>2, <2>5, <2>6, <2>7 DEF TypeOK
<1>2. CASE step = "done"
  <2>1. RunFits(prog, code, made, stack, shadow)
    BY <1>2 DEF IInv, RunInv
  <2>2. /\ IsInstrumented(prog, code, made) /\ StackFits(prog, code, made, stack)
        /\ SlotsFit(shadow) /\ NoEmptyFrame(shadow)
    BY <2>1 DEF RunFits
  <2>3. ASSUME NEW a \in DOMAIN stack
        PROVE  /\ stack[a].at \in DOMAIN Fun(stack[a]).body
               /\ stack[a].done \in 0 .. Len(Inserted(stack[a]))
    <3>1. a \in 1 .. Len(stack)
      BY <2>2, SequenceDomain DEF StackFits
    <3>2. Fits(prog, code, made, stack[a])
      BY <2>2, <3>1 DEF StackFits
    <3> DEFINE act == stack[a]
    <3> HIDE DEF act
    <3>3. IsActivation(prog[act.fun], code[act.fun], act)
      BY <3>2 DEF Fits, ActivationFits, act
    <3>4. act.at \in DOMAIN Fun(act).body /\ act.done \in 0 .. Len(Inserted(act))
      BY <3>3 DEF IsActivation, Fun, Inserted
    <3> QED  BY <3>4 DEF act
  <2>4. Len(stack) <= MaxDepth
    BY <2>2 DEF StackFits
  <2>5. \A d \in DOMAIN shadow : \A slot \in DOMAIN shadow[d] :
          shadow[d][slot] \in Object \cup {Stale}
    BY <2>2 DEF SlotsFit
  <2>6. \A d \in 1 .. Len(shadow) - 1 : DOMAIN shadow[d] # {}
    BY <2>2 DEF NoEmptyFrame
  <2> QED  BY <2>3, <2>4, <2>5, <2>6 DEF TypeOK
<1> QED  BY <1>1, <1>2

-----------------------------------------------------------------------------
(* The theorems                                                             *)

\* TypeOK, so long as the loads are right after the call: the active calls stay within
\* their code, and slots hold bounds of objects.
THEOREM TypesAreRight == Spec => [](LoadsAreRightAfterTheCall => TypeOK)
<1>1. IInv => (LoadsAreRightAfterTheCall => TypeOK)
  BY TypesRight
<1> QED  BY <1>1, InvariantHolds, PTL

\* FramesMatchCalls, for every program whose loads are right after the call: frames are
\* balanced on every entry and return, and every load and store has its slot.
THEOREM ShadowFramesMatchCalls == Spec => [](LoadsAreRightAfterTheCall => FramesMatchCalls)
<1>1. IInv => (LoadsAreRightAfterTheCall => FramesMatchCalls)
  BY FramesRight
<1> QED  BY <1>1, InvariantHolds, PTL

\* ArgumentsArePassed, for the same programs: the callee finds the bounds of its pointer
\* arguments in the slots that it reads.
THEOREM ArgumentsAreRight == Spec => [](LoadsAreRightAfterTheCall => ArgumentsArePassed)
<1>1. IInv => (LoadsAreRightAfterTheCall => ArgumentsArePassed)
  BY ArgumentsRight
<1> QED  BY <1>1, InvariantHolds, PTL

\* WitnessesAreRight, for the same programs: every register holds the bounds of its own
\* pointer, and every access has them.
THEOREM BoundsAreRight == Spec => [](LoadsAreRightAfterTheCall => WitnessesAreRight)
<1>1. IInv => (LoadsAreRightAfterTheCall => WitnessesAreRight)
  BY WitnessesRight
<1> QED  BY <1>1, InvariantHolds, PTL

\* For programs in which no select follows a call immediately all of this holds, without
\* a condition on what was inserted.
THEOREM NoSelectSuffices ==
  Spec => [](NoSelectFollowsCall =>
               TypeOK /\ FramesMatchCalls /\ ArgumentsArePassed /\ WitnessesAreRight)
BY LoadsStayTogether, TypesAreRight, ShadowFramesMatchCalls, ArgumentsAreRight,
   BoundsAreRight, PTL
=============================================================================
