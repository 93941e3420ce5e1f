--------------------------- MODULE WitnessGraphProofs --------------------------
(***************************************************************************)
(* Every node is given its requirements exactly once and in order, for     *)
(* every function and every vector of targets. While nodes are being       *)
(* completed, what a node has and what the frame that fills it still wants *)
(* are together what it has to get (Full); there is at most one such frame *)
(* although a phi may be entered again while it is being filled.           *)
(*                                                                         *)
(* What a finished graph reaches follows from what its nodes require, for  *)
(* reachability is the smallest set that contains the start and is closed: *)
(* the sources of a target are the definitions that the SSA graph leads to *)
(* (SourcesMatch), and the flags that the worklist joins are those of the  *)
(* targets that reach a node (FlagsAreJoined).                             *)
(*                                                                         *)
(* createWitness makes for each node a witness of its own or takes that of *)
(* what it requires, which is there wherever the pointer of the node is:   *)
(* the blocks of the values dominate each other as the requirements do,    *)
(* and a phi chooses between what is there at the end of the blocks before *)
(* (Work, Settled). So each instruction gives a witness the bounds of the  *)
(* pointer that it gives at the same time, and what is not given anew is   *)
(* out of date for both (Follows): targets get the bounds of the pointers  *)
(* that they use (WitnessesFollowPointers).                                *)
(***************************************************************************)
EXTENDS WitnessFlow, SequenceTheorems, FiniteSetTheorems, WellFoundedInduction, TLAPS

Location ==
  {Entry} \cup {At(v) : v \in 1 .. N + 1} \cup {Back(b) : b \in Block}
    \cup {TargetLoc(k) : k \in Nat}

Inner == [kind : {"internal"}, val : Value, loc : Location]
Ends == [kind : {"source"}, val : Value, loc : Location]
Outer(bound) == {External(k) : k \in 1 .. bound}

\* What addRequired may ask for: anything but the node of a phi.
Requests == {m \in Inner \cup Ends : ~IsPhiNode(m)}

Vertex == Inner \cup Ends \cup {External(k) : k \in Nat}

\* The requirements that a node has in the end.
FullOf(n) ==
  CASE n.kind = "source" -> <<>>
    [] n.kind = "external" /\ vec[n.val].kind = "call" ->
         [i \in DOMAIN vec[n.val].args |->
            Internal(vec[n.val].args[i], TargetLoc(n.val))]
    [] n.kind = "internal" /\ IsPhiNode(n) -> Wanted(n.val)
    [] OTHER -> IF prog[Instrumentee(n)].op = "phi"
                  THEN <<PhiNode(Instrumentee(n))>>
                  ELSE Wanted(Instrumentee(n))

Full == [n \in Vertex |-> FullOf(n)]

Frames(nodes, requests) == [of : nodes, to : nodes, left : Seq(requests)]

\* The innermost frame without its first request.
Advanced(st) == [st EXCEPT ![1].left = Tail(@)]

\* A frame waits for the requirement that the frame above it completes.
Linked(st) ==
  \A k \in DOMAIN st : k > 1 => st[k].left # <<>> /\ st[k].left[1] = st[k - 1].of

\* What the node of an open frame has and the frame still wants is all of it.
Filled(st, g, full) ==
  /\ \A k \in DOMAIN st : st[k].left # <<>> =>
       g[st[k].to] \o st[k].left = full[st[k].to]
  /\ \A j, k \in DOMAIN st :
       st[j].left # <<>> /\ st[k].left # <<>> /\ j # k => st[j].to # st[k].to
  /\ \A n \in DOMAIN g :
       (\A k \in DOMAIN st : st[k].left # <<>> => st[k].to # n) => g[n] = full[n]

Types ==
  /\ prog \in Programs
  /\ vec \in Targets
  /\ phase \in {"insert", "propagate", "done"}
  /\ next \in 1 .. Len(vec) + 1
  /\ phase # "insert" => stack = <<>>
  /\ complete \subseteq Inner \cup Ends \cup Outer(next - 1)
  /\ Outer(next - 1) \subseteq complete
  /\ reqs \in [complete -> Seq(complete)]
  /\ stack \in Seq(Frames(complete \ Ends, Requests))

Worklist ==
  /\ queue \in Seq(complete)
  /\ queue # <<>> => phase = "propagate"
  /\ succ \in Nat \ {0}

Inv ==
  /\ Types
  /\ Linked(stack)
  /\ Filled(stack, reqs, Full)
  /\ Worklist

-----------------------------------------------------------------------------
(* Programs and what their values want.                                     *)

\* What an operation uses; none but a phi uses itself.
LEMMA ProgramFacts ==
  ASSUME prog \in Programs, NEW v \in Value
  PROVE  /\ prog[v].op \in {"source", "entry", "copy", "pair", "phi"}
         /\ prog[v].op = "copy" => /\ prog[v].args \in [1 .. 1 -> Value]
                                   /\ prog[v].args[1] # v
         /\ prog[v].op = "pair" => /\ prog[v].args \in [1 .. 2 -> Value]
                                   /\ prog[v].args[1] # v
                                   /\ prog[v].args[2] # v
         /\ prog[v].op = "phi" => /\ prog[v].args \in [1 .. 2 -> Value]
                                  /\ prog[v].from \in [1 .. 2 -> Block]
<1>1. prog[v] \in Op
  BY ProgramAssumption DEF ProgramAssumption
<1>2. prog[v].op # "phi" => Range(prog[v].args) \subseteq 1 .. v - 1
  BY OrderAssumption DEF OrderAssumption
<1>3. v \in Nat
  BY NAssumption DEF NAssumption, Value
<1>4. CASE prog[v].op = "copy"
  <2>1. prog[v].args \in [1 .. 1 -> Value]
    BY <1>1, <1>4 DEF Op
  <2>2. prog[v].args[1] \in Range(prog[v].args)
    BY <2>1 DEF Range
  <2>3. prog[v].args[1] \in 1 .. v - 1
    BY <1>2, <1>4, <2>2
  <2> QED BY <1>3, <1>4, <2>1, <2>3
<1>5. CASE prog[v].op = "pair"
  <2>1. prog[v].args \in [1 .. 2 -> Value]
    BY <1>1, <1>5 DEF Op
  <2>2. prog[v].args[1] \in Range(prog[v].args) /\ prog[v].args[2] \in Range(prog[v].args)
    BY <2>1 DEF Range
  <2>3. prog[v].args[1] \in 1 .. v - 1 /\ prog[v].args[2] \in 1 .. v - 1
    BY <1>2, <1>5, <2>2
  <2> QED BY <1>3, <1>5, <2>1, <2>3
<1>6. CASE prog[v].op \notin {"copy", "pair"}
  BY <1>1, <1>6 DEF Op
<1> QED BY <1>4, <1>5, <1>6

\* Where nodes are; the end of a block or a call is not the place of a phi.
LEMMA LocationFacts ==
  /\ Entry \in Location
  /\ \A v \in Value : At(v) \in Location /\ After(v) \in Location
  /\ \A b \in Block : Back(b) \in Location /\ \A v \in Value : Back(b) # At(v)
  /\ \A k \in Nat : TargetLoc(k) \in Location /\ \A v \in Value : TargetLoc(k) # At(v)
  /\ \A v, w \in Value : At(v) = At(w) => v = w
BY NAssumption DEF NAssumption, Location, Entry, At, After, Back, TargetLoc, Value

\* addRequired does not ask for the node of a phi.
LEMMA RequestFacts ==
  /\ \A v \in Value, loc \in Location : Source(v, loc) \in Requests
  /\ \A v \in Value, loc \in Location :
       (prog[v].op # "phi" \/ loc # At(v)) => Internal(v, loc) \in Requests
  /\ \A v \in Value : PhiNode(v) \in Inner
BY LocationFacts DEF Requests, Inner, Ends, Source, Internal, IsPhiNode, PhiNode

\* The three kinds of nodes differ.
LEMMA VertexFacts ==
  /\ \A k \in Nat : External(k) \in Vertex /\ External(k) \notin Inner \cup Ends
  /\ \A k \in Nat : External(k).kind = "external" /\ External(k).val = k
  /\ \A j, k \in Nat : External(j) = External(k) => j = k
  /\ \A n \in Inner : n.kind = "internal" /\ n.val \in Value
  /\ \A n \in Ends : n.kind = "source" /\ n.val \in Value
  /\ Requests \subseteq Inner \cup Ends /\ Inner \cup Ends \subseteq Vertex
  /\ \A v \in Value : PhiNode(v) \in Inner /\ PhiNode(v).val = v
BY LocationFacts DEF Vertex, External, Inner, Ends, Requests, PhiNode, Internal

LEMMA FunctionIsSeq ==
  ASSUME NEW S, NEW n \in Nat, NEW f \in [1 .. n -> S]
  PROVE  f \in Seq(S) /\ Len(f) = n
OBVIOUS

\* What addRequired asks for, and in which order for a phi.
LEMMA WantedFacts ==
  ASSUME prog \in Programs, NEW v \in Value
  PROVE  /\ Wanted(v) \in Seq(Requests)
         /\ Len(Wanted(v)) = IF prog[v].op \in {"pair", "phi"} THEN 2 ELSE 1
         /\ \A i \in 1 .. Len(Wanted(v)) : prog[v].op = "phi" =>
              /\ Wanted(v)[i].val = prog[v].args[i]
              /\ Wanted(v)[i].loc = Back(prog[v].from[i])
<1>1. CASE prog[v].op = "source"
  <2>1. Wanted(v) = <<Source(v, After(v))>>
    BY <1>1 DEF Wanted
  <2> QED BY <1>1, <2>1, RequestFacts, LocationFacts
<1>2. CASE prog[v].op = "entry"
  <2>1. Wanted(v) = <<Source(v, Entry)>>
    BY <1>2 DEF Wanted
  <2> QED BY <1>2, <2>1, RequestFacts, LocationFacts
<1>3. CASE prog[v].op = "copy"
  <2>1. Wanted(v) = [i \in 1 .. 1 |-> Internal(prog[v].args[i], At(v))]
    BY <1>3, ProgramFacts DEF Wanted
  <2>2. \A i \in 1 .. 1 : Internal(prog[v].args[i], At(v)) \in Requests
    BY <1>3, ProgramFacts, LocationFacts, RequestFacts
  <2>3. Wanted(v) \in [1 .. 1 -> Requests]
    BY <2>1, <2>2
  <2>4. Wanted(v) \in Seq(Requests) /\ Len(Wanted(v)) = 1
    BY <2>3, FunctionIsSeq
  <2> QED BY <1>3, <2>4
<1>4. CASE prog[v].op = "pair"
  <2>1. Wanted(v) = [i \in 1 .. 2 |-> Internal(prog[v].args[i], At(v))]
    BY <1>4, ProgramFacts DEF Wanted
  <2>2. \A i \in 1 .. 2 : Internal(prog[v].args[i], At(v)) \in Requests
    BY <1>4, ProgramFacts, LocationFacts, RequestFacts
  <2>3. Wanted(v) \in [1 .. 2 -> Requests]
    BY <2>1, <2>2
  <2>4. Wanted(v) \in Seq(Requests) /\ Len(Wanted(v)) = 2
    BY <2>3, FunctionIsSeq
  <2> QED BY <1>4, <2>4
<1>5. CASE prog[v].op = "phi"
  <2>1. Wanted(v) = [i \in 1 .. 2 |-> Internal(prog[v].args[i], Back(prog[v].from[i]))]
    BY <1>5, ProgramFacts DEF Wanted
  <2>2. \A i \in 1 .. 2 : Internal(prog[v].args[i], Back(prog[v].from[i])) \in Requests
    BY <1>5, ProgramFacts, LocationFacts, RequestFacts
  <2>3. Wanted(v) \in [1 .. 2 -> Requests]
    BY <2>1, <2>2
  <2>4. Wanted(v) \in Seq(Requests) /\ Len(Wanted(v)) = 2
    BY <2>3, FunctionIsSeq
  <2>5. \A i \in 1 .. 2 : /\ Wanted(v)[i].val = prog[v].args[i]
                          /\ Wanted(v)[i].loc = Back(prog[v].from[i])
    BY <2>1 DEF Internal
  <2> QED BY <1>5, <2>4, <2>5
<1> QED BY <1>1, <1>2, <1>3, <1>4, <1>5, ProgramFacts

-----------------------------------------------------------------------------
(* Stacks of frames, whatever they are for.                                 *)

\* The innermost frame got its first request: nothing else of the stack changes.
LEMMA Serve ==
  ASSUME NEW A, NEW R, NEW st \in Seq(Frames(A, R)), st # <<>>, st[1].left # <<>>
  PROVE  LET s == Advanced(st) IN
         /\ s \in Seq(Frames(A, R))
         /\ DOMAIN s = DOMAIN st
         /\ s[1].of = st[1].of /\ s[1].to = st[1].to /\ s[1].left = Tail(st[1].left)
         /\ \A k \in DOMAIN st : k # 1 => s[k] = st[k]
         /\ Linked(st) => Linked(s)
<1> DEFINE F == Frames(A, R)
           s == Advanced(st)
           new == [st[1] EXCEPT !.left = Tail(@)]
<1>1. Len(st) \in Nat \ {0} /\ DOMAIN st = 1 .. Len(st) /\ st[1] \in F
  BY EmptySeq, LenProperties, ElementOfSeq
<1>2. st[1].left \in Seq(R) /\ Tail(st[1].left) \in Seq(R)
  BY <1>1, HeadTailProperties DEF Frames
<1>3. new \in F /\ new.of = st[1].of /\ new.to = st[1].to /\ new.left = Tail(st[1].left)
  BY <1>1, <1>2 DEF Frames
<1>4. s = [st EXCEPT ![1] = new]
  BY <1>1 DEF Advanced
<1>5. s \in Seq(F) /\ Len(s) = Len(st)
         /\ \A k \in 1 .. Len(st) : s[k] = IF k = 1 THEN new ELSE st[k]
  <2>1. st \in Seq(F) /\ 1 \in 1 .. Len(st)
    BY <1>1
  <2> HIDE DEF F, new, s
  <2> QED BY <1>3, <1>4, <2>1, ExceptSeq
<1>6. DOMAIN s = DOMAIN st
  BY <1>1, <1>5, LenProperties
<1> HIDE DEF s, new, F
<1>7. s[1] = new /\ \A k \in DOMAIN st : k # 1 => s[k] = st[k]
  BY <1>1, <1>5
<1>8. Linked(st) => Linked(s)
  <2> SUFFICES ASSUME Linked(st), NEW k \in DOMAIN s, k > 1
               PROVE  s[k].left # <<>> /\ s[k].left[1] = s[k - 1].of
    BY DEF Linked
  <2>1. k \in DOMAIN st /\ s[k] = st[k] /\ k \in Nat
    BY <1>1, <1>6, <1>7
  <2>2. k - 1 \in DOMAIN st /\ s[k - 1].of = st[k - 1].of
    BY <1>1, <1>3, <1>7, <2>1
  <2> QED BY <2>1, <2>2 DEF Linked
<1> QED BY <1>3, <1>5, <1>6, <1>7, <1>8 DEF s, F

\* What was done and what is left stay together the same when one is served.
LEMMA ServeList ==
  ASSUME NEW S, NEW done \in Seq(S), NEW left \in Seq(S), left # <<>>
  PROVE  Append(done, left[1]) \o Tail(left) = done \o left
<1> DEFINE l == Append(done, left[1]) \o Tail(left)
           r == done \o left
<1>1. Len(left) \in Nat \ {0} /\ left[1] \in S /\ Tail(left) \in Seq(S)
         /\ Len(Tail(left)) = Len(left) - 1
         /\ \A i \in 1 .. Len(Tail(left)) : Tail(left)[i] = left[i + 1]
  BY EmptySeq, HeadTailProperties, ElementOfSeq
<1>2. Append(done, left[1]) \in Seq(S) /\ Len(Append(done, left[1])) = Len(done) + 1
         /\ \A i \in 1 .. Len(done) : Append(done, left[1])[i] = done[i]
         /\ Append(done, left[1])[Len(done) + 1] = left[1]
  BY <1>1, AppendProperties
<1>3. Len(done) \in Nat
  BY LenProperties
<1>4. r \in Seq(S) /\ Len(r) = Len(done) + Len(left)
         /\ \A i \in 1 .. Len(r) : r[i] = IF i <= Len(done) THEN done[i]
                                                             ELSE left[i - Len(done)]
  BY ConcatProperties
<1>5. l \in Seq(S) /\ Len(l) = Len(done) + 1 + (Len(left) - 1)
         /\ \A i \in 1 .. Len(l) :
              l[i] = IF i <= Len(done) + 1 THEN Append(done, left[1])[i]
                                           ELSE Tail(left)[i - (Len(done) + 1)]
  BY <1>1, <1>2, ConcatProperties
<1>6. \A i \in 1 .. Len(l) : l[i] = r[i]
  <2> SUFFICES ASSUME NEW i \in 1 .. Len(l) PROVE l[i] = r[i]
    OBVIOUS
  <2> HIDE DEF l, r
  <2>1. CASE i <= Len(done)
    <3>1. i \in 1 .. Len(done) /\ i \in 1 .. Len(r)
      BY <1>1, <1>3, <1>4, <2>1
    <3>2. l[i] = Append(done, left[1])[i]
      <4>1. i <= Len(done) + 1
        BY <1>3, <2>1
      <4> QED BY <1>5, <4>1
    <3>3. r[i] = done[i]
      BY <1>4, <2>1, <3>1
    <3>4. Append(done, left[1])[i] = done[i]
      BY <1>2, <3>1
    <3> QED BY <3>2, <3>3, <3>4
  <2>2. CASE i = Len(done) + 1
    <3>1. i \in 1 .. Len(r) /\ ~(i <= Len(done)) /\ i - Len(done) = 1
      BY <1>1, <1>3, <1>4, <2>2
    <3>2. l[i] = Append(done, left[1])[i]
      BY <1>3, <1>5, <2>2
    <3>3. r[i] = left[i - Len(done)]
      BY <1>4, <3>1
    <3> QED BY <1>2, <2>2, <3>1, <3>2, <3>3
  <2>3. CASE i > Len(done) + 1
    <3>1. l[i] = Tail(left)[i - (Len(done) + 1)]
      BY <1>1, <1>3, <1>5, <2>3
    <3>2. i - (Len(done) + 1) \in 1 .. Len(Tail(left))
      BY <1>1, <1>3, <1>5, <2>3
    <3>3. l[i] = left[i - (Len(done) + 1) + 1]
      BY <1>1, <3>1, <3>2
    <3> QED BY <1>1, <1>3, <1>4, <1>5, <2>3, <3>3
  <2> QED BY <1>1, <1>3, <1>5, <2>1, <2>2, <2>3
<1> HIDE DEF l, r
<1>7. QED BY <1>1, <1>3, <1>4, <1>5, <1>6, SeqEqual DEF l, r

\* Removing the innermost frame.
LEMMA Pop ==
  ASSUME NEW A, NEW R, NEW st \in Seq(Frames(A, R)), st # <<>>
  PROVE  /\ Tail(st) \in Seq(Frames(A, R))
         /\ \A k \in DOMAIN Tail(st) : k + 1 \in DOMAIN st /\ Tail(st)[k] = st[k + 1]
         /\ \A k \in DOMAIN st : k # 1 => k - 1 \in DOMAIN Tail(st)
         /\ Tail(st) # <<>> => 2 \in DOMAIN st /\ Tail(st)[1] = st[2]
         /\ Linked(st) => Linked(Tail(st))
<1> DEFINE F == Frames(A, R)
           s == Tail(st)
<1>0. st \in Seq(F)
  OBVIOUS
<1> HIDE DEF F
<1>1. Len(st) \in Nat \ {0} /\ DOMAIN st = 1 .. Len(st)
  BY <1>0, EmptySeq, LenProperties
<1>2. s \in Seq(F) /\ Len(s) = Len(st) - 1 /\ \A k \in 1 .. Len(s) : s[k] = st[k + 1]
  BY <1>0, HeadTailProperties
<1>3. DOMAIN s = 1 .. Len(s) /\ Len(s) \in Nat
  BY <1>2, LenProperties
<1>4. s # <<>> => 1 \in DOMAIN s
  BY <1>2, <1>3, EmptySeq
<1> HIDE DEF s
<1>5. \A k \in DOMAIN s : k + 1 \in DOMAIN st /\ s[k] = st[k + 1]
  BY <1>1, <1>2, <1>3
<1>6. \A k \in DOMAIN st : k # 1 => k - 1 \in DOMAIN s
  BY <1>1, <1>2, <1>3
<1>7. Linked(st) => Linked(s)
  <2> SUFFICES ASSUME Linked(st), NEW k \in DOMAIN s, k > 1
               PROVE  s[k].left # <<>> /\ s[k].left[1] = s[k - 1].of
    BY DEF Linked
  <2>1. k \in Nat /\ k + 1 > 1 /\ k - 1 \in DOMAIN s /\ (k + 1) - 1 = k /\ (k - 1) + 1 = k
    BY <1>3
  <2>2. k + 1 \in DOMAIN st /\ s[k] = st[k + 1] /\ s[k - 1] = st[k]
    BY <1>5, <2>1
  <2>3. st[k + 1].left # <<>> /\ st[k + 1].left[1] = st[(k + 1) - 1].of
    BY <2>1, <2>2 DEF Linked
  <2> QED BY <2>1, <2>2, <2>3
<1> QED BY <1>2, <1>4, <1>5, <1>6, <1>7 DEF s, F

\* Adding a frame.
LEMMA Push ==
  ASSUME NEW A, NEW R, NEW st \in Seq(Frames(A, R)), NEW f \in Frames(A, R)
  PROVE  LET s == <<f>> \o st IN
         /\ s \in Seq(Frames(A, R))
         /\ \A k \in DOMAIN st : k + 1 \in DOMAIN s /\ s[k + 1] = st[k]
         /\ 1 \in DOMAIN s /\ s[1] = f
         /\ \A k \in DOMAIN s : k # 1 => k - 1 \in DOMAIN st /\ s[k] = st[k - 1]
         /\ Linked(st) /\ (st # <<>> => st[1].left # <<>> /\ st[1].left[1] = f.of)
              => Linked(s)
<1> DEFINE F == Frames(A, R)
           s == <<f>> \o st
<1>0. st \in Seq(F) /\ f \in F
  OBVIOUS
<1> HIDE DEF F
<1>1. <<f>> \in Seq(F) /\ Len(<<f>>) = 1 /\ <<f>>[1] = f
  BY <1>0
<1>2. DOMAIN st = 1 .. Len(st) /\ Len(st) \in Nat
  BY <1>0, LenProperties
<1>3. s \in Seq(F) /\ Len(s) = 1 + Len(st)
         /\ \A k \in 1 .. Len(s) : s[k] = IF k <= 1 THEN <<f>>[k] ELSE st[k - 1]
  BY <1>0, <1>1, <1>2, ConcatProperties
<1>4. DOMAIN s = 1 .. Len(s)
  BY <1>3, LenProperties
<1> HIDE DEF s
<1>5. 1 \in DOMAIN s /\ s[1] = f
  BY <1>1, <1>2, <1>3, <1>4
<1>6. \A k \in DOMAIN s : k # 1 => k - 1 \in DOMAIN st /\ s[k] = st[k - 1]
  BY <1>2, <1>3, <1>4
<1>7. \A k \in DOMAIN st : k + 1 \in DOMAIN s /\ s[k + 1] = st[k]
  BY <1>2, <1>3, <1>4
<1>8. Linked(st) /\ (st # <<>> => st[1].left # <<>> /\ st[1].left[1] = f.of)
        => Linked(s)
  <2> SUFFICES ASSUME Linked(st), st # <<>> => st[1].left # <<>> /\ st[1].left[1] = f.of,
                      NEW k \in DOMAIN s, k > 1
               PROVE  s[k].left # <<>> /\ s[k].left[1] = s[k - 1].of
    BY DEF Linked
  <2>1. k \in Nat /\ k - 1 \in DOMAIN st /\ s[k] = st[k - 1] /\ st # <<>>
    BY <1>2, <1>3, <1>4, <1>6
  <2>2. CASE k = 2
    BY <1>5, <2>1, <2>2
  <2>3. CASE k # 2
    <3>1. k - 1 > 1 /\ k - 1 \in DOMAIN s /\ k - 1 # 1
      BY <1>2, <1>3, <1>4, <2>1, <2>3
    <3>2. s[k - 1] = st[(k - 1) - 1]
      BY <1>6, <3>1
    <3>3. st[k - 1].left # <<>> /\ st[k - 1].left[1] = st[(k - 1) - 1].of
      BY <2>1, <3>1 DEF Linked
    <3> QED BY <2>1, <3>2, <3>3
  <2> QED BY <2>2, <2>3
<1> QED BY <1>3, <1>5, <1>6, <1>7, <1>8 DEF s, F

-----------------------------------------------------------------------------
(* What the three effects on the stack do to Filled.                        *)

\* The innermost frame gets the requirement it asked for first.
LEMMA ServeFilled ==
  ASSUME NEW D, NEW g, g \in [D -> Seq(Vertex)],
         NEW st, st \in Seq(Frames(D \ Ends, Requests)), st # <<>>, st[1].left # <<>>,
         NEW full, Filled(st, g, full)
  PROVE  Filled(Advanced(st), Link(g, st[1].to, st[1].left[1]), full)
<1> DEFINE A == D \ Ends
           R == Requests
           S == Vertex
           s == Advanced(st)
           top == st[1].to
           m == st[1].left[1]
           h == Link(g, top, m)
<1>0. A \subseteq D /\ R \subseteq S /\ st \in Seq(Frames(A, R)) /\ g \in [D -> Seq(S)]
  BY VertexFacts
<1> HIDE DEF A, R, S
<1>1. /\ DOMAIN s = DOMAIN st
      /\ s[1].to = top /\ s[1].left = Tail(st[1].left)
      /\ \A k \in DOMAIN st : k # 1 => s[k] = st[k]
  BY <1>0, Serve
<1>2. 1 \in DOMAIN st /\ \A k \in DOMAIN st : st[k] \in Frames(A, R)
  <2> DEFINE F == Frames(A, R)
  <2>1. st \in Seq(F)
    BY <1>0
  <2> HIDE DEF F
  <2>2. Len(st) \in Nat \ {0} /\ DOMAIN st = 1 .. Len(st) /\ \A k \in 1 .. Len(st) : st[k] \in F
    BY <2>1, EmptySeq, LenProperties, ElementOfSeq
  <2> QED BY <2>2 DEF F
<1>3. /\ \A k \in DOMAIN st : st[k].to \in D
      /\ st[1].left \in Seq(R)
  BY <1>0, <1>2 DEF Frames
<1>4. st[1].left \in Seq(S)
  BY <1>0, <1>3, SeqMonotonic
<1>5. DOMAIN h = D /\ h[top] = Append(g[top], m) /\ \A n \in D : n # top => h[n] = g[n]
  BY <1>0, <1>2, <1>3 DEF Link
<1>6. g[top] \in Seq(S) /\ m \in S /\ Tail(st[1].left) \in Seq(S)
  BY <1>0, <1>2, <1>3, <1>4, EmptySeq, ElementOfSeq, HeadTailProperties
<1>7. h[top] \o s[1].left = full[top]
  <2> DEFINE d == g[top]
             l == st[1].left
  <2>1. d \in Seq(S) /\ l \in Seq(S) /\ l # <<>>
    BY <1>4, <1>6
  <2>2. d \o l = full[top]
    BY <1>2 DEF Filled
  <2>3. h[top] = Append(d, l[1]) /\ s[1].left = Tail(l)
    BY <1>1, <1>5
  <2> HIDE DEF d, l, h, s
  <2>4. Append(d, l[1]) \o Tail(l) = d \o l
    BY <2>1, ServeList
  <2> QED BY <2>2, <2>3, <2>4
<1> HIDE DEF s, h, m
<1>8. \A k \in DOMAIN st : s[k].to = st[k].to /\ (s[k].left # <<>> => st[k].left # <<>>)
  BY <1>1
<1>9. ASSUME NEW k \in DOMAIN s, s[k].left # <<>>
      PROVE  h[s[k].to] \o s[k].left = full[s[k].to]
  <2>1. CASE k = 1
    BY <1>1, <1>7, <2>1
  <2>2. CASE k # 1
    <3>1. k \in DOMAIN st /\ s[k] = st[k] /\ st[k].left # <<>> /\ st[k].to \in D
      BY <1>1, <1>3, <1>9, <2>2
    <3>2. st[k].to # top
      BY <1>2, <2>2, <3>1 DEF Filled
    <3>3. g[st[k].to] \o st[k].left = full[st[k].to]
      BY <3>1 DEF Filled
    <3>4. h[st[k].to] = g[st[k].to]
      BY <1>5, <3>1, <3>2
    <3> QED BY <3>1, <3>3, <3>4
  <2> QED BY <2>1, <2>2
<1>10. ASSUME NEW j \in DOMAIN s, NEW k \in DOMAIN s,
              s[j].left # <<>>, s[k].left # <<>>, j # k
       PROVE  s[j].to # s[k].to
  BY <1>1, <1>8, <1>10 DEF Filled
<1>11. ASSUME NEW n \in DOMAIN h, \A k \in DOMAIN s : s[k].left # <<>> => s[k].to # n
       PROVE  h[n] = full[n]
  <2>1. CASE n = top
    <3>1. s[1].left = <<>>
      BY <1>1, <1>2, <1>11, <2>1
    <3>2. h[top] \in Seq(S)
      BY <1>5, <1>6, AppendProperties
    <3>3. h[top] \o <<>> = h[top]
      BY <3>2, ConcatEmptySeq
    <3> QED BY <1>7, <2>1, <3>1, <3>3
  <2>2. CASE n # top
    <3>1. \A k \in DOMAIN st : st[k].left # <<>> => st[k].to # n
      BY <1>1, <1>11, <2>2
    <3> QED BY <1>5, <1>11, <2>2, <3>1 DEF Filled
  <2> QED BY <2>1, <2>2
<1>12. Filled(s, h, full)
  BY <1>9, <1>10, <1>11 DEF Filled
<1> QED BY <1>12 DEF s, h, m

\* A frame that wants nothing any more is removed.
LEMMA PopFilled ==
  ASSUME NEW A, NEW R, NEW st \in Seq(Frames(A, R)), st # <<>>, st[1].left = <<>>,
         NEW g, NEW full, Filled(st, g, full)
  PROVE  Filled(Tail(st), g, full)
<1> DEFINE s == Tail(st)
<1>1. /\ \A k \in DOMAIN s : k + 1 \in DOMAIN st /\ s[k] = st[k + 1]
      /\ \A k \in DOMAIN st : k # 1 => k - 1 \in DOMAIN s
  BY Pop
<1>2. DOMAIN st \subseteq Nat /\ DOMAIN s \subseteq Nat
  <2> DEFINE F == Frames(A, R)
  <2>1. st \in Seq(F) /\ s \in Seq(F)
    BY Pop
  <2> HIDE DEF F
  <2> QED BY <2>1, LenProperties
<1> HIDE DEF s
<1>3. \A k \in DOMAIN st : k # 1 => s[k - 1] = st[k]
  <2> TAKE k \in DOMAIN st
  <2>1. (k - 1) + 1 = k
    BY <1>2
  <2> QED BY <1>1, <2>1
<1>4. ASSUME NEW k \in DOMAIN s, s[k].left # <<>>
      PROVE  g[s[k].to] \o s[k].left = full[s[k].to]
  <2>1. k + 1 \in DOMAIN st /\ s[k] = st[k + 1]
    BY <1>1
  <2>2. g[st[k + 1].to] \o st[k + 1].left = full[st[k + 1].to]
    BY <1>4, <2>1 DEF Filled
  <2> QED BY <2>1, <2>2
<1>5. ASSUME NEW j \in DOMAIN s, NEW k \in DOMAIN s,
             s[j].left # <<>>, s[k].left # <<>>, j # k
      PROVE  s[j].to # s[k].to
  <2>1. j + 1 # k + 1
    BY <1>2, <1>5
  <2> QED BY <1>1, <1>5, <2>1 DEF Filled
<1>6. ASSUME NEW n \in DOMAIN g, \A k \in DOMAIN s : s[k].left # <<>> => s[k].to # n
      PROVE  g[n] = full[n]
  <2>1. \A k \in DOMAIN st : st[k].left # <<>> => st[k].to # n
    <3> SUFFICES ASSUME NEW k \in DOMAIN st, st[k].left # <<>>
                 PROVE  st[k].to # n
      OBVIOUS
    <3>1. k # 1
      OBVIOUS
    <3> QED BY <1>1, <1>3, <1>6, <3>1
  <2> QED BY <2>1 DEF Filled
<1> QED BY <1>4, <1>5, <1>6 DEF Filled, s

\* A frame for new nodes; an open one is for a node that had no requirements.
LEMMA PushFilled ==
  ASSUME NEW A, NEW R, NEW st \in Seq(Frames(A, R)), NEW f \in Frames(A, R),
         NEW g, NEW h, NEW full, Filled(st, g, full),
         \A k \in DOMAIN st : st[k].to \in DOMAIN g,
         \A n \in DOMAIN g : h[n] = g[n],
         f.left # <<>> => f.to \notin DOMAIN g /\ h[f.to] \o f.left = full[f.to],
         \A n \in DOMAIN h \ DOMAIN g : (f.left # <<>> /\ n = f.to) \/ h[n] = full[n]
  PROVE  Filled(<<f>> \o st, h, full)
<1> DEFINE s == <<f>> \o st
<1>1. /\ \A k \in DOMAIN st : k + 1 \in DOMAIN s /\ s[k + 1] = st[k]
      /\ 1 \in DOMAIN s /\ s[1] = f
      /\ \A k \in DOMAIN s : k # 1 => k - 1 \in DOMAIN st /\ s[k] = st[k - 1]
  BY Push
<1>2. DOMAIN st \subseteq Nat /\ DOMAIN s \subseteq Nat
  <2> DEFINE F == Frames(A, R)
  <2>1. st \in Seq(F) /\ s \in Seq(F)
    BY Push
  <2> HIDE DEF F, s
  <2> QED BY <2>1, LenProperties
<1> HIDE DEF s
<1>3. ASSUME NEW k \in DOMAIN s, s[k].left # <<>>
      PROVE  h[s[k].to] \o s[k].left = full[s[k].to]
  <2>1. CASE k = 1
    BY <1>1, <1>3, <2>1
  <2>2. CASE k # 1
    <3>1. k - 1 \in DOMAIN st /\ s[k] = st[k - 1] /\ st[k - 1].to \in DOMAIN g
      BY <1>1, <2>2
    <3>2. g[st[k - 1].to] \o st[k - 1].left = full[st[k - 1].to]
      BY <1>3, <3>1 DEF Filled
    <3>3. h[st[k - 1].to] = g[st[k - 1].to]
      BY <3>1
    <3> QED BY <3>1, <3>2, <3>3
  <2> QED BY <2>1, <2>2
<1>4. ASSUME NEW j \in DOMAIN s, NEW k \in DOMAIN s,
             s[j].left # <<>>, s[k].left # <<>>, j # k
      PROVE  s[j].to # s[k].to
  <2>0. \A i \in DOMAIN s : i # 1 => s[i].to \in DOMAIN g
    BY <1>1
  <2>1. CASE j = 1 \/ k = 1
    <3>1. CASE j = 1
      BY <1>1, <1>4, <2>0, <3>1
    <3>2. CASE k = 1
      BY <1>1, <1>4, <2>0, <3>2
    <3> QED BY <2>1, <3>1, <3>2
  <2>2. CASE j # 1 /\ k # 1
    <3>1. j - 1 # k - 1
      BY <1>2, <1>4
    <3> QED BY <1>1, <1>4, <2>2, <3>1 DEF Filled
  <2> QED BY <2>1, <2>2
<1>5. ASSUME NEW n \in DOMAIN h, \A k \in DOMAIN s : s[k].left # <<>> => s[k].to # n
      PROVE  h[n] = full[n]
  <2>1. CASE n \in DOMAIN g
    <3>1. \A k \in DOMAIN st : st[k].left # <<>> => st[k].to # n
      BY <1>1, <1>5
    <3> QED BY <2>1, <3>1 DEF Filled
  <2>2. CASE n \notin DOMAIN g
    BY <1>1, <1>5, <2>2
  <2> QED BY <2>1, <2>2
<1>6. Filled(s, h, full)
  BY <1>3, <1>4, <1>5 DEF Filled
<1> QED BY <1>6 DEF s

-----------------------------------------------------------------------------
(* Nodes and what they get.                                                 *)

\* Sources have no requirements, by definition (requireSource).
LEMMA FullOfSource ==
  ASSUME NEW n \in Ends
  PROVE  Full[n] = <<>>
<1>1. n \in Vertex /\ n.kind = "source"
  BY VertexFacts
<1> QED BY <1>1 DEF Full, FullOf

\* The node of a phi gets a requirement per incoming block.
LEMMA FullOfPhi ==
  ASSUME NEW v \in Value, prog[v].op = "phi"
  PROVE  Full[PhiNode(v)] = Wanted(v)
<1>1. PhiNode(v) \in Vertex /\ PhiNode(v).kind = "internal" /\ PhiNode(v).val = v
  BY VertexFacts
<1>2. IsPhiNode(PhiNode(v))
  BY <1>1 DEF IsPhiNode
<1> QED BY <1>1, <1>2 DEF Full, FullOf

\* Another node gets the node of its phi, or what its operation uses.
LEMMA FullOfInner ==
  ASSUME NEW n \in Inner, ~IsPhiNode(n)
  PROVE  Full[n] = IF prog[n.val].op = "phi" THEN <<PhiNode(n.val)>> ELSE Wanted(n.val)
<1>1. n \in Vertex /\ n.kind = "internal"
  BY VertexFacts
<1> QED BY <1>1 DEF Full, FullOf, Instrumentee

\* A call invariant gets a requirement per argument.
LEMMA FullOfCall ==
  ASSUME NEW k \in Nat, vec[k].kind = "call"
  PROVE  Full[External(k)] = [i \in DOMAIN vec[k].args |->
                                Internal(vec[k].args[i], TargetLoc(k))]
<1>1. External(k) \in Vertex /\ External(k).kind = "external" /\ External(k).val = k
  BY VertexFacts
<1> QED BY <1>1 DEF Full, FullOf

\* Another target is treated like an inner node.
LEMMA FullOfPlain ==
  ASSUME NEW k \in Nat, vec[k].kind # "call"
  PROVE  LET v == vec[k].args[1] IN
         Full[External(k)] = IF prog[v].op = "phi" THEN <<PhiNode(v)>> ELSE Wanted(v)
<1>1. External(k) \in Vertex /\ External(k).kind = "external" /\ External(k).val = k
  BY VertexFacts
<1> QED BY <1>1 DEF Full, FullOf, Instrumentee

\* Positions and kinds of the targets.
LEMMA TargetFacts ==
  ASSUME vec \in Targets
  PROVE  /\ vec \in Seq(Target) /\ Len(vec) \in Nat /\ DOMAIN vec = 1 .. Len(vec)
         /\ \A k \in DOMAIN vec :
              \/ vec[k].kind = "plain" /\ vec[k].args \in [1 .. 1 -> Value]
              \/ vec[k].kind = "call" /\ vec[k].args \in [1 .. 2 -> Value]
<1>1. vec \in Seq(Target)
  BY TargetAssumption DEF TargetAssumption
<1>2. Len(vec) \in Nat /\ DOMAIN vec = 1 .. Len(vec) /\ \A k \in DOMAIN vec : vec[k] \in Target
  BY <1>1, LenProperties, ElementOfSeq
<1> QED BY <1>1, <1>2 DEF Target

\* What nodes are to get does not change.
LEMMA SameProgram ==
  ASSUME UNCHANGED program
  PROVE  Full' = Full /\ Requests' = Requests
BY DEF program, Full, FullOf, Wanted, Instrumentee, IsPhiNode, PhiNode, Requests

\* Frames stay frames when there are more nodes.
LEMMA FramesGrow ==
  ASSUME NEW A, NEW B, A \subseteq B, NEW R, NEW st \in Seq(Frames(A, R))
  PROVE  st \in Seq(Frames(B, R))
<1>1. Frames(A, R) \subseteq Frames(B, R)
  BY DEF Frames
<1> QED BY <1>1, SeqMonotonic

\* What the frames of a stack refer to.
LEMMA FrameFacts ==
  ASSUME NEW A, NEW R, NEW st \in Seq(Frames(A, R))
  PROVE  /\ \A k \in DOMAIN st : /\ st[k].of \in A /\ st[k].to \in A
                                 /\ st[k].left \in Seq(R)
                                 /\ st[k].left # <<>> => st[k].left[1] \in R
         /\ st # <<>> => 1 \in DOMAIN st
<1> DEFINE F == Frames(A, R)
<1>1. st \in Seq(F)
  OBVIOUS
<1> HIDE DEF F
<1>2. DOMAIN st = 1 .. Len(st) /\ Len(st) \in Nat /\ \A k \in DOMAIN st : st[k] \in F
  BY <1>1, LenProperties, ElementOfSeq
<1>3. st # <<>> => 1 \in DOMAIN st
  BY <1>1, <1>2, EmptySeq
<1>4. ASSUME NEW k \in DOMAIN st
      PROVE  st[k].of \in A /\ st[k].to \in A /\ st[k].left \in Seq(R)
  BY <1>2 DEF F, Frames
<1>5. ASSUME NEW k \in DOMAIN st, st[k].left # <<>>
      PROVE  st[k].left[1] \in R
  BY <1>4, <1>5, EmptySeq, ElementOfSeq
<1> QED BY <1>3, <1>4, <1>5

\* getInternalNode leaves the nodes there are alone.
LEMMA GraphGrows ==
  ASSUME NEW C, NEW g, g \in [C -> Seq(C)], NEW n
  PROVE  /\ \A m \in C : WithNode(g, n)[m] = g[m]
         /\ n \notin C => WithNode(g, n)[n] = <<>>
         /\ WithNode(g, n) \in [C \cup {n} -> Seq(C \cup {n})]
<1> DEFINE D == C \cup {n}
<1>1. Seq(C) \subseteq Seq(D) /\ <<>> \in Seq(D)
  BY SeqMonotonic
<1> QED BY <1>1 DEF WithNode

-----------------------------------------------------------------------------
(* Entering addRequired.                                                    *)

\* What the steps that change the graph establish of it, for Inv'.
Graph ==
  /\ reqs \in [complete -> Seq(complete)]
  /\ stack \in Seq(Frames(complete \ Ends, Requests))
  /\ Linked(stack)
  /\ Filled(stack, reqs, Full)

\* addRequired is entered for a node that fills itself.
LEMMA EnterPlainKeeps ==
  ASSUME Graph, NEW n, n \notin complete, n \notin Ends,
         NEW wanted \in Seq(Requests), wanted # <<>>, Full[n] = wanted,
         stack # <<>> => stack[1].left # <<>> /\ stack[1].left[1] = n,
         EnterPlain(n, wanted), UNCHANGED program
  PROVE  Graph' /\ complete' = complete \cup {n}
<1> DEFINE C == complete \cup {n}
           A == C \ Ends
           f == Frame(n, n, wanted)
           h == WithNode(reqs, n)
<1>1. complete' = C /\ reqs' = h /\ stack' = <<f>> \o stack
  BY DEF EnterPlain
<1>2. Full' = Full /\ Requests' = Requests
  BY SameProgram
<1>3. reqs \in [complete -> Seq(complete)] /\ n \in C /\ complete \subseteq C
  BY DEF Graph
<1>4. /\ DOMAIN h = C
      /\ \A m \in complete : h[m] = reqs[m]
      /\ h[n] = <<>>
      /\ h \in [C -> Seq(C)]
  <2> DEFINE r == reqs
  <2>1. r \in [complete -> Seq(complete)]
    BY <1>3
  <2> HIDE DEF C, h, r
  <2>2. /\ \A m \in complete : WithNode(r, n)[m] = r[m]
        /\ n \notin complete => WithNode(r, n)[n] = <<>>
        /\ WithNode(r, n) \in [complete \cup {n} -> Seq(complete \cup {n})]
    BY <2>1, GraphGrows
  <2>3. h = WithNode(r, n) /\ C = complete \cup {n}
    BY DEF h, r, C
  <2>4. h \in [C -> Seq(C)] /\ DOMAIN h = C
    BY <2>2, <2>3
  <2> QED BY <2>2, <2>3, <2>4 DEF r
<1>5. stack \in Seq(Frames(complete \ Ends, Requests)) /\ complete \ Ends \subseteq A
  BY DEF Graph
<1>6. stack \in Seq(Frames(A, Requests))
  <2> HIDE DEF A
  <2> QED BY <1>5, FramesGrow
<1>7. f \in Frames(A, Requests) /\ f.of = n /\ f.to = n /\ f.left = wanted
  BY DEF Frames, Frame
<1>8. \A k \in DOMAIN stack : stack[k].to \in complete
  BY <1>5, FrameFacts
<1> HIDE DEF A, C, f, h
<1>9. stack' \in Seq(Frames(A, Requests)) /\ Linked(stack')
  BY <1>1, <1>6, <1>7, Push DEF Graph
<1>10. h[n] \o wanted = Full[n]
  BY <1>4, ConcatEmptySeq
<1>11. Filled(<<f>> \o stack, h, Full)
  <2>1. /\ Filled(stack, reqs, Full)
        /\ DOMAIN reqs = complete
        /\ f.left # <<>> => f.to \notin DOMAIN reqs /\ h[f.to] \o f.left = Full[f.to]
        /\ \A m \in DOMAIN h \ DOMAIN reqs : f.left # <<>> /\ m = f.to
    BY <1>3, <1>4, <1>7, <1>10 DEF Graph, C
  <2>2. \A k \in DOMAIN stack : stack[k].to \in DOMAIN reqs
    BY <1>8, <2>1
  <2>3. \A m \in DOMAIN reqs : h[m] = reqs[m]
    BY <1>4, <2>1
  <2> QED BY <1>6, <1>7, <2>1, <2>2, <2>3, PushFilled
<1> QED BY <1>1, <1>2, <1>4, <1>9, <1>11 DEF Graph, A, C

\* addRequired is entered for a node at a phi, which may be filled already, or be
\* about to be, further down the stack.
LEMMA EnterPhiKeeps ==
  ASSUME Graph, prog \in Programs, NEW n, n \notin complete, n \notin Ends,
         NEW v \in Value, prog[v].op = "phi", n # PhiNode(v), Full[n] = <<PhiNode(v)>>,
         stack # <<>> => stack[1].left # <<>> /\ stack[1].left[1] = n,
         EnterPhi(n, v), UNCHANGED program
  PROVE  Graph' /\ complete' = complete \cup {n, PhiNode(v)}
<1> DEFINE phi == PhiNode(v)
           B == complete \cup {n}
           C == complete \cup {n, phi}
           A == C \ Ends
           left == IF phi \in complete THEN <<>> ELSE Wanted(v)
           f == Frame(n, phi, left)
           g == WithNode(WithNode(reqs, n), phi)
           h == Link(g, n, phi)
<1>1. complete' = C /\ reqs' = h /\ stack' = <<f>> \o stack
  BY DEF EnterPhi
<1>2. Full' = Full /\ Requests' = Requests
  BY SameProgram
<1>3. reqs \in [complete -> Seq(complete)] /\ phi \in Inner /\ phi \notin Ends
  BY VertexFacts DEF Graph
<1> HIDE DEF phi
<1>4. /\ WithNode(reqs, n)[n] = <<>>
      /\ \A m \in complete : WithNode(reqs, n)[m] = reqs[m]
      /\ WithNode(reqs, n) \in [B -> Seq(B)]
  <2> DEFINE r == reqs
  <2>1. r \in [complete -> Seq(complete)]
    BY <1>3
  <2> HIDE DEF r
  <2>2. /\ \A m \in complete : WithNode(r, n)[m] = r[m]
        /\ n \notin complete => WithNode(r, n)[n] = <<>>
        /\ WithNode(r, n) \in [complete \cup {n} -> Seq(complete \cup {n})]
    BY <2>1, GraphGrows
  <2> QED BY <2>2 DEF r
<1>5. /\ \A m \in B : g[m] = WithNode(reqs, n)[m]
      /\ phi \notin B => g[phi] = <<>>
      /\ g \in [C -> Seq(C)]
  <2>1. C = B \cup {phi}
    OBVIOUS
  <2> DEFINE r == WithNode(reqs, n)
  <2>2. r \in [B -> Seq(B)]
    BY <1>4
  <2> HIDE DEF r, B, C
  <2>3. /\ \A m \in B : WithNode(r, phi)[m] = r[m]
        /\ phi \notin B => WithNode(r, phi)[phi] = <<>>
        /\ WithNode(r, phi) \in [B \cup {phi} -> Seq(B \cup {phi})]
    BY <2>2, GraphGrows
  <2> QED BY <2>1, <2>3 DEF r, g
<1> HIDE DEF g
<1>6. g[n] = <<>> /\ \A m \in complete : g[m] = reqs[m]
  BY <1>4, <1>5
<1>7. n \in C /\ phi \in C
  OBVIOUS
<1>8. /\ h \in [C -> Seq(C)]
      /\ h[n] = Append(g[n], phi)
      /\ \A m \in C : m # n => h[m] = g[m]
  <2> HIDE DEF C, h
  <2>1. g \in [C -> Seq(C)] /\ n \in C /\ phi \in C
    BY <1>5, <1>7
  <2>2. /\ Link(g, n, phi) \in [C -> Seq(C)]
        /\ Link(g, n, phi)[n] = Append(g[n], phi)
        /\ \A m \in C : m # n => Link(g, n, phi)[m] = g[m]
    <3>1. Append(g[n], phi) \in Seq(C)
      BY <2>1, AppendProperties
    <3> QED BY <2>1, <3>1 DEF Link
  <2>3. h = Link(g, n, phi)
    BY DEF h
  <2> QED BY <2>2, <2>3
<1> HIDE DEF h
<1>9. h[n] = Full[n]
  BY <1>6, <1>8 DEF phi
<1>10. \A m \in complete : h[m] = reqs[m]
  BY <1>6, <1>8
<1>11. phi \notin complete => h[phi] = <<>>
  BY <1>5, <1>7, <1>8 DEF phi
<1>12. Wanted(v) \in Seq(Requests)
  BY WantedFacts
<1>13. left \in Seq(Requests)
  BY <1>12
<1>14. stack \in Seq(Frames(complete \ Ends, Requests)) /\ complete \ Ends \subseteq A
  BY DEF Graph
<1>15. stack \in Seq(Frames(A, Requests))
  <2> HIDE DEF A
  <2> QED BY <1>14, FramesGrow
<1>16. f \in Frames(A, Requests) /\ f.of = n /\ f.to = phi /\ f.left = left
  BY <1>3, <1>13 DEF Frames, Frame
<1>17. \A k \in DOMAIN stack : stack[k].to \in complete
  BY <1>14, FrameFacts
<1> HIDE DEF A, C, f
<1>18. stack' \in Seq(Frames(A, Requests)) /\ Linked(stack')
  BY <1>1, <1>15, <1>16, Push DEF Graph
<1>19. phi \notin complete => h[phi] \o left = Full[phi]
  BY <1>11, <1>12, ConcatEmptySeq, FullOfPhi DEF phi
<1>20. Filled(<<f>> \o stack, h, Full)
  <2>1. /\ Filled(stack, reqs, Full)
        /\ DOMAIN reqs = complete
    BY DEF Graph
  <2>2. f.left # <<>> => f.to \notin DOMAIN reqs /\ h[f.to] \o f.left = Full[f.to]
    BY <1>16, <1>19, <2>1
  <2>3. ASSUME NEW m \in DOMAIN h \ DOMAIN reqs
        PROVE  (f.left # <<>> /\ m = f.to) \/ h[m] = Full[m]
    <3>1. m \in C /\ m \notin complete
      BY <1>8, <2>1
    <3>2. m = n \/ m = phi
      BY <3>1 DEF C
    <3>3. CASE m = n
      BY <1>9, <3>3
    <3>4. CASE m = phi
      <4>1. left = Wanted(v) /\ left # <<>>
        BY <3>1, <3>4, WantedFacts
      <4> QED BY <1>16, <3>4, <4>1
    <3> QED BY <3>2, <3>3, <3>4
  <2>4. \A k \in DOMAIN stack : stack[k].to \in DOMAIN reqs
    BY <1>17, <2>1
  <2>5. \A m \in DOMAIN reqs : h[m] = reqs[m]
    BY <1>10, <2>1
  <2> QED BY <1>15, <1>16, <2>1, <2>2, <2>3, <2>4, <2>5, PushFilled
<1> QED BY <1>1, <1>2, <1>8, <1>18, <1>20 DEF Graph, A, C, phi

\* Either way.
LEMMA EnterKeeps ==
  ASSUME Graph, prog \in Programs, NEW n, n \notin complete, n \notin Ends,
         NEW v \in Value, n # PhiNode(v),
         Full[n] = IF prog[v].op = "phi" THEN <<PhiNode(v)>> ELSE Wanted(v),
         stack # <<>> => stack[1].left # <<>> /\ stack[1].left[1] = n,
         Enter(n, v), UNCHANGED program
  PROVE  Graph' /\ complete' \in {complete \cup {n}, complete \cup {n, PhiNode(v)}}
<1>1. CASE prog[v].op = "phi"
  BY <1>1, EnterPhiKeeps DEF Enter
<1>2. CASE prog[v].op # "phi"
  <2>1. Wanted(v) \in Seq(Requests) /\ Wanted(v) # <<>>
    BY WantedFacts
  <2> QED BY <1>2, <2>1, EnterPlainKeeps DEF Enter
<1> QED BY <1>1, <1>2

-----------------------------------------------------------------------------
(* Adding a requirement that is there.                                      *)

\* The innermost frame gets a node that is there.
LEMMA LinkKeeps ==
  ASSUME NEW C, C \subseteq Vertex, NEW g, g \in [C -> Seq(C)],
         NEW st, st \in Seq(Frames(C \ Ends, Requests)),
         Linked(st), Filled(st, g, Full),
         st # <<>>, st[1].left # <<>>, st[1].left[1] \in C
  PROVE  /\ Link(g, st[1].to, st[1].left[1]) \in [C -> Seq(C)]
         /\ Advanced(st) \in Seq(Frames(C \ Ends, Requests))
         /\ Linked(Advanced(st))
         /\ Filled(Advanced(st), Link(g, st[1].to, st[1].left[1]), Full)
<1> DEFINE A == C \ Ends
           to == st[1].to
           m == st[1].left[1]
<1>1. to \in C /\ m \in C
  BY FrameFacts
<1>2. Append(g[to], m) \in Seq(C)
  <2>1. g[to] \in Seq(C)
    BY <1>1
  <2> HIDE DEF to, m
  <2> QED BY <1>1, <2>1, AppendProperties
<1>3. Link(g, to, m) \in [C -> Seq(C)]
  BY <1>1, <1>2 DEF Link
<1>4. g \in [C -> Seq(Vertex)]
  <2>1. Seq(C) \subseteq Seq(Vertex)
    BY SeqMonotonic
  <2> QED BY <2>1
<1>5. Filled(Advanced(st), Link(g, to, m), Full)
  BY <1>4, ServeFilled
<1>6. /\ Advanced(st) \in Seq(Frames(A, Requests))
      /\ Linked(Advanced(st))
  BY Serve
<1> QED BY <1>3, <1>5, <1>6

\* A new source needs nothing.
LEMMA NewSource ==
  ASSUME Graph, complete \subseteq Vertex, NEW n, n \in Ends
  PROVE  /\ WithNode(reqs, n) \in [complete \cup {n} -> Seq(complete \cup {n})]
         /\ Filled(stack, WithNode(reqs, n), Full)
<1> DEFINE C == complete \cup {n}
           g == reqs
           h == WithNode(reqs, n)
<1>1. g \in [complete -> Seq(complete)] /\ Filled(stack, g, Full)
  BY DEF Graph
<1> HIDE DEF g
<1>2. /\ \A m \in complete : WithNode(g, n)[m] = g[m]
      /\ n \notin complete => WithNode(g, n)[n] = <<>>
      /\ WithNode(g, n) \in [complete \cup {n} -> Seq(complete \cup {n})]
  BY <1>1, GraphGrows
<1>3. /\ \A m \in complete : h[m] = g[m]
      /\ n \notin complete => h[n] = <<>>
      /\ h \in [C -> Seq(C)]
  BY <1>2 DEF g
<1>4. \A k \in DOMAIN stack : stack[k].to \in complete
  BY FrameFacts DEF Graph
<1>5. Full[n] = <<>>
  BY FullOfSource
<1> HIDE DEF h
<1>6. DOMAIN h = complete \cup {n} /\ DOMAIN g = complete
  BY <1>1, <1>3
<1>7. Filled(stack, h, Full)
  <2>1. ASSUME NEW k \in DOMAIN stack, stack[k].left # <<>>
        PROVE  h[stack[k].to] \o stack[k].left = Full[stack[k].to]
    <3>1. g[stack[k].to] \o stack[k].left = Full[stack[k].to]
      BY <1>1, <2>1 DEF Filled
    <3>2. h[stack[k].to] = g[stack[k].to]
      BY <1>3, <1>4
    <3> QED BY <3>1, <3>2
  <2>2. ASSUME NEW m \in DOMAIN h,
               \A k \in DOMAIN stack : stack[k].left # <<>> => stack[k].to # m
        PROVE  h[m] = Full[m]
    <3>1. CASE m \in complete
      <4>1. g[m] = Full[m]
        BY <1>1, <1>6, <2>2, <3>1 DEF Filled
      <4> QED BY <1>3, <3>1, <4>1
    <3>2. CASE m \notin complete
      BY <1>3, <1>5, <1>6, <3>2
    <3> QED BY <3>1, <3>2
  <2>3. \A j, k \in DOMAIN stack :
          stack[j].left # <<>> /\ stack[k].left # <<>> /\ j # k => stack[j].to # stack[k].to
    BY <1>1 DEF Filled
  <2> QED BY <2>1, <2>2, <2>3 DEF Filled
<1> QED BY <1>3, <1>7 DEF h

-----------------------------------------------------------------------------
(* The steps.                                                               *)

\* The account is right before any target was inserted.
THEOREM InitInv == Init => Inv
<1> SUFFICES ASSUME Init PROVE Inv
  OBVIOUS
<1>1. Len(vec) \in Nat
  BY TargetFacts DEF Init
<1>2. Types
  <2>1. next \in 1 .. Len(vec) + 1
    BY <1>1 DEF Init
  <2>2. Outer(next - 1) = {}
    BY DEF Init, Outer
  <2>3. reqs \in [complete -> Seq(complete)] /\ stack \in Seq(Frames(complete \ Ends, Requests))
    BY DEF Init
  <2> QED BY <2>1, <2>2, <2>3 DEF Init, Types
<1>3. Linked(stack) /\ Filled(stack, reqs, Full)
  BY DEF Init, Linked, Filled
<1>4. Worklist
  BY DEF Init, Worklist
<1> QED BY <1>2, <1>3, <1>4 DEF Inv

\* The invariant in the terms of the lemmas above.
LEMMA InvGraph ==
  ASSUME Inv
  PROVE  /\ Graph
         /\ complete \subseteq Vertex
         /\ next \in Nat
         /\ next # 0
         /\ Len(vec) \in Nat
         /\ prog \in Programs
<1>1. Len(vec) \in Nat
  BY TargetFacts DEF Inv, Types
<1>2. next \in Nat /\ next # 0 /\ next - 1 \in Nat
  BY <1>1 DEF Inv, Types
<1>3. Outer(next - 1) \subseteq Vertex
  BY <1>2 DEF Outer, Vertex
<1> QED BY <1>1, <1>2, <1>3, VertexFacts DEF Inv, Types, Graph

LEMMA InsertRequiredTargetInv ==
  ASSUME Inv, InsertRequiredTarget
  PROVE  Inv'
<1> DEFINE t == vec[next]
           n == External(next)
<1>1. /\ Graph /\ next \in Nat /\ next # 0 /\ Len(vec) \in Nat
      /\ prog \in Programs /\ vec \in Targets
  BY InvGraph DEF Inv, Types
<1>2. next <= Len(vec) /\ next' = next + 1 /\ phase = "insert" /\ stack = <<>>
        /\ UNCHANGED program /\ UNCHANGED <<phase, flags, queue, succ>>
  BY DEF InsertRequiredTarget
<1>3. next \in DOMAIN vec
  BY <1>1, <1>2, TargetFacts
<1>4. n \notin complete /\ n \notin Ends
  <2>1. n \notin Inner \cup Ends
    BY <1>1, VertexFacts
  <2>2. n \notin Outer(next - 1)
    BY <1>1, VertexFacts DEF Outer
  <2> QED BY <2>1, <2>2 DEF Inv, Types
<1>5. Graph' /\ n \in complete'
         /\ complete \subseteq complete' /\ complete' \subseteq complete \cup {n} \cup Inner
  <2>1. CASE t.kind = "call"
    <3> DEFINE wanted == [i \in DOMAIN t.args |-> Internal(t.args[i], TargetLoc(next))]
    <3>1. t.args \in [1 .. 2 -> Value]
      BY <1>1, <1>3, <2>1, TargetFacts
    <3>2. wanted \in [1 .. 2 -> Requests]
      BY <1>1, <3>1, LocationFacts, RequestFacts
    <3>3. wanted \in Seq(Requests) /\ wanted # <<>>
      <4> HIDE DEF wanted
      <4>1. wanted \in Seq(Requests) /\ Len(wanted) = 2
        BY <3>2, FunctionIsSeq
      <4> QED BY <4>1
    <3>4. Full[n] = wanted
      BY <1>1, <2>1, FullOfCall
    <3>5. EnterPlain(n, wanted)
      BY <2>1 DEF InsertRequiredTarget
    <3> HIDE DEF wanted, n
    <3> QED BY <1>1, <1>2, <1>4, <3>3, <3>4, <3>5, EnterPlainKeeps
  <2>2. CASE t.kind # "call"
    <3> DEFINE v == t.args[1]
    <3>1. v \in Value
      BY <1>1, <1>3, <2>2, TargetFacts
    <3>2. Full[n] = IF prog[v].op = "phi" THEN <<PhiNode(v)>> ELSE Wanted(v)
      BY <1>1, <2>2, FullOfPlain
    <3>3. Enter(n, v)
      BY <2>2 DEF InsertRequiredTarget
    <3>4. n # PhiNode(v) /\ PhiNode(v) \in Inner
      BY <1>1, <3>1, VertexFacts
    <3> HIDE DEF v, n
    <3>5. Graph' /\ complete' \in {complete \cup {n}, complete \cup {n, PhiNode(v)}}
      BY <1>1, <1>2, <1>4, <3>1, <3>2, <3>3, <3>4, EnterKeeps
    <3> QED BY <3>4, <3>5
  <2> QED BY <2>1, <2>2
<1>6. Outer(next' - 1) = Outer(next - 1) \cup {n}
  <2>1. 1 .. next' - 1 = (1 .. next - 1) \cup {next}
    BY <1>1, <1>2
  <2> QED BY <2>1 DEF Outer
<1> HIDE DEF n, t
<1>7. /\ complete' \subseteq Inner \cup Ends \cup Outer(next' - 1)
      /\ Outer(next' - 1) \subseteq complete'
  BY <1>5, <1>6 DEF Inv, Types
<1>8. Types'
  <2>1. prog' = prog /\ vec' = vec /\ next' \in 1 .. Len(vec') + 1
    BY <1>1, <1>2 DEF program
  <2>2. phase' = "insert"
    BY <1>2
  <2> QED BY <1>1, <1>5, <1>7, <2>1, <2>2 DEF Types, Graph
<1>9. Worklist'
  BY <1>2 DEF Inv, Worklist
<1> QED BY <1>5, <1>8, <1>9 DEF Inv, Graph

\* The steps of a recursion leave the vector's position and the worklist alone.
LEMMA RecursionInv ==
  ASSUME Inv, Graph', phase = "insert",
         complete \subseteq complete', complete' \subseteq complete \cup Inner \cup Ends,
         UNCHANGED <<program, phase, next, flags, queue, succ>>
  PROVE  Inv'
<1>1. prog' = prog /\ vec' = vec /\ phase' = phase /\ next' = next /\ queue' = queue
        /\ succ' = succ
  BY DEF program
<1>2. Outer(next' - 1) = Outer(next - 1)
  BY <1>1 DEF Outer
<1>3. Types'
  BY <1>1, <1>2 DEF Inv, Types, Graph
<1>4. Worklist'
  BY <1>1 DEF Inv, Worklist
<1> QED BY <1>3, <1>4 DEF Inv, Graph

\* What the innermost frame wants next.
LEMMA WantsFacts ==
  ASSUME Inv, Wants # <<>>
  PROVE  /\ phase = "insert"
         /\ stack # <<>> /\ stack[1].left # <<>>
         /\ stack[1].left[1] \in Requests
         /\ Wants[1] = stack[1].left[1] /\ Top.to = stack[1].to
         /\ Served = Advanced(stack)
<1>1. stack # <<>> /\ stack[1].left # <<>>
  BY DEF Wants, Top
<1>2. stack[1].left[1] \in Requests
  BY <1>1, FrameFacts DEF Inv, Types
<1> QED BY <1>1, <1>2 DEF Wants, Top, Served, Advanced, Inv, Types

LEMMA RequireSourceInv ==
  ASSUME Inv, RequireSource
  PROVE  Inv'
<1> DEFINE m == stack[1].left[1]
           C == complete \cup {m}
           g == WithNode(reqs, m)
<1>1. /\ phase = "insert" /\ stack # <<>> /\ stack[1].left # <<>> /\ m \in Requests
      /\ reqs' = Link(g, stack[1].to, m) /\ complete' = C /\ stack' = Advanced(stack)
      /\ m.kind = "source"
      /\ UNCHANGED <<program, phase, next, flags, queue, succ>>
  BY WantsFacts DEF RequireSource
<1>2. m \in Ends
  BY <1>1, VertexFacts DEF Inner
<1>3. Graph /\ complete \subseteq Vertex
  BY InvGraph
<1>4. g \in [C -> Seq(C)] /\ Filled(stack, g, Full)
  BY <1>2, <1>3, NewSource
<1>5. C \subseteq Vertex /\ complete \ Ends \subseteq C \ Ends /\ m \in C
  BY <1>2, <1>3, VertexFacts
<1>6. stack \in Seq(Frames(C \ Ends, Requests))
  <2> DEFINE A == complete \ Ends
             B == C \ Ends
  <2>1. stack \in Seq(Frames(A, Requests)) /\ A \subseteq B
    BY <1>3 DEF Graph
  <2> HIDE DEF A, B
  <2>2. stack \in Seq(Frames(B, Requests))
    BY <2>1, FramesGrow
  <2> QED BY <2>2 DEF B
<1>7. Linked(stack)
  BY <1>3 DEF Graph
<1> HIDE DEF g, C
<1>8. /\ reqs' \in [C -> Seq(C)]
      /\ stack' \in Seq(Frames(C \ Ends, Requests))
      /\ Linked(stack')
      /\ Filled(stack', reqs', Full)
  BY <1>1, <1>4, <1>5, <1>6, <1>7, LinkKeeps
<1>9. Graph'
  <2>1. Full' = Full /\ Requests' = Requests
    BY <1>1, SameProgram
  <2> QED BY <1>1, <1>8, <2>1 DEF Graph
<1> QED BY <1>1, <1>2, <1>9, RecursionInv DEF C

LEMMA RequireKnownInv ==
  ASSUME Inv, RequireKnown
  PROVE  Inv'
<1> DEFINE m == stack[1].left[1]
<1>1. /\ phase = "insert" /\ stack # <<>> /\ stack[1].left # <<>> /\ m \in complete
      /\ reqs' = Link(reqs, stack[1].to, m) /\ stack' = Advanced(stack)
      /\ complete' = complete
      /\ UNCHANGED <<program, phase, next, flags, queue, succ>>
  BY WantsFacts DEF RequireKnown
<1>2. /\ reqs \in [complete -> Seq(complete)] /\ complete \subseteq Vertex
      /\ stack \in Seq(Frames(complete \ Ends, Requests))
      /\ Linked(stack) /\ Filled(stack, reqs, Full)
  BY InvGraph DEF Graph
<1>3. /\ reqs' \in [complete -> Seq(complete)]
      /\ stack' \in Seq(Frames(complete \ Ends, Requests))
      /\ Linked(stack') /\ Filled(stack', reqs', Full)
  BY <1>1, <1>2, LinkKeeps
<1>4. Graph'
  <2>1. Full' = Full /\ Requests' = Requests
    BY <1>1, SameProgram
  <2> QED BY <1>1, <1>3, <2>1 DEF Graph
<1> QED BY <1>1, <1>4, RecursionInv

LEMMA RequireNewInv ==
  ASSUME Inv, RequireNew
  PROVE  Inv'
<1> DEFINE m == stack[1].left[1]
           v == m.val
<1>1. /\ phase = "insert" /\ stack # <<>> /\ stack[1].left # <<>> /\ m \in Requests
      /\ m \notin complete /\ m.kind = "internal" /\ Enter(m, v)
      /\ UNCHANGED <<program, phase, next, flags, queue, succ>>
  BY WantsFacts DEF RequireNew
<1>2. m \in Inner /\ m \notin Ends /\ v \in Value /\ ~IsPhiNode(m)
  BY <1>1, VertexFacts DEF Requests
<1>3. Full[m] = IF prog[v].op = "phi" THEN <<PhiNode(v)>> ELSE Wanted(v)
  BY <1>2, FullOfInner
<1>4. Graph /\ prog \in Programs
  BY InvGraph
<1>5. PhiNode(v) \in Inner
  BY <1>2, VertexFacts
<1> HIDE DEF m, v
<1>6. Graph' /\ complete' \in {complete \cup {m}, complete \cup {m, PhiNode(v)}}
  <2>1. CASE prog[v].op = "phi"
    <3>1. m # PhiNode(v)
      BY <1>1, <1>2, <2>1 DEF IsPhiNode, v
    <3> QED BY <1>1, <1>2, <1>3, <1>4, <3>1, EnterKeeps DEF m
  <2>2. CASE prog[v].op # "phi"
    <3>1. Wanted(v) \in Seq(Requests) /\ Wanted(v) # <<>>
      <4>1. prog \in Programs /\ v \in Value
        BY <1>2, <1>4
      <4> QED BY <4>1, WantedFacts
    <3>2. EnterPlain(m, Wanted(v)) /\ Full[m] = Wanted(v)
      BY <1>1, <1>3, <2>2 DEF Enter
    <3>3. m \notin complete /\ UNCHANGED program /\ stack[1].left # <<>> /\ stack[1].left[1] = m
      BY <1>1 DEF m
    <3>4. m \notin Ends
      BY <1>2
    <3>5. Graph' /\ complete' = complete \cup {m}
      BY <1>4, <3>1, <3>2, <3>3, <3>4, EnterPlainKeeps
    <3> QED BY <3>5
  <2> QED BY <2>1, <2>2
<1> QED BY <1>1, <1>2, <1>5, <1>6, RecursionInv

LEMMA ReturnFromAddRequiredInv ==
  ASSUME Inv, ReturnFromAddRequired
  PROVE  Inv'
<1> DEFINE st == Tail(stack)
           A == complete \ Ends
<1>1. /\ stack # <<>> /\ stack[1].left = <<>>
      /\ complete' = complete
      /\ UNCHANGED <<program, phase, next, flags, queue, succ>>
  BY DEF ReturnFromAddRequired, Wants, Top
<1>2. /\ reqs \in [complete -> Seq(complete)] /\ complete \subseteq Vertex
      /\ stack \in Seq(Frames(A, Requests))
      /\ Linked(stack) /\ Filled(stack, reqs, Full)
  BY InvGraph DEF Graph
<1>3. Len(stack) \in Nat /\ DOMAIN stack = 1 .. Len(stack) /\ Len(st) = Len(stack) - 1
        /\ Len(stack) # 0
  <2> DEFINE F == Frames(A, Requests)
  <2>1. stack \in Seq(F)
    BY <1>2
  <2> HIDE DEF F
  <2> QED BY <1>1, <2>1, EmptySeq, LenProperties, HeadTailProperties
<1>4. /\ st \in Seq(Frames(A, Requests)) /\ Linked(st) /\ Filled(st, reqs, Full)
      /\ st # <<>> => 2 \in DOMAIN stack /\ st[1] = stack[2]
  <2> HIDE DEF A
  <2> QED BY <1>1, <1>2, Pop, PopFilled
<1>5. phase = "insert"
  BY <1>1 DEF Inv, Types
<1>6. /\ reqs' \in [complete -> Seq(complete)]
      /\ stack' \in Seq(Frames(A, Requests))
      /\ Linked(stack') /\ Filled(stack', reqs', Full)
  <2>1. CASE Len(stack) = 1
    <3>1. stack' = <<>> /\ reqs' = reqs
      BY <2>1 DEF ReturnFromAddRequired
    <3>2. st = <<>>
      <4> DEFINE F == Frames(A, Requests)
      <4>1. st \in Seq(F) /\ Len(st) = 0
        BY <1>3, <1>4, <2>1
      <4> HIDE DEF F, st
      <4> QED BY <4>1, EmptySeq
    <3> HIDE DEF st, A
    <3> QED BY <1>2, <1>4, <3>1, <3>2
  <2>2. CASE Len(stack) # 1
    <3>1. stack' = Advanced(st) /\ reqs' = Link(reqs, stack[2].to, stack[1].of)
      BY <2>2 DEF ReturnFromAddRequired, Advanced, Top
    <3>2. st # <<>>
      BY <1>3, <2>2
    <3> HIDE DEF st
    <3>3. st[1] = stack[2] /\ 2 \in DOMAIN stack
      BY <1>4, <3>2
    <3>4. stack[2].left # <<>> /\ stack[2].left[1] = stack[1].of
      <4>1. stack[2].left # <<>> /\ stack[2].left[1] = stack[2 - 1].of
        BY <1>2, <3>3 DEF Linked
      <4> QED BY <4>1
    <3>5. stack[1].of \in complete
      BY <1>1, <1>2, FrameFacts
    <3> QED BY <1>2, <1>4, <3>1, <3>2, <3>3, <3>4, <3>5, LinkKeeps
  <2> QED BY <2>1, <2>2
<1>7. Graph'
  <2>1. Full' = Full /\ Requests' = Requests
    BY <1>1, SameProgram
  <2> QED BY <1>1, <1>6, <2>1 DEF Graph
<1> QED BY <1>1, <1>5, <1>7, RecursionInv

\* The graph stays as it is while the flags are propagated.
LEMMA PropagateInv ==
  ASSUME Inv, UNCHANGED <<program, next, reqs, complete, stack>>,
         phase' \in {"insert", "propagate", "done"},
         phase' # "insert" => stack = <<>>, Worklist'
  PROVE  Inv'
<1>1. prog' = prog /\ vec' = vec /\ next' = next /\ reqs' = reqs
        /\ complete' = complete /\ stack' = stack
  BY DEF program
<1>2. Full' = Full /\ Requests' = Requests
  BY SameProgram
<1>3. Outer(next' - 1) = Outer(next - 1)
  BY <1>1 DEF Outer
<1>4. Types'
  BY <1>1, <1>2, <1>3 DEF Inv, Types
<1> QED BY <1>1, <1>2, <1>4 DEF Inv

LEMMA StartPropagationInv ==
  ASSUME Inv, StartPropagation
  PROVE  Inv'
<1>1. /\ stack = <<>> /\ next > Len(vec) /\ phase' = "propagate" /\ succ' = 1
      /\ queue' = [k \in DOMAIN vec |-> External(k)]
      /\ UNCHANGED <<program, next, reqs, complete, stack>>
  BY DEF StartPropagation
<1>2. Len(vec) \in Nat /\ DOMAIN vec = 1 .. Len(vec)
  BY TargetFacts DEF Inv, Types
<1>3. \A k \in 1 .. Len(vec) : External(k) \in complete
  <2>1. next - 1 = Len(vec)
    BY <1>1, <1>2 DEF Inv, Types
  <2> QED BY <2>1 DEF Inv, Types, Outer
<1>4. queue' \in [1 .. Len(vec) -> complete]
  BY <1>1, <1>2, <1>3
<1>5. queue' \in Seq(complete')
  BY <1>1, <1>2, <1>4, FunctionIsSeq
<1>6. Worklist'
  BY <1>1, <1>5 DEF Worklist
<1> QED BY <1>1, <1>6, PropagateInv

LEMMA JoinFlagsInv ==
  ASSUME Inv, JoinFlags
  PROVE  Inv'
<1> DEFINE s == reqs[queue[1]][succ]
<1>1. /\ queue # <<>> /\ succ <= Len(reqs[queue[1]]) /\ succ' = succ + 1
      /\ queue' = Append(queue, s) \/ queue' = queue
      /\ UNCHANGED <<program, phase, next, reqs, complete, stack>>
  BY DEF JoinFlags
<1>2. queue \in Seq(complete) /\ phase = "propagate" /\ succ \in Nat \ {0}
        /\ reqs \in [complete -> Seq(complete)] /\ stack = <<>>
  BY <1>1 DEF Inv, Worklist, Types
<1>3. queue[1] \in complete
  BY <1>1, <1>2, EmptySeq, ElementOfSeq
<1>4. reqs[queue[1]] \in Seq(complete)
  BY <1>2, <1>3
<1>5. s \in complete
  BY <1>1, <1>2, <1>4, LenProperties, ElementOfSeq
<1> HIDE DEF s
<1>6. queue' \in Seq(complete)
  <2> DEFINE q == queue
  <2>1. q \in Seq(complete)
    BY <1>2
  <2> HIDE DEF q
  <2>2. Append(q, s) \in Seq(complete)
    BY <1>5, <2>1, AppendProperties
  <2> QED BY <1>1, <1>2, <2>2 DEF q
<1>7. Worklist'
  BY <1>1, <1>2, <1>6 DEF Worklist
<1> QED BY <1>1, <1>2, <1>7, PropagateInv

LEMMA PopNodeInv ==
  ASSUME Inv, PopNode
  PROVE  Inv'
<1>1. /\ queue # <<>> /\ succ' = 1 /\ queue' = Tail(queue)
      /\ UNCHANGED <<program, phase, next, reqs, complete, stack>>
  BY DEF PopNode
<1>2. queue \in Seq(complete) /\ phase = "propagate" /\ stack = <<>>
  BY <1>1 DEF Inv, Worklist, Types
<1>3. queue' \in Seq(complete)
  BY <1>1, <1>2, HeadTailProperties
<1>4. Worklist'
  BY <1>1, <1>2, <1>3 DEF Worklist
<1> QED BY <1>1, <1>2, <1>4, PropagateInv

LEMMA FinishPropagationInv ==
  ASSUME Inv, FinishPropagation
  PROVE  Inv'
<1>1. /\ phase = "propagate" /\ queue = <<>> /\ phase' = "done"
      /\ UNCHANGED <<program, next, reqs, complete, stack, queue, succ>>
  BY DEF FinishPropagation
<1>2. stack = <<>> /\ Worklist'
  BY <1>1 DEF Inv, Types, Worklist
<1> QED BY <1>1, <1>2, PropagateInv

\* Every step of the recursion and of the propagation keeps it right.
THEOREM NextInv == Inv /\ [Next]_vars => Inv'
<1> SUFFICES ASSUME Inv, [Next]_vars PROVE Inv'
  OBVIOUS
<1>1. CASE InsertRequiredTarget
  BY <1>1, InsertRequiredTargetInv
<1>2. CASE RequireSource
  BY <1>2, RequireSourceInv
<1>3. CASE RequireKnown
  BY <1>3, RequireKnownInv
<1>4. CASE RequireNew
  BY <1>4, RequireNewInv
<1>5. CASE ReturnFromAddRequired
  BY <1>5, ReturnFromAddRequiredInv
<1>6. CASE StartPropagation
  BY <1>6, StartPropagationInv
<1>7. CASE JoinFlags
  BY <1>7, JoinFlagsInv
<1>8. CASE PopNode
  BY <1>8, PopNodeInv
<1>9. CASE FinishPropagation
  BY <1>9, FinishPropagationInv
<1>10. CASE UNCHANGED vars
  <2>1. UNCHANGED <<program, phase, next, reqs, complete, stack, queue, succ>>
    BY <1>10 DEF vars, program
  <2>2. Worklist'
    BY <2>1 DEF Inv, Worklist
  <2>3. phase' \in {"insert", "propagate", "done"} /\ (phase' # "insert" => stack = <<>>)
    BY <2>1 DEF Inv, Types
  <2> QED BY <2>1, <2>2, <2>3, PropagateInv
<1> QED BY <1>1, <1>2, <1>3, <1>4, <1>5, <1>6, <1>7, <1>8, <1>9, <1>10
        DEF Next, Build, Propagate

-----------------------------------------------------------------------------
(* What follows from the invariant.                                         *)

\* The account has the types of the model.
LEMMA InvTypeOK ==
  ASSUME Inv
  PROVE  TypeOK
<1>1. Node = complete
  BY DEF Inv, Types, Node
<1>2. \A n \in Node : Range(reqs[n]) \subseteq Node
  <2> SUFFICES ASSUME NEW n \in complete PROVE Range(reqs[n]) \subseteq complete
    BY <1>1
  <2>1. reqs[n] \in Seq(complete)
    BY DEF Inv, Types
  <2> QED BY <2>1, LenProperties, ElementOfSeq DEF Range
<1>3. \A k \in DOMAIN stack : {stack[k].of, stack[k].to} \subseteq complete
  <2>1. stack \in Seq(Frames(complete \ Ends, Requests))
    BY DEF Inv, Types
  <2>2. \A k \in DOMAIN stack : stack[k].of \in complete \ Ends /\ stack[k].to \in complete \ Ends
    BY <2>1, FrameFacts
  <2> QED BY <2>2
<1>4. Range(queue) \subseteq Node
  <2>1. queue \in Seq(complete)
    BY DEF Inv, Worklist
  <2> QED BY <1>1, <2>1, LenProperties, ElementOfSeq DEF Range
<1> QED BY <1>1, <1>2, <1>3, <1>4 DEF TypeOK, Inv, Types, Worklist

\* In the end every node has all of its requirements.
LEMMA BuiltIsFull ==
  ASSUME Inv, Built, NEW n \in Node
  PROVE  n \in complete /\ reqs[n] = Full[n]
<1>1. stack = <<>> /\ Node = complete
  BY DEF Inv, Types, Built, Node
<1> QED BY <1>1 DEF Inv, Filled, Node

\* The number of requirements of nodes other than those of phis and calls.
LEMMA FullIsWhole ==
  ASSUME prog \in Programs, NEW v \in Value
  PROVE  LET l == IF prog[v].op = "phi" THEN <<PhiNode(v)>> ELSE Wanted(v) IN
         /\ Len(l) = IF prog[v].op = "pair" THEN 2 ELSE 1
         /\ \A m \in Range(l) : IsPhiNode(m) => m.val = v
<1>1. CASE prog[v].op = "phi"
  <2>1. Range(<<PhiNode(v)>>) = {PhiNode(v)} /\ Len(<<PhiNode(v)>>) = 1
    BY DEF Range
  <2> QED BY <1>1, <2>1, VertexFacts
<1>2. CASE prog[v].op # "phi"
  <2>1. Wanted(v) \in Seq(Requests)
        /\ Len(Wanted(v)) = IF prog[v].op \in {"pair", "phi"} THEN 2 ELSE 1
    BY WantedFacts
  <2>2. Range(Wanted(v)) \subseteq Requests
    BY <2>1, LenProperties, ElementOfSeq DEF Range
  <2> QED BY <1>2, <2>1, <2>2 DEF Requests
<1> QED BY <1>1, <1>2

\* A right account of a finished graph is what createWitness relies on.
LEMMA InvRequirementsAreWhole ==
  ASSUME Inv
  PROVE  RequirementsAreWhole
<1> DEFINE Whole(n) ==
      /\ \A m \in {k \in Range(reqs[n]) : IsPhiNode(k)} :
           n.kind = "external" \/ n.val = m.val
      /\ CASE n.kind = "source" -> reqs[n] = <<>>
           [] n.kind = "external" /\ vec[n.val].kind = "call" ->
                [i \in DOMAIN reqs[n] |-> reqs[n][i].val] = vec[n.val].args
           [] IsPhiNode(n) ->
                LET phi == prog[n.val] IN
                /\ Len(reqs[n]) = Len(phi.args)
                /\ \A i \in DOMAIN reqs[n] : /\ reqs[n][i].val = phi.args[i]
                                            /\ reqs[n][i].loc = Back(phi.from[i])
           [] OTHER ->
                Len(reqs[n]) = IF prog[Instrumentee(n)].op = "pair" THEN 2 ELSE 1
<1>1. SUFFICES ASSUME Built, NEW n \in Node
               PROVE  Whole(n)
  BY DEF RequirementsAreWhole
<1>2. n \in complete /\ reqs[n] = Full[n]
  BY <1>1, BuiltIsFull
<1>3. prog \in Programs /\ vec \in Targets
  BY DEF Inv, Types
<1>4. n \in Inner \/ n \in Ends \/ n \in Outer(next - 1)
  BY <1>2 DEF Inv, Types
<1>5. CASE n \in Ends
  <2>1. n.kind = "source" /\ reqs[n] = <<>>
    BY <1>2, <1>5, FullOfSource, VertexFacts
  <2>2. Range(reqs[n]) = {}
    BY <2>1 DEF Range
  <2> QED BY <2>1, <2>2 DEF IsPhiNode
<1>6. CASE n \in Inner /\ ~IsPhiNode(n)
  <2>1. n.kind = "internal" /\ n.val \in Value /\ Instrumentee(n) = n.val
    BY <1>6, VertexFacts DEF Instrumentee
  <2>2. reqs[n] = IF prog[n.val].op = "phi" THEN <<PhiNode(n.val)>> ELSE Wanted(n.val)
    BY <1>2, <1>6, FullOfInner
  <2>3. /\ Len(reqs[n]) = IF prog[n.val].op = "pair" THEN 2 ELSE 1
        /\ \A m \in Range(reqs[n]) : IsPhiNode(m) => m.val = n.val
    BY <1>3, <2>1, <2>2, FullIsWhole
  <2> QED BY <1>6, <2>1, <2>3
<1>7. CASE n \in Inner /\ IsPhiNode(n)
  <2> DEFINE v == n.val
  <2>1. n.kind = "internal" /\ v \in Value /\ prog[v].op = "phi" /\ n = PhiNode(v)
    BY <1>7, VertexFacts DEF IsPhiNode
  <2>2. reqs[n] = Wanted(v)
    BY <1>2, <2>1, FullOfPhi
  <2>3. /\ Wanted(v) \in Seq(Requests) /\ Len(Wanted(v)) = 2
        /\ \A i \in 1 .. 2 : Wanted(v)[i].val = prog[v].args[i]
                             /\ Wanted(v)[i].loc = Back(prog[v].from[i])
    BY <1>3, <2>1, WantedFacts
  <2>4. DOMAIN Wanted(v) = 1 .. 2 /\ Range(Wanted(v)) \subseteq Requests
    BY <2>3, LenProperties, ElementOfSeq DEF Range
  <2>5. Len(prog[v].args) = 2
    BY <1>3, <2>1, ProgramFacts, FunctionIsSeq
  <2>6. \A m \in Range(reqs[n]) : ~IsPhiNode(m)
    BY <2>2, <2>4 DEF Requests
  <2>7. /\ Len(reqs[n]) = Len(prog[v].args)
        /\ \A i \in DOMAIN reqs[n] : /\ reqs[n][i].val = prog[v].args[i]
                                    /\ reqs[n][i].loc = Back(prog[v].from[i])
    BY <2>2, <2>3, <2>4, <2>5
  <2> QED BY <1>7, <2>1, <2>6, <2>7
<1>8. CASE n \in Outer(next - 1)
  <2>0. next - 1 \in Nat /\ next - 1 <= Len(vec) /\ Len(vec) \in Nat
    BY <1>3, TargetFacts DEF Inv, Types
  <2>1. PICK k \in 1 .. next - 1 : n = External(k)
    BY <1>8 DEF Outer
  <2>2. k \in Nat /\ k \in DOMAIN vec /\ n.kind = "external" /\ n.val = k
    BY <1>3, <2>0, <2>1, TargetFacts, VertexFacts
  <2>3. Instrumentee(n) = vec[k].args[1] /\ ~IsPhiNode(n)
    BY <2>2 DEF Instrumentee, IsPhiNode
  <2>4. CASE vec[k].kind = "call"
    <3>1. vec[k].args \in [1 .. 2 -> Value]
      BY <1>3, <2>2, <2>4, TargetFacts
    <3>2. reqs[n] = [i \in 1 .. 2 |-> Internal(vec[k].args[i], TargetLoc(k))]
      BY <1>2, <2>1, <2>2, <2>4, <3>1, FullOfCall
    <3>3. [i \in DOMAIN reqs[n] |-> reqs[n][i].val] = vec[k].args
      BY <3>1, <3>2 DEF Internal
    <3> QED BY <2>2, <2>3, <2>4, <3>3
  <2>5. CASE vec[k].kind # "call"
    <3> DEFINE v == vec[k].args[1]
    <3>1. v \in Value
      BY <1>3, <2>2, <2>5, TargetFacts
    <3>2. reqs[n] = IF prog[v].op = "phi" THEN <<PhiNode(v)>> ELSE Wanted(v)
      BY <1>2, <2>1, <2>2, <2>5, FullOfPlain
    <3>3. Len(reqs[n]) = IF prog[v].op = "pair" THEN 2 ELSE 1
      BY <1>3, <3>1, <3>2, FullIsWhole
    <3> QED BY <2>2, <2>3, <2>5, <3>3
  <2> QED BY <2>4, <2>5
<1> QED BY <1>4, <1>5, <1>6, <1>7, <1>8

-----------------------------------------------------------------------------
(* Reachability.                                                            *)

\* One step along the relation.
Wider(A, to) == A \cup UNION {to[m] : m \in A}

\* The sets that lead nowhere else, and the smallest of them around A.
Closed(C, to) == \A m \in C : to[m] \subseteq C
Closure(A, to) ==
  {v \in DOMAIN to : \A C \in SUBSET DOMAIN to : A \subseteq C /\ Closed(C, to) => v \in C}

\* What `Reachable' iterates.
Grows(g, to) ==
  g = [A \in SUBSET DOMAIN to |->
         IF Wider(A, to) = A THEN A ELSE g[Wider(A, to)]]

IsRelation(to) == \A m \in DOMAIN to : to[m] \subseteq DOMAIN to

\* Steps stay within the relation and within every closed set.
LEMMA WiderFacts ==
  ASSUME NEW to, IsRelation(to), NEW A \in SUBSET DOMAIN to
  PROVE  /\ Wider(A, to) \in SUBSET DOMAIN to
         /\ A \subseteq Wider(A, to)
         /\ Wider(A, to) = A <=> Closed(A, to)
         /\ \A C : A \subseteq C /\ Closed(C, to) => Wider(A, to) \subseteq C
BY DEF Wider, IsRelation, Closed

\* Iteration ends in the closure: a closed set is its own closure, and a step
\* does not change it.
LEMMA ClosureSteps ==
  ASSUME NEW to, IsRelation(to), NEW A \in SUBSET DOMAIN to
  PROVE  Closure(A, to) = IF Wider(A, to) = A THEN A ELSE Closure(Wider(A, to), to)
<1>1. CASE Wider(A, to) = A
  BY <1>1, WiderFacts DEF Closure
<1>2. CASE Wider(A, to) # A
  <2>1. \A C : A \subseteq C /\ Closed(C, to) <=> Wider(A, to) \subseteq C /\ Closed(C, to)
    BY WiderFacts
  <2> QED BY <1>2, <2>1 DEF Closure
<1> QED BY <1>1, <1>2

\* There is a function that iterates.
LEMMA GrowthExists ==
  ASSUME NEW to, IsRelation(to)
  PROVE  Grows([A \in SUBSET DOMAIN to |-> Closure(A, to)], to)
<1> DEFINE g == [A \in SUBSET DOMAIN to |-> Closure(A, to)]
           h == [A \in SUBSET DOMAIN to |-> IF Wider(A, to) = A THEN A ELSE g[Wider(A, to)]]
<1>1. ASSUME NEW A \in SUBSET DOMAIN to
      PROVE  Closure(A, to) = IF Wider(A, to) = A THEN A ELSE g[Wider(A, to)]
  BY ClosureSteps, WiderFacts
<1>2. g = h BY <1>1
<1> QED BY <1>2 DEF Grows

\* Over finitely many nodes there is no other one: a largest set for which it
\* does not give the closure would have a step to a larger one.
LEMMA GrowthIsClosure ==
  ASSUME NEW to, IsRelation(to), IsFiniteSet(DOMAIN to), NEW g, Grows(g, to),
         NEW A \in SUBSET DOMAIN to
  PROVE  g[A] = Closure(A, to)
<1> DEFINE D == DOMAIN to
           Wrong == {B \in SUBSET D : g[B] # Closure(B, to)}
           Rest == {D \ B : B \in Wrong}
<1>1. SUFFICES ASSUME A \in Wrong PROVE FALSE
  OBVIOUS
<1>2. IsWellFoundedOn(StrictSubsetOrdering(D), FiniteSubsetsOf(D))
  BY FS_StrictSubsetOrderingWellFounded
<1>3. Rest \subseteq FiniteSubsetsOf(D) /\ Rest # {}
  <2>1. \A T \in SUBSET D : IsFiniteSet(T) BY FS_Subset
  <2>2. \A B \in Wrong : D \ B \in SUBSET D OBVIOUS
  <2>3. Rest # {} BY <1>1
  <2> QED BY <2>1, <2>2, <2>3 DEF FiniteSubsetsOf
<1>4. \E x \in Rest : \A y \in Rest : ~ (<<y, x>> \in StrictSubsetOrdering(D))
  <2> HIDE DEF Rest, D
  <2> QED BY <1>2, <1>3, WFMin
<1>5. PICK B \in Wrong : \A C \in Wrong : ~ (<<D \ C, D \ B>> \in StrictSubsetOrdering(D))
  BY <1>4
<1>6. g[B] = IF Wider(B, to) = B THEN B ELSE g[Wider(B, to)]
  BY DEF Grows
<1>7. Wider(B, to) # B
  BY <1>5, <1>6, ClosureSteps
<1>8. Wider(B, to) \in SUBSET D /\ B \subseteq Wider(B, to)
  BY WiderFacts
<1>9. Wider(B, to) \notin Wrong
  BY <1>5, <1>7, <1>8 DEF StrictSubsetOrdering
<1> QED BY <1>5, <1>6, <1>7, <1>8, <1>9, ClosureSteps

\* What is reachable is in every closed set around the start, and is one.
LEMMA ReachableIsClosure ==
  ASSUME NEW to, IsRelation(to), IsFiniteSet(DOMAIN to), NEW S \in SUBSET DOMAIN to
  PROVE  Reachable(S, to) = Closure(S, to)
<1> DEFINE grow == CHOOSE g : g = [within \in SUBSET DOMAIN to |->
                      IF within \cup UNION {to[m] : m \in within} = within THEN within
                      ELSE g[within \cup UNION {to[m] : m \in within}]]
<1>1. Grows(grow, to)
  <2>1. \E g : Grows(g, to) BY GrowthExists
  <2>2. \E g : g = [within \in SUBSET DOMAIN to |->
                      IF within \cup UNION {to[m] : m \in within} = within THEN within
                      ELSE g[within \cup UNION {to[m] : m \in within}]]
    BY <2>1 DEF Grows, Wider
  <2> QED BY <2>2 DEF Grows, Wider
<1>2. Reachable(S, to) = grow[S]
  BY DEF Reachable
<1> HIDE DEF grow
<1> QED BY <1>1, <1>2, GrowthIsClosure

\* The start, every step from it, and nothing that is not in each closed set.
LEMMA ReachableFacts ==
  ASSUME NEW to, IsRelation(to), IsFiniteSet(DOMAIN to), NEW S \in SUBSET DOMAIN to
  PROVE  /\ S \subseteq Reachable(S, to) /\ Reachable(S, to) \subseteq DOMAIN to
         /\ \A m \in Reachable(S, to) : to[m] \subseteq Reachable(S, to)
         /\ \A C \in SUBSET DOMAIN to :
              S \subseteq C /\ (\A m \in C : to[m] \subseteq C) => Reachable(S, to) \subseteq C
<1>1. Reachable(S, to) = Closure(S, to)
  BY ReachableIsClosure
<1>2. \A C \in SUBSET DOMAIN to :
        S \subseteq C /\ (\A m \in C : to[m] \subseteq C) => Closure(S, to) \subseteq C
  BY DEF Closure, Closed
<1>3. S \subseteq Closure(S, to) /\ Closure(S, to) \subseteq DOMAIN to
  BY DEF Closure
<1>4. ASSUME NEW m \in Closure(S, to), NEW x \in to[m]
      PROVE  x \in Closure(S, to)
  <2>1. m \in DOMAIN to /\ x \in DOMAIN to
    BY <1>3, <1>4 DEF IsRelation
  <2>2. ASSUME NEW C \in SUBSET DOMAIN to, S \subseteq C, Closed(C, to) PROVE x \in C
    <3>1. m \in C BY <1>4, <2>2 DEF Closure
    <3> QED BY <1>4, <2>2, <3>1 DEF Closed
  <2> QED BY <2>1, <2>2 DEF Closure
<1> QED BY <1>1, <1>2, <1>3, <1>4

\* There are finitely many nodes at any time: a step adds two at most.
LEMMA FinitelyMany ==
  ASSUME IsFiniteSet(complete), [Next]_vars
  PROVE  IsFiniteSet(complete')
<1>1. \E x, y : complete' \subseteq (complete \cup {x}) \cup {y}
  <2>1. CASE InsertRequiredTarget \/ RequireNew
    BY <2>1 DEF InsertRequiredTarget, RequireNew, Enter, EnterPlain, EnterPhi
  <2>2. CASE RequireSource
    BY <2>2 DEF RequireSource
  <2>3. CASE ~(InsertRequiredTarget \/ RequireNew \/ RequireSource)
    BY <2>3 DEF Next, Build, Propagate, vars, RequireKnown, ReturnFromAddRequired,
       StartPropagation, JoinFlags, PopNode, FinishPropagation
  <2> QED BY <2>1, <2>2, <2>3
<1>2. PICK x, y : complete' \subseteq (complete \cup {x}) \cup {y}
  BY <1>1
<1>3. IsFiniteSet((complete \cup {x}) \cup {y})
  BY FS_AddElement
<1> QED BY <1>2, <1>3, FS_Subset

\* What the graph reaches from a node.
LEMMA DescendantFacts ==
  ASSUME Inv, IsFiniteSet(complete), NEW n \in complete
  PROVE  /\ n \in Descendants(n) /\ Descendants(n) \subseteq complete
         /\ \A m \in Descendants(n) : Range(reqs[m]) \subseteq Descendants(n)
         /\ \A C \in SUBSET complete :
              n \in C /\ (\A m \in C : Range(reqs[m]) \subseteq C) => Descendants(n) \subseteq C
<1>1. Node = complete /\ \A m \in Node : Range(reqs[m]) \subseteq Node
  BY InvTypeOK DEF TypeOK, Inv, Types, Node
<1>2. DOMAIN Requires = complete /\ \A m \in complete : Requires[m] = Range(reqs[m])
  BY <1>1 DEF Requires
<1>3. IsRelation(Requires) /\ IsFiniteSet(DOMAIN Requires) /\ {n} \in SUBSET DOMAIN Requires
  BY <1>1, <1>2 DEF IsRelation
<1> DEFINE to == Requires
<1> HIDE DEF to
<1>4. /\ {n} \subseteq Reachable({n}, to) /\ Reachable({n}, to) \subseteq DOMAIN to
      /\ \A m \in Reachable({n}, to) : to[m] \subseteq Reachable({n}, to)
      /\ \A C \in SUBSET DOMAIN to :
           {n} \subseteq C /\ (\A m \in C : to[m] \subseteq C) => Reachable({n}, to) \subseteq C
  BY <1>3, ReachableFacts DEF to
<1>5. Descendants(n) = Reachable({n}, to)
  BY DEF Descendants, to
<1>6. DOMAIN to = complete /\ \A m \in complete : to[m] = Range(reqs[m])
  BY <1>2 DEF to
<1> DEFINE R == Reachable({n}, to)
<1>7. /\ {n} \subseteq R /\ R \subseteq complete
      /\ \A m \in R : to[m] \subseteq R
      /\ \A C \in SUBSET complete :
           {n} \subseteq C /\ (\A m \in C : to[m] \subseteq C) => R \subseteq C
  BY <1>4, <1>6
<1> HIDE DEF R
<1>8. ASSUME NEW C \in SUBSET complete, n \in C, \A m \in C : Range(reqs[m]) \subseteq C
      PROVE  R \subseteq C
  <2>1. \A m \in C : to[m] \subseteq C
    BY <1>6, <1>8
  <2> QED BY <1>7, <1>8, <2>1
<1>9. Descendants(n) = R
  BY <1>5 DEF R
<1> QED BY <1>6, <1>7, <1>8, <1>9

-----------------------------------------------------------------------------
(* The flags.                                                               *)

\* Node n has a requirement i that propagation has yet to look at.
Awaits(n, i) == \E p \in DOMAIN queue : queue[p] = n /\ (p = 1 => succ <= i)

\* Targets keep their flags; a flag comes from a target that depends on the
\* node; and it was handed on to all that the node requires, or will be.
FlagInv ==
  phase # "insert" =>
    /\ next = Len(vec) + 1
    /\ flags \in [complete -> SUBSET Flag]
    /\ \A k \in DOMAIN vec : FlagsOf[k] \subseteq flags[External(k)]
    /\ \A n \in complete : \A f \in flags[n] :
         \E k \in DOMAIN vec : f \in FlagsOf[k] /\ n \in Descendants(External(k))
    /\ \A n \in complete : \A i \in DOMAIN reqs[n] :
         flags[n] \subseteq flags[reqs[n][i]] \/ Awaits(n, i)

\* All targets have their nodes when propagation begins.
LEMMA TargetsAreNodes ==
  ASSUME Inv, next = Len(vec) + 1
  PROVE  /\ \A k \in DOMAIN vec : k \in Nat /\ External(k) \in complete
         /\ \A n \in complete : n.kind = "external" => n.val \in DOMAIN vec /\ n = External(n.val)
<1>1. Len(vec) \in Nat /\ DOMAIN vec = 1 .. Len(vec) /\ next - 1 = Len(vec)
  BY TargetFacts DEF Inv, Types
<1>2. Outer(next - 1) \subseteq complete /\ complete \subseteq Inner \cup Ends \cup Outer(next - 1)
  BY DEF Inv, Types
<1>3. \A k \in DOMAIN vec : k \in Nat /\ External(k) \in Outer(next - 1)
  BY <1>1 DEF Outer
<1>4. ASSUME NEW n \in complete, n.kind = "external"
      PROVE  n.val \in DOMAIN vec /\ n = External(n.val)
  <2>1. n \in Outer(next - 1)
    BY <1>2, <1>4, VertexFacts
  <2>2. PICK k \in 1 .. next - 1 : n = External(k)
    BY <2>1 DEF Outer
  <2>3. k \in Nat /\ n.val = k
    BY <1>1, <2>2, VertexFacts
  <2> QED BY <1>1, <2>2, <2>3
<1> QED BY <1>2, <1>3, <1>4

\* The graph does not change while flags are propagated.
LEMMA DescendantsStay ==
  ASSUME reqs' = reqs
  PROVE  \A n : Descendants(n)' = Descendants(n)
BY DEF Descendants, Requires, Node

LEMMA FlagsStart ==
  ASSUME Inv, IsFiniteSet(complete), StartPropagation
  PROVE  FlagInv'
<1>1. /\ next' = next /\ vec' = vec /\ reqs' = reqs /\ complete' = complete
      /\ queue' = [k \in DOMAIN vec |-> External(k)] /\ succ' = 1
      /\ flags' = [n \in Node |-> IF n.kind = "external" THEN FlagsOf[n.val] ELSE {}]
  BY DEF StartPropagation, program
<1>2. next = Len(vec) + 1 /\ vec \in Targets
  <2>1. Len(vec) \in Nat /\ next > Len(vec) /\ next \in 1 .. Len(vec) + 1 /\ vec \in Targets
    BY TargetFacts DEF StartPropagation, Inv, Types
  <2> QED BY <2>1
<1>3. /\ \A k \in DOMAIN vec : k \in Nat /\ External(k) \in complete
      /\ \A n \in complete : n.kind = "external" => n.val \in DOMAIN vec /\ n = External(n.val)
  BY <1>2, TargetsAreNodes
<1>4. Node = complete /\ \A k \in DOMAIN vec : FlagsOf[k] \subseteq Flag
  BY <1>2, FlagAssumption DEF Inv, Types, Node
<1>5. flags' \in [complete -> SUBSET Flag]
  BY <1>1, <1>3, <1>4
<1>6. \A k \in DOMAIN vec : FlagsOf[k] \subseteq flags'[External(k)]
  BY <1>1, <1>3, <1>4, VertexFacts
<1>7. ASSUME NEW n \in complete, NEW f \in flags'[n]
      PROVE  \E k \in DOMAIN vec : f \in FlagsOf[k] /\ n \in Descendants(External(k))
  <2>1. n.kind = "external" /\ f \in FlagsOf[n.val]
    BY <1>1, <1>4, <1>7
  <2>2. n \in Descendants(n)
    BY DescendantFacts
  <2> QED BY <1>3, <2>1, <2>2
<1>8. ASSUME NEW n \in complete, NEW i \in DOMAIN reqs[n]
      PROVE  flags'[n] \subseteq flags'[reqs[n][i]] \/ Awaits(n, i)'
  <2>1. CASE n.kind = "external"
    <3>1. n.val \in DOMAIN queue' /\ queue'[n.val] = n
      BY <1>1, <1>3, <2>1
    <3>2. i \in Nat /\ i >= 1
      <4>1. reqs[n] \in Seq(complete)
        BY DEF Inv, Types
      <4> QED BY <4>1, LenProperties
    <3> QED BY <1>1, <3>1, <3>2 DEF Awaits
  <2>2. CASE n.kind # "external"
    BY <1>1, <1>4, <2>2
  <2> QED BY <2>1, <2>2
<1>9. next' = next /\ vec' = vec /\ reqs' = reqs /\ complete' = complete
  BY <1>1
<1> QED BY <1>2, <1>5, <1>6, <1>7, <1>8, <1>9, DescendantsStay DEF FlagInv

\* A node that gains a flag is looked at again.
LEMMA FlagsJoin ==
  ASSUME Inv, IsFiniteSet(complete), FlagInv, JoinFlags
  PROVE  FlagInv'
<1> DEFINE n == queue[1]
           s == reqs[n][succ]
<1>1. /\ queue # <<>> /\ succ <= Len(reqs[n]) /\ succ' = succ + 1
      /\ flags' = [flags EXCEPT ![s] = flags[s] \cup flags[n]]
      /\ queue' = IF flags[s] \cup flags[n] # flags[s] THEN Append(queue, s) ELSE queue
      /\ vec' = vec /\ next' = next /\ reqs' = reqs /\ complete' = complete /\ phase' = phase
  BY DEF JoinFlags, program
<1>2. /\ queue \in Seq(complete) /\ phase = "propagate" /\ succ \in Nat \ {0}
      /\ reqs \in [complete -> Seq(complete)] /\ vec \in Targets
  BY <1>1 DEF Inv, Worklist, Types
<1>3. n \in complete /\ 1 \in DOMAIN queue /\ Len(queue) \in Nat /\ DOMAIN queue = 1 .. Len(queue)
  BY <1>1, <1>2, EmptySeq, ElementOfSeq, LenProperties
<1>4. succ \in DOMAIN reqs[n] /\ s \in complete /\ DOMAIN reqs[n] = 1 .. Len(reqs[n])
  BY <1>1, <1>2, <1>3, LenProperties, ElementOfSeq
<1>5. /\ flags \in [complete -> SUBSET Flag] /\ next = Len(vec) + 1
      /\ \A k \in DOMAIN vec : FlagsOf[k] \subseteq flags[External(k)]
      /\ \A m \in complete : \A f \in flags[m] :
           \E k \in DOMAIN vec : f \in FlagsOf[k] /\ m \in Descendants(External(k))
      /\ \A m \in complete : \A i \in DOMAIN reqs[m] :
           flags[m] \subseteq flags[reqs[m][i]] \/ Awaits(m, i)
  BY <1>2 DEF FlagInv
<1> HIDE DEF n, s
<1>6. /\ flags' \in [complete -> SUBSET Flag]
      /\ \A m \in complete : flags'[m] = IF m = s THEN flags[s] \cup flags[n] ELSE flags[m]
  BY <1>1, <1>3, <1>4, <1>5
<1>7. \A k \in DOMAIN vec : FlagsOf[k] \subseteq flags'[External(k)]
  BY <1>5, <1>6, TargetsAreNodes
<1>8. ASSUME NEW m \in complete, NEW f \in flags'[m]
      PROVE  \E k \in DOMAIN vec : f \in FlagsOf[k] /\ m \in Descendants(External(k))
  <2>1. CASE f \in flags[m]
    BY <1>5, <2>1
  <2>2. CASE f \notin flags[m]
    <3>1. m = s /\ f \in flags[n]
      BY <1>6, <1>8, <2>2
    <3>2. PICK k \in DOMAIN vec : f \in FlagsOf[k] /\ n \in Descendants(External(k))
      BY <1>3, <1>5, <3>1
    <3>3. External(k) \in complete
      BY <1>5, TargetsAreNodes
    <3>4. Range(reqs[n]) \subseteq Descendants(External(k))
      BY <3>2, <3>3, DescendantFacts
    <3>5. s \in Range(reqs[n])
      BY <1>4 DEF Range, s
    <3> QED BY <3>1, <3>2, <3>4, <3>5
  <2> QED BY <2>1, <2>2
<1>9. queue' \in Seq(complete) /\ DOMAIN queue \subseteq DOMAIN queue'
        /\ (\A p \in DOMAIN queue : queue'[p] = queue[p])
        /\ (flags[s] \cup flags[n] # flags[s] =>
              \E p \in DOMAIN queue' : queue'[p] = s /\ p # 1)
  <2> DEFINE q == queue
             r == Append(q, s)
  <2>1. q \in Seq(complete)
    BY <1>2
  <2> HIDE DEF q
  <2>2. /\ r \in Seq(complete) /\ Len(r) = Len(q) + 1
        /\ \A p \in 1 .. Len(q) : r[p] = q[p]
        /\ r[Len(q) + 1] = s
    BY <1>4, <2>1, AppendProperties
  <2> HIDE DEF r
  <2>3. DOMAIN r = 1 .. Len(r) /\ DOMAIN q = 1 .. Len(q) /\ Len(q) \in Nat /\ Len(q) # 0
    BY <1>3, <2>1, <2>2, LenProperties DEF q
  <2>4. Len(q) + 1 \in DOMAIN r /\ Len(q) + 1 # 1 /\ DOMAIN q \subseteq DOMAIN r
    BY <2>2, <2>3
  <2>5. \A p \in DOMAIN q : r[p] = q[p]
    BY <2>2, <2>3
  <2>6. queue' = r \/ (queue' = q /\ flags[s] \cup flags[n] = flags[s])
    BY <1>1 DEF q, r
  <2> QED BY <2>1, <2>2, <2>4, <2>5, <2>6 DEF q
<1>10. ASSUME NEW m \in complete, NEW i \in DOMAIN reqs[m]
       PROVE  flags'[m] \subseteq flags'[reqs[m][i]] \/ Awaits(m, i)'
  <2>0. reqs[m][i] \in complete
    BY <1>2, LenProperties, ElementOfSeq
  <2>1. CASE flags'[m] # flags[m]
    <3>1. m = s /\ flags[s] \cup flags[n] # flags[s]
      BY <1>6, <2>1
    <3>2. \E p \in DOMAIN queue' : queue'[p] = m /\ p # 1
      BY <1>9, <3>1
    <3> QED BY <3>2 DEF Awaits
  <2>2. CASE flags'[m] = flags[m] /\ flags[m] \subseteq flags[reqs[m][i]]
    BY <1>6, <2>0, <2>2
  <2>3. CASE flags'[m] = flags[m] /\ m = n /\ i = succ
    <3>1. reqs[m][i] = s
      BY <2>3 DEF s
    <3> QED BY <1>6, <2>0, <2>3, <3>1
  <2>4. CASE flags'[m] = flags[m] /\ ~(m = n /\ i = succ) /\ Awaits(m, i)
    <3>1. PICK p \in DOMAIN queue : queue[p] = m /\ (p = 1 => succ <= i)
      BY <2>4 DEF Awaits
    <3>2. i \in Nat
      BY <1>2, LenProperties
    <3>3. p = 1 => succ + 1 <= i
      BY <1>2, <2>4, <3>1, <3>2 DEF n
    <3> QED BY <1>1, <1>9, <3>1, <3>3 DEF Awaits
  <2> QED BY <1>5, <2>1, <2>2, <2>3, <2>4
<1> QED BY <1>1, <1>5, <1>6, <1>7, <1>8, <1>10, DescendantsStay DEF FlagInv

\* A node leaves the worklist when all of its requirements have its flags.
LEMMA FlagsPop ==
  ASSUME Inv, FlagInv, PopNode
  PROVE  FlagInv'
<1>1. /\ queue # <<>> /\ succ > Len(reqs[queue[1]]) /\ succ' = 1 /\ queue' = Tail(queue)
      /\ vec' = vec /\ next' = next /\ reqs' = reqs /\ complete' = complete /\ phase' = phase
      /\ flags' = flags
  BY DEF PopNode, program
<1>2. /\ queue \in Seq(complete) /\ phase = "propagate" /\ succ \in Nat \ {0}
      /\ reqs \in [complete -> Seq(complete)]
  BY <1>1 DEF Inv, Worklist, Types
<1>3. /\ DOMAIN queue = 1 .. Len(queue) /\ Len(queue) \in Nat /\ Len(queue) # 0
      /\ DOMAIN Tail(queue) = 1 .. Len(queue) - 1
      /\ \A p \in 1 .. Len(queue) - 1 : Tail(queue)[p] = queue[p + 1]
  <2> DEFINE q == queue
  <2>1. q \in Seq(complete) /\ q # <<>>
    BY <1>1, <1>2
  <2> HIDE DEF q
  <2>2. /\ Tail(q) \in Seq(complete) /\ Len(Tail(q)) = Len(q) - 1
        /\ \A p \in 1 .. Len(Tail(q)) : Tail(q)[p] = q[p + 1]
    BY <2>1, HeadTailProperties
  <2>3. DOMAIN q = 1 .. Len(q) /\ Len(q) \in Nat /\ Len(q) # 0
    BY <2>1, LenProperties, EmptySeq
  <2>4. DOMAIN Tail(q) = 1 .. Len(Tail(q))
    BY <2>2, LenProperties
  <2> QED BY <2>2, <2>3, <2>4 DEF q
<1>4. ASSUME NEW n \in complete, NEW i \in DOMAIN reqs[n], Awaits(n, i)
      PROVE  Awaits(n, i)'
  <2>1. PICK p \in DOMAIN queue : queue[p] = n /\ (p = 1 => succ <= i)
    BY <1>4 DEF Awaits
  <2>2. i \in Nat /\ i >= 1 /\ i <= Len(reqs[n]) /\ Len(reqs[n]) \in Nat
    BY <1>2, LenProperties
  <2>3. p # 1
    BY <1>1, <1>2, <2>1, <2>2
  <2>4. p - 1 \in 1 .. Len(queue) - 1
    BY <1>3, <2>1, <2>3
  <2>5. Tail(queue)[p - 1] = queue[p - 1 + 1] /\ p - 1 + 1 = p
    BY <1>3, <2>1, <2>4
  <2> QED BY <1>1, <1>3, <2>1, <2>2, <2>4, <2>5 DEF Awaits
<1> QED BY <1>1, <1>4, DescendantsStay DEF FlagInv

LEMMA FlagInvStep == Inv /\ IsFiniteSet(complete) /\ FlagInv /\ [Next]_vars => FlagInv'
<1> SUFFICES ASSUME Inv, IsFiniteSet(complete), FlagInv, [Next]_vars PROVE FlagInv'
  OBVIOUS
<1>1. CASE StartPropagation
  BY <1>1, FlagsStart
<1>2. CASE JoinFlags
  BY <1>2, FlagsJoin
<1>3. CASE PopNode
  BY <1>3, FlagsPop
<1>4. CASE FinishPropagation \/ UNCHANGED vars
  <2>1. UNCHANGED <<vec, next, reqs, complete, flags, queue, succ>>
          /\ (phase' # "insert" => phase # "insert")
    BY <1>4 DEF FinishPropagation, vars, program
  <2> QED BY <2>1, DescendantsStay DEF FlagInv, Awaits
<1>5. CASE Build
  <2>1. phase' = "insert"
    BY <1>5, WantsFacts
       DEF Build, InsertRequiredTarget, RequireSource, RequireKnown, RequireNew,
           ReturnFromAddRequired, Inv, Types
  <2> QED BY <2>1 DEF FlagInv
<1> QED BY <1>1, <1>2, <1>3, <1>4, <1>5 DEF Next, Propagate

\* When the worklist is empty, the nodes with the flags of a target include all
\* that it depends on.
LEMMA FlagInvFlagsAreJoined ==
  ASSUME Inv, IsFiniteSet(complete), FlagInv
  PROVE  FlagsAreJoined
<1>1. SUFFICES ASSUME phase = "done", NEW n \in complete
      PROVE flags[n] = UNION {FlagsOf[k] : k \in {l \in DOMAIN vec :
                                                   n \in Descendants(External(l))}}
  BY DEF FlagsAreJoined, Node, Inv, Types
<1>2. queue = <<>> /\ reqs \in [complete -> Seq(complete)]
  BY <1>1 DEF Inv, Worklist, Types
<1>3. \A m \in complete : \A i \in DOMAIN reqs[m] : flags[m] \subseteq flags[reqs[m][i]]
  BY <1>1, <1>2 DEF FlagInv, Awaits
<1>4. ASSUME NEW k \in DOMAIN vec, n \in Descendants(External(k))
      PROVE  FlagsOf[k] \subseteq flags[n]
  <2> DEFINE C == {m \in complete : FlagsOf[k] \subseteq flags[m]}
  <2>1. External(k) \in complete
    BY <1>1, TargetsAreNodes DEF FlagInv
  <2>2. External(k) \in C
    BY <1>1, <2>1 DEF FlagInv
  <2>3. \A m \in C : Range(reqs[m]) \subseteq C
    <3> SUFFICES ASSUME NEW m \in C, NEW i \in DOMAIN reqs[m] PROVE reqs[m][i] \in C
      BY DEF Range
    <3>1. reqs[m][i] \in complete
      BY <1>2, LenProperties, ElementOfSeq
    <3> QED BY <1>3, <3>1
  <2>4. Descendants(External(k)) \subseteq C
    <3>1. C \in SUBSET complete OBVIOUS
    <3> HIDE DEF C
    <3> QED BY <2>1, <2>2, <2>3, <3>1, DescendantFacts
  <2> QED BY <1>4, <2>4
<1>5. ASSUME NEW f \in flags[n]
      PROVE  \E k \in DOMAIN vec : f \in FlagsOf[k] /\ n \in Descendants(External(k))
  BY <1>1, <1>5 DEF FlagInv
<1> QED BY <1>4, <1>5

-----------------------------------------------------------------------------
(* Sources.                                                                 *)

Origin(v) == prog[v].op \in {"source", "entry"}

\* The values whose requests are all in D.
ServedIn(D) == {v \in Value : Range(Wanted(v)) \subseteq D}

\* The nodes for the values in R, with the sources of definitions only.
Standing(R) ==
  {n \in complete : /\ n.kind # "external" /\ n.val \in R
                    /\ n.kind = "source" => Origin(n.val)}

\* The SSA graph is a finite relation.
LEMMA UsesFacts ==
  ASSUME prog \in Programs
  PROVE  /\ IsRelation(Uses(prog)) /\ IsFiniteSet(DOMAIN Uses(prog))
         /\ DOMAIN Uses(prog) = Value
         /\ \A v \in Value : Uses(prog)[v] = Range(prog[v].args)
<1>1. DOMAIN Uses(prog) = Value /\ \A v \in Value : Uses(prog)[v] = Range(prog[v].args)
  BY DEF Uses
<1>2. IsFiniteSet(Value)
  BY NAssumption, FS_Interval DEF NAssumption, Value
<1>3. \A v \in Value : Range(prog[v].args) \subseteq Value
  <2> SUFFICES ASSUME NEW v \in Value PROVE Range(prog[v].args) \subseteq Value
    OBVIOUS
  <2>1. prog[v].op \in {"source", "entry"} => prog[v].args = <<>>
    BY ProgramAssumption DEF ProgramAssumption, Op
  <2> QED BY <2>1, ProgramFacts DEF Range
<1> QED BY <1>1, <1>2, <1>3 DEF IsRelation

\* A definition asks for its source, another operation for what it uses.
LEMMA WantedIsUsed ==
  ASSUME prog \in Programs, NEW v \in Value
  PROVE  /\ Origin(v) => \E m \in Ends : m.val = v /\ Range(Wanted(v)) = {m}
         /\ ~Origin(v) =>
              /\ \A m \in Range(Wanted(v)) : m \in Inner /\ m.val \in Range(prog[v].args)
              /\ \A w \in Range(prog[v].args) : \E m \in Range(Wanted(v)) :
                   m \in Inner /\ m.val = w
<1>1. CASE Origin(v)
  <2>1. PICK loc \in Location : Wanted(v) = <<Source(v, loc)>>
    BY <1>1, LocationFacts DEF Origin, Wanted
  <2>2. Source(v, loc) \in Ends /\ Source(v, loc).val = v
    BY DEF Ends, Source
  <2>3. Range(Wanted(v)) = {Source(v, loc)}
    BY <2>1 DEF Range
  <2> QED BY <1>1, <2>2, <2>3
<1>2. CASE ~Origin(v)
  <2> DEFINE args == prog[v].args
  <2>1. PICK at \in [DOMAIN args -> Location] :
          Wanted(v) = [i \in DOMAIN args |-> Internal(args[i], at[i])]
    <3>1. CASE prog[v].op \in {"copy", "pair"}
      <4>1. Wanted(v) = [i \in DOMAIN args |-> Internal(args[i], At(v))]
        BY <3>1 DEF Wanted
      <4>2. [i \in DOMAIN args |-> At(v)] \in [DOMAIN args -> Location]
        BY LocationFacts
      <4> DEFINE at == [i \in DOMAIN args |-> At(v)]
      <4>3. Wanted(v) = [i \in DOMAIN args |-> Internal(args[i], at[i])]
        BY <4>1
      <4> QED BY <4>2, <4>3
    <3>2. CASE prog[v].op = "phi"
      <4> DEFINE at == [i \in DOMAIN args |-> Back(prog[v].from[i])]
      <4>1. Wanted(v) = [i \in DOMAIN args |-> Internal(args[i], at[i])]
        BY <3>2 DEF Wanted
      <4>2. at \in [DOMAIN args -> Location]
        BY <3>2, ProgramFacts, LocationFacts
      <4> QED BY <4>1, <4>2
    <3> QED BY <1>2, <3>1, <3>2, ProgramFacts DEF Origin
  <2>2. \A i \in DOMAIN args : args[i] \in Value /\ args[i] \in Range(args)
    <3>1. Range(args) \subseteq Value
      BY UsesFacts DEF IsRelation
    <3> QED BY <3>1 DEF Range
  <2> HIDE DEF args
  <2>3. \A i \in DOMAIN args :
          Internal(args[i], at[i]) \in Inner /\ Internal(args[i], at[i]).val = args[i]
    BY <2>2 DEF Inner, Internal
  <2>4. Range(Wanted(v)) = {Internal(args[i], at[i]) : i \in DOMAIN args}
    BY <2>1 DEF Range
  <2>5. \A w \in Range(args) : \E i \in DOMAIN args : w = args[i]
    BY DEF Range
  <2> QED BY <1>2, <2>2, <2>3, <2>4, <2>5 DEF args
<1> QED BY <1>1, <1>2

\* What a node of the finished graph requires, by what it stands for.
LEMMA BuiltRequires ==
  ASSUME Inv, Built, NEW n \in complete
  PROVE  /\ n.kind = "source" => n \in Ends /\ reqs[n] = <<>>
         /\ n.kind = "internal" =>
              /\ n \in Inner
              /\ \/ reqs[n] = Wanted(n.val)
                 \/ reqs[n] = <<PhiNode(n.val)>> /\ prog[n.val].op = "phi"
         /\ n.kind = "external" =>
              /\ n.val \in DOMAIN vec /\ n = External(n.val)
              /\ vec[n.val].kind = "call" =>
                   reqs[n] = [i \in DOMAIN vec[n.val].args |->
                                Internal(vec[n.val].args[i], TargetLoc(n.val))]
              /\ vec[n.val].kind # "call" =>
                   LET v == vec[n.val].args[1] IN
                   reqs[n] = Wanted(v) \/ reqs[n] = <<PhiNode(v)>>
<1>1. reqs[n] = Full[n] /\ n \in Inner \cup Ends \cup Outer(next - 1)
  BY BuiltIsFull DEF Inv, Types, Node
<1>2. n.kind = "external" => \E k \in 1 .. next - 1 : n = External(k) /\ n.val = k /\ k \in DOMAIN vec
  <2>1. Len(vec) \in Nat /\ DOMAIN vec = 1 .. Len(vec) /\ next \in 1 .. Len(vec) + 1
    BY TargetFacts DEF Inv, Types
  <2> QED BY <1>1, <2>1, VertexFacts DEF Outer
<1>3. \A m \in Outer(next - 1) : m.kind = "external"
  BY DEF Outer, External
<1>4. CASE n.kind = "source"
  <2>1. n \in Ends
    BY <1>1, <1>3, <1>4, VertexFacts
  <2> QED BY <1>1, <1>4, <2>1, FullOfSource
<1>5. CASE n.kind = "internal"
  <2>1. n \in Inner
    BY <1>1, <1>3, <1>5, VertexFacts
  <2>2. CASE IsPhiNode(n)
    <3>1. n = PhiNode(n.val) /\ prog[n.val].op = "phi" /\ n.val \in Value
      BY <2>1, <2>2, VertexFacts DEF IsPhiNode
    <3>2. Full[n] = Wanted(n.val)
      BY <3>1, FullOfPhi
    <3> QED BY <1>1, <1>5, <2>1, <3>2
  <2>3. CASE ~IsPhiNode(n)
    BY <1>1, <1>5, <2>1, <2>3, FullOfInner
  <2> QED BY <2>2, <2>3
<1>6. CASE n.kind = "external"
  <2>1. PICK k \in Nat : n = External(k) /\ n.val = k /\ k \in DOMAIN vec
    BY <1>2, <1>6
  <2>2. CASE vec[k].kind = "call"
    <3>1. Full[n] = [i \in DOMAIN vec[k].args |-> Internal(vec[k].args[i], TargetLoc(k))]
      BY <2>1, <2>2, FullOfCall
    <3> QED BY <1>1, <1>6, <2>1, <2>2, <3>1
  <2>3. CASE vec[k].kind # "call"
    <3> DEFINE v == vec[k].args[1]
    <3>1. Full[n] = IF prog[v].op = "phi" THEN <<PhiNode(v)>> ELSE Wanted(v)
      BY <2>1, <2>3, FullOfPlain
    <3> QED BY <1>1, <1>6, <2>1, <2>3, <3>1
  <2> QED BY <2>2, <2>3
<1> QED BY <1>1, <1>3, <1>4, <1>5, <1>6, VertexFacts

\* Nothing but nodes for values that R is closed under is asked for.
LEMMA RequestsStand ==
  ASSUME Inv, NEW R \in SUBSET Value, Closed(R, Uses(prog)), NEW v \in R
  PROVE  /\ Range(Wanted(v)) \cap complete \subseteq Standing(R)
         /\ {PhiNode(v)} \cap complete \subseteq Standing(R)
<1>1. prog \in Programs /\ Range(prog[v].args) \subseteq R
  BY UsesFacts DEF Inv, Types, Closed
<1>2. CASE Origin(v)
  <2>1. PICK m \in Ends : m.val = v /\ Range(Wanted(v)) = {m}
    BY <1>1, <1>2, WantedIsUsed
  <2> QED BY <1>2, <2>1, VertexFacts DEF Standing
<1>3. CASE ~Origin(v)
  <2>1. \A m \in Range(Wanted(v)) : m \in Inner /\ m.val \in R
    BY <1>1, <1>3, WantedIsUsed
  <2> QED BY <2>1, VertexFacts DEF Standing
<1>4. {PhiNode(v)} \cap complete \subseteq Standing(R)
  BY VertexFacts DEF Standing
<1> QED BY <1>2, <1>3, <1>4

\* A target depends on nodes for what its pointers are computed from only.
LEMMA DescendantsStand ==
  ASSUME Inv, IsFiniteSet(complete), Built, NEW k \in DOMAIN vec, External(k) \in complete,
         NEW R \in SUBSET Value, Closed(R, Uses(prog)), Range(vec[k].args) \subseteq R
  PROVE  Descendants(External(k)) \subseteq Standing(R) \cup {External(k)}
<1> DEFINE C == Standing(R) \cup {External(k)}
<1>1. reqs \in [complete -> Seq(complete)] /\ prog \in Programs /\ vec \in Targets
  BY DEF Inv, Types
<1>2. \A n \in complete : Range(reqs[n]) \subseteq complete
  BY <1>1, LenProperties, ElementOfSeq DEF Range
<1>3. \A w : Range(<<w>>) = {w} /\ Range(<<>>) = {}
  BY DEF Range
<1>4. ASSUME NEW n \in Standing(R)
      PROVE  Range(reqs[n]) \subseteq Standing(R)
  <2>1. n \in complete /\ n.kind # "external" /\ n.val \in R
    BY <1>4 DEF Standing
  <2>2. CASE n.kind = "source"
    BY <1>3, <2>1, <2>2, BuiltRequires
  <2>3. CASE n.kind = "internal"
    <3>1. Range(reqs[n]) = Range(Wanted(n.val)) \/ Range(reqs[n]) = {PhiNode(n.val)}
      BY <1>3, <2>1, <2>3, BuiltRequires
    <3> QED BY <1>2, <2>1, <3>1, RequestsStand
  <2>4. n.kind \in {"source", "internal", "external"}
    BY <2>1, VertexFacts DEF Inv, Types, Outer, External
  <2> QED BY <2>1, <2>2, <2>3, <2>4
<1>5. Range(reqs[External(k)]) \subseteq Standing(R)
  <2>1. k \in Nat /\ External(k).kind = "external" /\ External(k).val = k
    BY <1>1, TargetFacts, VertexFacts
  <2>2. CASE vec[k].kind = "call"
    <3>1. reqs[External(k)] = [i \in DOMAIN vec[k].args |->
                                 Internal(vec[k].args[i], TargetLoc(k))]
      BY <2>1, <2>2, BuiltRequires
    <3>2. ASSUME NEW i \in DOMAIN vec[k].args
          PROVE  /\ Internal(vec[k].args[i], TargetLoc(k)).kind = "internal"
                 /\ Internal(vec[k].args[i], TargetLoc(k)).val \in R
      <4>1. vec[k].args[i] \in R
        BY DEF Range
      <4> QED BY <4>1 DEF Internal
    <3> QED BY <1>2, <3>1, <3>2 DEF Range, Standing
  <2>3. CASE vec[k].kind # "call"
    <3> DEFINE v == vec[k].args[1]
    <3>1. v \in R
      <4>1. vec[k].args \in [1 .. 1 -> Value]
        BY <1>1, <2>3, TargetFacts
      <4> QED BY <4>1 DEF Range
    <3>2. Range(reqs[External(k)]) = Range(Wanted(v)) \/ Range(reqs[External(k)]) = {PhiNode(v)}
      <4>1. reqs[External(k)] = Wanted(v) \/ reqs[External(k)] = <<PhiNode(v)>>
        BY <2>1, <2>3, BuiltRequires
      <4> QED BY <1>3, <4>1
    <3> QED BY <1>2, <3>1, <3>2, RequestsStand
  <2> QED BY <2>2, <2>3
<1>6. C \in SUBSET complete
  BY DEF Standing
<1>7. \A n \in C : Range(reqs[n]) \subseteq C
  BY <1>4, <1>5
<1>8. External(k) \in C
  OBVIOUS
<1> HIDE DEF C
<1>9. Descendants(External(k)) \subseteq C
  BY <1>6, <1>7, <1>8, DescendantFacts
<1> QED BY <1>9 DEF C

\* Of a closed set of nodes, the values it serves: those of its nodes, of its
\* targets, and all that these are computed from.
LEMMA ClosedServes ==
  ASSUME Inv, Built, NEW D \in SUBSET complete, \A m \in D : Range(reqs[m]) \subseteq D
  PROVE  /\ \A n \in D : n.kind = "internal" => n.val \in ServedIn(D)
         /\ \A n \in D : n.kind = "external" => Range(vec[n.val].args) \subseteq ServedIn(D)
         /\ Closed(ServedIn(D), Uses(prog))
         /\ \A v \in ServedIn(D) : Origin(v) => \E m \in D : m.kind = "source" /\ m.val = v
<1>0. prog \in Programs /\ vec \in Targets
  BY DEF Inv, Types
<1>1. \A w : Range(<<w>>) = {w}
  BY DEF Range
<1>2. ASSUME NEW n \in D, n.kind = "internal"
      PROVE  n.val \in ServedIn(D)
  <2>1. n \in complete /\ Range(reqs[n]) \subseteq D
    OBVIOUS
  <2>2. n \in Inner /\ n.val \in Value
        /\ \/ reqs[n] = Wanted(n.val)
           \/ reqs[n] = <<PhiNode(n.val)>> /\ prog[n.val].op = "phi"
    BY <1>2, <2>1, BuiltRequires, VertexFacts
  <2>3. CASE reqs[n] = Wanted(n.val)
    BY <2>1, <2>2, <2>3 DEF ServedIn
  <2>4. CASE prog[n.val].op = "phi" /\ reqs[n] = <<PhiNode(n.val)>>
    <3>1. PhiNode(n.val) \in D
      BY <1>1, <2>1, <2>4
    <3>2. reqs[PhiNode(n.val)] = Wanted(n.val)
      <4>1. PhiNode(n.val) \in Node
        BY <3>1 DEF Node, Inv, Types
      <4> QED BY <2>2, <2>4, <4>1, BuiltIsFull, FullOfPhi
    <3> QED BY <2>2, <3>1, <3>2 DEF ServedIn
  <2> QED BY <2>2, <2>3, <2>4
<1>3. ASSUME NEW v \in Value, PhiNode(v) \in D
      PROVE  v \in ServedIn(D)
  BY <1>2, <1>3, VertexFacts
<1>4. ASSUME NEW n \in D, n.kind = "external"
      PROVE  Range(vec[n.val].args) \subseteq ServedIn(D)
  <2> DEFINE k == n.val
  <2>1. n \in complete /\ Range(reqs[n]) \subseteq D /\ k \in DOMAIN vec
    BY <1>4, BuiltRequires
  <2>2. CASE vec[k].kind = "call"
    <3>1. reqs[n] = [i \in DOMAIN vec[k].args |-> Internal(vec[k].args[i], TargetLoc(k))]
      BY <1>4, <2>1, <2>2, BuiltRequires
    <3> SUFFICES ASSUME NEW i \in DOMAIN vec[k].args PROVE vec[k].args[i] \in ServedIn(D)
      BY DEF Range
    <3>2. Internal(vec[k].args[i], TargetLoc(k)) \in D
      BY <2>1, <3>1 DEF Range
    <3>3. Internal(vec[k].args[i], TargetLoc(k)).kind = "internal"
          /\ Internal(vec[k].args[i], TargetLoc(k)).val = vec[k].args[i]
      BY DEF Internal
    <3> QED BY <1>2, <3>2, <3>3
  <2>3. CASE vec[k].kind # "call"
    <3> DEFINE v == vec[k].args[1]
    <3>1. vec[k].args \in [1 .. 1 -> Value]
      BY <1>0, <2>1, <2>3, TargetFacts
    <3>2. reqs[n] = Wanted(v) \/ reqs[n] = <<PhiNode(v)>>
      BY <1>4, <2>1, <2>3, BuiltRequires
    <3>3. v \in Value /\ Range(vec[k].args) = {v}
      BY <3>1 DEF Range
    <3>4. v \in ServedIn(D)
      <4>1. CASE reqs[n] = Wanted(v)
        BY <2>1, <3>3, <4>1 DEF ServedIn
      <4>2. CASE reqs[n] = <<PhiNode(v)>>
        BY <1>1, <1>3, <2>1, <3>3, <4>2
      <4> QED BY <3>2, <4>1, <4>2
    <3> QED BY <3>3, <3>4
  <2> QED BY <2>2, <2>3
<1>5. ASSUME NEW v \in ServedIn(D), NEW w \in Range(prog[v].args)
      PROVE  w \in ServedIn(D)
  <2>1. v \in Value /\ Range(Wanted(v)) \subseteq D
    BY DEF ServedIn
  <2>2. ~Origin(v)
    <3>1. Origin(v) => prog[v].args = <<>>
      BY <1>0, <2>1, ProgramAssumption DEF ProgramAssumption, Op, Origin
    <3> QED BY <1>5, <3>1 DEF Range
  <2>3. PICK m \in Range(Wanted(v)) : m \in Inner /\ m.val = w
    BY <1>0, <2>1, <2>2, WantedIsUsed
  <2> QED BY <1>2, <2>1, <2>3, VertexFacts
<1>6. Closed(ServedIn(D), Uses(prog))
  BY <1>0, <1>5, UsesFacts DEF Closed, ServedIn
<1>7. ASSUME NEW v \in ServedIn(D), Origin(v)
      PROVE  \E m \in D : m.kind = "source" /\ m.val = v
  <2>1. v \in Value /\ Range(Wanted(v)) \subseteq D
    BY DEF ServedIn
  <2>2. PICK m \in Ends : m.val = v /\ Range(Wanted(v)) = {m}
    BY <1>0, <1>7, <2>1, WantedIsUsed
  <2> QED BY <2>1, <2>2, VertexFacts
<1> QED BY <1>2, <1>4, <1>6, <1>7

\* The sources that a target depends on are where its pointers come from, and
\* every node leads to one.
LEMMA InvSourcesMatch ==
  ASSUME Inv, IsFiniteSet(complete), phase # "insert" => next = Len(vec) + 1
  PROVE  SourcesMatch
<1> SUFFICES ASSUME Built PROVE SourcesMatch
  BY DEF SourcesMatch
<1>1. /\ prog \in Programs /\ vec \in Targets /\ Node = complete
      /\ \A k \in DOMAIN vec : k \in Nat /\ External(k) \in complete
                               /\ Range(vec[k].args) \subseteq Value
  <2>1. prog \in Programs /\ vec \in Targets /\ Node = complete /\ next = Len(vec) + 1
    BY DEF Inv, Types, Built, Node
  <2>2. \A k \in DOMAIN vec : k \in Nat /\ External(k) \in complete
    BY <2>1, TargetsAreNodes
  <2>3. \A k \in DOMAIN vec : Range(vec[k].args) \subseteq Value
    BY <2>1, TargetFacts DEF Range
  <2> QED BY <2>1, <2>2, <2>3
<1>2. ASSUME NEW S \in SUBSET Value
      PROVE  /\ S \subseteq Reachable(S, Uses(prog)) /\ Reachable(S, Uses(prog)) \subseteq Value
             /\ Closed(Reachable(S, Uses(prog)), Uses(prog))
             /\ \A C \in SUBSET Value :
                  S \subseteq C /\ Closed(C, Uses(prog)) => Reachable(S, Uses(prog)) \subseteq C
  <2> DEFINE to == Uses(prog)
  <2>1. IsRelation(to) /\ IsFiniteSet(DOMAIN to) /\ DOMAIN to = Value
    BY <1>1, UsesFacts
  <2> HIDE DEF to
  <2>2. S \in SUBSET DOMAIN to
    BY <2>1
  <2>3. /\ S \subseteq Reachable(S, to) /\ Reachable(S, to) \subseteq DOMAIN to
        /\ \A m \in Reachable(S, to) : to[m] \subseteq Reachable(S, to)
        /\ \A C \in SUBSET DOMAIN to :
             S \subseteq C /\ (\A m \in C : to[m] \subseteq C) => Reachable(S, to) \subseteq C
    BY <2>1, <2>2, ReachableFacts
  <2>4. /\ Closed(Reachable(S, to), to)
        /\ \A C \in SUBSET Value : S \subseteq C /\ Closed(C, to) => Reachable(S, to) \subseteq C
    BY <2>1, <2>3 DEF Closed
  <2>5. S \subseteq Reachable(S, to) /\ Reachable(S, to) \subseteq Value
    BY <2>1, <2>3
  <2> QED BY <2>4, <2>5 DEF to
<1>3. \A D \in SUBSET complete : ServedIn(D) \in SUBSET Value
  BY DEF ServedIn
<1>4. \A n \in complete :
        /\ n \in Descendants(n) /\ Descendants(n) \in SUBSET complete
        /\ \A m \in Descendants(n) : Range(reqs[m]) \subseteq Descendants(n)
  BY DescendantFacts
<1>5. ASSUME NEW k \in DOMAIN vec
      PROVE  {n.val : n \in {m \in Descendants(External(k)) : m.kind = "source"}}
               = Origins(Range(vec[k].args))
  <2> DEFINE D == Descendants(External(k))
             S == Range(vec[k].args)
             R == Reachable(S, Uses(prog))
  <2>1. /\ S \in SUBSET Value /\ External(k) \in complete /\ k \in Nat
        /\ External(k).kind = "external" /\ External(k).val = k
    BY <1>1, VertexFacts
  <2>2. /\ External(k) \in D /\ D \in SUBSET complete
        /\ \A m \in D : Range(reqs[m]) \subseteq D
    BY <1>4, <2>1
  <2>3. R \in SUBSET Value /\ Closed(R, Uses(prog)) /\ S \subseteq R
    BY <1>2, <2>1
  <2>4. D \subseteq Standing(R) \cup {External(k)}
    <3> HIDE DEF R
    <3> QED BY <2>1, <2>3, DescendantsStand
  <2>5. R \subseteq ServedIn(D)
    <3>1. S \subseteq ServedIn(D) /\ Closed(ServedIn(D), Uses(prog))
      <4> HIDE DEF D
      <4> QED BY <2>1, <2>2, ClosedServes
    <3> QED BY <1>2, <1>3, <2>1, <2>2, <3>1
  <2>6. \A v \in ServedIn(D) : Origin(v) => \E m \in D : m.kind = "source" /\ m.val = v
    <3> HIDE DEF D
    <3> QED BY <2>2, ClosedServes
  <2>7. Origins(S) = {v \in R : Origin(v)}
    BY DEF Origins, Origin
  <2> HIDE DEF D, R, S
  <2>8. ASSUME NEW m \in D, m.kind = "source" PROVE m.val \in R /\ Origin(m.val)
    BY <2>1, <2>4, <2>8 DEF Standing
  <2>9. {n.val : n \in {m \in D : m.kind = "source"}} = {v \in R : Origin(v)}
    BY <2>5, <2>6, <2>8
  <2> QED BY <2>7, <2>9 DEF D, S
<1>6. ASSUME NEW n \in complete
      PROVE  \E m \in Descendants(n) : m.kind = "source"
  <2> DEFINE D == Descendants(n)
  <2>1. n \in D /\ D \in SUBSET complete /\ \A m \in D : Range(reqs[m]) \subseteq D
    BY <1>4
  <2> HIDE DEF D
  <2>2. CASE n.kind = "source"
    BY <2>1, <2>2 DEF D
  <2>3. CASE n.kind # "source"
    <3>1. PICK v \in Value : v \in ServedIn(D)
      <4>1. CASE n.kind = "internal"
        BY <2>1, <4>1, ClosedServes DEF ServedIn
      <4>2. CASE n.kind = "external"
        <5>1. n.val \in DOMAIN vec /\ Range(vec[n.val].args) \subseteq ServedIn(D)
          BY <2>1, <4>2, ClosedServes, BuiltRequires
        <5>2. vec[n.val].args[1] \in Range(vec[n.val].args)
          BY <1>1, <5>1, TargetFacts DEF Range
        <5> QED BY <5>1, <5>2 DEF ServedIn
      <4>3. n.kind \in {"source", "internal", "external"}
        BY VertexFacts DEF Inv, Types, Outer, External
      <4> QED BY <2>3, <4>1, <4>2, <4>3
    <3>2. PICK w \in Reachable({v}, Uses(prog)) : Origin(w)
      BY <1>1, OriginAssumption DEF OriginAssumption, Origin
    <3>3. Reachable({v}, Uses(prog)) \subseteq ServedIn(D)
      <4>1. Closed(ServedIn(D), Uses(prog))
        BY <2>1, ClosedServes
      <4>2. {v} \in SUBSET Value /\ {v} \subseteq ServedIn(D)
        BY <3>1
      <4> QED BY <1>2, <1>3, <2>1, <4>1, <4>2
    <3>4. PICK m \in D : m.kind = "source" /\ m.val = w
      BY <2>1, <3>2, <3>3, ClosedServes
    <3> QED BY <3>4 DEF D
  <2> QED BY <2>2, <2>3
<1> QED BY <1>1, <1>5, <1>6 DEF SourcesMatch

-----------------------------------------------------------------------------
\* The nodes, the stack and the worklist only ever refer to nodes of the graph.
THEOREM GraphTypeCorrect == Spec => []TypeOK
<1>1. Inv => TypeOK
  BY InvTypeOK
<1> QED BY <1>1, InitInv, NextInv, PTL DEF Spec

\* Each node of the finished graph has been given its requirements exactly
\* once, in the order createWitness relies on, whatever the function.
THEOREM RequirementsWhole == Spec => []RequirementsAreWhole
<1>1. Inv => RequirementsAreWhole
  BY InvRequirementsAreWhole
<1> QED BY <1>1, InitInv, NextInv, PTL DEF Spec

\* The same, of finitely many nodes.
LEMMA AlwaysFinite == Spec => [](Inv /\ IsFiniteSet(complete))
<1>1. Init => IsFiniteSet(complete)
  BY FS_EmptySet DEF Init
<1>2. IsFiniteSet(complete) /\ [Next]_vars => IsFiniteSet(complete)'
  BY FinitelyMany
<1> QED BY <1>1, <1>2, InitInv, NextInv, PTL DEF Spec

\* FlagsAreJoined: the worklist ends with the flags of every target at exactly
\* the nodes that the target depends on.
THEOREM FlagsReachAll == Spec => []FlagsAreJoined
<1>1. Init => FlagInv
  BY DEF Init, FlagInv
<1>2. Inv /\ IsFiniteSet(complete) /\ FlagInv => FlagsAreJoined
  BY FlagInvFlagsAreJoined
<1> QED BY <1>1, <1>2, AlwaysFinite, FlagInvStep, PTL DEF Spec

\* SourcesMatch: the sources that a target depends on are exactly the
\* definitions its pointers come from, and every node leads to a source.
THEOREM SourcesMatchSSA == Spec => []SourcesMatch
<1>1. Init => FlagInv
  BY DEF Init, FlagInv
<1>2. Inv /\ IsFiniteSet(complete) /\ FlagInv => SourcesMatch
  BY InvSourcesMatch DEF FlagInv
<1> QED BY <1>1, <1>2, AlwaysFinite, FlagInvStep, PTL DEF Spec

-----------------------------------------------------------------------------
(* Dominance.                                                               *)

\* The ways around block a, and the blocks that they reach.
Around(a) == [c \in Block |-> Range(Succ[c]) \ {a}]
Reached(a) == Reachable({EntryBlock} \ {a}, Around(a))

\* The blocks that the function can be in.
Live == Reachable({EntryBlock}, [c \in Block |-> Range(Succ[c])])

\* The ways between blocks.
LEMMA SuccFacts ==
  /\ EntryBlock \in Block
  /\ \A c \in Block : /\ Range(Succ[c]) \subseteq Block /\ EntryBlock \notin Range(Succ[c])
                      /\ DOMAIN Succ[c] = 1 .. Len(Succ[c]) /\ Len(Succ[c]) \in Nat
<1>1. \A c \in Block : Succ[c] \in Seq(Block)
  BY SuccAssumption DEF SuccAssumption
<1>2. \A c \in Block : /\ Range(Succ[c]) \subseteq Block
                       /\ DOMAIN Succ[c] = 1 .. Len(Succ[c]) /\ Len(Succ[c]) \in Nat
  BY <1>1, LenProperties, ElementOfSeq DEF Range
<1> QED BY <1>2, EntryBlockAssumption DEF EntryBlockAssumption

\* What can be reached around a block is the smallest set that is closed; the
\* block itself is not in it.
LEMMA ReachedFacts ==
  ASSUME NEW a \in Block
  PROVE  /\ Reached(a) \subseteq Block \ {a}
         /\ EntryBlock # a => EntryBlock \in Reached(a)
         /\ \A c \in Reached(a) : \A b \in Range(Succ[c]) : b # a => b \in Reached(a)
         /\ \A C \in SUBSET Block :
              /\ EntryBlock # a => EntryBlock \in C
              /\ \A c \in C : \A b \in Range(Succ[c]) : b # a => b \in C
              => Reached(a) \subseteq C
<1> DEFINE to == Around(a)
           S == {EntryBlock} \ {a}
<1>1. DOMAIN to = Block /\ \A c \in Block : to[c] = Range(Succ[c]) \ {a}
  BY DEF Around
<1>2. IsRelation(to) /\ IsFiniteSet(DOMAIN to) /\ S \in SUBSET DOMAIN to
  BY <1>1, SuccFacts, BlockAssumption DEF IsRelation, BlockAssumption
<1> HIDE DEF to, S
<1>3. /\ S \subseteq Reachable(S, to) /\ Reachable(S, to) \subseteq DOMAIN to
      /\ \A m \in Reachable(S, to) : to[m] \subseteq Reachable(S, to)
      /\ \A C \in SUBSET DOMAIN to :
           S \subseteq C /\ (\A m \in C : to[m] \subseteq C) => Reachable(S, to) \subseteq C
  BY <1>2, ReachableFacts
<1>4. Reached(a) = Reachable(S, to)
  BY DEF Reached, S, to
<1> DEFINE R == Reachable(S, to)
<1> HIDE DEF R
<1>5. ASSUME NEW C \in SUBSET Block,
             EntryBlock # a => EntryBlock \in C,
             \A c \in C : \A b \in Range(Succ[c]) : b # a => b \in C
      PROVE  R \subseteq C
  <2>1. S \subseteq C BY <1>5 DEF S
  <2>2. \A m \in C : to[m] \subseteq C BY <1>1, <1>5
  <2> QED BY <1>1, <1>3, <2>1, <2>2 DEF R
<1>6. /\ EntryBlock # a => EntryBlock \in R
      /\ \A c \in R : \A b \in Range(Succ[c]) : b # a => b \in R
      /\ R \subseteq Block
  BY <1>1, <1>3 DEF R, S
<1>7. R \subseteq Block \ {a}
  <2> DEFINE C == Block \ {a}
  <2>1. /\ C \in SUBSET Block
        /\ EntryBlock # a => EntryBlock \in C
        /\ \A c \in C : \A b \in Range(Succ[c]) : b # a => b \in C
    BY SuccFacts
  <2> HIDE DEF C
  <2>2. R \subseteq C BY <1>5, <2>1
  <2> QED BY <2>2 DEF C
<1> QED BY <1>4, <1>5, <1>6, <1>7 DEF R

\* The same of the blocks that are reached at all.
LEMMA LiveFacts ==
  /\ EntryBlock \in Live /\ Live \subseteq Block
  /\ \A c \in Live : Range(Succ[c]) \subseteq Live
  /\ \A C \in SUBSET Block :
       EntryBlock \in C /\ (\A c \in C : Range(Succ[c]) \subseteq C) => Live \subseteq C
<1> DEFINE to == [c \in Block |-> Range(Succ[c])]
           S == {EntryBlock}
<1>1. DOMAIN to = Block /\ \A c \in Block : to[c] = Range(Succ[c])
  OBVIOUS
<1>2. IsRelation(to) /\ IsFiniteSet(DOMAIN to) /\ S \in SUBSET DOMAIN to
  BY <1>1, SuccFacts, BlockAssumption DEF IsRelation, BlockAssumption
<1> HIDE DEF to
<1>3. /\ S \subseteq Reachable(S, to) /\ Reachable(S, to) \subseteq DOMAIN to
      /\ \A m \in Reachable(S, to) : to[m] \subseteq Reachable(S, to)
      /\ \A C \in SUBSET DOMAIN to :
           S \subseteq C /\ (\A m \in C : to[m] \subseteq C) => Reachable(S, to) \subseteq C
  <2> HIDE DEF S
  <2> QED BY <1>2, ReachableFacts
<1>4. Live = Reachable(S, to)
  BY DEF Live, to
<1>6. ASSUME NEW C \in SUBSET Block, EntryBlock \in C, \A c \in C : Range(Succ[c]) \subseteq C
      PROVE  Reachable(S, to) \subseteq C
  <2>1. S \subseteq C /\ \A m \in C : to[m] \subseteq C
    BY <1>1, <1>6
  <2> QED BY <1>1, <1>3, <2>1
<1> DEFINE R == Reachable(S, to)
<1>7. EntryBlock \in R /\ R \subseteq Block /\ \A c \in R : Range(Succ[c]) \subseteq R
  <2> HIDE DEF R
  <2>1. S \subseteq R /\ R \subseteq DOMAIN to /\ \A c \in R : to[c] \subseteq R
    BY <1>3 DEF R
  <2> QED BY <1>1, <2>1
<1> HIDE DEF R
<1>8. \A C \in SUBSET Block :
        EntryBlock \in C /\ (\A c \in C : Range(Succ[c]) \subseteq C) => R \subseteq C
  BY <1>6 DEF R
<1>9. Live = R
  BY <1>4 DEF R
<1> QED BY <1>7, <1>8, <1>9

\* A block is on every way to those that are not reached around it.
LEMMA DominatesIs ==
  /\ \A x, y : <<x, y>> \in Dominates => x \in Block /\ y \in Block
  /\ \A a, b \in Block : <<a, b>> \in Dominates <=> b \notin Reached(a)
<1>1. Dominates = UNION {{<<a, b>> : b \in (Block \ Reached(a)) \cup {a}} : a \in Block}
  BY DEF Dominates, Reached, Around
<1>2. \A x, y : <<x, y>> \in Dominates <=>
        x \in Block /\ y \in (Block \ Reached(x)) \cup {x}
  BY <1>1
<1>3. \A a \in Block : a \notin Reached(a)
  BY ReachedFacts
<1> QED BY <1>2, <1>3

\* What is reached around a block is reached around all that it dominates.
LEMMA ReachedLess ==
  ASSUME NEW a \in Block, NEW b \in Block, b \notin Reached(a)
  PROVE  Reached(a) \subseteq Reached(b)
<1> DEFINE C == Reached(a) \cap Reached(b)
<1>1. C \in SUBSET Block
  BY ReachedFacts
<1>2. EntryBlock # a => EntryBlock \in C
  BY ReachedFacts
<1>3. \A c \in C : \A d \in Range(Succ[c]) : d # a => d \in C
  BY ReachedFacts
<1>4. Reached(a) \subseteq C
  <2> HIDE DEF C
  <2> QED BY <1>1, <1>2, <1>3, ReachedFacts
<1> QED BY <1>4

\* Dominance is an order of the blocks that the function can be in.
LEMMA DominanceOrder ==
  /\ \A a \in Block : <<a, a>> \in Dominates
  /\ \A a, b, c : <<a, b>> \in Dominates /\ <<b, c>> \in Dominates => <<a, c>> \in Dominates
  /\ \A a, b : <<a, b>> \in Dominates /\ <<b, a>> \in Dominates /\ b \in Live => a = b
<1>1. \A a \in Block : <<a, a>> \in Dominates
  BY DominatesIs, ReachedFacts
<1>2. ASSUME NEW a, NEW b, NEW c, <<a, b>> \in Dominates, <<b, c>> \in Dominates
      PROVE  <<a, c>> \in Dominates
  <2>1. a \in Block /\ b \in Block /\ c \in Block /\ b \notin Reached(a) /\ c \notin Reached(b)
    BY <1>2, DominatesIs
  <2> QED BY <2>1, ReachedLess, DominatesIs
<1>3. ASSUME NEW a, NEW b, <<a, b>> \in Dominates, <<b, a>> \in Dominates, b \in Live, a # b
      PROVE  FALSE
  <2>1. a \in Block /\ b \in Block /\ b \notin Reached(a) /\ a \notin Reached(b)
    BY <1>3, DominatesIs
  <2>2. Reached(a) = Reached(b)
    BY <2>1, ReachedLess
  <2> DEFINE C == Reached(a)
  <2>3. C \in SUBSET Block /\ b \notin C /\ EntryBlock \in C
    BY <1>3, <2>1, <2>2, ReachedFacts
  <2>4. \A c \in C : \A d \in Range(Succ[c]) : d \in C
    BY <1>3, <2>1, <2>2, ReachedFacts
  <2> HIDE DEF C
  <2>5. Live \subseteq C
    BY <2>3, <2>4, LiveFacts
  <2> QED BY <1>3, <2>3, <2>5
<1> QED BY <1>1, <1>2, <1>3

\* What dominates a block, and is not it, dominates the blocks before it; only
\* the entry dominates the entry.
LEMMA DominanceEdges ==
  /\ \A a, b : \A c \in Block : <<a, b>> \in Dominates /\ a # b /\ b \in Range(Succ[c])
       => <<a, c>> \in Dominates
  /\ \A a : <<a, EntryBlock>> \in Dominates => a = EntryBlock
<1>1. ASSUME NEW a, NEW b, NEW c \in Block, <<a, b>> \in Dominates, a # b, b \in Range(Succ[c])
      PROVE  <<a, c>> \in Dominates
  BY <1>1, DominatesIs, ReachedFacts
<1>2. ASSUME NEW a, <<a, EntryBlock>> \in Dominates
      PROVE  a = EntryBlock
  BY <1>2, DominatesIs, ReachedFacts
<1> QED BY <1>1, <1>2

-----------------------------------------------------------------------------
(* The invariant of the witnesses and of the function that runs with them.  *)

\* The graph is finished.
Stands ==
  /\ prog \in Programs /\ vec \in Targets
  /\ stack = <<>> /\ queue = <<>>
  /\ complete \subseteq Inner \cup Ends \cup Outer(Len(vec))
  /\ Outer(Len(vec)) \subseteq complete
  /\ reqs \in [complete -> Seq(complete)]
  /\ \A n \in complete : reqs[n] = Full[n]

\* The blocks that the values can be in.
Places ==
  {p \in [Value -> Block] : /\ \A v \in Value : FitsIn(prog[v], p, v)
                            /\ PhisAreFirst(prog, p)}

\* The witness of a node was made for the node itself or is that of what it
\* requires. It is there wherever the pointer of the node is.
Settled(n) ==
  /\ wit[n] = <<Single(n)>> /\ Single(n) \in Witness
  /\ Instrumentee(Single(n)) <= Instrumentee(n)
  /\ \A p \in Places : <<p[Instrumentee(Single(n))], p[Instrumentee(n)]>> \in Dominates
  /\ Role(n) \in {"source", "phi", "pair"} => Single(n) = n
  /\ Role(n) = "source" => prog[n.val].op # "phi"
  /\ Role(n) = "shared" => reqs[n][1] \in DOMAIN wit /\ Single(n) = Single(reqs[n][1])
  /\ Role(n) = "pair" =>
       /\ n \in DOMAIN operands /\ operands[n] = [i \in 1 .. 2 |-> Single(reqs[n][i])]
       /\ \A i \in 1 .. 2 : reqs[n][i] \in DOMAIN wit

\* The phi for the node n has its first operands.
Chosen(n, upto) ==
  /\ Operands(n) \in Seq([wit : complete, from : Block]) /\ Len(Operands(n)) = upto
  /\ \A i \in 1 .. upto :
       /\ reqs[n][i] \in DOMAIN wit
       /\ Operands(n)[i] = [wit |-> Single(reqs[n][i]), from |-> prog[n.val].from[i]]

\* The call at node n has its witness for argument i.
Given(n, i) ==
  /\ reqs[n][i] \in DOMAIN wit
  /\ n \in DOMAIN wit /\ i \in DOMAIN wit[n] /\ wit[n][i] = Single(reqs[n][i])

\* What an active call of createWitness has done.
Underway(f) ==
  /\ Role(f.node) # "source" /\ f.at \in 1 .. Len(reqs[f.node]) + 1
  /\ \A i \in 1 .. f.at - 1 : reqs[f.node][i] \in DOMAIN wit
  /\ Role(f.node) = "phi" => f.node \in DOMAIN wit /\ Chosen(f.node, f.at - 1)
  /\ Role(f.node) = "call" => \A i \in 1 .. f.at - 1 : Given(f.node, i)

Active(n) == \E k \in DOMAIN calls : calls[k].node = n

\* Target k has its witnesses.
TargetServed(k) ==
  IF vec[k].kind = "call" THEN \A i \in 1 .. 2 : Given(External(k), i)
                          ELSE External(k) \in DOMAIN wit

\* The witnesses and operands that there are, and the calls that make more.
Work ==
  /\ calls \in Seq([node : complete, at : Nat])
  /\ DOMAIN operands \subseteq DOMAIN wit /\ DOMAIN wit \subseteq complete
  /\ \A n \in DOMAIN wit : ~IsCall(n) => Settled(n)
  /\ \A n \in DOMAIN wit : Role(n) = "phi" => Active(n) \/ Chosen(n, 2)
  /\ \A f \in Range(calls) : Underway(f)
  /\ \A n \in complete : Role(n) = "phi" =>
       \A j, k \in DOMAIN calls : calls[j].node = n /\ calls[k].node = n => j = k

Creation ==
  /\ Work
  /\ asked \in 1 .. Len(vec) + 1
  /\ \A k \in 1 .. asked - 1 : Active(External(k)) \/ TargetServed(k)

\* The values of a block are computed in order, phis at its entry.
Order ==
  /\ place \in Places /\ cur \in Live
  /\ val = [v \in Value |-> val[v]]
  /\ executed \subseteq {v \in Value : place[v] = cur} /\ Phis(cur) \subseteq executed
  /\ \A v \in executed, w \in Value : place[w] = cur /\ w <= v => w \in executed

\* Every witness has the bounds of the pointers that it was made or taken for.
Follows ==
  \A n \in DOMAIN wit :
    ~IsCall(n) /\ Available(Instrumentee(n)) => bounds[Single(n)] = val[Instrumentee(n)]

Building == phase \in {"insert", "propagate", "done"}

FlowInv ==
  /\ phase \in {"insert", "propagate", "done", "create", "created", "run"}
  /\ Building => Inv /\ IsFiniteSet(complete) /\ FlagInv
  /\ ~Building => Stands /\ Creation
  /\ Building => wit = <<>> /\ operands = <<>> /\ calls = <<>> /\ asked = 1
  /\ phase # "run" => cur = EntryBlock /\ executed = {}
  /\ phase \in {"created", "run"} => calls = <<>> /\ asked = Len(vec) + 1
  /\ phase = "run" => Order /\ Follows

-----------------------------------------------------------------------------
(* The nodes of the finished graph, by the case of createWitness.           *)

SourceCase(n) ==
  /\ n \in Ends /\ n.kind = "source" /\ Instrumentee(n) \in Value
  /\ Role(n) = "source" /\ reqs[n] = <<>> /\ Len(reqs[n]) = 0

CallCase(n) ==
  /\ n.kind # "source"
  /\ n.val \in 1 .. Len(vec) /\ n = External(n.val) /\ vec[n.val].kind = "call"
  /\ IsCall(n) /\ Role(n) = "call" /\ Len(reqs[n]) = 2
  /\ vec[n.val].args \in [1 .. 2 -> Value]
  /\ \A i \in 1 .. 2 : /\ reqs[n][i] = Internal(vec[n.val].args[i], TargetLoc(n.val))
                        /\ reqs[n][i] \in Inner
                        /\ Instrumentee(reqs[n][i]) = vec[n.val].args[i]

PhiCase(n) ==
  /\ n.kind # "source"
  /\ n \in Inner /\ Instrumentee(n) = n.val /\ n.val \in Value /\ n = PhiNode(n.val)
  /\ prog[n.val].op = "phi" /\ Role(n) = "phi" /\ Len(reqs[n]) = 2
  /\ \A i \in 1 .. 2 : reqs[n][i] \in Inner /\ Instrumentee(reqs[n][i]) = prog[n.val].args[i]

PairCase(n) ==
  /\ n.kind # "source" /\ Instrumentee(n) \in Value
  /\ prog[Instrumentee(n)].op = "pair" /\ Role(n) = "pair" /\ Len(reqs[n]) = 2
  /\ \A i \in 1 .. 2 : /\ reqs[n][i] \in Inner
                        /\ Instrumentee(reqs[n][i]) = prog[Instrumentee(n)].args[i]

SharedCase(n) ==
  /\ n.kind # "source" /\ Instrumentee(n) \in Value
  /\ Role(n) = "shared" /\ Len(reqs[n]) = 1
  /\ \/ /\ prog[Instrumentee(n)].op = "phi"
        /\ reqs[n][1] = PhiNode(Instrumentee(n)) /\ reqs[n][1] \in Inner
        /\ Instrumentee(reqs[n][1]) = Instrumentee(n)
     \/ /\ prog[Instrumentee(n)].op \in {"source", "entry"}
        /\ reqs[n][1] \in Ends /\ Instrumentee(reqs[n][1]) = Instrumentee(n)
     \/ /\ prog[Instrumentee(n)].op = "copy"
        /\ reqs[n][1] \in Inner
        /\ Instrumentee(reqs[n][1]) = prog[Instrumentee(n)].args[1]

\* A node stands for its value.
LEMMA InstrumenteeFacts ==
  /\ \A n \in Inner \cup Ends : /\ Instrumentee(n) = n.val /\ n.val \in Value /\ ~IsCall(n)
  /\ \A n \in Inner : n.kind = "internal"
  /\ \A n \in Ends : n.kind = "source"
  /\ \A k \in Nat : Instrumentee(External(k)) = vec[k].args[1]
                    /\ (IsCall(External(k)) <=> vec[k].kind = "call")
                    /\ External(k).kind = "external" /\ External(k).val = k
BY VertexFacts DEF Instrumentee, IsCall

\* A node that is no phi node, call or source.
LEMMA PlainNode ==
  ASSUME Stands, NEW n \in complete, n.kind # "source", ~IsCall(n), Instrumentee(n) \in Value,
         LET v == Instrumentee(n) IN
         reqs[n] = IF prog[v].op = "phi" THEN <<PhiNode(v)>> ELSE Wanted(v)
  PROVE  PairCase(n) \/ SharedCase(n)
<1> DEFINE v == Instrumentee(n)
           r == reqs[n]
<1>1. prog \in Programs /\ v \in Value /\ NAssumption
  BY NAssumption DEF Stands
<1> HIDE DEF v, r
<1>2. /\ Internal(prog[v].args[1], At(v)) \in Inner \/ prog[v].op \notin {"copy", "pair"}
      /\ Internal(prog[v].args[2], At(v)) \in Inner \/ prog[v].op # "pair"
      /\ \A w, loc : Internal(w, loc).val = w /\ Source(w, loc).val = w
      /\ Source(v, After(v)) \in Ends /\ Source(v, Entry) \in Ends
  BY <1>1, ProgramFacts, LocationFacts DEF Internal, Source, Inner, Ends
<1>3. CASE prog[v].op = "phi"
  <2>1. r = <<PhiNode(v)>> BY <1>3 DEF v, r
  <2>2. PhiNode(v) \in Inner /\ PhiNode(v).val = v BY <1>1, VertexFacts
  <2>3. r # <<>> /\ Len(r) = 1 /\ r[1] = PhiNode(v) BY <2>1
  <2>4. Role(n) = "shared" BY <2>3 DEF Role, r
  <2> QED BY <1>1, <1>3, <2>2, <2>3, <2>4, InstrumenteeFacts DEF SharedCase, r, v
<1>4. CASE prog[v].op \in {"source", "entry"}
  <2>1. PICK m \in Ends : r = <<m>> /\ m.val = v
    BY <1>2, <1>4 DEF v, r, Wanted
  <2>2. r # <<>> /\ Len(r) = 1 /\ r[1] = m BY <2>1
  <2>3. Role(n) = "shared" BY <2>2 DEF Role, r
  <2> QED BY <1>1, <1>4, <2>1, <2>2, <2>3, InstrumenteeFacts DEF SharedCase, r, v
<1>5. CASE prog[v].op = "copy"
  <2>1. r = [i \in 1 .. 1 |-> Internal(prog[v].args[i], At(v))]
    BY <1>1, <1>5, ProgramFacts DEF Wanted, v, r
  <2>2. r # <<>> /\ Len(r) = 1 /\ r[1] = Internal(prog[v].args[1], At(v)) BY <2>1
  <2>3. Role(n) = "shared" BY <2>2 DEF Role, r
  <2>4. r[1] \in Inner /\ Instrumentee(r[1]) = prog[v].args[1] BY <1>2, <1>5, <2>2, InstrumenteeFacts
  <2> QED BY <1>1, <1>5, <2>2, <2>3, <2>4 DEF SharedCase, r, v
<1>6. CASE prog[v].op = "pair"
  <2>1. r = [i \in 1 .. 2 |-> Internal(prog[v].args[i], At(v))]
    BY <1>1, <1>6, ProgramFacts DEF Wanted, v, r
  <2>2. r # <<>> /\ Len(r) = 2 /\ \A i \in 1 .. 2 : r[i] = Internal(prog[v].args[i], At(v))
    BY <2>1
  <2>3. Role(n) = "pair" BY <1>6, <2>2 DEF Role, r, v
  <2>4. \A i \in 1 .. 2 : r[i] \in Inner /\ Instrumentee(r[i]) = prog[v].args[i]
    BY <1>2, <1>6, <2>2, InstrumenteeFacts
  <2> QED BY <1>1, <1>6, <2>2, <2>3, <2>4 DEF PairCase, r, v
<1> QED BY <1>1, <1>3, <1>4, <1>5, <1>6, ProgramFacts

\* Every node falls under one of the cases.
LEMMA NodeCases ==
  ASSUME Stands, NEW n \in complete
  PROVE  /\ SourceCase(n) \/ CallCase(n) \/ PhiCase(n) \/ PairCase(n) \/ SharedCase(n)
         /\ IsCall(n) <=> CallCase(n)
         /\ n \in Ends <=> SourceCase(n)
         /\ IsPhiNode(n) => PhiCase(n)
<1>1. /\ prog \in Programs /\ vec \in Targets /\ reqs[n] = Full[n]
      /\ n \in Inner \cup Ends \cup Outer(Len(vec))
      /\ Len(vec) \in Nat /\ DOMAIN vec = 1 .. Len(vec)
  BY TargetFacts DEF Stands
<1>2. CASE n \in Ends
  <2>1. reqs[n] = <<>> BY <1>1, <1>2, FullOfSource
  <2>2. Len(reqs[n]) = 0 BY <2>1
  <2> QED BY <1>2, <2>1, <2>2, InstrumenteeFacts DEF SourceCase, CallCase, Role, IsPhiNode
<1>3. CASE n \in Inner
  <2>1. n.kind = "internal" /\ Instrumentee(n) = n.val /\ n.val \in Value /\ ~IsCall(n)
    BY <1>3, InstrumenteeFacts
  <2>2. n \notin Ends /\ ~SourceCase(n) /\ ~CallCase(n)
    BY <2>1, InstrumenteeFacts DEF SourceCase, CallCase
  <2>3. CASE IsPhiNode(n)
    <3> DEFINE v == n.val
    <3>1. n = PhiNode(v) /\ prog[v].op = "phi" /\ reqs[n] = Wanted(v)
      BY <1>1, <2>1, <2>3, FullOfPhi DEF IsPhiNode
    <3>2. /\ Wanted(v) = [i \in 1 .. 2 |-> Internal(prog[v].args[i], Back(prog[v].from[i]))]
          /\ prog[v].args \in [1 .. 2 -> Value] /\ prog[v].from \in [1 .. 2 -> Block]
      BY <1>1, <2>1, <3>1, ProgramFacts DEF Wanted
    <3>3. Len(Wanted(v)) = 2 /\ Wanted(v) # <<>>
            /\ \A i \in 1 .. 2 : Wanted(v)[i] = Internal(prog[v].args[i], Back(prog[v].from[i]))
      BY <3>2
    <3>4. \A i \in 1 .. 2 : Wanted(v)[i] \in Inner /\ Wanted(v)[i].val = prog[v].args[i]
      BY <3>2, <3>3, LocationFacts DEF Internal, Inner
    <3>5. Role(n) = "phi"
      BY <2>1, <3>1, <3>3 DEF Role
    <3>6. PhiCase(n)
      BY <1>3, <2>1, <3>1, <3>3, <3>4, <3>5, InstrumenteeFacts DEF PhiCase
    <3> QED BY <2>1, <2>2, <3>6
  <2>4. CASE ~IsPhiNode(n)
    <3>1. reqs[n] = IF prog[n.val].op = "phi" THEN <<PhiNode(n.val)>> ELSE Wanted(n.val)
      BY <1>1, <1>3, <2>4, FullOfInner
    <3>2. PairCase(n) \/ SharedCase(n)
      BY <2>1, <3>1, PlainNode
    <3> QED BY <2>1, <2>2, <2>4, <3>2
  <2> QED BY <2>3, <2>4
<1>4. CASE n \in Outer(Len(vec))
  <2>1. PICK k \in 1 .. Len(vec) : n = External(k)
    BY <1>4 DEF Outer
  <2>2. k \in Nat /\ n.kind = "external" /\ n.val = k /\ Instrumentee(n) = vec[k].args[1]
          /\ (IsCall(n) <=> vec[k].kind = "call")
    BY <1>1, <2>1, InstrumenteeFacts
  <2>3. n \notin Ends /\ ~SourceCase(n)
    BY <2>2, InstrumenteeFacts DEF SourceCase
  <2>6. ~IsPhiNode(n)
    BY <2>2 DEF IsPhiNode
  <2>4. CASE vec[k].kind = "call"
    <3>1. vec[k].args \in [1 .. 2 -> Value]
      BY <1>1, <2>4, TargetFacts
    <3>2. reqs[n] = [i \in 1 .. 2 |-> Internal(vec[k].args[i], TargetLoc(k))]
      BY <1>1, <2>1, <2>2, <2>4, <3>1, FullOfCall
    <3>3. reqs[n] # <<>> /\ Len(reqs[n]) = 2
            /\ \A i \in 1 .. 2 : reqs[n][i] = Internal(vec[k].args[i], TargetLoc(k))
      BY <3>2
    <3>5. \A i \in 1 .. 2 : LET m == Internal(vec[k].args[i], TargetLoc(k)) IN
            m \in Inner /\ Instrumentee(m) = vec[k].args[i]
      <4>1. \A i \in 1 .. 2 : LET m == Internal(vec[k].args[i], TargetLoc(k)) IN
              m \in Inner /\ m.val = vec[k].args[i]
        BY <2>2, <3>1, LocationFacts DEF Internal, Inner
      <4> QED BY <4>1, InstrumenteeFacts
    <3>4. Role(n) = "call"
      BY <2>2, <2>4, <3>3 DEF Role
    <3> QED BY <2>1, <2>2, <2>3, <2>4, <2>6, <3>1, <3>3, <3>4, <3>5 DEF CallCase
  <2>5. CASE vec[k].kind # "call"
    <3>1. Instrumentee(n) \in Value
      BY <1>1, <2>2, <2>5, TargetFacts
    <3>2. LET v == Instrumentee(n) IN
          reqs[n] = IF prog[v].op = "phi" THEN <<PhiNode(v)>> ELSE Wanted(v)
      BY <1>1, <2>1, <2>2, <2>5, FullOfPlain
    <3>3. PairCase(n) \/ SharedCase(n)
      BY <2>2, <2>5, <3>1, <3>2, PlainNode
    <3>4. ~CallCase(n)
      BY <2>2, <2>5 DEF CallCase
    <3> QED BY <2>2, <2>3, <2>5, <2>6, <3>3, <3>4
  <2> QED BY <2>4, <2>5
<1> QED BY <1>1, <1>2, <1>3, <1>4

\* What a node requires is a node for a value; a source is that of a definition.
LEMMA RequiredNodes ==
  ASSUME Stands, NEW n \in complete, NEW i \in 1 .. Len(reqs[n])
  PROVE  /\ reqs[n][i] \in complete /\ reqs[n][i] \in Inner \cup Ends /\ ~IsCall(reqs[n][i])
         /\ reqs[n][i] \in Ends => prog[reqs[n][i].val].op # "phi"
<1>1. reqs[n] \in Seq(complete)
  BY DEF Stands
<1>2. reqs[n][i] \in complete
  BY <1>1, ElementOfSeq
<1> DEFINE m == reqs[n][i]
<1>3. Inner \cap Ends = {}
  BY InstrumenteeFacts
<1>4. m \in Inner \cup Ends /\ (m \in Ends => prog[m.val].op # "phi")
  <2>1. CASE SourceCase(n)
    BY <2>1 DEF SourceCase
  <2>2. CASE CallCase(n)
    BY <1>3, <2>2 DEF CallCase
  <2>3. CASE PhiCase(n)
    BY <1>3, <2>3 DEF PhiCase
  <2>4. CASE PairCase(n)
    BY <1>3, <2>4 DEF PairCase
  <2>5. CASE SharedCase(n)
    BY <1>3, <2>5, InstrumenteeFacts DEF SharedCase
  <2> QED BY <2>1, <2>2, <2>3, <2>4, <2>5, NodeCases
<1> QED BY <1>2, <1>4, InstrumenteeFacts

-----------------------------------------------------------------------------
(* Stacks of calls, and what an operation uses.                             *)

\* An element in front of a sequence.
LEMMA InFront ==
  ASSUME NEW S, NEW st \in Seq(S), NEW f \in S
  PROVE  LET s == <<f>> \o st IN
         /\ s \in Seq(S) /\ 1 \in DOMAIN s /\ s[1] = f
         /\ \A k \in DOMAIN st : k + 1 \in DOMAIN s /\ s[k + 1] = st[k] /\ k \in Nat
         /\ \A k \in DOMAIN s : k # 1 => k - 1 \in DOMAIN st /\ s[k] = st[k - 1]
         /\ \A j, k \in DOMAIN s : j - 1 = k - 1 => j = k
<1> DEFINE s == <<f>> \o st
<1>1. <<f>> \in Seq(S) /\ Len(<<f>>) = 1 /\ <<f>>[1] = f
  OBVIOUS
<1>2. DOMAIN st = 1 .. Len(st) /\ Len(st) \in Nat
  BY LenProperties
<1>3. s \in Seq(S) /\ Len(s) = 1 + Len(st)
         /\ \A k \in 1 .. Len(s) : s[k] = IF k <= 1 THEN <<f>>[k] ELSE st[k - 1]
  BY <1>1, <1>2, ConcatProperties
<1>4. DOMAIN s = 1 .. Len(s)
  BY <1>3, LenProperties
<1> HIDE DEF s
<1>5. 1 \in DOMAIN s /\ s[1] = f
  BY <1>1, <1>2, <1>3, <1>4
<1>6. \A k \in DOMAIN s : k # 1 => k - 1 \in DOMAIN st /\ s[k] = st[k - 1]
  BY <1>2, <1>3, <1>4
<1>7. \A k \in DOMAIN st : k + 1 \in DOMAIN s /\ s[k + 1] = st[k] /\ k \in Nat
  BY <1>2, <1>3, <1>4
<1>8. \A j, k \in DOMAIN s : j - 1 = k - 1 => j = k
  BY <1>2, <1>3, <1>4
<1> QED BY <1>3, <1>5, <1>6, <1>7, <1>8 DEF s

\* The first element of a sequence is removed.
LEMMA WithoutFirst ==
  ASSUME NEW S, NEW st \in Seq(S), st # <<>>
  PROVE  /\ Tail(st) \in Seq(S) /\ 1 \in DOMAIN st /\ st[1] \in S
         /\ \A k \in DOMAIN Tail(st) : /\ k + 1 \in DOMAIN st /\ k + 1 # 1
                                       /\ Tail(st)[k] = st[k + 1]
         /\ \A k \in DOMAIN st : k # 1 => \E j \in DOMAIN Tail(st) : Tail(st)[j] = st[k]
         /\ \A j, k \in DOMAIN Tail(st) : j + 1 = k + 1 => j = k
<1> DEFINE s == Tail(st)
<1>1. Len(st) \in Nat \ {0} /\ DOMAIN st = 1 .. Len(st)
  BY EmptySeq, LenProperties
<1>2. s \in Seq(S) /\ Len(s) = Len(st) - 1 /\ \A k \in 1 .. Len(s) : s[k] = st[k + 1]
  BY HeadTailProperties
<1>3. DOMAIN s = 1 .. Len(s) /\ Len(s) \in Nat
  BY <1>2, LenProperties
<1>4. 1 \in DOMAIN st /\ st[1] \in S
  BY <1>1, ElementOfSeq
<1> HIDE DEF s
<1>5. \A k \in DOMAIN s : k + 1 \in DOMAIN st /\ k + 1 # 1 /\ s[k] = st[k + 1]
  BY <1>1, <1>2, <1>3
<1>6. ASSUME NEW k \in DOMAIN st, k # 1
      PROVE  \E j \in DOMAIN s : s[j] = st[k]
  <2>1. k - 1 \in DOMAIN s /\ (k - 1) + 1 = k
    BY <1>1, <1>2, <1>3, <1>6
  <2> QED BY <1>5, <2>1
<1>7. \A j, k \in DOMAIN s : j + 1 = k + 1 => j = k
  BY <1>3
<1> QED BY <1>2, <1>4, <1>5, <1>6, <1>7 DEF s

\* What the values that an operation uses have to do with it.
LEMMA UsesDominate ==
  ASSUME prog \in Programs, NEW v \in Value, prog[v].op \in {"copy", "pair"},
         NEW i \in DOMAIN prog[v].args
  PROVE  LET w == prog[v].args[i] IN
         /\ w \in Value /\ w < v
         /\ \A p \in Places : <<p[w], p[v]>> \in Dominates
<1> DEFINE w == prog[v].args[i]
<1>1. w \in Range(prog[v].args)
  BY DEF Range
<1>2. w \in 1 .. v - 1
  BY <1>1, OrderAssumption DEF OrderAssumption
<1>3. v \in 1 .. N /\ N \in Nat
  BY NAssumption DEF NAssumption, Value
<1>4. ASSUME NEW p \in Places
      PROVE  <<p[w], p[v]>> \in Dominates
  <2>1. FitsIn(prog[v], p, v)
    BY DEF Places
  <2>2. \A x \in Range(prog[v].args) : <<p[x], p[v]>> \in Dominates
    BY <2>1 DEF FitsIn
  <2> QED BY <1>1, <2>2
<1> QED BY <1>2, <1>3, <1>4 DEF Value

-----------------------------------------------------------------------------
(* What one call of createWitness does leaves what is there alone.          *)

\* There are more witnesses; only phis in X may have got operands.
Grown(X) ==
  /\ UNCHANGED graph
  /\ DOMAIN wit \subseteq DOMAIN wit' /\ DOMAIN operands \subseteq DOMAIN operands'
  /\ \A n \in DOMAIN wit :
       /\ ~IsCall(n) => wit'[n] = wit[n]
       /\ Role(n) = "pair" => operands'[n] = operands[n]
       /\ Role(n) = "phi" /\ n \notin X => Operands(n)' = Operands(n)
       /\ IsCall(n) => \A i : Given(n, i) => i \in DOMAIN wit'[n] /\ wit'[n][i] = wit[n][i]

\* The finished graph stays.
LEMMA SameNodes ==
  ASSUME UNCHANGED <<graph>>
  PROVE  /\ \A n : Role(n)' = Role(n) /\ IsCall(n)' = IsCall(n)
                   /\ Instrumentee(n)' = Instrumentee(n)
         /\ Places' = Places /\ (Stands => Stands')
<1>1. /\ prog' = prog /\ vec' = vec /\ reqs' = reqs /\ complete' = complete
      /\ stack' = stack /\ queue' = queue /\ program' = program
  BY DEF graph, program
<1>2. Full' = Full
  BY <1>1, SameProgram
<1> QED BY <1>1, <1>2 DEF Role, IsCall, Instrumentee, Places, Stands

LEMMA KeepSettled ==
  ASSUME Stands, Work, NEW X, Grown(X), NEW n \in DOMAIN wit, ~IsCall(n)
  PROVE  Settled(n)'
<1>1. UNCHANGED graph /\ reqs' = reqs /\ prog' = prog
  BY DEF Grown, graph, program
<1>2. Settled(n) /\ n \in complete
  BY DEF Work
<1>3. wit'[n] = wit[n] /\ Single(n)' = Single(n) /\ DOMAIN wit \subseteq DOMAIN wit'
  BY DEF Grown, Single
<1>4. Single(n) \in Witness'
  BY <1>1, <1>2, <1>3, SameNodes DEF Settled, Witness
<1>5. ASSUME NEW i \in 1 .. Len(reqs[n]), reqs[n][i] \in DOMAIN wit
      PROVE  reqs[n][i] \in DOMAIN wit' /\ Single(reqs[n][i])' = Single(reqs[n][i])
  <2>1. ~IsCall(reqs[n][i])
    BY <1>2, RequiredNodes
  <2> QED BY <1>1, <1>3, <1>5, <2>1 DEF Grown, Single
<1>6. Role(n) = "shared" => 1 \in 1 .. Len(reqs[n])
  BY <1>2, NodeCases DEF SourceCase, CallCase, PhiCase, PairCase, SharedCase
<1>7. Role(n) = "pair" => /\ 1 .. 2 = 1 .. Len(reqs[n]) /\ operands'[n] = operands[n]
                          /\ DOMAIN operands \subseteq DOMAIN operands'
  BY <1>2, NodeCases DEF SourceCase, CallCase, PhiCase, PairCase, SharedCase, Grown
<1>8. /\ Role(n)' = Role(n) /\ Instrumentee(n)' = Instrumentee(n) /\ Places' = Places
      /\ Instrumentee(Single(n))' = Instrumentee(Single(n))
  <2>1. Instrumentee(Single(n))' = Instrumentee(Single(n))
    BY <1>1, <1>3 DEF Instrumentee, graph, program
  <2> QED BY <1>1, <2>1, SameNodes
<1>9. Role(n) = "shared" =>
        reqs[n][1] \in DOMAIN wit' /\ Single(n)' = Single(reqs[n][1])'
  BY <1>2, <1>3, <1>5, <1>6 DEF Settled
<1>10. Role(n) = "pair" => /\ n \in DOMAIN operands'
                           /\ operands'[n] = [i \in 1 .. 2 |-> Single(reqs[n][i])']
                           /\ \A i \in 1 .. 2 : reqs[n][i] \in DOMAIN wit'
  <2> SUFFICES ASSUME Role(n) = "pair"
               PROVE  /\ n \in DOMAIN operands'
                      /\ operands'[n] = [i \in 1 .. 2 |-> Single(reqs[n][i])']
                      /\ \A i \in 1 .. 2 : reqs[n][i] \in DOMAIN wit'
    OBVIOUS
  <2>1. \A i \in 1 .. 2 : reqs[n][i] \in DOMAIN wit'
                         /\ Single(reqs[n][i])' = Single(reqs[n][i])
    BY <1>2, <1>5, <1>7 DEF Settled
  <2>2. n \in DOMAIN operands /\ operands[n] = [i \in 1 .. 2 |-> Single(reqs[n][i])]
    BY <1>2 DEF Settled
  <2> QED BY <1>7, <2>1, <2>2
<1> QED BY <1>1, <1>2, <1>3, <1>4, <1>8, <1>9, <1>10 DEF Settled

LEMMA KeepChosen ==
  ASSUME Stands, Work, NEW X, Grown(X), NEW n \in DOMAIN wit, Role(n) = "phi", n \notin X,
         NEW upto \in 0 .. 2, Chosen(n, upto)
  PROVE  Chosen(n, upto)'
<1>1. reqs' = reqs /\ prog' = prog /\ complete' = complete
  BY DEF Grown, graph, program
<1>2. n \in complete /\ DOMAIN wit \subseteq DOMAIN wit' /\ Operands(n)' = Operands(n)
  BY DEF Work, Grown
<1>3. Len(reqs[n]) = 2
  BY <1>2, NodeCases DEF SourceCase, CallCase, PhiCase, PairCase, SharedCase
<1>4. ASSUME NEW i \in 1 .. upto
      PROVE  reqs[n][i] \in DOMAIN wit' /\ Single(reqs[n][i])' = Single(reqs[n][i])
  <2>1. reqs[n][i] \in DOMAIN wit
    BY DEF Chosen
  <2>2. ~IsCall(reqs[n][i])
    BY <1>2, <1>3, RequiredNodes
  <2> QED BY <1>1, <1>2, <2>1, <2>2 DEF Grown, Single
<1> QED BY <1>1, <1>2, <1>4 DEF Chosen

LEMMA KeepGiven ==
  ASSUME Stands, Work, NEW X, Grown(X), NEW n \in complete, IsCall(n),
         NEW i \in 1 .. 2, Given(n, i)
  PROVE  Given(n, i)'
<1>1. reqs' = reqs
  BY DEF Grown, graph
<1>2. n \in DOMAIN wit /\ DOMAIN wit \subseteq DOMAIN wit' /\ reqs[n][i] \in DOMAIN wit
  BY DEF Given, Grown
<1>3. i \in DOMAIN wit'[n] /\ wit'[n][i] = wit[n][i]
  BY <1>2 DEF Grown
<1>4. ~IsCall(reqs[n][i])
  BY NodeCases, RequiredNodes DEF CallCase
<1>5. Single(reqs[n][i])' = Single(reqs[n][i])
  BY <1>1, <1>2, <1>4 DEF Grown, Single
<1> QED BY <1>1, <1>2, <1>3, <1>5 DEF Given

LEMMA KeepUnderway ==
  ASSUME Stands, Work, NEW X, Grown(X), NEW f \in [node : complete, at : Nat],
         Underway(f), Role(f.node) = "phi" => f.node \notin X
  PROVE  Underway(f)'
<1> DEFINE n == f.node
<1>1. reqs' = reqs /\ UNCHANGED graph /\ DOMAIN wit \subseteq DOMAIN wit'
  BY DEF Grown, graph, program
<1>2. n \in complete /\ f.at \in Nat /\ Role(n)' = Role(n)
  BY <1>1, SameNodes
<1>3. Role(n) = "phi" \/ Role(n) = "call" => Len(reqs[n]) = 2
  BY <1>2, NodeCases DEF SourceCase, CallCase, PhiCase, PairCase, SharedCase
<1>4. Role(n) = "call" => IsCall(n)
  BY <1>2, NodeCases, ProgramFacts DEF SourceCase, CallCase, PhiCase, PairCase, SharedCase
<1> DEFINE upto == f.at - 1
<1>7. /\ Role(n) # "source" /\ f.at \in 1 .. Len(reqs[n]) + 1
      /\ \A i \in 1 .. upto : reqs[n][i] \in DOMAIN wit
      /\ Role(n) = "phi" => n \in DOMAIN wit /\ Chosen(n, upto)
      /\ Role(n) = "call" => \A i \in 1 .. upto : Given(n, i)
  BY DEF Underway
<1>8. Role(n) = "phi" \/ Role(n) = "call" => upto \in 0 .. 2
  <2> SUFFICES ASSUME Len(reqs[n]) = 2 PROVE upto \in 0 .. 2
    BY <1>3
  <2> QED BY <1>2, <1>7
<1>5. ASSUME Role(n) = "phi"
      PROVE  n \in DOMAIN wit' /\ Chosen(n, f.at - 1)'
  <2>1. upto \in 0 .. 2 /\ n \in DOMAIN wit /\ Chosen(n, upto)
    BY <1>5, <1>7, <1>8
  <2>2. ASSUME NEW u \in 0 .. 2, u = f.at - 1
        PROVE  Chosen(n, u)'
    BY <1>5, <2>1, <2>2, KeepChosen
  <2> QED BY <1>1, <2>1, <2>2
<1>6. ASSUME Role(n) = "call", NEW i \in 1 .. f.at - 1
      PROVE  Given(n, i)'
  <2>1. i \in 1 .. 2 /\ Given(n, i)
    BY <1>6, <1>7, <1>8
  <2> HIDE DEF n
  <2> QED BY <1>2, <1>4, <1>6, <2>1, KeepGiven
<1> QED BY <1>1, <1>2, <1>5, <1>6 DEF Underway

LEMMA KeepServed ==
  ASSUME Stands, Work, NEW X, Grown(X), NEW k \in 1 .. Len(vec), TargetServed(k)
  PROVE  TargetServed(k)'
<1>1. vec' = vec /\ DOMAIN wit \subseteq DOMAIN wit'
  BY DEF Grown, graph, program
<1>2. External(k) \in complete /\ k \in Nat
  BY TargetFacts DEF Stands, Outer
<1>3. IsCall(External(k)) <=> vec[k].kind = "call"
  BY <1>2, InstrumenteeFacts
<1>4. CASE vec[k].kind = "call"
  <2>1. ASSUME NEW i \in 1 .. 2 PROVE Given(External(k), i)'
    <3>1. Given(External(k), i) BY <1>4 DEF TargetServed
    <3> QED BY <1>2, <1>3, <1>4, <3>1, KeepGiven
  <2> QED BY <1>1, <1>4, <2>1 DEF TargetServed
<1>5. CASE vec[k].kind # "call"
  BY <1>1, <1>5 DEF TargetServed
<1> QED BY <1>4, <1>5

-----------------------------------------------------------------------------
(* The steps of createWitness.                                              *)

\* The innermost call and what it looks at next.
LEMMA PendingFacts ==
  ASSUME Stands, Work, calls # <<>>
  PROVE  /\ 1 \in DOMAIN calls /\ calls[1] \in [node : complete, at : Nat]
         /\ Caller \in complete /\ Underway(calls[1])
         /\ Pending # <<>> => /\ calls[1].at \in 1 .. Len(reqs[Caller])
                              /\ Pending[1] = reqs[Caller][calls[1].at]
         /\ Pending = <<>> => calls[1].at = Len(reqs[Caller]) + 1
<1> DEFINE S == [node : complete, at : Nat]
           r == reqs[Caller]
           at == calls[1].at
<1>1. calls \in Seq(S)
  BY DEF Work
<1> HIDE DEF S
<1>2. 1 \in DOMAIN calls /\ calls[1] \in S
  BY <1>1, WithoutFirst
<1>3. Caller \in complete /\ at \in Nat
  BY <1>2 DEF S, Caller
<1>4. Underway(calls[1]) /\ at \in 1 .. Len(r) + 1
  BY <1>2 DEF Work, Underway, Caller, Range
<1>5. r \in Seq(complete)
  BY <1>3 DEF Stands
<1>6. Pending = SubSeq(r, at, Len(r))
  BY DEF Pending
<1> HIDE DEF r, at
<1>7. Len(r) \in Nat /\ \A i \in 1 .. Len(r) : r[i] \in complete
  BY <1>5, LenProperties, ElementOfSeq
<1>8. /\ Len(SubSeq(r, at, Len(r))) = IF at <= Len(r) THEN Len(r) - at + 1 ELSE 0
      /\ \A i \in 1 .. Len(r) - at + 1 : SubSeq(r, at, Len(r))[i] = r[at + i - 1]
      /\ SubSeq(r, at, Len(r)) \in Seq(complete)
  <2>1. at \in Int /\ Len(r) \in Int /\ \A i \in at .. Len(r) : r[i] \in complete
    BY <1>3, <1>4, <1>7
  <2> QED BY <2>1, SubSeqProperties
<1>9. Pending # <<>> => at \in 1 .. Len(r) /\ Pending[1] = r[at]
  <2> SUFFICES ASSUME Pending # <<>> PROVE at \in 1 .. Len(r) /\ Pending[1] = r[at]
    OBVIOUS
  <2>1. Len(Pending) # 0
    BY <1>6, <1>8, EmptySeq
  <2>2. at <= Len(r)
    BY <1>6, <1>8, <2>1
  <2>3. at \in 1 .. Len(r) /\ 1 \in 1 .. Len(r) - at + 1 /\ at + 1 - 1 = at
    BY <1>3, <1>4, <1>7, <2>2
  <2> QED BY <1>6, <1>8, <2>3
<1>10. Pending = <<>> => at = Len(r) + 1
  <2> SUFFICES ASSUME Pending = <<>> PROVE at = Len(r) + 1
    OBVIOUS
  <2>1. Len(Pending) = 0
    OBVIOUS
  <2>2. Len(SubSeq(r, at, Len(r))) = 0
    BY <1>6, <2>1
  <2>3. at <= Len(r) => Len(r) - at + 1 = 0
    BY <1>8, <2>2
  <2> QED BY <1>3, <1>4, <1>7, <2>3
<1> QED BY <1>2, <1>3, <1>4, <1>9, <1>10 DEF r, at, S

\* createWitness is entered.
LEMMA EnterWork ==
  ASSUME Stands, Work, NEW n \in complete, EnterCreate(n), UNCHANGED <<vars, operands>>,
         Role(n) \in {"source", "phi"} => n \notin DOMAIN wit,
         Role(n) = "source" => prog[n.val].op # "phi"
  PROVE  /\ Work' /\ Grown({})
         /\ \A m : Active(m) => Active(m)'
         /\ Role(n) # "source" => Active(n)'
         /\ Role(n) = "source" => n \in DOMAIN wit'
<1> DEFINE S == [node : complete, at : Nat]
           f == [node |-> n, at |-> 1]
<1>1. /\ UNCHANGED graph /\ reqs' = reqs /\ prog' = prog /\ complete' = complete
      /\ vec' = vec /\ operands' = operands
  BY DEF vars, graph, program
<1>2. calls \in Seq(S) /\ DOMAIN operands \subseteq DOMAIN wit /\ DOMAIN wit \subseteq complete
  BY DEF Work
<1>3. \/ Role(n) \in {"source", "phi"} /\ wit' = Update(wit, n, <<n>>)
      \/ Role(n) \notin {"source", "phi"} /\ wit' = wit
  BY DEF EnterCreate, SetWitnesses
<1>4. calls' = IF Role(n) = "source" THEN calls ELSE <<f>> \o calls
  BY DEF EnterCreate
<1>5. /\ DOMAIN wit' = IF Role(n) \in {"source", "phi"} THEN DOMAIN wit \cup {n} ELSE DOMAIN wit
      /\ \A m \in DOMAIN wit : wit'[m] = wit[m]
      /\ Role(n) \in {"source", "phi"} => wit'[n] = <<n>>
  <2>1. CASE Role(n) \in {"source", "phi"}
    <3>1. wit' = Update(wit, n, <<n>>) /\ n \notin DOMAIN wit
      BY <1>3, <2>1
    <3>2. \A x : /\ DOMAIN Update(wit, n, x) = DOMAIN wit \cup {n}
                 /\ Update(wit, n, x)[n] = x
                 /\ \A m \in DOMAIN wit : m # n => Update(wit, n, x)[m] = wit[m]
      BY DEF Update
    <3> QED BY <2>1, <3>1, <3>2
  <2>2. CASE Role(n) \notin {"source", "phi"}
    BY <1>3, <2>2
  <2> QED BY <2>1, <2>2
<1>6. Grown({})
  BY <1>1, <1>5 DEF Grown, Operands, Given
<1>7. f \in S /\ f.node = n /\ f.at = 1
  OBVIOUS
<1> HIDE DEF f, S
<1>8. /\ calls' \in Seq(S)
      /\ \A k \in DOMAIN calls : \E j \in DOMAIN calls' : calls'[j] = calls[k]
      /\ \A g \in Range(calls') : g \in Range(calls) \/ (g = f /\ Role(n) # "source")
      /\ Role(n) # "source" => 1 \in DOMAIN calls' /\ calls'[1] = f
      /\ \A k, l \in DOMAIN calls' : k # l =>
           \/ k = 1 /\ calls'[k] = f /\ \E j \in DOMAIN calls : calls'[l] = calls[j]
           \/ l = 1 /\ calls'[l] = f /\ \E j \in DOMAIN calls : calls'[k] = calls[j]
           \/ \E i, j \in DOMAIN calls : i # j /\ calls'[k] = calls[i] /\ calls'[l] = calls[j]
  <2>1. CASE Role(n) = "source"
    BY <1>2, <1>4, <2>1 DEF Range
  <2>2. CASE Role(n) # "source"
    <3> DEFINE s == <<f>> \o calls
    <3>1. calls' = s
      BY <1>4, <2>2
    <3>2. /\ s \in Seq(S) /\ 1 \in DOMAIN s /\ s[1] = f
          /\ \A k \in DOMAIN calls : k + 1 \in DOMAIN s /\ s[k + 1] = calls[k] /\ k \in Nat
          /\ \A k \in DOMAIN s : k # 1 => k - 1 \in DOMAIN calls /\ s[k] = calls[k - 1]
          /\ \A j, k \in DOMAIN s : j - 1 = k - 1 => j = k
      BY <1>2, <1>7, InFront
    <3> HIDE DEF s
    <3>3. \A k \in DOMAIN s : \/ k = 1 /\ s[k] = f
                              \/ k # 1 /\ k - 1 \in DOMAIN calls /\ s[k] = calls[k - 1]
      BY <3>2
    <3>4. \A g \in Range(s) : g \in Range(calls) \/ g = f
      BY <3>3 DEF Range
    <3>5. \A k, l \in DOMAIN s : k # l =>
            \/ k = 1 /\ s[k] = f /\ \E j \in DOMAIN calls : s[l] = calls[j]
            \/ l = 1 /\ s[l] = f /\ \E j \in DOMAIN calls : s[k] = calls[j]
            \/ \E i, j \in DOMAIN calls : i # j /\ s[k] = calls[i] /\ s[l] = calls[j]
      <4> TAKE k, l \in DOMAIN s
      <4> HAVE k # l
      <4>1. CASE k = 1 \/ l = 1
        BY <3>3, <4>1
      <4>2. CASE k # 1 /\ l # 1
        <5>1. k - 1 # l - 1 BY <3>2
        <5> QED BY <3>3, <4>2, <5>1
      <4> QED BY <4>1, <4>2
    <3>6. \A k \in DOMAIN calls : \E j \in DOMAIN s : s[j] = calls[k]
      BY <3>2
    <3> QED BY <2>2, <3>1, <3>2, <3>4, <3>5, <3>6
  <2> QED BY <2>1, <2>2
<1>9. \A m : Active(m) => Active(m)'
  BY <1>8 DEF Active
<1>10. Role(n) # "source" => Active(n)'
  BY <1>7, <1>8 DEF Active
<1>11. \A m : Role(m)' = Role(m) /\ IsCall(m)' = IsCall(m) /\ Instrumentee(m)' = Instrumentee(m)
  BY <1>1, SameNodes
<1>12. Places' = Places /\ DOMAIN operands' \subseteq DOMAIN wit' /\ DOMAIN wit' \subseteq complete'
  BY <1>1, <1>2, <1>5, SameNodes
<1>13. ASSUME NEW m \in DOMAIN wit', ~IsCall(m)' PROVE Settled(m)'
  <2>1. CASE m \in DOMAIN wit
    BY <1>6, <1>11, <1>13, <2>1, KeepSettled
  <2>2. CASE m \notin DOMAIN wit
    <3>1. m = n /\ Role(n) \in {"source", "phi"} /\ wit'[n] = <<n>>
      BY <1>5, <2>2
    <3>2. Single(n)' = n
      BY <3>1 DEF Single
    <3>3. Instrumentee(n) \in Value
      BY <3>1, NodeCases, ProgramFacts DEF SourceCase, CallCase, PhiCase, PairCase, SharedCase
    <3>4. \A p \in Places : <<p[Instrumentee(n)], p[Instrumentee(n)]>> \in Dominates
      BY <3>3, DominanceOrder DEF Places
    <3>5. n \in Witness'
      BY <1>5, <1>11, <3>1 DEF Witness
    <3>6. Instrumentee(n) <= Instrumentee(n)
      BY <3>3, NAssumption DEF NAssumption, Value
    <3>7. Role(n)' = Role(n) /\ Instrumentee(n)' = Instrumentee(n)
      BY <1>11
    <3>8. Instrumentee(Single(n))' = Instrumentee(n)
      BY <1>1, <3>2 DEF Instrumentee
    <3> QED BY <1>1, <1>12, <3>1, <3>2, <3>4, <3>5, <3>6, <3>7, <3>8 DEF Settled
  <2> QED BY <2>1, <2>2
<1>14. ASSUME NEW m \in DOMAIN wit', Role(m)' = "phi" PROVE Active(m)' \/ Chosen(m, 2)'
  <2>1. CASE m \in DOMAIN wit
    <3>1. Active(m) \/ Chosen(m, 2) BY <1>11, <1>14, <2>1 DEF Work
    <3>2. CASE Active(m) BY <1>9, <3>2
    <3>3. CASE Chosen(m, 2) BY <1>6, <1>11, <1>14, <2>1, <3>3, KeepChosen
    <3> QED BY <3>1, <3>2, <3>3
  <2>2. CASE m \notin DOMAIN wit
    BY <1>5, <1>10, <1>11, <1>14, <2>2
  <2> QED BY <2>1, <2>2
<1>15. ASSUME Role(n) # "source"
       PROVE  Underway(f)'
  <2>1. Len(reqs[n]) \in Nat
    BY LenProperties DEF Stands
  <2>2. Role(n) = "phi" => n \in DOMAIN wit' /\ Chosen(n, 0)'
    <3> SUFFICES ASSUME Role(n) = "phi" PROVE n \in DOMAIN wit' /\ Chosen(n, 0)'
      OBVIOUS
    <3>1. n \notin DOMAIN wit /\ n \notin DOMAIN operands' /\ n \in DOMAIN wit'
      BY <1>1, <1>2, <1>5
    <3>2. Operands(n)' = <<>>
      BY <3>1 DEF Operands
    <3>3. Operands(n)' \in Seq([wit : complete, from : Block]) /\ Len(Operands(n)') = 0
      BY <3>2
    <3> QED BY <1>1, <3>1, <3>3 DEF Chosen
  <2>3. f'.node = n /\ f'.at = 1 /\ f' = f
    BY DEF f
  <2>4. 1 .. 1 - 1 = {} /\ 1 - 1 = 0
    OBVIOUS
  <2> QED BY <1>1, <1>7, <1>11, <1>15, <2>1, <2>2, <2>4 DEF Underway
<1>16. ASSUME NEW g \in Range(calls') PROVE Underway(g)'
  <2>1. CASE g = f /\ Role(n) # "source"
    BY <1>15, <2>1
  <2>2. CASE g \in Range(calls)
    <3>1. Underway(g) /\ g \in S
      BY <1>2, <2>2, LenProperties, ElementOfSeq DEF Work, Range
    <3>2. Role(g.node) = "phi" => g.node \notin {}
      OBVIOUS
    <3> QED BY <1>6, <3>1, <3>2, KeepUnderway DEF S
  <2> QED BY <1>8, <2>1, <2>2
<1>17. ASSUME NEW m \in complete, Role(m) = "phi",
              NEW j \in DOMAIN calls', NEW k \in DOMAIN calls',
              calls'[j].node = m, calls'[k].node = m, j # k
       PROVE  FALSE
  <2>1. \A i \in DOMAIN calls : calls[i].node = m => m \in DOMAIN wit
    <3> SUFFICES ASSUME NEW i \in DOMAIN calls, calls[i].node = m PROVE m \in DOMAIN wit
      OBVIOUS
    <3>1. Underway(calls[i])
      BY DEF Work, Range
    <3> QED BY <1>17, <3>1 DEF Underway
  <2>2. f.node = n /\ (Role(n) = "phi" => n \notin DOMAIN wit)
    BY <1>7
  <2>3. CASE f.node = m
    <3>1. \A i \in DOMAIN calls : calls[i].node # m
      BY <1>17, <2>1, <2>2, <2>3
    <3> QED BY <1>8, <1>17, <3>1
  <2>4. CASE f.node # m
    <3>1. PICK i \in DOMAIN calls, l \in DOMAIN calls :
            i # l /\ calls[i].node = m /\ calls[l].node = m
      BY <1>8, <1>17, <2>4
    <3> QED BY <1>17, <3>1 DEF Work
  <2> QED BY <2>3, <2>4
<1>18. Work'
  <2>1. calls' \in Seq([node : complete', at : Nat])
    BY <1>1, <1>8 DEF S
  <2>2. \A m \in complete' : Role(m)' = "phi" =>
          \A j, k \in DOMAIN calls' : calls'[j].node = m /\ calls'[k].node = m => j = k
    BY <1>1, <1>11, <1>17
  <2> QED BY <1>12, <1>13, <1>14, <1>16, <2>1, <2>2 DEF Work
<1> QED BY <1>5, <1>6, <1>9, <1>10, <1>18

\* The innermost call is done with one more requirement.
LEMMA AdvanceWork ==
  ASSUME Stands, Work, NEW c, calls # <<>>, c = Caller, Pending # <<>>, HasWitnesses(Pending[1]),
         calls' = [calls EXCEPT ![1].at = @ + 1],
         Grown({c}), DOMAIN operands' \subseteq DOMAIN wit', DOMAIN wit' \subseteq complete,
         \A n \in DOMAIN wit' : n \in DOMAIN wit \/ IsCall(n),
         \A i : i = calls[1].at => /\ Role(c) = "phi" => Chosen(c, i)'
                                   /\ Role(c) = "call" => Given(c, i)'
  PROVE  Work' /\ \A m : Active(m) => Active(m)'
<1> PICK at : at = calls[1].at
  OBVIOUS
<1> DEFINE S == [node : complete, at : Nat]
           g == [node |-> c, at |-> at + 1]
<1>1. /\ UNCHANGED graph /\ reqs' = reqs /\ prog' = prog /\ complete' = complete
      /\ vec' = vec /\ DOMAIN wit \subseteq DOMAIN wit'
  BY DEF Grown, graph, program
<1>2. /\ calls \in Seq(S) /\ 1 \in DOMAIN calls /\ calls[1] \in S
      /\ c \in complete /\ Underway(calls[1]) /\ calls[1].node = c
      /\ at \in 1 .. Len(reqs[c]) /\ Pending[1] = reqs[c][at]
  BY PendingFacts DEF Work, Caller
<1>3. Len(reqs[c]) \in Nat
  BY <1>2, LenProperties DEF Stands
<1>4. g \in S /\ g.node = c /\ g.at = at + 1
  BY <1>2, <1>3
<1>5. /\ calls' \in Seq(S) /\ DOMAIN calls' = DOMAIN calls
      /\ calls'[1] = g /\ \A k \in DOMAIN calls : k # 1 => calls'[k] = calls[k]
  <2>1. calls' = [calls EXCEPT ![1] = g]
    <3>1. [calls[1] EXCEPT !.at = @ + 1] = g
      BY <1>2
    <3> QED BY <1>2, <3>1
  <2> HIDE DEF S, g
  <2>2. 1 \in 1 .. Len(calls) /\ DOMAIN calls = 1 .. Len(calls)
    BY <1>2, LenProperties
  <2>3. /\ [calls EXCEPT ![1] = g] \in Seq(S)
        /\ Len([calls EXCEPT ![1] = g]) = Len(calls)
        /\ \A j \in 1 .. Len(calls) :
             [calls EXCEPT ![1] = g][j] = IF j = 1 THEN g ELSE calls[j]
    BY <1>2, <1>4, <2>2, ExceptSeq
  <2>4. DOMAIN calls' = DOMAIN calls
    BY <2>1
  <2> QED BY <2>1, <2>2, <2>3, <2>4
<1> HIDE DEF S, g
<1>6. \A k \in DOMAIN calls : calls'[k].node = calls[k].node
  BY <1>2, <1>4, <1>5
<1>7. \A m : Active(m) => Active(m)'
  BY <1>5, <1>6 DEF Active
<1>8. \A m : Role(m)' = Role(m) /\ IsCall(m)' = IsCall(m) /\ Instrumentee(m)' = Instrumentee(m)
  BY <1>1, SameNodes
<1>9. \A k \in DOMAIN calls : k # 1 /\ Role(c) = "phi" => calls[k].node # c
  BY <1>2 DEF Work
<1>10. ASSUME NEW h \in Range(calls') PROVE Underway(h)'
  <2>1. PICK k \in DOMAIN calls : h = calls'[k]
    BY <1>5 DEF Range
  <2>2. CASE k # 1
    <3>1. h = calls[k] /\ Underway(h) /\ h \in S
      BY <1>2, <1>5, <2>1, <2>2, LenProperties, ElementOfSeq DEF Work, Range
    <3>2. Role(h.node) = "phi" => h.node \notin {c}
      BY <1>9, <2>1, <2>2, <3>1
    <3> QED BY <3>1, <3>2, KeepUnderway DEF S
  <2>3. CASE k = 1
    <3>1. h = g
      BY <1>5, <2>1, <2>3
    <3>2. Underway(calls[1])
      BY <1>2
    <3>3. /\ Role(c) # "source" /\ at + 1 \in 1 .. Len(reqs[c]) + 1
          /\ (at + 1) - 1 = at /\ (at + 1) - 1 \in Nat
      BY <1>2, <1>3, <3>2 DEF Underway
    <3>4. \A i \in 1 .. at : reqs[c][i] \in DOMAIN wit'
      <4>1. \A i \in 1 .. at - 1 : reqs[c][i] \in DOMAIN wit
        BY <1>2 DEF Underway
      <4>2. reqs[c][at] \in DOMAIN wit
        BY <1>2 DEF HasWitnesses
      <4>3. \A i \in 1 .. at : i \in 1 .. at - 1 \/ i = at
        BY <1>2, <1>3
      <4> QED BY <1>1, <4>1, <4>2, <4>3
    <3>5. Role(c) = "phi" => c \in DOMAIN wit' /\ Chosen(c, at)'
      <4>1. Role(c) = "phi" => c \in DOMAIN wit
        BY <1>2 DEF Underway
      <4> QED BY <1>1, <4>1
    <3>6. ASSUME Role(c) = "call", NEW i \in 1 .. at
          PROVE  Given(c, i)'
      <4>1. CASE i = at
        BY <3>6, <4>1
      <4>2. CASE i # at
        <5>1. i \in 1 .. at - 1
          BY <1>2, <1>3, <4>2
        <5>2. Given(c, i)
          BY <1>2, <3>6, <5>1 DEF Underway
        <5>3. IsCall(c) /\ Len(reqs[c]) = 2
          BY <1>2, <3>6, NodeCases, ProgramFacts
          DEF SourceCase, CallCase, PhiCase, PairCase, SharedCase
        <5>4. i \in 1 .. 2
          BY <1>2, <5>1, <5>3
        <5> QED BY <1>2, <5>2, <5>3, <5>4, KeepGiven
      <4> QED BY <4>1, <4>2
    <3> QED BY <1>1, <1>4, <1>8, <3>1, <3>3, <3>4, <3>5, <3>6 DEF Underway
  <2> QED BY <2>2, <2>3
<1>11. ASSUME NEW m \in DOMAIN wit', ~IsCall(m)' PROVE Settled(m)'
  BY <1>8, <1>11, KeepSettled
<1>12. ASSUME NEW m \in DOMAIN wit', Role(m)' = "phi" PROVE Active(m)' \/ Chosen(m, 2)'
  <2>1. m \in DOMAIN wit
    BY <1>8, <1>12, NodeCases DEF CallCase
  <2>2. Active(m) \/ Chosen(m, 2)
    BY <1>8, <1>12, <2>1 DEF Work
  <2>3. CASE Active(m)
    BY <1>7, <2>3
  <2>4. CASE ~Active(m)
    <3>1. m \notin {c}
      BY <1>2, <2>4 DEF Active
    <3> QED BY <1>8, <1>12, <2>1, <2>2, <2>4, <3>1, KeepChosen
  <2> QED BY <2>3, <2>4
<1>13. Work'
  <2>1. calls' \in Seq([node : complete', at : Nat])
    BY <1>1, <1>5 DEF S
  <2>2. \A m \in complete' : Role(m)' = "phi" =>
          \A j, k \in DOMAIN calls' : calls'[j].node = m /\ calls'[k].node = m => j = k
    BY <1>1, <1>5, <1>6, <1>8 DEF Work
  <2> QED BY <1>1, <1>10, <1>11, <1>12, <2>1, <2>2 DEF Work
<1> QED BY <1>7, <1>13

\* The innermost call returns.
LEMMA ReturnWork ==
  ASSUME Stands, Work, NEW c, calls # <<>>, c = Caller, Pending = <<>>, calls' = Tail(calls),
         Grown({}), DOMAIN operands' \subseteq DOMAIN wit', DOMAIN wit' \subseteq complete,
         \A n \in DOMAIN wit' : n \in DOMAIN wit \/ (n = c /\ Role(n) # "phi"),
         c \in DOMAIN wit' /\ ~IsCall(c) => Settled(c)'
  PROVE  Work' /\ \A m : Active(m) => Active(m)' \/ m = c
<1> DEFINE S == [node : complete, at : Nat]
<1>1. /\ UNCHANGED graph /\ reqs' = reqs /\ prog' = prog /\ complete' = complete
      /\ vec' = vec /\ DOMAIN wit \subseteq DOMAIN wit'
  BY DEF Grown, graph, program
<1>2. /\ calls \in Seq(S) /\ 1 \in DOMAIN calls /\ calls[1] \in S
      /\ c \in complete /\ Underway(calls[1]) /\ calls[1].node = c
      /\ calls[1].at = Len(reqs[c]) + 1
  BY PendingFacts DEF Work, Caller
<1> HIDE DEF S
<1>3. /\ calls' \in Seq(S)
      /\ \A k \in DOMAIN calls' : /\ k + 1 \in DOMAIN calls /\ k + 1 # 1
                                  /\ calls'[k] = calls[k + 1]
      /\ \A k \in DOMAIN calls : k # 1 => \E j \in DOMAIN calls' : calls'[j] = calls[k]
      /\ \A j, k \in DOMAIN calls' : j + 1 = k + 1 => j = k
  BY <1>2, WithoutFirst
<1>4. ASSUME NEW m, Active(m), m # c PROVE Active(m)'
  <2>1. PICK k \in DOMAIN calls : calls[k].node = m
    BY <1>4 DEF Active
  <2>2. k # 1
    BY <1>2, <1>4, <2>1
  <2> QED BY <1>3, <2>1, <2>2 DEF Active
<1>5. \A m : Role(m)' = Role(m) /\ IsCall(m)' = IsCall(m) /\ Instrumentee(m)' = Instrumentee(m)
  BY <1>1, SameNodes
<1>6. ASSUME NEW h \in Range(calls') PROVE Underway(h)'
  <2>1. h \in Range(calls)
    BY <1>3 DEF Range
  <2>2. Underway(h) /\ h \in S
    BY <1>2, <2>1, LenProperties, ElementOfSeq DEF Work, Range
  <2> QED BY <2>2, KeepUnderway DEF S
<1>7. ASSUME NEW m \in DOMAIN wit', ~IsCall(m)' PROVE Settled(m)'
  BY <1>5, <1>7, KeepSettled
<1>8. ASSUME NEW m \in DOMAIN wit', Role(m)' = "phi" PROVE Active(m)' \/ Chosen(m, 2)'
  <2>1. m \in DOMAIN wit
    BY <1>5, <1>8
  <2>2. Active(m) \/ Chosen(m, 2)
    BY <1>5, <1>8, <2>1 DEF Work
  <2>3. m = c => Chosen(m, 2)
    <3> SUFFICES ASSUME m = c PROVE Chosen(c, 2)
      OBVIOUS
    <3>1. Len(reqs[c]) = 2
      BY <1>2, <1>5, <1>8, NodeCases DEF SourceCase, CallCase, PhiCase, PairCase, SharedCase
    <3>2. calls[1].at - 1 = 2
      BY <1>2, <3>1
    <3> QED BY <1>2, <1>5, <1>8, <3>2 DEF Underway
  <2>4. CASE Chosen(m, 2)
    BY <1>5, <1>8, <2>1, <2>4, KeepChosen
  <2> QED BY <1>4, <2>2, <2>3, <2>4
<1>9. Work'
  <2>1. calls' \in Seq([node : complete', at : Nat])
    BY <1>1, <1>3 DEF S
  <2>2. \A m \in complete' : Role(m)' = "phi" =>
          \A j, k \in DOMAIN calls' : calls'[j].node = m /\ calls'[k].node = m => j = k
    <3> SUFFICES ASSUME NEW m \in complete, Role(m) = "phi",
                        NEW j \in DOMAIN calls', NEW k \in DOMAIN calls',
                        calls'[j].node = m, calls'[k].node = m
                 PROVE  j = k
      BY <1>1, <1>5
    <3>2. /\ j + 1 \in DOMAIN calls /\ calls[j + 1].node = m
          /\ k + 1 \in DOMAIN calls /\ calls[k + 1].node = m
      BY <1>3
    <3>3. \A i, l \in DOMAIN calls : calls[i].node = m /\ calls[l].node = m => i = l
      BY DEF Work
    <3>1. j + 1 = k + 1
      BY <3>2, <3>3
    <3> QED BY <1>3, <3>1
  <2> QED BY <1>1, <1>6, <1>7, <1>8, <2>1, <2>2 DEF Work
<1> QED BY <1>4, <1>9

\* What one step must do for the targets as well.
LEMMA CreationKeeps ==
  ASSUME Stands, Creation, NEW X, Grown(X), Work', asked' = asked,
         \A k \in 1 .. Len(vec) : Active(External(k)) =>
           Active(External(k))' \/ TargetServed(k)'
  PROVE  Stands' /\ Creation'
<1>1. vec' = vec /\ UNCHANGED graph
  BY DEF Grown, graph, program
<1>2. Stands'
  BY <1>1, SameNodes
<1>3. Len(vec) \in Nat
  BY TargetFacts DEF Stands
<1>4. ASSUME NEW k \in 1 .. asked - 1
      PROVE  Active(External(k))' \/ TargetServed(k)'
  <2>1. k \in 1 .. Len(vec)
    BY <1>3 DEF Creation
  <2>2. Active(External(k)) \/ TargetServed(k)
    BY DEF Creation
  <2>3. CASE TargetServed(k)
    BY <2>1, <2>3, KeepServed DEF Creation
  <2> QED BY <2>1, <2>2, <2>3
<1> QED BY <1>1, <1>2, <1>4 DEF Creation

\* Nothing about witnesses changes.
LEMMA SameCreation ==
  ASSUME Stands, Creation, UNCHANGED <<graph, creation>>
  PROVE  Stands' /\ Creation'
<1>1. UNCHANGED graph /\ wit' = wit /\ operands' = operands /\ calls' = calls /\ asked' = asked
  BY DEF creation
<1>2. Grown({})
  <2>1. \A n : Operands(n)' = Operands(n)
    BY <1>1 DEF Operands
  <2>2. \A n \in DOMAIN wit : \A i : Given(n, i) => i \in DOMAIN wit'[n]
    BY <1>1 DEF Given
  <2> QED BY <1>1, <2>1, <2>2 DEF Grown
<1>3. complete' = complete /\ reqs' = reqs
  BY <1>1 DEF graph
<1>4. \A m : Role(m)' = Role(m) /\ IsCall(m)' = IsCall(m)
  BY <1>1, SameNodes
<1>5. Work
  BY DEF Creation
<1>6. ASSUME NEW n \in DOMAIN wit, ~IsCall(n) PROVE Settled(n)'
  BY <1>2, <1>5, <1>6, KeepSettled
<1>7. \A n : Active(n)' = Active(n)
  BY <1>1 DEF Active
<1>8. ASSUME NEW n \in DOMAIN wit, Role(n) = "phi" PROVE Active(n)' \/ Chosen(n, 2)'
  <2>1. Active(n) \/ Chosen(n, 2)
    BY <1>5, <1>8 DEF Work
  <2>2. CASE Chosen(n, 2)
    BY <1>2, <1>5, <1>8, <2>2, KeepChosen
  <2> QED BY <1>7, <2>1, <2>2
<1>9. ASSUME NEW f \in Range(calls) PROVE Underway(f)'
  <2> DEFINE S == [node : complete, at : Nat]
  <2>1. calls \in Seq(S) /\ Underway(f)
    BY <1>5 DEF Work
  <2> HIDE DEF S
  <2>2. f \in S
    BY <2>1, LenProperties, ElementOfSeq DEF Range
  <2> QED BY <1>2, <1>5, <2>1, <2>2, KeepUnderway DEF S
<1>10. Work'
  BY <1>1, <1>3, <1>4, <1>5, <1>6, <1>8, <1>9 DEF Work
<1> QED BY <1>1, <1>2, <1>7, <1>10, CreationKeeps

LEMMA CreateForTargetKeeps ==
  ASSUME Stands, Creation, CreateForTarget
  PROVE  Stands' /\ Creation'
<1> DEFINE n == External(asked)
<1>1. /\ asked <= Len(vec) /\ EnterCreate(n) /\ asked' = asked + 1
      /\ UNCHANGED <<vars, operands>> /\ Work /\ asked \in 1 .. Len(vec) + 1
  BY DEF CreateForTarget, Creation
<1>2. Len(vec) \in Nat
  BY TargetFacts DEF Stands
<1>3. asked \in 1 .. Len(vec) /\ asked \in Nat
  BY <1>1, <1>2
<1>4. n \in complete /\ n \notin Inner \cup Ends
  BY <1>3, VertexFacts DEF Stands, Outer
<1>5. Role(n) \notin {"source", "phi"}
  BY <1>4, NodeCases DEF SourceCase, CallCase, PhiCase, PairCase, SharedCase
<1> HIDE DEF n
<1>6. PICK m : m = n
  OBVIOUS
<1>7. /\ Work' /\ Grown({}) /\ Active(m)'
      /\ \A l : Active(l) => Active(l)'
  BY <1>1, <1>4, <1>5, <1>6, EnterWork
<1>8. ASSUME NEW k \in 1 .. asked
      PROVE  Active(External(k))' \/ TargetServed(k)'
  <2>1. CASE k = asked
    <3>1. External(k) = m
      BY <1>6, <2>1 DEF n
    <3> QED BY <1>7, <3>1
  <2>2. CASE k # asked
    <3>1. k \in 1 .. asked - 1 /\ k \in 1 .. Len(vec)
      BY <1>2, <1>3, <2>2
    <3>2. Active(External(k)) \/ TargetServed(k)
      BY <3>1 DEF Creation
    <3> QED BY <1>1, <1>7, <3>1, <3>2, KeepServed
  <2> QED BY <2>1, <2>2
<1>9. UNCHANGED graph /\ vec' = vec
  BY <1>1 DEF vars, graph, program
<1>10. asked' \in 1 .. Len(vec) + 1 /\ asked' - 1 = asked
  BY <1>1, <1>2, <1>3
<1> QED BY <1>7, <1>8, <1>9, <1>10, SameNodes DEF Creation

LEMMA CreateRequiredKeeps ==
  ASSUME Stands, Creation, CreateRequired
  PROVE  Stands' /\ Creation'
<1>1. /\ Pending # <<>> /\ ~HasWitnesses(Pending[1]) /\ EnterCreate(Pending[1])
      /\ UNCHANGED <<vars, operands, asked>> /\ Work /\ calls # <<>>
  BY DEF CreateRequired, Creation, Pending
<1>2. PICK m : m = Pending[1]
  OBVIOUS
<1>3. /\ m \in complete /\ m \in Inner \cup Ends
      /\ m \in Ends => prog[m.val].op # "phi"
  BY <1>1, <1>2, PendingFacts, RequiredNodes
<1>4. Role(m) = "source" => m \in Ends
  BY <1>3, NodeCases DEF SourceCase, CallCase, PhiCase, PairCase, SharedCase
<1>5. Work' /\ Grown({}) /\ \A l : Active(l) => Active(l)'
  BY <1>1, <1>2, <1>3, <1>4, EnterWork DEF HasWitnesses
<1> QED BY <1>1, <1>5, CreationKeeps

LEMMA AddIncomingKeeps ==
  ASSUME Stands, Creation, AddIncoming
  PROVE  Stands' /\ Creation'
<1> PICK c : c = Caller
  OBVIOUS
<1> PICK m : m = Pending[1]
  OBVIOUS
<1> PICK at : at = calls[1].at
  OBVIOUS
<1> DEFINE incoming == [wit |-> Single(m), from |-> prog[c.val].from[at]]
           I == [wit : complete, from : Block]
<1>1. /\ Pending # <<>> /\ calls # <<>> /\ HasWitnesses(Pending[1]) /\ Role(c) = "phi"
      /\ operands' = Update(operands, c, Append(Operands(c), incoming))
      /\ calls' = [calls EXCEPT ![1].at = @ + 1]
      /\ UNCHANGED <<vars, wit, asked>> /\ Work
  BY DEF AddIncoming, Creation, Pending
<1>2. /\ c \in complete /\ at \in 1 .. Len(reqs[c]) /\ m = reqs[c][at]
      /\ Underway(calls[1]) /\ calls[1].node = c
  BY <1>1, PendingFacts DEF Caller
<1>3. /\ PhiCase(c) /\ c.val \in Value /\ prog[c.val].op = "phi" /\ Len(reqs[c]) = 2
      /\ prog \in Programs
  BY <1>1, <1>2, NodeCases, ProgramFacts
  DEF SourceCase, CallCase, PhiCase, PairCase, SharedCase, Stands
<1>4. prog[c.val].from[at] \in Block
  BY <1>2, <1>3, ProgramFacts
<1>5. c \in DOMAIN wit /\ Chosen(c, at - 1)
  BY <1>1, <1>2 DEF Underway
<1>6. m \in DOMAIN wit /\ ~IsCall(m)
  BY <1>1, <1>2, RequiredNodes DEF HasWitnesses
<1>7. Single(m) \in complete
  BY <1>1, <1>6 DEF Work, Settled, Witness
<1>8. UNCHANGED graph /\ reqs' = reqs /\ prog' = prog /\ complete' = complete /\ wit' = wit
  BY <1>1 DEF vars, graph, program
<1>9. /\ DOMAIN operands' = DOMAIN operands \cup {c}
      /\ operands'[c] = Append(Operands(c), incoming)
      /\ \A n \in DOMAIN operands : n # c => operands'[n] = operands[n]
  <2> HIDE DEF incoming
  <2> QED BY <1>1 DEF Update
<1>10. Operands(c)' = Append(Operands(c), incoming)
  BY <1>9 DEF Operands
<1>11. \A n : n # c => Operands(n)' = Operands(n)
  BY <1>9 DEF Operands
<1>12. Grown({c})
  <2>1. \A n \in DOMAIN wit : Role(n) = "pair" => operands'[n] = operands[n]
    <3> SUFFICES ASSUME NEW n \in DOMAIN wit, Role(n) = "pair"
                 PROVE  operands'[n] = operands[n]
      OBVIOUS
    <3>1. n \in complete /\ n # c
      BY <1>1 DEF Work
    <3>2. ~IsCall(n)
      BY <3>1, NodeCases DEF CallCase
    <3>3. n \in DOMAIN operands
      BY <1>1, <3>2 DEF Work, Settled
    <3> QED BY <1>9, <3>1, <3>3
  <2> QED BY <1>8, <1>9, <1>11, <2>1 DEF Grown, Given
<1>13. Chosen(c, at)'
  <2>1. incoming \in I
    BY <1>4, <1>7
  <2>2. Operands(c) \in Seq(I) /\ Len(Operands(c)) = at - 1
          /\ \A i \in 1 .. at - 1 :
               /\ reqs[c][i] \in DOMAIN wit
               /\ Operands(c)[i] = [wit |-> Single(reqs[c][i]), from |-> prog[c.val].from[i]]
    BY <1>5 DEF Chosen
  <2> DEFINE l == Append(Operands(c), incoming)
  <2>3. /\ l \in Seq(I) /\ Len(l) = at - 1 + 1
        /\ \A i \in 1 .. at - 1 : l[i] = Operands(c)[i]
        /\ l[at] = incoming
    <3> HIDE DEF incoming, I
    <3>1. at - 1 + 1 = at BY <1>2
    <3>2. /\ l \in Seq(I) /\ Len(l) = Len(Operands(c)) + 1
          /\ \A i \in 1 .. Len(Operands(c)) : l[i] = Operands(c)[i]
          /\ l[Len(Operands(c)) + 1] = incoming
      BY <2>1, <2>2, AppendProperties
    <3> QED BY <2>2, <3>1, <3>2
  <2> HIDE DEF l
  <2>4. ASSUME NEW i \in 1 .. at
        PROVE  /\ reqs[c][i] \in DOMAIN wit
               /\ l[i] = [wit |-> Single(reqs[c][i]), from |-> prog[c.val].from[i]]
    <3>1. CASE i = at
      BY <1>2, <1>6, <2>3, <3>1
    <3>2. CASE i # at
      <4>1. i \in 1 .. at - 1 BY <1>2, <3>2
      <4> QED BY <2>2, <2>3, <4>1
    <3> QED BY <3>1, <3>2
  <2>5. \A n : Single(n)' = Single(n)
    BY <1>8 DEF Single
  <2>6. Operands(c)' = l /\ at - 1 + 1 = at
    BY <1>2, <1>10 DEF l
  <2> QED BY <1>8, <2>3, <2>4, <2>5, <2>6 DEF Chosen
<1>14. DOMAIN operands' \subseteq DOMAIN wit' /\ DOMAIN wit' \subseteq complete
  BY <1>1, <1>5, <1>8, <1>9 DEF Work
<1>15. Work' /\ \A l : Active(l) => Active(l)'
  BY <1>1, <1>8, <1>12, <1>13, <1>14, AdvanceWork
<1> QED BY <1>1, <1>12, <1>15, CreationKeeps

\* A call invariant takes one witness for all arguments that have the
\* instrumentee; they require the same node.
LEMMA AddArgumentKeeps ==
  ASSUME Stands, Creation, AddArgument
  PROVE  Stands' /\ Creation'
<1> PICK c : c = Caller
  OBVIOUS
<1> PICK m : m = Pending[1]
  OBVIOUS
<1> PICK at : at = calls[1].at
  OBVIOUS
<1> DEFINE args == vec[c.val].args
           same == {i \in DOMAIN args : args[i] = m.val}
           known == IF c \in DOMAIN wit THEN wit[c] ELSE <<>>
           map == [i \in same \cup DOMAIN known |-> IF i \in same THEN Single(m) ELSE known[i]]
<1>1. /\ Pending # <<>> /\ calls # <<>> /\ HasWitnesses(Pending[1]) /\ Role(c) = "call"
      /\ wit' = Update(wit, c, map)
      /\ calls' = [calls EXCEPT ![1].at = @ + 1]
      /\ UNCHANGED <<vars, operands, asked>> /\ Work
  BY DEF AddArgument, Creation, Pending, SetWitnesses, HasWitnesses
<1>2. /\ c \in complete /\ at \in 1 .. Len(reqs[c]) /\ m = reqs[c][at]
      /\ Underway(calls[1]) /\ calls[1].node = c
  BY <1>1, PendingFacts DEF Caller
<1>3. CallCase(c) /\ IsCall(c) /\ Len(reqs[c]) = 2 /\ at \in 1 .. 2 /\ prog \in Programs
  <2>1. CallCase(c)
    BY <1>1, <1>2, NodeCases, ProgramFacts
    DEF SourceCase, CallCase, PhiCase, PairCase, SharedCase, Stands
  <2> QED BY <1>2, <2>1 DEF CallCase, Stands
<1>4. /\ DOMAIN args = 1 .. 2
      /\ \A i \in 1 .. 2 : reqs[c][i] = Internal(args[i], TargetLoc(c.val))
  BY <1>3 DEF CallCase
<1>5. m.val = args[at] /\ at \in same
  BY <1>2, <1>3, <1>4 DEF Internal
<1>6. m \in DOMAIN wit /\ ~IsCall(m) /\ m # c
  BY <1>1, <1>2, <1>3, RequiredNodes DEF HasWitnesses
<1>7. UNCHANGED graph /\ reqs' = reqs /\ prog' = prog /\ complete' = complete /\ operands' = operands
  BY <1>1 DEF vars, graph, program
<1> HIDE DEF map
<1>8. /\ DOMAIN wit' = DOMAIN wit \cup {c} /\ wit'[c] = map
      /\ \A n \in DOMAIN wit : n # c => wit'[n] = wit[n]
  BY <1>1 DEF Update
<1>9. /\ DOMAIN map = same \cup DOMAIN known
      /\ \A i \in same : map[i] = Single(m)
      /\ \A i \in DOMAIN known : i \notin same => map[i] = known[i]
  BY DEF map
<1>10. ASSUME NEW i, Given(c, i) PROVE i \in DOMAIN map /\ map[i] = wit[c][i]
  <2>1. c \in DOMAIN wit /\ i \in DOMAIN wit[c] /\ wit[c][i] = Single(reqs[c][i])
    BY <1>10 DEF Given
  <2>2. CASE i \in same
    <3>1. i \in 1 .. 2 /\ args[i] = args[at]
      BY <1>4, <1>5, <2>2
    <3>2. reqs[c][i] = m
      BY <1>2, <1>3, <1>4, <3>1
    <3> QED BY <1>9, <2>1, <2>2, <3>2
  <2>3. CASE i \notin same
    BY <1>9, <2>1, <2>3
  <2> QED BY <2>2, <2>3
<1>11. \A n : Operands(n)' = Operands(n)
  BY <1>7 DEF Operands
<1>12. Grown({c})
  <2>1. \A n \in DOMAIN wit : \A i : Given(n, i) => i \in DOMAIN wit'[n] /\ wit'[n][i] = wit[n][i]
    <3> SUFFICES ASSUME NEW n \in DOMAIN wit, NEW i, Given(n, i)
                 PROVE  i \in DOMAIN wit'[n] /\ wit'[n][i] = wit[n][i]
      OBVIOUS
    <3>1. CASE n = c
      BY <1>8, <1>10, <3>1
    <3>2. CASE n # c
      BY <1>8, <3>2 DEF Given
    <3> QED BY <3>1, <3>2
  <2>2. \A n \in DOMAIN wit : ~IsCall(n) => wit'[n] = wit[n]
    BY <1>3, <1>8
  <2> QED BY <1>7, <1>8, <1>11, <2>1, <2>2 DEF Grown
<1>13. Given(c, at)'
  <2>1. wit'[m] = wit[m] /\ m \in DOMAIN wit'
    BY <1>6, <1>8
  <2>2. Single(m)' = Single(m)
    BY <2>1 DEF Single
  <2>3. at \in DOMAIN wit'[c] /\ wit'[c][at] = Single(m)'
    BY <1>5, <1>8, <1>9, <2>2
  <2>4. reqs'[c][at] = m
    BY <1>2, <1>7
  <2> QED BY <1>8, <2>1, <2>3, <2>4 DEF Given
<1>14. DOMAIN operands' \subseteq DOMAIN wit' /\ DOMAIN wit' \subseteq complete
  BY <1>1, <1>2, <1>7, <1>8 DEF Work
<1>15. \A n \in DOMAIN wit' : n \in DOMAIN wit \/ IsCall(n)
  BY <1>3, <1>8
<1>16. Work' /\ \A l : Active(l) => Active(l)'
  BY <1>1, <1>12, <1>13, <1>14, <1>15, AdvanceWork
<1> QED BY <1>1, <1>12, <1>16, CreationKeeps

\* Nothing but the position of the innermost call changes.
LEMMA TakeWitnessKeeps ==
  ASSUME Stands, Creation, TakeWitness
  PROVE  Stands' /\ Creation'
<1> PICK c : c = Caller
  OBVIOUS
<1>1. /\ Pending # <<>> /\ calls # <<>> /\ HasWitnesses(Pending[1])
      /\ Role(c) # "phi" /\ Role(c) # "call"
      /\ calls' = [calls EXCEPT ![1].at = @ + 1]
      /\ UNCHANGED <<vars, wit, operands, asked>> /\ Work
  BY DEF TakeWitness, Creation, Pending
<1>2. UNCHANGED graph
  BY <1>1 DEF vars, graph, program
<1>3. Grown({c})
  <2>1. \A n : Operands(n)' = Operands(n)
    BY <1>1 DEF Operands
  <2>2. \A n \in DOMAIN wit : \A i : Given(n, i) => i \in DOMAIN wit'[n]
    BY <1>1 DEF Given
  <2> QED BY <1>1, <1>2, <2>1, <2>2 DEF Grown
<1>4. DOMAIN operands' \subseteq DOMAIN wit' /\ DOMAIN wit' \subseteq complete
  BY <1>1 DEF Work
<1>5. Work' /\ \A l : Active(l) => Active(l)'
  BY <1>1, <1>3, <1>4, AdvanceWork
<1> QED BY <1>1, <1>3, <1>5, CreationKeeps

\* A call that returns with a witness for a node that may have one by now: the
\* recursion can reach a select again through the phi of a loop.
LEMMA ReturnKeeps ==
  ASSUME Stands, Creation, NEW c, calls # <<>>, c = Caller, Pending = <<>>, ~IsCall(c),
         Role(c) # "phi", calls' = Tail(calls), UNCHANGED <<vars, asked>>,
         DOMAIN wit' = DOMAIN wit \cup {c}, Settled(c)',
         \A n \in DOMAIN wit : wit'[n] = wit[n],
         DOMAIN operands \subseteq DOMAIN operands',
         DOMAIN operands' \subseteq DOMAIN operands \cup {c},
         \A n \in DOMAIN operands : operands'[n] = operands[n]
  PROVE  Stands' /\ Creation'
<1>1. /\ Work /\ c \in complete /\ UNCHANGED graph
      /\ DOMAIN operands \subseteq DOMAIN wit /\ DOMAIN wit \subseteq complete
  BY PendingFacts DEF Creation, Work, vars, graph, program
<1>2. Grown({})
  <2>1. ASSUME NEW n \in DOMAIN wit, Role(n) = "pair"
        PROVE  operands'[n] = operands[n]
    <3>1. n \in DOMAIN operands
      BY <1>1, <2>1, NodeCases DEF Work, Settled, CallCase
    <3> QED BY <3>1
  <2>2. ASSUME NEW n \in DOMAIN wit, Role(n) = "phi"
        PROVE  Operands(n)' = Operands(n)
    <3>1. n # c
      BY <2>2
    <3> QED BY <3>1 DEF Operands
  <2>3. \A n \in DOMAIN wit : \A i : Given(n, i) => i \in DOMAIN wit'[n]
    BY DEF Given
  <2> QED BY <1>1, <2>1, <2>2, <2>3 DEF Grown
<1>3. Work' /\ \A l : Active(l) => Active(l)' \/ l = c
  BY <1>1, <1>2, ReturnWork
<1>4. ASSUME NEW k \in 1 .. Len(vec), c = External(k)
      PROVE  TargetServed(k)'
  <2>1. k \in Nat /\ vec' = vec
    BY TargetFacts DEF vars, Stands
  <2>2. vec[k].kind # "call"
    BY <1>4, <2>1, InstrumenteeFacts
  <2> QED BY <1>4, <2>1, <2>2 DEF TargetServed
<1> QED BY <1>2, <1>3, <1>4, CreationKeeps

LEMMA ShareKeeps ==
  ASSUME Stands, Creation, Share
  PROVE  Stands' /\ Creation'
<1> PICK c : c = Caller
  OBVIOUS
<1> PICK m : m = reqs[c][1]
  OBVIOUS
<1>1. /\ calls # <<>> /\ Pending = <<>> /\ Role(c) = "shared" /\ calls' = Tail(calls)
      /\ UNCHANGED <<vars, asked, operands>> /\ Work
      /\ wit' = Update(wit, c, wit[m])
  BY DEF Share, Complete, Creation, SetWitnesses
<1>2. c \in complete /\ Underway(calls[1]) /\ calls[1].node = c /\ calls[1].at = Len(reqs[c]) + 1
  BY <1>1, PendingFacts DEF Caller
<1>3. SharedCase(c) /\ ~IsCall(c) /\ prog \in Programs
  BY <1>1, <1>2, NodeCases, ProgramFacts
  DEF SourceCase, CallCase, PhiCase, PairCase, SharedCase, Stands
<1>4. Len(reqs[c]) = 1 /\ m \in DOMAIN wit
  <2>1. Len(reqs[c]) = 1
    BY <1>3 DEF SharedCase
  <2>2. 1 \in 1 .. 2 - 1
    OBVIOUS
  <2> QED BY <1>2, <2>1, <2>2 DEF Underway
<1>5. ~IsCall(m) /\ Settled(m) /\ m \in Inner \cup Ends
  <2>1. 1 \in 1 .. Len(reqs[c])
    BY <1>4
  <2> QED BY <1>1, <1>2, <1>4, <2>1, RequiredNodes DEF Work
<1>6. UNCHANGED graph /\ reqs' = reqs /\ prog' = prog /\ complete' = complete /\ vec' = vec
  BY <1>1 DEF vars, graph, program
<1>7. /\ DOMAIN wit' = DOMAIN wit \cup {c} /\ wit'[c] = wit[m]
      /\ \A n \in DOMAIN wit : wit'[n] = wit[n]
  <2>1. c \in DOMAIN wit => wit[c] = wit[m]
    BY <1>1, <1>3, <1>5 DEF Work, Settled
  <2> QED BY <1>1, <2>1 DEF Update
<1>8. Settled(c)'
  <2>1. Single(c)' = Single(m) /\ Single(m)' = Single(m) /\ wit'[c] = <<Single(m)>>
    BY <1>4, <1>5, <1>7 DEF Single, Settled
  <2>2. \A n : Role(n)' = Role(n) /\ Instrumentee(n)' = Instrumentee(n)
    BY <1>6, SameNodes
  <2>3. Places' = Places
    BY <1>6, SameNodes
  <2>4. Instrumentee(Single(c))' = Instrumentee(Single(m))
    BY <1>6, <2>1 DEF Instrumentee
  <2>5. Instrumentee(m) \in Value /\ Instrumentee(c) \in Value
    BY <1>3, <1>5, InstrumenteeFacts DEF SharedCase
  <2>6. /\ Instrumentee(m) <= Instrumentee(c)
        /\ \A p \in Places : <<p[Instrumentee(m)], p[Instrumentee(c)]>> \in Dominates
    <3>1. CASE Instrumentee(m) = Instrumentee(c)
      <4>1. \A p \in Places : p[Instrumentee(c)] \in Block
        BY <2>5 DEF Places
      <4> QED BY <2>5, <3>1, <4>1, DominanceOrder, NAssumption DEF NAssumption, Value
    <3>2. CASE /\ prog[Instrumentee(c)].op = "copy"
               /\ Instrumentee(m) = prog[Instrumentee(c)].args[1]
      <4>1. 1 \in DOMAIN prog[Instrumentee(c)].args
        BY <1>3, <2>5, <3>2, ProgramFacts
      <4>2. Instrumentee(m) < Instrumentee(c)
              /\ \A p \in Places : <<p[Instrumentee(m)], p[Instrumentee(c)]>> \in Dominates
        BY <1>3, <2>5, <3>2, <4>1, UsesDominate
      <4> QED BY <2>5, <4>2, NAssumption DEF NAssumption, Value
    <3> QED BY <1>3, <3>1, <3>2 DEF SharedCase
  <2>7. /\ Single(m) \in Witness /\ Instrumentee(Single(m)) <= Instrumentee(m)
        /\ \A p \in Places : <<p[Instrumentee(Single(m))], p[Instrumentee(m)]>> \in Dominates
    BY <1>5 DEF Settled
  <2>8. Single(m) \in Witness'
    BY <1>7, <2>2, <2>7 DEF Witness
  <2>9. Instrumentee(Single(m)) \in Int
    <3>1. Single(m) \in complete /\ ~CallCase(Single(m))
      BY <1>1, <2>7, ProgramFacts DEF Witness, Work, CallCase
    <3> QED BY <3>1, NodeCases, NAssumption
          DEF SourceCase, PhiCase, PairCase, SharedCase, NAssumption, Value
  <2>10. /\ Instrumentee(Single(m)) <= Instrumentee(c)
         /\ \A p \in Places : <<p[Instrumentee(Single(m))], p[Instrumentee(c)]>> \in Dominates
    <3>1. \A p \in Places : <<p[Instrumentee(Single(m))], p[Instrumentee(c)]>> \in Dominates
      BY <2>6, <2>7, DominanceOrder
    <3>2. Instrumentee(Single(m)) <= Instrumentee(c)
      BY <2>5, <2>6, <2>7, <2>9, NAssumption DEF NAssumption, Value
    <3> QED BY <3>1, <3>2
  <2> QED BY <1>1, <1>4, <1>6, <1>7, <2>1, <2>2, <2>3, <2>4, <2>8, <2>10 DEF Settled
<1>9. /\ DOMAIN operands' = DOMAIN operands
      /\ \A n \in DOMAIN operands : operands'[n] = operands[n]
  BY <1>1
<1> QED BY <1>1, <1>3, <1>7, <1>8, <1>9, ReturnKeeps

LEMMA CombineKeeps ==
  ASSUME Stands, Creation, Combine
  PROVE  Stands' /\ Creation'
<1> PICK c : c = Caller
  OBVIOUS
<1> DEFINE chosen == [i \in 1 .. 2 |-> Single(reqs[c][i])]
<1>1. /\ calls # <<>> /\ Pending = <<>> /\ Role(c) = "pair" /\ calls' = Tail(calls)
      /\ UNCHANGED <<vars, asked>> /\ Work
      /\ wit' = Update(wit, c, <<c>>) /\ operands' = Update(operands, c, chosen)
  BY DEF Combine, Complete, Creation, SetWitnesses
<1>2. c \in complete /\ Underway(calls[1]) /\ calls[1].node = c /\ calls[1].at = Len(reqs[c]) + 1
  BY <1>1, PendingFacts DEF Caller
<1>3. PairCase(c) /\ ~IsCall(c) /\ prog \in Programs
  BY <1>1, <1>2, NodeCases, ProgramFacts
  DEF SourceCase, CallCase, PhiCase, PairCase, SharedCase, Stands
<1>4. Len(reqs[c]) = 2 /\ \A i \in 1 .. 2 : reqs[c][i] \in DOMAIN wit /\ ~IsCall(reqs[c][i])
  <2>1. Len(reqs[c]) = 2 /\ \A i \in 1 .. 2 : ~IsCall(reqs[c][i])
    BY <1>2, <1>3, RequiredNodes DEF PairCase
  <2>2. 3 - 1 = 2 /\ 2 + 1 = 3
    OBVIOUS
  <2> QED BY <1>2, <2>1, <2>2 DEF Underway
<1>5. UNCHANGED graph /\ reqs' = reqs /\ prog' = prog /\ complete' = complete /\ vec' = vec
  BY <1>1 DEF vars, graph, program
<1>6. c \in DOMAIN wit =>
        wit[c] = <<c>> /\ c \in DOMAIN operands /\ operands[c] = chosen
  <2> SUFFICES ASSUME c \in DOMAIN wit
               PROVE  wit[c] = <<c>> /\ c \in DOMAIN operands /\ operands[c] = chosen
    OBVIOUS
  <2>1. Settled(c)
    BY <1>1, <1>3 DEF Work
  <2> QED BY <1>1, <2>1 DEF Settled
<1>7. /\ DOMAIN wit' = DOMAIN wit \cup {c} /\ wit'[c] = <<c>>
      /\ \A n \in DOMAIN wit : wit'[n] = wit[n]
  BY <1>1, <1>6 DEF Update
<1>8. /\ DOMAIN operands' = DOMAIN operands \cup {c} /\ operands'[c] = chosen
      /\ \A n \in DOMAIN operands : operands'[n] = operands[n]
  <2>1. c \in DOMAIN operands => operands[c] = chosen
    BY <1>1, <1>6 DEF Work
  <2> HIDE DEF chosen
  <2> QED BY <1>1, <2>1 DEF Update
<1>9. Settled(c)'
  <2>1. \A n : Role(n)' = Role(n) /\ Instrumentee(n)' = Instrumentee(n)
    BY <1>5, SameNodes
  <2>2. Single(c)' = c /\ Places' = Places
    BY <1>5, <1>7, SameNodes DEF Single
  <2>3. c \in Witness'
    BY <1>1, <1>7, <2>1 DEF Witness
  <2>4. Instrumentee(c) \in Value
    BY <1>3 DEF PairCase
  <2>5. \A p \in Places : <<p[Instrumentee(c)], p[Instrumentee(c)]>> \in Dominates
    BY <2>4, DominanceOrder DEF Places
  <2>6. Instrumentee(c) <= Instrumentee(c)
    BY <2>4, NAssumption DEF NAssumption, Value
  <2>7. \A i \in 1 .. 2 : Single(reqs[c][i])' = Single(reqs[c][i])
    BY <1>4, <1>5, <1>7 DEF Single
  <2>8. operands'[c] = [i \in 1 .. 2 |-> Single(reqs[c][i])']
    BY <1>8, <2>7
  <2>9. Instrumentee(Single(c))' = Instrumentee(c)
    BY <1>5, <2>2 DEF Instrumentee
  <2>10. \A i \in 1 .. 2 : reqs[c][i] \in DOMAIN wit'
    BY <1>4, <1>7
  <2> QED BY <1>1, <1>5, <1>7, <1>8, <2>1, <2>2, <2>3, <2>5, <2>6, <2>8, <2>9, <2>10 DEF Settled
<1> QED BY <1>1, <1>3, <1>7, <1>8, <1>9, ReturnKeeps

\* A phi or a call is done; its witnesses have been there all along.
LEMMA ReturnFromCreateKeeps ==
  ASSUME Stands, Creation, ReturnFromCreate
  PROVE  Stands' /\ Creation'
<1> PICK c : c = Caller
  OBVIOUS
<1>1. /\ calls # <<>> /\ Pending = <<>> /\ Role(c) \in {"phi", "call"} /\ calls' = Tail(calls)
      /\ UNCHANGED <<vars, asked, wit, operands>> /\ Work
  BY DEF ReturnFromCreate, Complete, Creation
<1>2. c \in complete /\ Underway(calls[1]) /\ calls[1].node = c /\ calls[1].at = Len(reqs[c]) + 1
  BY <1>1, PendingFacts DEF Caller
<1>3. UNCHANGED graph /\ reqs' = reqs /\ vec' = vec
  BY <1>1 DEF vars, graph, program
<1>4. Grown({})
  <2>1. \A n : Operands(n)' = Operands(n)
    BY <1>1 DEF Operands
  <2>2. \A n \in DOMAIN wit : \A i : Given(n, i) => i \in DOMAIN wit'[n]
    BY <1>1 DEF Given
  <2> QED BY <1>1, <1>3, <2>1, <2>2 DEF Grown
<1>5. c \in DOMAIN wit' /\ ~IsCall(c) => Settled(c)'
  BY <1>1, <1>4, KeepSettled DEF Work
<1>6. Work' /\ \A l : Active(l) => Active(l)' \/ l = c
  <2>1. DOMAIN operands' \subseteq DOMAIN wit' /\ DOMAIN wit' \subseteq complete
          /\ \A n \in DOMAIN wit' : n \in DOMAIN wit \/ (n = c /\ Role(n) # "phi")
    BY <1>1 DEF Work
  <2> QED BY <1>1, <1>4, <1>5, <2>1, ReturnWork
<1>7. ASSUME NEW k \in 1 .. Len(vec), c = External(k)
      PROVE  TargetServed(k)'
  <2>1. k \in Nat /\ prog \in Programs /\ c \notin Inner
    BY TargetFacts, InstrumenteeFacts, VertexFacts, <1>7 DEF Stands
  <2>2. CallCase(c)
    BY <1>1, <1>2, <2>1, NodeCases DEF SourceCase, CallCase, PhiCase, PairCase, SharedCase
  <2>3. vec[k].kind = "call" /\ Len(reqs[c]) = 2 /\ Role(c) = "call"
    BY <1>7, <2>1, <2>2, InstrumenteeFacts DEF CallCase
  <2>4. 1 .. 2 = 1 .. 2 + 1 - 1
    OBVIOUS
  <2>5. \A i \in 1 .. 2 : Given(c, i)
    BY <1>2, <2>3, <2>4 DEF Underway
  <2>6. \A i \in 1 .. 2 : Given(c, i)'
    BY <1>1, <1>3, <2>5 DEF Given, Single
  <2> QED BY <1>3, <1>7, <2>3, <2>6 DEF TargetServed
<1> QED BY <1>4, <1>6, <1>7, <1>1, CreationKeeps

-----------------------------------------------------------------------------
(* The function runs.                                                       *)

\* The block of a phi is not the entry; it has an argument for every block that
\* control can come from, which is there at the end of that block.
LEMMA PhiFacts ==
  ASSUME prog \in Programs, NEW p \in Places, NEW v \in Value, prog[v].op = "phi"
  PROVE  /\ \A b \in Block : p[v] \in Range(Succ[b]) => \E i \in 1 .. 2 : prog[v].from[i] = b
         /\ p[v] # EntryBlock
         /\ \A i \in 1 .. 2 : <<p[prog[v].args[i]], prog[v].from[i]>> \in Dominates
<1> DEFINE from == prog[v].from
           fromBlock(b) == {i \in DOMAIN from : from[i] = b}
<1>1. /\ FitsIn(prog[v], p, v) /\ DOMAIN from = 1 .. 2 /\ from \in [1 .. 2 -> Block]
      /\ DOMAIN prog[v].args = 1 .. 2 /\ p[v] \in Block
  BY ProgramFacts DEF Places
<1>2. /\ \A b \in Block : Cardinality(fromBlock(b)) = Cardinality(Edges(b, p[v]))
      /\ \A i \in 1 .. 2 : <<p[prog[v].args[i]], from[i]>> \in Dominates
  BY <1>1 DEF FitsIn
<1>6. \A n \in Nat : IsFiniteSet(1 .. n)
  BY FS_Interval
<1>3. \A b \in Block : /\ IsFiniteSet(fromBlock(b)) /\ IsFiniteSet(Edges(b, p[v]))
                       /\ fromBlock(b) = {} <=> Edges(b, p[v]) = {}
  <2> TAKE b \in Block
  <2>1. IsFiniteSet(1 .. 2) /\ fromBlock(b) \subseteq 1 .. 2
    BY <1>1, <1>6
  <2>2. IsFiniteSet(1 .. Len(Succ[b])) /\ Edges(b, p[v]) \subseteq 1 .. Len(Succ[b])
    BY <1>6, SuccFacts DEF Edges
  <2>3. IsFiniteSet(fromBlock(b)) /\ IsFiniteSet(Edges(b, p[v]))
    BY <2>1, <2>2, FS_Subset
  <2> QED BY <1>2, <2>3, FS_EmptySet
<1>4. ASSUME NEW b \in Block, p[v] \in Range(Succ[b])
      PROVE  \E i \in 1 .. 2 : from[i] = b
  <2>1. Edges(b, p[v]) # {}
    BY <1>4 DEF Edges, Range
  <2> QED BY <1>1, <1>3, <2>1
<1>5. p[v] # EntryBlock
  <2> SUFFICES ASSUME p[v] = EntryBlock PROVE FALSE
    OBVIOUS
  <2>1. fromBlock(from[1]) # {} /\ from[1] \in Block
    BY <1>1
  <2>2. Edges(from[1], p[v]) # {}
    BY <1>3, <2>1
  <2>3. EntryBlock \in Range(Succ[from[1]])
    BY <2>2 DEF Edges, Range
  <2> QED BY <2>1, <2>3, SuccFacts
<1> QED BY <1>2, <1>4, <1>5

\* A witness that was taken is that of its own node.
LEMMA WitnessFacts ==
  ASSUME Stands, Work, NEW n \in DOMAIN wit, ~IsCall(n)
  PROVE  LET w == Single(n) IN
         /\ Settled(n) /\ n \in complete /\ w \in Witness /\ w \in complete
         /\ Instrumentee(w) \in Value /\ Instrumentee(n) \in Value
         /\ Instrumentee(w) <= Instrumentee(n)
         /\ \A p \in Places : <<p[Instrumentee(w)], p[Instrumentee(n)]>> \in Dominates
<1> DEFINE w == Single(n)
<1>1. Settled(n) /\ n \in complete /\ w \in Witness
  BY DEF Work, Settled
<1>2. w \in complete /\ Role(w) \in {"source", "phi", "pair"}
  BY <1>1 DEF Witness, Work
<1>3. ~CallCase(n) /\ ~CallCase(w)
  BY <1>1, <1>2, NodeCases DEF CallCase
<1>4. Instrumentee(w) \in Value /\ Instrumentee(n) \in Value
  BY <1>1, <1>2, <1>3, NodeCases DEF SourceCase, PhiCase, PairCase, SharedCase
<1> QED BY <1>1, <1>2, <1>4 DEF Settled

LEMMA StartFunctionKeeps ==
  ASSUME Stands, Creation, cur = EntryBlock, executed = {}, StartFunction
  PROVE  Order' /\ Follows'
<1>1. /\ UNCHANGED <<graph, creation>> /\ cur' = EntryBlock /\ executed' = {}
      /\ val' = [v \in Value |-> Nothing] /\ place' \in Places
  BY DEF StartFunction, Places
<1>2. prog' = prog /\ wit' = wit /\ Places' = Places /\ prog \in Programs
  BY <1>1, SameNodes DEF graph, program, creation, Stands
<1>3. Phis(cur)' = {}
  BY <1>1, <1>2, PhiFacts DEF Phis
<1>4. Order'
  BY <1>1, <1>2, <1>3, LiveFacts DEF Order
<1>5. Follows'
  BY <1>1, DominanceEdges DEF Follows, Available
<1> QED BY <1>4, <1>5

\* Control goes from one block to the next.
LEMMA EnterBlockKeeps ==
  ASSUME Stands, Creation, calls = <<>>, Order, Follows, EnterBlock
  PROVE  Order' /\ Follows'
<1> PICK b \in Range(Succ[cur]) :
      /\ cur' = b /\ executed' = Phis(b)
      /\ val' = [v \in Value |-> IF v \in Phis(b) THEN val[Incoming(v, cur)] ELSE val[v]]
      /\ bounds' = [w \in Witness |->
                      IF Role(w) = "phi" /\ Instrumentee(w) \in Phis(b)
                        THEN bounds[IncomingWitness(w, cur)] ELSE bounds[w]]
  BY DEF EnterBlock
<1>1. /\ Waiting = {} /\ UNCHANGED <<vars, creation, place>> /\ Work
      /\ place \in Places /\ cur \in Live /\ prog \in Programs
  BY DEF EnterBlock, Order, Creation, Stands
<1>2. prog' = prog /\ wit' = wit /\ Places' = Places /\ place' = place /\ UNCHANGED graph
  <2>1. UNCHANGED graph
    BY <1>1 DEF vars, graph, program
  <2> QED BY <1>1, <2>1, SameNodes DEF vars, creation, program, graph
<1>3. \A n : /\ Role(n)' = Role(n) /\ IsCall(n)' = IsCall(n) /\ Instrumentee(n)' = Instrumentee(n)
             /\ Single(n)' = Single(n)
  BY <1>2, SameNodes DEF Single
<1>4. cur \in Block /\ b \in Block /\ b \in Live
  BY <1>1, LiveFacts
<1>5. \A v \in Value : place[v] = cur => v \in executed
  BY <1>1 DEF Waiting
<1>6. \A v \in Value : place[v] \in Block
  BY <1>1 DEF Places
<1>7. Order'
  <2>1. \A v \in Phis(b), w \in Value : place[w] = b /\ w <= v => w \in Phis(b)
    <3> SUFFICES ASSUME NEW v \in Phis(b), NEW w \in Value, place[w] = b, w <= v
                 PROVE  prog[w].op = "phi"
      BY DEF Phis
    <3>1. PhisAreFirst(prog, place) /\ v \in Value /\ place[v] = b /\ prog[v].op = "phi"
      BY <1>1 DEF Places, Phis
    <3>2. w \in 1 .. v
      BY <3>1, NAssumption DEF Value, NAssumption
    <3> QED BY <3>1, <3>2 DEF PhisAreFirst
  <2>2. Phis(cur)' = Phis(b)
    BY <1>2 DEF Phis
  <2>3. executed' \subseteq {v \in Value : place'[v] = cur'}
    BY <1>2 DEF Phis
  <2> QED BY <1>1, <1>2, <1>4, <2>1, <2>2, <2>3 DEF Order
<1>8. ASSUME NEW n \in DOMAIN wit, ~IsCall(n), Available(Instrumentee(n))'
      PROVE  bounds'[Single(n)] = val'[Instrumentee(n)]
  <2> DEFINE v == Instrumentee(n)
             w == Single(n)
  <2>1. /\ Settled(n) /\ n \in complete /\ w \in Witness /\ w \in complete
        /\ Instrumentee(w) \in Value /\ v \in Value
        /\ <<place[Instrumentee(w)], place[v]>> \in Dominates
    BY <1>1, <1>8, WitnessFacts
  <2>2. <<place[v], b>> \in Dominates /\ (place[v] = b => v \in Phis(b))
    BY <1>2, <1>3, <1>8 DEF Available
  <2>3. CASE place[v] = b
    <3>1. v \in Phis(b) /\ prog[v].op = "phi"
      BY <2>2, <2>3 DEF Phis
    <3>2. w = PhiNode(v) /\ PhiCase(w) /\ Instrumentee(w) = v
      <4>1. CASE PhiCase(n)
        BY <2>1, <4>1 DEF PhiCase, Settled
      <4>2. CASE SharedCase(n)
        <5>1. PhiNode(v) = reqs[n][1] /\ PhiNode(v) \in Inner /\ Instrumentee(PhiNode(v)) = v
          BY <3>1, <4>2 DEF SharedCase
        <5>2. PhiNode(v) \in DOMAIN wit /\ w = Single(PhiNode(v))
          BY <2>1, <4>2, <5>1 DEF Settled, SharedCase
        <5>3. IsPhiNode(PhiNode(v)) /\ ~IsCall(PhiNode(v)) /\ PhiNode(v) \in complete
          BY <1>1, <2>1, <3>1, <5>1, <5>2, InstrumenteeFacts, VertexFacts DEF IsPhiNode, Work
        <5>4. PhiCase(PhiNode(v)) /\ Settled(PhiNode(v))
          BY <1>1, <5>2, <5>3, NodeCases DEF Work
        <5> QED BY <5>1, <5>2, <5>4 DEF PhiCase, Settled
      <4>3. ~SourceCase(n) /\ ~CallCase(n) /\ ~PairCase(n)
        <5>1. ~PairCase(n)
          BY <3>1 DEF PairCase
        <5>2. ~CallCase(n)
          BY <1>8, <2>1, NodeCases
        <5>3. SourceCase(n) => prog[v].op # "phi"
          BY <2>1, InstrumenteeFacts DEF SourceCase, Settled
        <5> QED BY <3>1, <5>1, <5>2, <5>3
      <4> QED BY <2>1, <4>1, <4>2, <4>3, NodeCases
    <3>3. Role(w) = "phi" /\ w.val = v /\ Len(reqs[w]) = 2 /\ w \in DOMAIN wit
      BY <2>1, <3>2, VertexFacts DEF PhiCase, Witness
    <3>4. Chosen(w, 2)
      BY <1>1, <3>3 DEF Work, Active
    <3> DEFINE from == prog[v].from
               args == prog[v].args
               chosen == operands[w]
    <3>5. DOMAIN from = 1 .. 2 /\ \E i \in 1 .. 2 : from[i] = cur
      <4>1. place[v] \in Range(Succ[cur])
        BY <2>3
      <4>2. prog[v].from \in [1 .. 2 -> Block]
        BY <1>1, <2>1, <3>1, ProgramFacts
      <4> HIDE DEF v
      <4>3. \A c \in Block : place[v] \in Range(Succ[c]) => \E i \in 1 .. 2 : prog[v].from[i] = c
        BY <1>1, <2>1, <3>1, PhiFacts
      <4> QED BY <1>4, <4>1, <4>2, <4>3
    <3>6. PICK i \in 1 .. 2 : from[i] = cur /\ Incoming(v, cur) = args[i]
      BY <3>5 DEF Incoming
    <3>7. /\ DOMAIN chosen = 1 .. 2
          /\ \A j \in 1 .. 2 : /\ reqs[w][j] \in DOMAIN wit
                               /\ chosen[j] = [wit |-> Single(reqs[w][j]), from |-> from[j]]
      <4>1. /\ Operands(w) \in Seq([wit : complete, from : Block]) /\ Len(Operands(w)) = 2
            /\ \A j \in 1 .. 2 :
                 /\ reqs[w][j] \in DOMAIN wit
                 /\ Operands(w)[j] = [wit |-> Single(reqs[w][j]), from |-> from[j]]
        BY <3>3, <3>4 DEF Chosen
      <4>2. Operands(w) # <<>>
        BY <4>1
      <4>3. Operands(w) = chosen
        BY <4>2 DEF Operands
      <4> QED BY <4>1, <4>3, LenProperties
    <3>8. PICK j \in 1 .. 2 : from[j] = cur /\ IncomingWitness(w, cur) = Single(reqs[w][j])
      <4>1. Range(chosen) = {chosen[j] : j \in 1 .. 2}
        BY <3>7 DEF Range
      <4>2. \A j \in 1 .. 2 : chosen[j].from = from[j] /\ chosen[j].wit = Single(reqs[w][j])
        BY <3>7
      <4>3. chosen[i] \in Range(chosen) /\ chosen[i].from = cur
        BY <3>6, <4>1, <4>2
      <4> DEFINE c == CHOOSE c \in Range(chosen) : c.from = cur
      <4>4. c \in Range(chosen) /\ c.from = cur
        BY <4>3
      <4>5. IncomingWitness(w, cur) = c.wit
        BY DEF IncomingWitness
      <4> HIDE DEF c, chosen
      <4> QED BY <4>1, <4>2, <4>4, <4>5
    <3>9. args[i] = args[j]
      BY <1>1, <2>1, <3>1, <3>5, <3>6, <3>8, PhiAssumption DEF PhiAssumption
    <3> DEFINE m == reqs[w][j]
    <3>10. m \in DOMAIN wit /\ Instrumentee(m) = args[j] /\ ~IsCall(m)
      BY <2>1, <3>2, <3>3, <3>7, <3>8, RequiredNodes DEF PhiCase
    <3>11. args[j] \in Value /\ <<place[args[j]], cur>> \in Dominates
      <4> HIDE DEF v
      <4>1. <<place[prog[v].args[j]], prog[v].from[j]>> \in Dominates
        BY <1>1, <2>1, <3>1, PhiFacts
      <4>2. args[j] \in Value
        BY <1>1, <2>1, <3>1, ProgramFacts
      <4> QED BY <3>8, <4>1, <4>2
    <3>12. Available(args[j])
      BY <1>5, <3>11 DEF Available
    <3>13. bounds[Single(m)] = val[args[j]]
      BY <3>10, <3>12 DEF Follows
    <3>14. bounds'[w] = bounds[IncomingWitness(w, cur)] /\ val'[v] = val[Incoming(v, cur)]
      BY <2>1, <3>1, <3>2, <3>3
    <3> QED BY <3>6, <3>8, <3>9, <3>13, <3>14
  <2>4. CASE place[v] # b
    <3>1. <<place[v], cur>> \in Dominates
      BY <1>4, <2>2, <2>4, DominanceEdges
    <3>2. Available(v)
      BY <1>5, <2>1, <3>1 DEF Available
    <3>3. bounds[w] = val[v]
      BY <1>8, <3>2 DEF Follows
    <3>4. v \notin Phis(b) /\ val'[v] = val[v]
      BY <2>1, <2>4 DEF Phis
    <3>5. Instrumentee(w) \notin Phis(b)
      <4>1. place[Instrumentee(w)] # b
        BY <1>4, <2>1, <2>2, <2>4, DominanceOrder
      <4> QED BY <4>1 DEF Phis
    <3> QED BY <2>1, <3>3, <3>4, <3>5
  <2> QED BY <2>3, <2>4
<1>9. Follows'
  BY <1>2, <1>3, <1>8 DEF Follows
<1> QED BY <1>7, <1>9

\* What an operation uses is there when it is executed.
LEMMA UsesAvailable ==
  ASSUME prog \in Programs, Order, NEW v \in Waiting, \A w \in Waiting : v <= w,
         prog[v].op \in {"copy", "pair"}, NEW i \in DOMAIN prog[v].args
  PROVE  Available(prog[v].args[i]) /\ prog[v].args[i] < v
<1> DEFINE a == prog[v].args[i]
<1>1. v \in Value /\ place[v] = cur /\ place \in Places
  BY DEF Waiting, Order
<1>2. a \in Value /\ a < v /\ <<place[a], cur>> \in Dominates
  BY <1>1, UsesDominate
<1>3. a \in Waiting => v <= a
  OBVIOUS
<1>4. a \notin Waiting
  BY <1>1, <1>2, <1>3, NAssumption DEF NAssumption, Value
<1> QED BY <1>2, <1>4 DEF Available, Waiting

\* The next instruction is executed, and the code that was inserted for it.
LEMMA ExecuteInstructionKeeps ==
  ASSUME Stands, Creation, calls = <<>>, Order, Follows, ExecuteInstruction
  PROVE  Order' /\ Follows'
<1> PICK v \in Waiting, pick \in 1 .. 2 :
      /\ \A w \in Waiting : v <= w
      /\ executed' = executed \cup {v}
      /\ val' = [val EXCEPT ![v] = Pointer(v, pick)]
      /\ bounds' = [w \in Witness |-> IF Instrumentee(w) = v
                                        THEN Bounds(w, Pointer(v, pick), pick)
                                        ELSE bounds[w]]
  BY DEF ExecuteInstruction
<1> DEFINE pointer == Pointer(v, pick)
<1> HIDE DEF pointer
<1>1. /\ UNCHANGED <<vars, creation, place, cur, ran>> /\ Work
      /\ place \in Places /\ cur \in Live /\ prog \in Programs
      /\ Phis(cur) \subseteq executed /\ executed \subseteq {u \in Value : place[u] = cur}
      /\ \A u \in executed, w \in Value : place[w] = cur /\ w <= u => w \in executed
      /\ val = [u \in Value |-> val[u]]
  BY DEF ExecuteInstruction, Order, Creation, Stands
<1>2. /\ prog' = prog /\ wit' = wit /\ Places' = Places /\ place' = place /\ UNCHANGED graph
      /\ cur' = cur
  <2>1. UNCHANGED graph
    BY <1>1 DEF vars, graph, program
  <2> QED BY <1>1, <2>1, SameNodes DEF vars, creation, program, graph
<1>3. \A n : /\ IsCall(n)' = IsCall(n) /\ Instrumentee(n)' = Instrumentee(n)
             /\ Single(n)' = Single(n)
  BY <1>2, SameNodes DEF Single
<1>4. v \in Value /\ place[v] = cur /\ v \notin executed /\ prog[v].op # "phi"
  BY <1>1 DEF Waiting, Phis
<1>5. val'[v] = pointer /\ \A u \in Value : u # v => val'[u] = val[u]
  BY <1>1, <1>4 DEF pointer
<1>6. Order'
  <2>1. \A u \in executed', w \in Value : place[w] = cur /\ w <= u => w \in executed'
    <3> SUFFICES ASSUME NEW w \in Value, place[w] = cur, w <= v, w \notin executed
                 PROVE  w = v
      BY <1>1
    <3>1. v <= w
      BY DEF Waiting
    <3> QED BY <1>4, <3>1, NAssumption DEF NAssumption, Value
  <2>2. Phis(cur)' = Phis(cur)
    BY <1>2 DEF Phis
  <2>3. val' = [u \in Value |-> val'[u]]
    BY <1>1
  <2> QED BY <1>1, <1>2, <1>4, <2>1, <2>2, <2>3 DEF Order
<1>7. ASSUME NEW n \in DOMAIN wit, ~IsCall(n), Available(Instrumentee(n))'
      PROVE  bounds'[Single(n)] = val'[Instrumentee(n)]
  <2> DEFINE u == Instrumentee(n)
             w == Single(n)
  <2>1. /\ Settled(n) /\ n \in complete /\ w \in Witness /\ w \in complete
        /\ Instrumentee(w) \in Value /\ u \in Value /\ Instrumentee(w) <= u
        /\ <<place[Instrumentee(w)], place[u]>> \in Dominates
    BY <1>1, <1>7, WitnessFacts
  <2>2. <<place[u], cur>> \in Dominates /\ (place[u] = cur => u \in executed \cup {v})
    BY <1>2, <1>3, <1>7 DEF Available
  <2>3. CASE u # v
    <3>1. Available(u)
      BY <2>2, <2>3 DEF Available
    <3>2. bounds[w] = val[u]
      BY <1>7, <3>1 DEF Follows
    <3>3. Instrumentee(w) # v
      <4> SUFFICES ASSUME Instrumentee(w) = v PROVE FALSE
        OBVIOUS
      <4>1. place[u] = cur
        BY <1>1, <1>4, <2>1, <2>2, DominanceOrder
      <4>2. u \in executed
        BY <2>2, <2>3, <4>1
      <4> QED BY <1>1, <1>4, <2>1, <4>2
    <3> QED BY <1>5, <2>1, <2>3, <3>2, <3>3
  <2>4. CASE u = v
    <3>1. SourceCase(n) \/ PairCase(n) \/ SharedCase(n)
      <4>1. ~PhiCase(n)
        BY <1>4, <2>4 DEF PhiCase
      <4> QED BY <1>7, <2>1, <4>1, NodeCases
    <3>2. CASE SourceCase(n)
      <4>1. w = n /\ n.kind = "source"
        BY <2>1, <3>2 DEF SourceCase, Settled
      <4>2. bounds'[n] = Bounds(n, pointer, pick)
        BY <2>1, <2>4, <4>1 DEF pointer
      <4> QED BY <1>5, <2>4, <4>1, <4>2 DEF Bounds
    <3>3. CASE PairCase(n)
      <4> DEFINE m == reqs[n][pick]
      <4>1. /\ w = n /\ n.kind # "source" /\ m \in DOMAIN wit /\ operands[n][pick] = Single(m)
            /\ prog[v].op = "pair" /\ Instrumentee(m) = prog[v].args[pick] /\ ~IsCall(m)
        <5>1. /\ n.kind # "source" /\ prog[v].op = "pair" /\ Role(n) = "pair"
              /\ Len(reqs[n]) = 2 /\ Instrumentee(m) = prog[v].args[pick]
          BY <2>4, <3>3 DEF PairCase
        <5>2. ~IsCall(m)
          BY <2>1, <5>1, RequiredNodes
        <5> QED BY <2>1, <5>1, <5>2 DEF Settled
      <4>2. bounds'[n] = Bounds(n, pointer, pick)
        BY <2>1, <2>4, <4>1 DEF pointer
      <4>3. Bounds(n, pointer, pick) = bounds[Single(m)]
        BY <4>1 DEF Bounds
      <4>4. pick \in DOMAIN prog[v].args
        BY <1>1, <1>4, <4>1, ProgramFacts
      <4>5. Available(prog[v].args[pick])
        BY <1>1, <4>1, <4>4, UsesAvailable
      <4>6. bounds[Single(m)] = val[prog[v].args[pick]]
        BY <4>1, <4>5 DEF Follows
      <4>7. pointer = val[prog[v].args[pick]]
        BY <4>1 DEF pointer, Pointer
      <4> QED BY <1>5, <2>4, <4>1, <4>2, <4>3, <4>6, <4>7
    <3>4. CASE SharedCase(n)
      <4> DEFINE m == reqs[n][1]
      <4>1. m \in DOMAIN wit /\ w = Single(m) /\ ~IsCall(m) /\ Len(reqs[n]) = 1
        <5>1. m \in DOMAIN wit /\ w = Single(m) /\ Len(reqs[n]) = 1
          BY <2>1, <3>4 DEF SharedCase, Settled
        <5>2. 1 \in 1 .. Len(reqs[n])
          BY <5>1
        <5> QED BY <2>1, <5>1, <5>2, RequiredNodes
      <4>2. CASE m \in Ends /\ Instrumentee(m) = v
        <5>1. m \in complete /\ SourceCase(m) /\ Settled(m)
          BY <1>1, <4>1, <4>2, NodeCases DEF Work
        <5>2. w = m /\ w.kind = "source"
          BY <4>1, <5>1 DEF SourceCase, Settled
        <5>3. bounds'[w] = Bounds(w, pointer, pick)
          BY <2>1, <4>2, <5>2 DEF pointer
        <5> QED BY <1>5, <2>4, <5>2, <5>3 DEF Bounds
      <4>3. CASE prog[v].op = "copy" /\ Instrumentee(m) = prog[v].args[1]
        <5> DEFINE a == prog[v].args[1]
        <5>1. 1 \in DOMAIN prog[v].args /\ a \in Value
          BY <1>1, <1>4, <4>3, ProgramFacts
        <5>2. Available(a) /\ a < v
          BY <1>1, <4>3, <5>1, UsesAvailable
        <5>3. bounds[w] = val[a]
          BY <4>1, <4>3, <5>2 DEF Follows
        <5>4. Instrumentee(w) <= a
          BY <1>1, <4>1, <4>3, WitnessFacts
        <5>5. Instrumentee(w) # v
          BY <1>4, <2>1, <5>1, <5>2, <5>4, NAssumption DEF NAssumption, Value
        <5>6. pointer = val[a]
          BY <4>3 DEF pointer, Pointer
        <5> QED BY <1>5, <2>1, <2>4, <5>3, <5>5, <5>6
      <4> QED BY <1>4, <2>4, <3>4, <4>2, <4>3 DEF SharedCase
    <3> QED BY <3>1, <3>2, <3>3, <3>4
  <2> QED BY <2>3, <2>4
<1>8. Follows'
  BY <1>2, <1>3, <1>7 DEF Follows
<1> QED BY <1>6, <1>8

-----------------------------------------------------------------------------
(* All steps.                                                               *)

\* The graph is built and has its flags: the witnesses can be made.
LEMMA StartCreationKeeps ==
  ASSUME Inv, FlagInv, phase = "done", wit = <<>>, operands = <<>>, calls = <<>>, asked = 1,
         StartCreation
  PROVE  Stands' /\ Creation'
<1>1. UNCHANGED <<graph, creation>>
  BY DEF StartCreation
<1>2. Stands
  <2>1. next = Len(vec) + 1 /\ stack = <<>> /\ queue = <<>> /\ Built
    BY DEF FlagInv, Inv, Types, Worklist, Built
  <2>2. Len(vec) \in Nat
    BY TargetFacts DEF Inv, Types
  <2>3. next - 1 = Len(vec)
    BY <2>1, <2>2
  <2>4. \A n \in complete : reqs[n] = Full[n]
    BY <2>1, BuiltIsFull DEF Node, Inv, Types
  <2> QED BY <2>1, <2>3, <2>4 DEF Stands, Inv, Types
<1>3. Creation
  <2>1. Work
    <3>1. calls \in Seq([node : complete, at : Nat]) /\ Range(calls) = {} /\ DOMAIN calls = {}
      BY DEF Range
    <3>2. DOMAIN wit = {} /\ DOMAIN operands = {}
      OBVIOUS
    <3> QED BY <3>1, <3>2 DEF Work
  <2>2. asked \in 1 .. Len(vec) + 1 /\ 1 .. asked - 1 = {}
    BY <1>2, TargetFacts DEF Stands
  <2> QED BY <2>1, <2>2 DEF Creation
<1> QED BY <1>1, <1>2, <1>3, SameCreation

\* Before the graph is built there are no witnesses.
THEOREM FlowInitInv == FlowInit => FlowInv
<1> SUFFICES ASSUME FlowInit PROVE FlowInv
  OBVIOUS
<1>1. Inv /\ IsFiniteSet(complete) /\ FlagInv
  BY InitInv, FS_EmptySet DEF FlowInit, Init, FlagInv
<1>2. phase = "insert"
  BY DEF FlowInit, Init
<1> QED BY <1>1, <1>2 DEF FlowInit, FlowInv, Building

\* The steps that build the graph.
LEMMA BuildingKeeps ==
  ASSUME FlowInv, Next, UNCHANGED <<creation, execution>>
  PROVE  FlowInv'
<1>1. Building
  <2> SUFFICES ASSUME ~Building PROVE FALSE
    OBVIOUS
  <2>1. stack = <<>> /\ queue = <<>> /\ phase \in {"create", "created", "run"}
    BY DEF FlowInv, Stands, Building
  <2>2. Wants = <<>>
    BY <2>1 DEF Wants
  <2> QED BY <2>1, <2>2 DEF Next, Build, Propagate, InsertRequiredTarget, RequireSource,
        RequireKnown, RequireNew, ReturnFromAddRequired, StartPropagation, JoinFlags,
        PopNode, FinishPropagation
<1>2. Inv /\ IsFiniteSet(complete) /\ FlagInv
  BY <1>1 DEF FlowInv
<1>3. Inv' /\ IsFiniteSet(complete)' /\ FlagInv'
  BY <1>2, NextInv, FinitelyMany, FlagInvStep
<1>4. Building'
  BY <1>3 DEF Inv, Types, Building
<1> QED BY <1>1, <1>3, <1>4 DEF FlowInv, Building, creation, execution

\* The steps that make witnesses.
LEMMA CreateKeeps ==
  ASSUME FlowInv, Create
  PROVE  FlowInv'
<1>1. CASE StartCreation
  <2>1. phase = "done" /\ Building /\ phase' = "create" /\ UNCHANGED execution
    BY <1>1 DEF StartCreation, Building
  <2>2. Stands' /\ Creation'
    BY <1>1, <2>1, StartCreationKeeps DEF FlowInv
  <2> QED BY <2>1, <2>2 DEF FlowInv, Building, execution
<1>2. CASE FinishCreation
  <2>1. /\ phase = "create" /\ ~Building /\ phase' = "created" /\ UNCHANGED <<graph, creation, execution>>
        /\ calls = <<>> /\ asked > Len(vec)
    BY <1>2 DEF FinishCreation, Building
  <2>2. Stands /\ Creation
    BY <2>1 DEF FlowInv
  <2>3. Stands' /\ Creation'
    BY <2>1, <2>2, SameCreation
  <2>4. asked = Len(vec) + 1
    BY <2>1, <2>2, TargetFacts DEF Stands, Creation
  <2>5. calls' = <<>> /\ asked' = Len(vec') + 1
    BY <2>1, <2>4 DEF creation, graph, program
  <2> QED BY <2>1, <2>3, <2>5 DEF FlowInv, Building, execution
<1>3. CASE CreateForTarget \/ CreateRequired \/ AddIncoming \/ AddArgument \/ TakeWitness
             \/ Share \/ Combine \/ ReturnFromCreate
  <2>1. phase = "create" \/ calls # <<>>
    BY <1>3 DEF CreateForTarget, CreateRequired, AddIncoming, AddArgument, TakeWitness,
                Share, Combine, ReturnFromCreate, Complete, Pending
  <2>2. phase = "create" /\ ~Building /\ Stands /\ Creation
    BY <2>1 DEF FlowInv, Building
  <2>3. UNCHANGED <<vars, execution>>
    BY <1>3 DEF CreateForTarget, CreateRequired, AddIncoming, AddArgument, TakeWitness,
                Share, Combine, ReturnFromCreate, Complete
  <2>4. Stands' /\ Creation'
    BY <1>3, <2>2, CreateForTargetKeeps, CreateRequiredKeeps, AddIncomingKeeps, AddArgumentKeeps,
       TakeWitnessKeeps, ShareKeeps, CombineKeeps, ReturnFromCreateKeeps
  <2> QED BY <2>2, <2>3, <2>4 DEF FlowInv, Building, vars, execution
<1> QED BY <1>1, <1>2, <1>3 DEF Create

\* The steps of the function.
LEMMA RunKeeps ==
  ASSUME FlowInv, StartFunction \/ EnterBlock \/ ExecuteInstruction
  PROVE  FlowInv'
<1>1. /\ phase \in {"created", "run"} /\ phase' = "run"
      /\ UNCHANGED <<graph, creation>>
  BY DEF StartFunction, EnterBlock, ExecuteInstruction, vars, graph, program
<1>2. Stands /\ Creation /\ calls = <<>> /\ asked = Len(vec) + 1
  BY <1>1 DEF FlowInv, Building
<1>3. Stands' /\ Creation'
  BY <1>1, <1>2, SameCreation
<1>4. Order' /\ Follows'
  <2>1. CASE StartFunction
    <3>1. cur = EntryBlock /\ executed = {}
      BY <2>1 DEF StartFunction, FlowInv
    <3> QED BY <1>2, <2>1, <3>1, StartFunctionKeeps
  <2>2. CASE EnterBlock \/ ExecuteInstruction
    <3>1. Order /\ Follows
      BY <2>2 DEF EnterBlock, ExecuteInstruction, FlowInv
    <3> QED BY <1>2, <2>2, <3>1, EnterBlockKeeps, ExecuteInstructionKeeps
  <2> QED BY <2>1, <2>2
<1>5. calls' = <<>> /\ asked' = Len(vec') + 1
  BY <1>1, <1>2 DEF creation, graph, program
<1> QED BY <1>1, <1>3, <1>4, <1>5 DEF FlowInv, Building

\* Every step of the pass and of the function keeps witnesses and pointers together.
THEOREM FlowNextInv == FlowInv /\ [FlowNext]_flowVars => FlowInv'
<1> SUFFICES ASSUME FlowInv, [FlowNext]_flowVars PROVE FlowInv'
  OBVIOUS
<1>1. CASE FlowNext
  BY <1>1, BuildingKeeps, CreateKeeps, RunKeeps DEF FlowNext, Pass
<1>2. CASE UNCHANGED flowVars
  <2>1. UNCHANGED <<vars, graph, creation, execution>>
    BY <1>2 DEF flowVars, vars, graph, program
  <2>2. phase' = phase /\ Building' = Building
    BY <2>1 DEF vars, Building
  <2>3. ~Building => Stands' /\ Creation'
    BY <2>1, SameCreation DEF FlowInv
  <2>4. Building => Inv' /\ IsFiniteSet(complete)' /\ FlagInv'
    BY <2>1, NextInv, FinitelyMany, FlagInvStep DEF FlowInv
  <2>5. phase = "run" => Order' /\ Follows'
    <3>1. /\ prog' = prog /\ wit' = wit /\ Places' = Places /\ place' = place /\ cur' = cur
          /\ val' = val /\ bounds' = bounds /\ executed' = executed
      BY <2>1, SameNodes DEF vars, creation, execution
    <3>2. \A n : IsCall(n)' = IsCall(n) /\ Instrumentee(n)' = Instrumentee(n) /\ Single(n)' = Single(n)
      BY <2>1, <3>1, SameNodes DEF Single
    <3>3. \A v : Available(v)' = Available(v)
      BY <3>1 DEF Available
    <3>4. Phis(cur)' = Phis(cur)
      BY <3>1 DEF Phis
    <3> QED BY <3>1, <3>2, <3>3, <3>4 DEF FlowInv, Order, Follows
  <2> QED BY <2>1, <2>2, <2>3, <2>4, <2>5 DEF FlowInv, vars, creation, execution
<1> QED BY <1>1, <1>2

\* What the witnesses are at a target when all that they were made from is right.
LEMMA InvWitnessesFollowPointers ==
  ASSUME FlowInv
  PROVE  WitnessesFollowPointers
<1> SUFFICES ASSUME phase = "run", NEW k \in DOMAIN vec,
                    \A i \in DOMAIN vec[k].args : Available(vec[k].args[i]),
                    NEW i \in DOMAIN vec[k].args
             PROVE  LET t == External(k) IN
                    /\ HasWitnesses(t) /\ i \in DOMAIN wit[t]
                    /\ bounds[wit[t][i]] = val[vec[k].args[i]]
  BY DEF WitnessesFollowPointers
<1> DEFINE t == External(k)
<1>1. Stands /\ Creation /\ Work /\ calls = <<>> /\ asked = Len(vec) + 1 /\ Follows
  BY DEF FlowInv, Building, Creation
<1>2. k \in 1 .. Len(vec) /\ Len(vec) \in Nat /\ k \in Nat
  BY <1>1, TargetFacts DEF Stands
<1>3. t \in complete
  BY <1>1, <1>2 DEF Stands, Outer
<1>4. TargetServed(k)
  BY <1>1, <1>2 DEF Creation, Active
<1>5. IsCall(t) <=> vec[k].kind = "call"
  BY <1>2, InstrumenteeFacts
<1>6. CASE vec[k].kind = "call"
  <2>1. CallCase(t) /\ t.val = k
    BY <1>1, <1>2, <1>3, <1>5, <1>6, NodeCases, InstrumenteeFacts
  <2>2. i \in 1 .. 2 /\ Len(reqs[t]) = 2 /\ Instrumentee(reqs[t][i]) = vec[k].args[i]
    BY <2>1 DEF CallCase
  <2>3. Given(t, i) /\ ~IsCall(reqs[t][i])
    BY <1>1, <1>3, <1>4, <1>6, <2>2, RequiredNodes DEF TargetServed
  <2>4. bounds[Single(reqs[t][i])] = val[vec[k].args[i]]
    BY <1>1, <2>2, <2>3 DEF Follows, Given
  <2> QED BY <2>3, <2>4 DEF Given, HasWitnesses
<1>7. CASE vec[k].kind # "call"
  <2>1. t \in DOMAIN wit /\ ~IsCall(t) /\ Settled(t)
    BY <1>1, <1>4, <1>5, <1>7 DEF TargetServed, Work
  <2>2. i = 1 /\ Instrumentee(t) = vec[k].args[1]
    BY <1>1, <1>2, <1>7, TargetFacts, InstrumenteeFacts DEF Stands
  <2>3. wit[t] = <<Single(t)>> /\ bounds[Single(t)] = val[vec[k].args[1]]
    BY <1>1, <2>1, <2>2 DEF Follows, Settled
  <2> QED BY <2>1, <2>2, <2>3 DEF HasWitnesses
<1> QED BY <1>6, <1>7

\* The graph stays right when the witnesses are made from it: what it has to be
\* when it is built (SourcesMatch, RequirementsAreWhole, FlagsAreJoined) is so in
\* runs of the whole pass.
THEOREM GraphStaysRight ==
  FlowSpec => [](SourcesMatch /\ RequirementsAreWhole /\ FlagsAreJoined)
<1>1. FlowInv => SourcesMatch /\ RequirementsAreWhole /\ FlagsAreJoined
  <2> SUFFICES ASSUME FlowInv
               PROVE  SourcesMatch /\ RequirementsAreWhole /\ FlagsAreJoined
    OBVIOUS
  <2>1. CASE phase = "done"
    <3>1. Inv /\ IsFiniteSet(complete) /\ FlagInv
      BY <2>1 DEF FlowInv, Building
    <3> QED BY <3>1, InvSourcesMatch, InvRequirementsAreWhole, FlagInvFlagsAreJoined
          DEF FlagInv
  <2>2. CASE phase # "done"
    BY <2>2 DEF SourcesMatch, RequirementsAreWhole, FlagsAreJoined, Built
  <2> QED BY <2>1, <2>2
<1> QED BY <1>1, FlowInitInv, FlowNextInv, PTL DEF FlowSpec

\* WitnessesFollowPointers: whatever the function, its targets and the way it
\* takes, the bounds that arrive at a target are those of its pointers.
THEOREM BoundsFollowPointers == FlowSpec => []WitnessesFollowPointers
<1>1. FlowInv => WitnessesFollowPointers
  BY InvWitnessesFollowPointers
<1> QED BY <1>1, FlowInitInv, FlowNextInv, PTL DEF FlowSpec
=============================================================================
