--------------------- MODULE WitnessSimplificationProofs ---------------------
(***************************************************************************)
(* For every complete witness graph: the search drops exactly the          *)
(* invariants on unchanged pointers; when the updates of simplifyWitness-  *)
(* Graph come to an end, every node has a representative, no node takes    *)
(* over a witness that it must not, and redirecting builds no chains;      *)
(* removeDeadNodes leaves exactly what the targets lead to, and only the   *)
(* order in which nodes are deleted makes a destructor meet a deleted one. *)
(***************************************************************************)
EXTENDS WitnessSimplification, TLAPS

-----------------------------------------------------------------------------
(* Sequences *)

\* What is in a sequence is its head or in its tail.
LEMMA ElementsTail ==
  ASSUME NEW T, NEW s \in Seq(T), s # <<>>
  PROVE  /\ Tail(s) \in Seq(T)
         /\ s[1] \in T
         /\ Elements(s) = {s[1]} \cup Elements(Tail(s))
<1>1. /\ Tail(s) \in Seq(T)
      /\ s[1] \in T
      /\ Len(s) \in Nat /\ Len(s) >= 1
      /\ DOMAIN s = 1 .. Len(s)
      /\ DOMAIN Tail(s) = 1 .. Len(s) - 1
      /\ \A k \in 1 .. Len(s) - 1 : Tail(s)[k] = s[k + 1]
  OBVIOUS
<1>2. ASSUME NEW k \in 1 .. Len(s)
      PROVE  s[k] \in {s[1]} \cup Elements(Tail(s))
  <2>1. CASE k = 1
    BY <2>1
  <2>2. CASE k # 1
    <3>1. k - 1 \in 1 .. Len(s) - 1 /\ Tail(s)[k - 1] = s[k]
      BY <1>1, <2>2
    <3>2. QED
      BY <1>1, <3>1 DEF Elements
  <2>3. QED
    BY <2>1, <2>2
<1>3. ASSUME NEW k \in 1 .. Len(s) - 1
      PROVE  Tail(s)[k] \in Elements(s)
  <2>1. k + 1 \in 1 .. Len(s) /\ Tail(s)[k] = s[k + 1]
    BY <1>1
  <2>2. QED
    BY <1>1, <2>1 DEF Elements
<1>4. s[1] \in Elements(s)
  BY <1>1 DEF Elements
<1>5. QED
  BY <1>1, <1>2, <1>3, <1>4 DEF Elements

\* What is in a concatenation.
LEMMA ElementsConcat ==
  ASSUME NEW T, NEW s \in Seq(T), NEW t \in Seq(T)
  PROVE  /\ s \o t \in Seq(T)
         /\ Elements(s \o t) = Elements(s) \cup Elements(t)
<1> DEFINE u == s \o t
<1>1. /\ u \in Seq(T)
      /\ Len(s) \in Nat /\ Len(t) \in Nat
      /\ DOMAIN s = 1 .. Len(s) /\ DOMAIN t = 1 .. Len(t)
      /\ DOMAIN u = 1 .. Len(s) + Len(t)
      /\ \A k \in 1 .. Len(s) : u[k] = s[k]
      /\ \A k \in Len(s) + 1 .. Len(s) + Len(t) : u[k] = t[k - Len(s)]
  OBVIOUS
<1> HIDE DEF u
<1>2. ASSUME NEW k \in 1 .. Len(s) + Len(t)
      PROVE  u[k] \in Elements(s) \cup Elements(t)
  <2>1. CASE k <= Len(s)
    <3>1. k \in DOMAIN s /\ u[k] = s[k]
      BY <1>1, <2>1
    <3>2. QED
      BY <3>1 DEF Elements
  <2>2. CASE ~(k <= Len(s))
    <3>1. k - Len(s) \in DOMAIN t /\ u[k] = t[k - Len(s)]
      BY <1>1, <2>2
    <3>2. QED
      BY <3>1 DEF Elements
  <2>3. QED
    BY <2>1, <2>2
<1>3. ASSUME NEW k \in DOMAIN s
      PROVE  s[k] \in Elements(u)
  <2>1. k \in DOMAIN u /\ u[k] = s[k]
    BY <1>1
  <2>2. QED
    BY <2>1 DEF Elements
<1>4. ASSUME NEW k \in DOMAIN t
      PROVE  t[k] \in Elements(u)
  <2>1. k + Len(s) \in DOMAIN u /\ u[k + Len(s)] = t[k]
    BY <1>1
  <2>2. QED
    BY <2>1 DEF Elements
<1>5. Elements(u) = Elements(s) \cup Elements(t)
  BY <1>1, <1>2, <1>3, <1>4 DEF Elements
<1>6. QED
  BY <1>1, <1>5 DEF u

\* What is in the shortest sequences.
LEMMA ElementsOne == \A x : Elements(<<>>) = {} /\ Elements(<<x>>) = {x}
  BY DEF Elements

\* The nodes that active calls still have to visit.
InFrames(st) == UNION {Elements(st[k]) : k \in DOMAIN st}

\* Entering a call adds the requirers that it has to visit.
LEMMA PushFrame ==
  ASSUME NEW T, NEW f \in Seq(T), NEW st \in Seq(Seq(T))
  PROVE  /\ <<f>> \o st \in Seq(Seq(T))
         /\ InFrames(<<f>> \o st) = Elements(f) \cup InFrames(st)
<1> DEFINE new == <<f>> \o st
<1>1. /\ new \in Seq(Seq(T))
      /\ Len(st) \in Nat
      /\ DOMAIN st = 1 .. Len(st)
      /\ DOMAIN new = 1 .. Len(st) + 1
      /\ new[1] = f
      /\ \A k \in 1 .. Len(st) : new[k + 1] = st[k]
  OBVIOUS
<1> HIDE DEF new
<1>2. ASSUME NEW k \in 1 .. Len(st) + 1
      PROVE  Elements(new[k]) \subseteq Elements(f) \cup InFrames(st)
  <2>1. CASE k = 1
    BY <1>1, <2>1
  <2>2. CASE k # 1
    <3>1. k - 1 \in DOMAIN st /\ new[k] = st[k - 1]
      BY <1>1, <2>2
    <3>2. QED
      BY <3>1 DEF InFrames
  <2>3. QED
    BY <2>1, <2>2
<1>3. ASSUME NEW k \in 1 .. Len(st)
      PROVE  Elements(st[k]) \subseteq InFrames(new)
  <2>1. k + 1 \in 1 .. Len(st) + 1
    BY <1>1
  <2>2. k + 1 \in DOMAIN new /\ new[k + 1] = st[k]
    BY <1>1, <2>1
  <2>3. QED
    BY <2>2 DEF InFrames
<1>4. Elements(f) \subseteq InFrames(new)
  <2>1. 1 \in DOMAIN new /\ new[1] = f
    BY <1>1
  <2>2. QED
    BY <2>1 DEF InFrames
<1>5. InFrames(new) \subseteq Elements(f) \cup InFrames(st)
  BY <1>1, <1>2 DEF InFrames
<1>6. InFrames(st) \subseteq InFrames(new)
  BY <1>1, <1>3 DEF InFrames
<1>7. new \in Seq(Seq(T)) /\ InFrames(new) = Elements(f) \cup InFrames(st)
  BY <1>1, <1>4, <1>5, <1>6
<1>8. QED
  BY <1>7 DEF new

\* Returning from a call takes away what was left to visit in it.
LEMMA PopFrame ==
  ASSUME NEW T, NEW st \in Seq(Seq(T)), st # <<>>
  PROVE  /\ Tail(st) \in Seq(Seq(T))
         /\ st[1] \in Seq(T)
         /\ InFrames(st) = Elements(st[1]) \cup InFrames(Tail(st))
<1>1. /\ Tail(st) \in Seq(Seq(T))
      /\ st[1] \in Seq(T)
      /\ Elements(st) = {st[1]} \cup Elements(Tail(st))
  BY ElementsTail
<1>2. ASSUME NEW s
      PROVE  \A x : x \in InFrames(s) <=> \E f \in Elements(s) : x \in Elements(f)
  <2>1. \A x : x \in InFrames(s) <=> \E k \in DOMAIN s : x \in Elements(s[k])
    BY DEF InFrames
  <2>2. \A f : f \in Elements(s) <=> \E k \in DOMAIN s : f = s[k]
    BY DEF Elements
  <2>3. QED
    BY <2>1, <2>2
<1>3. \A x : x \in InFrames(st) <=> x \in Elements(st[1]) \/ x \in InFrames(Tail(st))
  BY <1>1, <1>2
<1>4. QED
  BY <1>1, <1>3

-----------------------------------------------------------------------------
(* One update *)

\* What holds of a node that needs no further update: its representative is
\* up to date, or nothing is known of it and of its requirements.
UpToDate(n) ==
  \/ rep[n] = Representative(n)
  \/ rep[n] = Null /\ graph.req[n] # <<>> /\ Known(n) = {}

\* The phases in which the representatives are final and in use.
Late == {"apply", "drop", "mark", "sweep", "done"}

UpdateInv ==
  /\ graph \in Graphs
  /\ pc \in {"start", "search"} => rep = [n \in Node |-> Null]
  /\ pc = "update" =>
       \A n \in Node : n \in todo \/ n \in InFrames(stack) \/ UpToDate(n)
  /\ pc \in Late => \A n \in Node : UpToDate(n)
  /\ pc # "assert"

\* What the loop over WG.map has made of the requirements of n.
Redirected(n) == req[n] = IF rep[n] = n THEN graph.req[n] ELSE <<rep[n]>>

RedirectInv ==
  /\ pc \in {"start", "search", "update"} => req = graph.req
  /\ pc = "apply" => \A n \in Node : IF n \in todo THEN req[n] = graph.req[n]
                                                  ELSE Redirected(n)
  /\ pc \in {"drop", "mark", "sweep", "done"} => \A n \in alive : Redirected(n)

\* What didNotChangeSinceWitness has to find out.
Unchanged(n) ==
  n \in Invariant /\ Reached(graph.req, n) \cap Shifted \subseteq Sources(graph.req)

\* What is seen leads to what is seen or pending, and the target to all that.
Searching ==
  /\ current \in Invariant \ todo
  /\ current \in seen \cup Elements(pending)
  /\ seen \cup Elements(pending) \subseteq Reached(graph.req, current)
  /\ \A n \in seen : \/ graph.req[n] = <<>>
                     \/ /\ n \notin Shifted
                        /\ Elements(graph.req[n]) \subseteq seen \cup Elements(pending)

SearchInv ==
  /\ pc = "start" => valid = External
  /\ pc = "search" =>
       /\ todo \subseteq valid
       /\ \A n \in External \ todo : n # current => (n \notin valid <=> Unchanged(n))
       /\ IF current = Null THEN pending = <<>> ELSE current \in valid /\ Searching
  /\ pc \in Late \cup {"update"} =>
       \A n \in External : n \notin valid <=> Unchanged(n)

\* What is marked or pending is needed by a valid target, and exists.
Needed(S) ==
  /\ S \subseteq valid \cup Internal
  /\ \A m \in S : \E n \in valid : m \in Reached(req, n)

MarkInv ==
  /\ pc = "mark" =>
       /\ todo \subseteq valid
       /\ valid \ todo \subseteq seen \cup Elements(pending)
       /\ \A n \in seen : Elements(req[n]) \subseteq seen \cup Elements(pending)
       /\ Needed(seen \cup Elements(pending))
  /\ pc \in {"sweep", "done"} => valid \subseteq seen /\ Closed(req, seen) /\ Needed(seen)

\* What is left at each point, and that deleted nodes come before the others.
DeleteInv ==
  /\ pc \in {"start", "search", "update", "apply"} => alive = Node
  /\ pc = "drop" => todo \subseteq External \ valid /\ alive = Internal \cup valid \cup todo
  /\ pc = "mark" => alive = Internal \cup valid
  /\ pc = "sweep" => /\ todo \subseteq Internal \ seen
                     /\ alive = seen \cup todo
                     /\ \A m \in Internal \ alive, n \in todo : m < n
  /\ pc = "done" => alive = seen
  /\ pc = "destroy" =>
       /\ todo = alive
       /\ \A n \in alive : \A m \in Elements(req[n]) : m \in alive \/ m < n
       /\ \A n \in alive : Elements(req[n]) \subseteq Elements(graph.req[n]) \cup {rep[n]}
  /\ OnlyOrderIsUndefined

Inv ==
  /\ TypeOK
  /\ UpdateInv
  /\ RedirectInv
  /\ SearchInv
  /\ MarkInv
  /\ DeleteInv

\* The representative of a node is a node, once it is known at all, and a
\* node that is not its own representative shares that of all requirements.
LEMMA RepresentativeFacts ==
  ASSUME TypeOK, NEW n \in Node
  PROVE  /\ Elements(graph.req[n]) \subseteq Internal
         /\ Known(n) \subseteq Internal
         /\ Representative(n) \in Internal \cup {n, Null}
         /\ Representative(n) = Null => graph.req[n] # <<>> /\ Known(n) = {}
         /\ Representative(n) \notin {n, Null} =>
              /\ graph.req[n] # <<>> /\ n \notin ValidExtract
              /\ Known(n) = {Representative(n)}
<1>1. graph.req[n] \in Seq(Internal)
  BY DEF TypeOK
<1>2. Elements(graph.req[n]) \subseteq Internal
  BY <1>1 DEF Elements
<1>3. Known(n) \subseteq Internal
  <2>1. ASSUME NEW m \in Elements(graph.req[n]), rep[m] # Null
        PROVE  rep[m] \in Internal
    <3>1. m \in Internal /\ m \in Node
      BY <1>2 DEF Node
    <3>2. QED
      BY <2>1, <3>1 DEF TypeOK
  <2>2. QED
    BY <2>1 DEF Known
<1>4. Null \notin Node
  BY NodeAssumption
<1>5. CASE graph.req[n] = <<>> \/ n \in ValidExtract \/ \E a, b \in Known(n) : a # b
  <2>1. Representative(n) = n
    BY <1>5 DEF Representative
  <2>2. QED
    BY <1>2, <1>3, <1>4, <2>1
<1>6. CASE ~(graph.req[n] = <<>> \/ n \in ValidExtract \/ \E a, b \in Known(n) : a # b)
  <2>1. CASE Known(n) = {}
    <3>1. Representative(n) = Null
      BY <1>6, <2>1 DEF Representative
    <3>2. QED
      BY <1>2, <1>3, <1>6, <2>1, <3>1
  <2>2. CASE Known(n) # {}
    <3>1. Representative(n) = CHOOSE m \in Known(n) : TRUE
      BY <1>6, <2>2 DEF Representative
    <3>2. Representative(n) \in Known(n)
      BY <2>2, <3>1
    <3>3. Known(n) = {Representative(n)}
      BY <1>6, <3>2
    <3>4. Representative(n) \in Internal /\ Representative(n) # Null
      BY <1>3, <1>4, <3>2 DEF Node
    <3>5. QED
      BY <1>2, <1>3, <1>6, <3>3, <3>4
  <2>3. QED
    BY <2>1, <2>2
<1>7. QED
  BY <1>5, <1>6

\* After a call for n, every node is as up to date as before, n itself
\* included, or it is one of the requirers that are visited next.
LEMMA CallUpdates ==
  ASSUME TypeOK, graph \in Graphs, NEW n \in Node,
         rep' = [rep EXCEPT ![n] = Representative(n)],
         UNCHANGED <<graph, valid>>,
         NEW k \in Node, k = n \/ UpToDate(k)
  PROVE  UpToDate(k)' \/ (Representative(n) # rep[n] /\ k \in Elements(graph.by[n]))
<1>2. n \in Elements(graph.req[k]) => k \in Elements(graph.by[n])
  BY GraphAssumption
<1>3. CASE Representative(n) = rep[n]
  <2>1. rep' = rep
    BY <1>3 DEF TypeOK
  <2>2. Known(k)' = Known(k)
    BY <2>1 DEF Known
  <2>3. Representative(k)' = Representative(k)
    BY <2>2 DEF Representative, ValidExtract
  <2>4. UpToDate(k)
    BY <1>3 DEF UpToDate
  <2>5. QED
    BY <2>1, <2>2, <2>3, <2>4 DEF UpToDate
<1>4. CASE n \notin Elements(graph.req[k])
  <2>1. \A m \in Elements(graph.req[k]) : m \in Node /\ rep'[m] = rep[m]
    BY <1>4, RepresentativeFacts DEF Node, TypeOK
  <2>2. Known(k)' = Known(k)
    BY <2>1 DEF Known
  <2>3. Representative(k)' = Representative(k)
    BY <2>2 DEF Representative, ValidExtract
  <2>4. CASE k = n
    <3>1. rep'[k] = Representative(k)'
      BY <2>3, <2>4 DEF TypeOK
    <3>2. QED
      BY <3>1 DEF UpToDate
  <2>5. CASE k # n
    <3>1. rep'[k] = rep[k]
      BY <2>5 DEF TypeOK
    <3>2. QED
      BY <2>2, <2>3, <2>5, <3>1 DEF UpToDate
  <2>6. QED
    BY <2>4, <2>5
<1>5. QED
  BY <1>2, <1>3, <1>4

\* Taking the next requirer of the innermost call.
LEMMA AdvanceFrame ==
  ASSUME NEW T, NEW st \in Seq(Seq(T)), st # <<>>, st[1] # <<>>
  PROVE  /\ [st EXCEPT ![1] = Tail(@)] \in Seq(Seq(T))
         /\ st[1][1] \in T
         /\ InFrames(st) = {st[1][1]} \cup InFrames([st EXCEPT ![1] = Tail(@)])
<1> DEFINE new == [st EXCEPT ![1] = Tail(@)]
<1>1. /\ st[1] \in Seq(T)
      /\ 1 \in DOMAIN st
  OBVIOUS
<1>2. /\ Tail(st[1]) \in Seq(T)
      /\ st[1][1] \in T
      /\ Elements(st[1]) = {st[1][1]} \cup Elements(Tail(st[1]))
  BY <1>1, ElementsTail
<1>3. /\ new \in Seq(Seq(T))
      /\ DOMAIN new = DOMAIN st
      /\ new[1] = Tail(st[1])
      /\ \A k \in DOMAIN st : k # 1 => new[k] = st[k]
  BY <1>1, <1>2
<1> HIDE DEF new
<1>4. \A x : x \in InFrames(st) <=> \E k \in DOMAIN st : x \in Elements(st[k])
  BY DEF InFrames
<1>5. \A x : x \in InFrames(new) <=> \E k \in DOMAIN st : x \in Elements(new[k])
  BY <1>3 DEF InFrames
<1>6. \A x : x \in InFrames(st) <=> x = st[1][1] \/ x \in InFrames(new)
  <2>1. ASSUME NEW x, x \in InFrames(st)
        PROVE  x = st[1][1] \/ x \in InFrames(new)
    <3>1. PICK k \in DOMAIN st : x \in Elements(st[k])
      BY <1>4, <2>1
    <3>2. CASE k = 1
      BY <1>1, <1>2, <1>3, <1>5, <3>1, <3>2
    <3>3. CASE k # 1
      BY <1>3, <1>5, <3>1, <3>3
    <3>4. QED
      BY <3>2, <3>3
  <2>2. ASSUME NEW x, x \in InFrames(new)
        PROVE  x \in InFrames(st)
    <3>1. PICK k \in DOMAIN st : x \in Elements(new[k])
      BY <1>5, <2>2
    <3>2. CASE k = 1
      BY <1>1, <1>2, <1>3, <1>4, <3>1, <3>2
    <3>3. CASE k # 1
      BY <1>3, <1>4, <3>1, <3>3
    <3>4. QED
      BY <3>2, <3>3
  <2>3. st[1][1] \in InFrames(st)
    BY <1>1, <1>2, <1>4
  <2>4. QED
    BY <2>1, <2>2, <2>3
<1>7. new \in Seq(Seq(T)) /\ InFrames(st) = {st[1][1]} \cup InFrames(new)
  BY <1>3, <1>6
<1>8. QED
  BY <1>2, <1>7 DEF new

\* A call leaves no node behind that is neither up to date nor visited later.
LEMMA CallInv ==
  ASSUME Inv, pc = "update", NEW n \in Node,
         NEW rest \in Seq(Seq(Node)), Call(n, rest),
         \A k \in Node : \/ k = n \/ k \in todo' \/ k \in InFrames(rest)
                         \/ UpToDate(k),
         todo' \subseteq Node
  PROVE  Inv'
<1>1. /\ Representative(n) \in Internal \cup {n, Null}
      /\ rep' = [rep EXCEPT ![n] = Representative(n)]
      /\ UNCHANGED <<graph, req, by, valid, search, alive, pc>>
      /\ stack' = IF Representative(n) # rep[n] THEN <<graph.by[n]>> \o rest
                                                ELSE rest
  BY RepresentativeFacts DEF Call, Inv
<1>2. graph.by[n] \in Seq(Node)
  BY DEF Inv, TypeOK
<1>3. /\ <<graph.by[n]>> \o rest \in Seq(Seq(Node))
      /\ InFrames(<<graph.by[n]>> \o rest) = Elements(graph.by[n]) \cup InFrames(rest)
  BY <1>2, PushFrame
<1>4. stack' \in Seq(Seq(Node))
  BY <1>1, <1>3
<1>5. /\ rep' \in [Node -> Internal \cup External \cup {Null}]
      /\ \A k \in Node : rep'[k] \in Internal \cup {k, Null}
  <2>1. Representative(n) \in Internal \cup External \cup {Null}
    BY <1>1 DEF Node
  <2>2. rep \in [Node -> Internal \cup External \cup {Null}]
    BY DEF Inv, TypeOK
  <2>3. rep' \in [Node -> Internal \cup External \cup {Null}]
    BY <1>1, <2>1, <2>2
  <2>4. ASSUME NEW k \in Node
        PROVE  rep'[k] \in Internal \cup {k, Null}
    <3>1. CASE k = n
      <4>1. rep'[k] = Representative(n)
        BY <1>1, <2>2, <3>1
      <4>2. QED
        BY <1>1, <3>1, <4>1
    <3>2. CASE k # n
      <4>1. rep'[k] = rep[k]
        BY <1>1, <2>2, <3>2
      <4>2. QED
        BY <4>1 DEF Inv, TypeOK
    <3>3. QED
      BY <3>1, <3>2
  <2>5. QED
    BY <2>3, <2>4
<1>6. TypeOK'
  BY <1>1, <1>4, <1>5 DEF Inv, TypeOK, search
<1>7. ASSUME NEW k \in Node
      PROVE  k \in todo' \/ k \in InFrames(stack') \/ UpToDate(k)'
  <2>1. CASE k \in todo' \/ k \in InFrames(rest)
    BY <1>1, <1>3, <2>1
  <2>2. CASE k = n \/ UpToDate(k)
    <3>1. UpToDate(k)' \/ (Representative(n) # rep[n] /\ k \in Elements(graph.by[n]))
      BY <1>1, <2>2, CallUpdates DEF Inv, UpdateInv
    <3>2. QED
      BY <1>1, <1>3, <3>1
  <2>3. QED
    BY <2>1, <2>2
<1>8. UpdateInv'
  BY <1>1, <1>7 DEF Inv, UpdateInv, Late
<1>9. RedirectInv'
  BY <1>1 DEF Inv, RedirectInv
<1>10. SearchInv'
  BY <1>1 DEF Inv, SearchInv, Unchanged, Late
<1>11. MarkInv' /\ DeleteInv'
  BY <1>1 DEF Inv, MarkInv, DeleteInv, OnlyOrderIsUndefined
<1>12. QED
  BY <1>6, <1>8, <1>9, <1>10, <1>11 DEF Inv

-----------------------------------------------------------------------------
(* When every node is up to date *)

\* No node is without a representative: the nodes that are would be closed
\* under the requirements and without a source.
LEMMA EveryNodeKnown ==
  ASSUME TypeOK, graph \in Graphs, \A n \in Node : UpToDate(n)
  PROVE  \A n \in Node : /\ rep[n] \in Node
                         /\ rep[n] = Representative(n)
<1> DEFINE Unknown == {n \in Node : rep[n] = Null}
<1>1. ASSUME NEW n \in Unknown
      PROVE  /\ graph.req[n] # <<>>
             /\ Elements(graph.req[n]) \subseteq Unknown
  <2>1. Known(n) = {} /\ graph.req[n] # <<>>
    BY <1>1, RepresentativeFacts DEF UpToDate
  <2>2. Elements(graph.req[n]) \subseteq Node
    BY RepresentativeFacts DEF Node
  <2>3. QED
    BY <2>1, <2>2 DEF Known
<1>2. Closed(graph.req, Unknown)
  BY <1>1 DEF Closed
<1>3. Unknown \cap Sources(graph.req) = {} /\ Unknown \subseteq Node
  BY <1>1 DEF Sources
<1> HIDE DEF Unknown
<1>4. Unknown = {}
  BY <1>2, <1>3, GraphAssumption DEF Grounded
<1>5. QED
  <2>1. rep \in [Node -> Node \cup {Null}]
    BY DEF TypeOK, Node
  <2>2. \A n \in Node : rep[n] # Null
    BY <1>4 DEF Unknown
  <2>3. QED
    BY <2>1, <2>2 DEF UpToDate

\* The nodes that r represents but r itself only lead to each other and to r.
LEMMA RegionOfRepresentative ==
  ASSUME TypeOK, graph \in Graphs, \A n \in Node : UpToDate(n),
         NEW m \in Node, rep[m] # m
  PROVE  /\ graph.req[m] # <<>> /\ m \notin ValidExtract
         /\ \A k \in Elements(graph.req[m]) : k \in Node /\ rep[k] = rep[m]
<1>1. rep[m] = Representative(m) /\ rep[m] \in Node /\ rep[m] # Null
  BY EveryNodeKnown, NodeAssumption
<1>2. /\ graph.req[m] # <<>> /\ m \notin ValidExtract
      /\ Known(m) = {rep[m]}
      /\ Elements(graph.req[m]) \subseteq Node
  BY <1>1, RepresentativeFacts DEF Node
<1>3. ASSUME NEW k \in Elements(graph.req[m])
      PROVE  rep[k] = rep[m]
  <2>1. rep[k] # Null
    BY <1>2, EveryNodeKnown, NodeAssumption
  <2>2. rep[k] \in Known(m)
    BY <2>1 DEF Known
  <2>3. QED
    BY <1>2, <2>2
<1>4. QED
  BY <1>2, <1>3

\* A representative represents itself.
LEMMA RepresentativeOfItself ==
  ASSUME TypeOK, graph \in Graphs, \A n \in Node : UpToDate(n), NEW n \in Node
  PROVE  rep[rep[n]] = rep[n]
<1> DEFINE r == rep[n]
           S == {m \in Node : rep[m] = r}
<1>1. SUFFICES ASSUME rep[r] # r PROVE FALSE
  OBVIOUS
<1>2. \A m \in S : rep[m] # m
  BY <1>1
<1>3. \A m \in S : graph.req[m] # <<>> /\ Elements(graph.req[m]) \subseteq S
  BY <1>2, RegionOfRepresentative
<1>4. Closed(graph.req, S)
  BY <1>3 DEF Closed
<1>5. S \cap Sources(graph.req) = {} /\ S \subseteq Node
  BY <1>3 DEF Sources
<1> HIDE DEF S
<1>6. S = {}
  BY <1>4, <1>5, GraphAssumption DEF Grounded
<1>7. QED
  BY <1>6 DEF S

\* The region around n that only its representative leads out of.
LEMMA RepresentativeSeparates ==
  ASSUME TypeOK, graph \in Graphs, \A n \in Node : UpToDate(n),
         NEW n \in Node, rep[n] # n
  PROVE  Separates(rep[n], n, ValidExtract)
<1> DEFINE r == rep[n]
           S == {m \in Node : rep[m] = r /\ m # r}
<1>1. \A m \in S : /\ graph.req[m] # <<>> /\ m \notin ValidExtract
                   /\ Elements(graph.req[m]) \subseteq S \cup {r}
  BY RegionOfRepresentative
<1>2. S \in SUBSET (Node \ {r}) /\ n \in S
  OBVIOUS
<1>3. S \cap (Sources(graph.req) \cup ValidExtract) = {}
  BY <1>1 DEF Sources
<1>4. QED
  BY <1>1, <1>2, <1>3 DEF Separates

-----------------------------------------------------------------------------
(* Reachability *)

\* A node leads to itself, and to what a node requires that it leads to.
LEMMA ReachedStep ==
  ASSUME NEW g \in [Node -> Seq(Internal)], NEW n \in Node
  PROVE  /\ n \in Reached(g, n)
         /\ \A m \in Reached(g, n) : Elements(g[m]) \subseteq Reached(g, n)
<1>1. ASSUME NEW m \in Reached(g, n), NEW k \in Elements(g[m])
      PROVE  k \in Reached(g, n)
  <2>1. m \in Node
    BY DEF Reached
  <2>2. g[m] \in Seq(Internal)
    BY <2>1
  <2>3. k \in Node
    BY <2>2 DEF Elements, Node
  <2>4. ASSUME NEW S \in SUBSET Node, n \in S, Closed(g, S)
        PROVE  k \in S
    <3>1. m \in S
      BY <2>4 DEF Reached
    <3>2. QED
      BY <2>4, <3>1 DEF Closed
  <2>5. QED
    BY <2>3, <2>4 DEF Reached
<1>2. n \in Reached(g, n)
  BY DEF Reached
<1>3. QED
  BY <1>1, <1>2

\* A node leads nowhere out of a closed set.
LEMMA ReachedInside ==
  ASSUME NEW g, NEW S \in SUBSET Node, Closed(g, S), NEW n \in S
  PROVE  Reached(g, n) \subseteq S
  BY DEF Reached

-----------------------------------------------------------------------------
(* The invariant: the searches *)

\* The invariant holds when simplifyWitnessGraph starts.
LEMMA InitInv == Init => Inv
<1> SUFFICES ASSUME Init PROVE Inv
  OBVIOUS
<1>1. /\ graph \in Graphs
      /\ graph.req \in [Node -> Seq(Internal)]
      /\ graph.by \in [Node -> Seq(Node)]
  BY GraphAssumption DEF Init
<1>2. \A n \in Node : Elements(graph.by[n]) \subseteq Node
  BY <1>1 DEF Elements
<1>3. TypeOK
  <2>1. by \in [Node -> SUBSET Node]
    BY <1>2 DEF Init
  <2>2. QED
    BY <1>1, <2>1 DEF Init, TypeOK
<1>4. UpdateInv /\ RedirectInv
  BY <1>1 DEF Init, UpdateInv, RedirectInv, Late
<1>5. SearchInv
  BY DEF Init, SearchInv, Late
<1>6. MarkInv /\ DeleteInv
  BY DEF Init, MarkInv, DeleteInv, OnlyOrderIsUndefined
<1>7. QED
  BY <1>3, <1>4, <1>5, <1>6 DEF Inv

\* With the option the search begins, without it everything is deleted.
LEMMA StartInv == Inv /\ Start => Inv'
<1> SUFFICES ASSUME Inv, Start PROVE Inv'
  OBVIOUS
<1>1. /\ pc = "start"
      /\ UNCHANGED <<graph, req, by, valid, rep, stack, current, seen, pending, alive>>
      /\ \/ pc' = "search" /\ todo' = External
         \/ pc' = "destroy" /\ todo' = Node
  BY DEF Start, search
<1>2. /\ alive = Node /\ req = graph.req /\ valid = External
      /\ current = Null /\ pending = <<>>
      /\ rep = [n \in Node |-> Null] /\ graph \in Graphs
  BY <1>1 DEF Inv, TypeOK, DeleteInv, RedirectInv, SearchInv, UpdateInv
<1>3. TypeOK'
  BY <1>1 DEF Inv, TypeOK, Node
<1>4. UpdateInv' /\ RedirectInv'
  BY <1>1, <1>2 DEF UpdateInv, RedirectInv, Late
<1>5. SearchInv'
  BY <1>1, <1>2 DEF SearchInv, Late
<1>6. MarkInv'
  BY <1>1 DEF MarkInv
<1>7. \A n \in Node : Elements(req[n]) \subseteq Node
  <2>1. \A n \in Node : req[n] \in Seq(Internal)
    BY DEF Inv, TypeOK
  <2>2. QED
    BY <2>1 DEF Elements, Node
<1>8. DeleteInv'
  BY <1>1, <1>2, <1>7 DEF DeleteInv, OnlyOrderIsUndefined
<1>9. QED
  BY <1>3, <1>4, <1>5, <1>6, <1>8 DEF Inv

\* During the searches only the targets and the search itself change.
LEMMA SearchStep ==
  ASSUME Inv, pc = "search", pc' = "search",
         UNCHANGED <<graph, req, by, rep, stack, alive>>
  PROVE  UpdateInv' /\ RedirectInv' /\ MarkInv' /\ DeleteInv'
<1>1. UpdateInv' /\ RedirectInv'
  BY DEF Inv, UpdateInv, RedirectInv, Late
<1>2. MarkInv' /\ DeleteInv'
  BY DEF Inv, MarkInv, DeleteInv, OnlyOrderIsUndefined
<1>3. QED
  BY <1>1, <1>2

\* The loop over the external nodes.
LEMMA SearchTargetInv == Inv /\ SearchTarget => Inv'
<1> SUFFICES ASSUME Inv, SearchTarget PROVE Inv'
  OBVIOUS
<1>1. /\ pc = "search" /\ pc' = "search" /\ current = Null
      /\ UNCHANGED <<graph, req, by, valid, rep, stack, alive>>
  BY DEF SearchTarget
<1>2. PICK n \in todo :
        /\ todo' = todo \ {n}
        /\ IF n \in valid \cap Invariant
             THEN current' = n /\ seen' = {} /\ pending' = <<n>>
             ELSE UNCHANGED <<current, seen, pending>>
  BY DEF SearchTarget, search
<1>3. /\ todo \subseteq valid /\ valid \subseteq External
      /\ \A k \in External \ todo : k # Null => (k \notin valid <=> Unchanged(k))
      /\ pending = <<>>
  BY <1>1 DEF Inv, SearchInv, TypeOK
<1>4. n \in valid /\ n \in External /\ n \in Node /\ Null \notin Node
  BY <1>2, <1>3, NodeAssumption DEF Node
<1>5. \A k : Unchanged(k)' <=> Unchanged(k)
  BY <1>1 DEF Unchanged
<1>6. TypeOK'
  <2>1. <<n>> \in Seq(Node)
    BY <1>4
  <2>2. QED
    BY <1>1, <1>2, <1>4, <2>1 DEF Inv, TypeOK
<1>7. SearchInv'
  <2>1. CASE n \in Invariant
    <3>1. current' = n /\ seen' = {} /\ pending' = <<n>>
      BY <1>2, <1>4, <2>1
    <3>2. seen' \cup Elements(pending') = {n}
      BY <3>1, ElementsOne
    <3>3. n \in Reached(graph.req, n)
      BY <1>4, ReachedStep DEF Inv, TypeOK
    <3>4. Searching'
      BY <1>1, <1>2, <2>1, <3>1, <3>2, <3>3 DEF Searching
    <3>5. QED
      BY <1>1, <1>2, <1>3, <1>4, <1>5, <3>1, <3>4 DEF SearchInv, Late, Node
  <2>2. CASE n \notin Invariant
    <3>1. current' = Null /\ pending' = <<>>
      BY <1>1, <1>2, <1>3, <2>2
    <3>2. ~Unchanged(n)
      BY <2>2 DEF Unchanged
    <3>3. QED
      BY <1>1, <1>2, <1>3, <1>4, <1>5, <3>1, <3>2 DEF SearchInv, Late, Node
  <2>3. QED
    BY <2>1, <2>2
<1>8. QED
  BY <1>1, <1>6, <1>7, SearchStep DEF Inv

\* One call of didNotChangeSinceWitness.
LEMMA SearchNodeInv == Inv /\ SearchNode => Inv'
<1> SUFFICES ASSUME Inv, SearchNode PROVE Inv'
  OBVIOUS
<1> DEFINE n == Head(pending)
           rest == Tail(pending)
<1>1. /\ pc = "search" /\ pc' = "search" /\ pending # <<>>
      /\ UNCHANGED <<graph, req, by, valid, rep, stack, todo, alive>>
      /\ seen' = seen \cup {n}
      /\ \/ /\ n \in seen \cup Sources(graph.req)
            /\ pending' = rest
            /\ current' = current
         \/ /\ n \notin seen \cup Sources(graph.req)
            /\ n \in Shifted
            /\ pending' = <<>>
            /\ current' = Null
         \/ /\ n \notin seen \cup Sources(graph.req)
            /\ n \notin Shifted
            /\ pending' = graph.req[n] \o rest
            /\ current' = current
  BY DEF SearchNode
<1>2. /\ current # Null /\ current \in valid /\ Searching
      /\ todo \subseteq valid
      /\ \A k \in External \ todo : k # current => (k \notin valid <=> Unchanged(k))
  BY <1>1 DEF Inv, SearchInv
<1>3. /\ graph.req \in [Node -> Seq(Internal)] /\ pending \in Seq(Node)
      /\ seen \subseteq Node /\ current \in External /\ valid \subseteq External
  BY <1>2 DEF Inv, TypeOK
<1>4. /\ rest \in Seq(Node) /\ n \in Node
      /\ Elements(pending) = {n} \cup Elements(rest)
  BY <1>1, <1>3, ElementsTail
<1> HIDE DEF n, rest
<1>5. graph.req[n] \in Seq(Node) /\ graph.req[n] \in Seq(Internal)
  <2>1. graph.req[n] \in Seq(Internal)
    BY <1>3, <1>4
  <2>2. QED
    BY <2>1 DEF Node
<1>6. /\ graph.req[n] \o rest \in Seq(Node)
      /\ Elements(graph.req[n] \o rest) = Elements(graph.req[n]) \cup Elements(rest)
  BY <1>4, <1>5, ElementsConcat
<1>7. \A k : Unchanged(k)' <=> Unchanged(k)
  BY <1>1 DEF Unchanged
<1>8. n \in Reached(graph.req, current)
  BY <1>2, <1>4 DEF Searching
<1>9. TypeOK'
  <2>1. seen' \subseteq Node
    BY <1>1, <1>3, <1>4
  <2>2. current' \in External \cup {Null}
    BY <1>1, <1>3
  <2> DEFINE longer == graph.req[n] \o rest
             none == <<>>
  <2>3. longer \in Seq(Node) /\ none \in Seq(Node)
    BY <1>6
  <2>4. pending' = rest \/ pending' = none \/ pending' = longer
    BY <1>1
  <2> HIDE DEF longer, none
  <2>5. pending' \in Seq(Node)
    BY <1>4, <2>3, <2>4
  <2>6. QED
    BY <1>1, <2>1, <2>2, <2>5 DEF Inv, TypeOK
<1>10. SearchInv'
  <2>1. CASE n \in seen \cup Sources(graph.req)
    <3>1. pending' = rest /\ current' = current
      BY <1>1, <2>1
    <3>2. seen' \cup Elements(pending') = seen \cup Elements(pending)
      BY <1>1, <1>4, <3>1
    <3>3. n \in seen \/ graph.req[n] = <<>>
      BY <2>1 DEF Sources
    <3>4. Searching'
      BY <1>1, <1>2, <3>1, <3>2, <3>3 DEF Searching
    <3>5. QED
      BY <1>1, <1>2, <1>7, <3>1, <3>4 DEF SearchInv, Late
  <2>2. CASE n \notin seen \cup Sources(graph.req) /\ n \in Shifted
    <3>1. pending' = <<>> /\ current' = Null
      BY <1>1, <2>2
    <3>2. ~Unchanged(current)
      BY <1>8, <2>2 DEF Unchanged
    <3>3. QED
      BY <1>1, <1>2, <1>7, <3>1, <3>2 DEF SearchInv, Late
  <2>3. CASE n \notin seen \cup Sources(graph.req) /\ n \notin Shifted
    <3>1. pending' = graph.req[n] \o rest /\ current' = current
      BY <1>1, <2>3
    <3>2. seen' \cup Elements(pending')
            = seen \cup Elements(pending) \cup Elements(graph.req[n])
      BY <1>1, <1>4, <1>6, <3>1
    <3>3. Elements(graph.req[n]) \subseteq Reached(graph.req, current)
      <4>1. current \in Node
        BY <1>3 DEF Node
      <4>2. QED
        BY <1>3, <1>8, <4>1, ReachedStep
    <3>4. \A k \in seen' :
            \/ graph.req[k] = <<>>
            \/ /\ k \notin Shifted
               /\ Elements(graph.req[k]) \subseteq seen' \cup Elements(pending')
      BY <1>1, <1>2, <2>3, <3>2 DEF Searching
    <3>5. Searching'
      BY <1>1, <1>2, <3>1, <3>2, <3>3, <3>4 DEF Searching
    <3>6. QED
      BY <1>1, <1>2, <1>7, <3>1, <3>5 DEF SearchInv, Late
  <2>4. QED
    BY <2>1, <2>2, <2>3
<1>11. QED
  BY <1>1, <1>9, <1>10, SearchStep DEF Inv

\* The search came to its end: the target leads to no shifted node.
LEMMA InvalidateInv == Inv /\ InvalidateUnchanged => Inv'
<1> SUFFICES ASSUME Inv, InvalidateUnchanged PROVE Inv'
  OBVIOUS
<1>1. /\ pc = "search" /\ pc' = "search" /\ current # Null /\ pending = <<>>
      /\ valid' = valid \ {current} /\ current' = Null
      /\ UNCHANGED <<graph, req, by, rep, stack, todo, seen, pending, alive>>
  BY DEF InvalidateUnchanged
<1>2. /\ current \in valid /\ Searching
      /\ todo \subseteq valid
      /\ \A k \in External \ todo : k # current => (k \notin valid <=> Unchanged(k))
  BY <1>1 DEF Inv, SearchInv
<1>3. Unchanged(current)
  <2>1. seen \cup Elements(pending) = seen
    BY <1>1, ElementsOne
  <2>2. \A n \in seen : \/ graph.req[n] = <<>>
                        \/ n \notin Shifted /\ Elements(graph.req[n]) \subseteq seen
    BY <1>2, <2>1 DEF Searching
  <2>3. Closed(graph.req, seen)
    BY <2>2, ElementsOne DEF Closed
  <2>4. Reached(graph.req, current) \subseteq seen
    BY <1>2, <2>1, <2>3, ReachedInside DEF Inv, TypeOK, Searching
  <2>5. \A n \in seen \cap Shifted : n \in Sources(graph.req)
    BY <2>2 DEF Inv, TypeOK, Sources
  <2>6. QED
    BY <1>2, <2>4, <2>5 DEF Unchanged, Searching
<1>4. \A k : Unchanged(k)' <=> Unchanged(k)
  BY <1>1 DEF Unchanged
<1>5. TypeOK'
  BY <1>1 DEF Inv, TypeOK
<1>6. SearchInv'
  BY <1>1, <1>2, <1>3, <1>4 DEF SearchInv, Searching, Late
<1>7. QED
  BY <1>1, <1>5, <1>6, SearchStep DEF Inv

\* The loop ends: all roots are pending, other nodes know nothing yet.
LEMMA SearchesDoneInv == Inv /\ SearchesDone => Inv'
<1> SUFFICES ASSUME Inv, SearchesDone PROVE Inv'
  OBVIOUS
<1>1. /\ pc = "search" /\ pc' = "update" /\ current = Null /\ todo = {}
      /\ todo' = Sources(graph.req)
      /\ UNCHANGED <<graph, req, by, valid, rep, stack, current, seen, pending, alive>>
  BY DEF SearchesDone, search
<1>2. rep = [n \in Node |-> Null] /\ pending = <<>>
  BY <1>1 DEF Inv, UpdateInv, SearchInv
<1>3. TypeOK'
  <2>1. todo' \subseteq Node
    BY <1>1 DEF Sources
  <2>2. QED
    BY <1>1, <1>2, <2>1 DEF Inv, TypeOK
<1>4. UpdateInv'
  <2>1. ASSUME NEW n \in Node, n \notin Sources(graph.req)
        PROVE  UpToDate(n)'
    <3>1. graph.req[n] # <<>> /\ rep[n] = Null
      BY <1>2, <2>1 DEF Sources
    <3>2. Elements(graph.req[n]) \subseteq Node
      BY RepresentativeFacts DEF Inv, Node
    <3>3. Known(n) = {}
      BY <1>2, <3>2 DEF Known
    <3>4. Known(n)' = {}
      BY <1>1, <3>3 DEF Known
    <3>5. QED
      BY <1>1, <3>1, <3>4 DEF UpToDate
  <2>2. QED
    BY <1>1, <2>1 DEF Inv, UpdateInv, Late
<1>5. RedirectInv'
  BY <1>1 DEF Inv, RedirectInv
<1>6. SearchInv'
  <2>1. Null \notin External
    BY NodeAssumption DEF Node
  <2>2. \A n \in External : n \notin valid <=> Unchanged(n)
    BY <1>1, <2>1 DEF Inv, SearchInv
  <2>3. \A n : Unchanged(n)' <=> Unchanged(n)
    BY <1>1 DEF Unchanged
  <2>4. QED
    BY <1>1, <2>2, <2>3 DEF SearchInv
<1>7. MarkInv' /\ DeleteInv'
  BY <1>1 DEF Inv, MarkInv, DeleteInv, OnlyOrderIsUndefined
<1>8. QED
  BY <1>3, <1>4, <1>5, <1>6, <1>7 DEF Inv

-----------------------------------------------------------------------------
(* The invariant: the updates *)

\* The loop over the roots.
LEMMA UpdateRootInv == Inv /\ UpdateRoot => Inv'
<1> SUFFICES ASSUME Inv, UpdateRoot PROVE Inv'
  OBVIOUS
<1>1. PICK n \in todo : Call(n, <<>>) /\ todo' = todo \ {n}
  BY DEF UpdateRoot
<1>2. pc = "update" /\ stack = <<>> /\ todo \subseteq Node
  BY DEF UpdateRoot, Inv, TypeOK
<1>3. InFrames(<<>>) = {} /\ <<>> \in Seq(Seq(Node))
  BY DEF InFrames
<1>4. \A k \in Node : k = n \/ k \in todo' \/ k \in InFrames(<<>>) \/ UpToDate(k)
  BY <1>1, <1>2, <1>3 DEF Inv, UpdateInv
<1>5. n \in Node /\ todo' \subseteq Node
  BY <1>1, <1>2
<1>6. QED
  BY <1>1, <1>2, <1>3, <1>4, <1>5, CallInv

\* The loop over the requirers in updateWitnessNode.
LEMMA UpdateRequirerInv == Inv /\ UpdateRequirer => Inv'
<1> SUFFICES ASSUME Inv, UpdateRequirer PROVE Inv'
  OBVIOUS
<1> DEFINE n == stack[1][1]
           rest == [stack EXCEPT ![1] = Tail(@)]
<1>1. /\ pc = "update" /\ stack # <<>> /\ stack[1] # <<>>
      /\ Call(n, rest)
      /\ todo' = todo
  BY DEF UpdateRequirer
<1>2. stack \in Seq(Seq(Node)) /\ todo' \subseteq Node
  BY <1>1 DEF Inv, TypeOK
<1>3. /\ rest \in Seq(Seq(Node)) /\ n \in Node
      /\ InFrames(stack) = {n} \cup InFrames(rest)
  BY <1>1, <1>2, AdvanceFrame
<1> HIDE DEF n, rest
<1>4. \A k \in Node : k = n \/ k \in todo' \/ k \in InFrames(rest) \/ UpToDate(k)
  BY <1>1, <1>3 DEF Inv, UpdateInv
<1>5. QED
  BY <1>1, <1>2, <1>3, <1>4, CallInv

\* While graph, targets and representatives stay, so does what is known.
LEMMA Kept ==
  ASSUME UNCHANGED <<graph, valid, rep>>
  PROVE  /\ \A n : UpToDate(n)' <=> UpToDate(n)
         /\ \A n : Unchanged(n)' <=> Unchanged(n)
<1>1. \A n : UpToDate(n)' <=> UpToDate(n)
  BY DEF UpToDate, Representative, Known, ValidExtract
<1>2. \A n : Unchanged(n)' <=> Unchanged(n)
  BY DEF Unchanged
<1>3. QED
  BY <1>1, <1>2

\* From one late phase to the next the search stays decided as well.
LEMMA LateStep ==
  ASSUME Inv, pc \in Late, pc' \in Late \cup {"destroy", "gone", "undefined"},
         UNCHANGED <<graph, valid, rep>>
  PROVE  UpdateInv' /\ SearchInv'
<1>1. /\ pc' \notin {"start", "search", "update", "assert"}
      /\ pc' # "start" /\ pc' # "search" /\ pc' # "update" /\ pc' # "assert"
  BY DEF Late
<1>2. UpdateInv'
  BY <1>1, Kept DEF Inv, UpdateInv
<1>3. SearchInv'
  BY <1>1, Kept DEF Inv, SearchInv
<1>4. QED
  BY <1>2, <1>3

\* The end of updateWitnessNode.
LEMMA ReturnInv == Inv /\ ReturnFromUpdate => Inv'
<1> SUFFICES ASSUME Inv, ReturnFromUpdate PROVE Inv'
  OBVIOUS
<1>1. /\ pc = "update" /\ pc' = "update" /\ stack # <<>> /\ stack[1] = <<>>
      /\ stack' = Tail(stack)
      /\ UNCHANGED <<graph, req, by, valid, rep, todo, current, seen, pending, alive>>
  BY DEF ReturnFromUpdate, search
<1>2. stack \in Seq(Seq(Node))
  BY DEF Inv, TypeOK
<1>3. /\ stack' \in Seq(Seq(Node))
      /\ InFrames(stack) = Elements(stack[1]) \cup InFrames(stack')
  BY <1>1, <1>2, PopFrame
<1>4. Elements(stack[1]) = {}
  BY <1>1 DEF Elements
<1>5. TypeOK'
  BY <1>1, <1>3 DEF Inv, TypeOK
<1>6. UpdateInv'
  BY <1>1, <1>3, <1>4, Kept DEF Inv, UpdateInv, Late
<1>7. SearchInv'
  BY <1>1, Kept DEF Inv, SearchInv
<1>8. RedirectInv' /\ MarkInv' /\ DeleteInv'
  BY <1>1 DEF Inv, RedirectInv, MarkInv, DeleteInv, OnlyOrderIsUndefined
<1>9. QED
  BY <1>5, <1>6, <1>7, <1>8 DEF Inv

\* The end of the loop over the roots: nothing is pending.
LEMMA UpdatesDoneInv == Inv /\ UpdatesDone => Inv'
<1> SUFFICES ASSUME Inv, UpdatesDone PROVE Inv'
  OBVIOUS
<1>1. /\ pc = "update" /\ pc' = "apply" /\ stack = <<>> /\ todo = {}
      /\ todo' = Node
      /\ UNCHANGED <<graph, req, by, valid, rep, stack, current, seen, pending, alive>>
  BY DEF UpdatesDone, search
<1>2. TypeOK'
  BY <1>1 DEF Inv, TypeOK
<1>3. InFrames(stack) = {}
  BY <1>1 DEF InFrames
<1>4. \A n \in Node : UpToDate(n)
  BY <1>1, <1>3 DEF Inv, UpdateInv
<1>5. UpdateInv'
  BY <1>1, <1>4, Kept DEF Inv, UpdateInv
<1>6. SearchInv'
  BY <1>1, Kept DEF Inv, SearchInv
<1>7. RedirectInv' /\ MarkInv' /\ DeleteInv'
  BY <1>1 DEF Inv, RedirectInv, MarkInv, DeleteInv, OnlyOrderIsUndefined
<1>8. QED
  BY <1>2, <1>5, <1>6, <1>7 DEF Inv

\* clearRequirements keeps to the nodes.
LEMMA ClearedType ==
  ASSUME TypeOK, NEW n
  PROVE  Cleared(n) \in [Node -> SUBSET Node]
<1>1. by \in [Node -> SUBSET Node]
  BY DEF TypeOK
<1>2. QED
  BY <1>1 DEF Cleared

\* One step of the loop that redirects requirements.
LEMMA ApplyInv == Inv /\ ApplyRepresentative => Inv'
<1> SUFFICES ASSUME Inv, ApplyRepresentative PROVE Inv'
  OBVIOUS
<1>1. /\ pc = "apply"
      /\ UNCHANGED <<graph, valid, rep, stack, current, seen, pending, alive>>
  BY DEF ApplyRepresentative, search
<1>2. PICK n \in todo :
        /\ IF rep[n] \in {n, Null} THEN UNCHANGED <<req, by>>
                                   ELSE Redirect(n, rep[n])
        /\ pc' = IF rep[n] = Null THEN "assert" ELSE pc
        /\ todo' = todo \ {n}
  BY DEF ApplyRepresentative
<1>3. n \in Node /\ rep[n] \in Node /\ rep[n] # Null
  <2>1. n \in Node
    BY <1>2 DEF Inv, TypeOK
  <2>2. rep[n] \in Node
    BY <1>1, <2>1, EveryNodeKnown DEF Inv, UpdateInv, Late
  <2>3. QED
    BY <2>1, <2>2, NodeAssumption
<1>4. pc' = "apply"
  BY <1>1, <1>2, <1>3
<1>5. /\ req \in [Node -> Seq(Internal)] /\ by \in [Node -> SUBSET Node]
      /\ todo \subseteq Node /\ rep[n] \in Internal \cup {n, Null}
  BY <1>3 DEF Inv, TypeOK
<1>6. /\ req' \in [Node -> Seq(Internal)]
      /\ by' \in [Node -> SUBSET Node]
      /\ req' = [req EXCEPT ![n] = IF rep[n] = n THEN @ ELSE <<rep[n]>>]
  <2>1. CASE rep[n] = n
    BY <1>2, <1>5, <2>1
  <2>2. CASE rep[n] # n
    <3>1. Redirect(n, rep[n])
      BY <1>2, <1>3, <2>2
    <3>2. <<rep[n]>> \in Seq(Internal)
      BY <1>3, <1>5, <2>2
    <3>3. Cleared(n) \in [Node -> SUBSET Node]
      BY ClearedType DEF Inv
    <3>4. QED
      BY <1>3, <1>5, <2>2, <3>1, <3>2, <3>3 DEF Redirect
  <2>3. QED
    BY <2>1, <2>2
<1>7. TypeOK'
  BY <1>1, <1>2, <1>4, <1>6 DEF Inv, TypeOK
<1>8. UpdateInv' /\ SearchInv'
  BY <1>1, <1>4, LateStep DEF Late
<1>9. ASSUME NEW m \in Node
      PROVE  IF m \in todo' THEN req'[m] = graph'.req[m] ELSE Redirected(m)'
  <2>1. IF m \in todo THEN req[m] = graph.req[m] ELSE Redirected(m)
    BY <1>1 DEF Inv, RedirectInv
  <2>2. CASE m = n
    BY <1>1, <1>2, <1>5, <1>6, <2>1, <2>2 DEF Redirected
  <2>3. CASE m # n
    <3>1. req'[m] = req[m]
      BY <1>5, <1>6, <2>3
    <3>2. QED
      BY <1>1, <1>2, <2>1, <2>3, <3>1 DEF Redirected
  <2>4. QED
    BY <2>2, <2>3
<1>10. RedirectInv'
  BY <1>4, <1>9 DEF RedirectInv
<1>11. MarkInv' /\ DeleteInv'
  BY <1>1, <1>4 DEF Inv, MarkInv, DeleteInv, OnlyOrderIsUndefined
<1>12. QED
  BY <1>7, <1>8, <1>10, <1>11 DEF Inv

\* The end of that loop: all requirements are redirected.
LEMMA ApplyDoneInv == Inv /\ ApplyDone => Inv'
<1> SUFFICES ASSUME Inv, ApplyDone PROVE Inv'
  OBVIOUS
<1>1. /\ pc = "apply" /\ pc' = "drop" /\ todo = {} /\ todo' = External \ valid
      /\ UNCHANGED <<graph, req, by, valid, rep, stack, current, seen, pending, alive>>
  BY DEF ApplyDone, search
<1>2. TypeOK'
  BY <1>1 DEF Inv, TypeOK, Node
<1>3. UpdateInv' /\ SearchInv'
  BY <1>1, LateStep DEF Late
<1>4. RedirectInv'
  <2>1. \A n \in Node : Redirected(n)
    BY <1>1 DEF Inv, RedirectInv
  <2>2. \A n \in Node : Redirected(n)'
    BY <1>1, <2>1 DEF Redirected
  <2>3. alive' \subseteq Node
    BY <1>2 DEF TypeOK
  <2>4. QED
    BY <1>1, <2>2, <2>3 DEF RedirectInv
<1>5. MarkInv'
  BY <1>1 DEF MarkInv
<1>6. DeleteInv'
  <2>1. alive = Node /\ valid \subseteq External
    BY <1>1 DEF Inv, DeleteInv, TypeOK
  <2>2. alive = Internal \cup valid \cup (External \ valid)
    BY <2>1 DEF Node
  <2>3. QED
    BY <1>1, <2>2 DEF DeleteInv, OnlyOrderIsUndefined
<1>7. QED
  BY <1>2, <1>3, <1>4, <1>5, <1>6 DEF Inv

-----------------------------------------------------------------------------
(* The invariant: deleting nodes *)

\* The nodes are numbered in the order in which they are deleted.
LEMMA NodesAreNumbers ==
  /\ \A n \in Node : n \in Nat
  /\ \A e \in External, i \in Internal : e < i
  /\ Null \notin Node
  BY NodeAssumption

\* What a node requires that is not there any more is internal, comes before
\* it, and was required by it from the start or is its representative.
LEMMA MetDeleted ==
  ASSUME Inv, pc \in {"drop", "sweep", "destroy"}, NEW n \in todo,
         ~(Elements(req[n]) \subseteq alive)
  PROVE  \E m \in Elements(graph.req[n]) \cup ({rep[n]} \ {Null}) :
           m < n /\ n \in Internal
<1>1. PICK m \in Elements(req[n]) : m \notin alive
  OBVIOUS
<1>2. n \in Node /\ m \in Internal /\ m \in Node /\ m # Null
  <2>1. n \in Node
    BY DEF Inv, TypeOK
  <2>2. req[n] \in Seq(Internal)
    BY <2>1 DEF Inv, TypeOK
  <2>3. m \in Internal
    BY <2>2 DEF Elements
  <2>4. QED
    BY <2>1, <2>3, NodesAreNumbers DEF Node
<1>3. ASSUME Redirected(n)
      PROVE  m \in Elements(graph.req[n]) \cup ({rep[n]} \ {Null})
  <2>1. CASE rep[n] = n
    BY <1>3, <2>1 DEF Redirected
  <2>2. CASE rep[n] # n
    <3>1. m = rep[n]
      BY <1>3, <2>2, ElementsOne DEF Redirected
    <3>2. QED
      BY <1>2, <3>1
  <2>3. QED
    BY <2>1, <2>2
<1>4. CASE pc = "drop"
  <2>1. m \in alive
    BY <1>2, <1>4 DEF Inv, DeleteInv
  <2>2. QED
    BY <1>1, <2>1
<1>5. CASE pc = "sweep"
  <2>1. n \in Internal /\ n \in alive /\ m < n
    BY <1>1, <1>2, <1>5 DEF Inv, DeleteInv
  <2>2. Redirected(n)
    BY <1>5, <2>1 DEF Inv, RedirectInv
  <2>3. QED
    BY <1>3, <2>1, <2>2
<1>6. CASE pc = "destroy"
  <2>1. n \in alive /\ m < n /\ m \in Elements(graph.req[n]) \cup {rep[n]}
    BY <1>1, <1>2, <1>6 DEF Inv, DeleteInv
  <2>2. n \in Internal
    <3>1. CASE n \in External
      <4>1. n < m /\ n \in Nat /\ m \in Nat
        BY <1>2, <3>1, NodesAreNumbers
      <4>2. QED
        BY <2>1, <4>1
    <3>2. QED
      BY <1>2, <3>1 DEF Node
  <2>3. QED
    BY <1>2, <2>1, <2>2
<1>7. QED
  BY <1>4, <1>5, <1>6

\* What a destructor may change.
LEMMA DeleteStep ==
  ASSUME Inv, pc \in {"drop", "sweep", "destroy"}, NEW n \in todo,
         todo' = todo \ {n}, alive' = alive \ {n},
         req' = [req EXCEPT ![n] = <<>>], by' = Cleared(n),
         pc' = pc \/ pc' = "undefined",
         UNCHANGED <<graph, valid, rep, stack, current, seen, pending>>
  PROVE  /\ TypeOK' /\ UpdateInv' /\ RedirectInv' /\ SearchInv'
         /\ n \in Node
         /\ \A m \in Node : m # n => req'[m] = req[m]
         /\ req'[n] = <<>>
<1>1. /\ req \in [Node -> Seq(Internal)] /\ n \in Node
      /\ Cleared(n) \in [Node -> SUBSET Node]
  BY ClearedType DEF Inv, TypeOK
<1>2. TypeOK'
  <2>1. req' \in [Node -> Seq(Internal)]
    BY <1>1
  <2>2. todo' \subseteq Node /\ alive' \subseteq Node
    BY DEF Inv, TypeOK
  <2>3. pc' \in {"drop", "sweep", "destroy", "undefined"}
    OBVIOUS
  <2>4. QED
    BY <1>1, <2>1, <2>2, <2>3 DEF Inv, TypeOK
<1>3. UpdateInv' /\ SearchInv'
  <2>1. CASE pc = "destroy"
    BY <2>1 DEF Inv, UpdateInv, SearchInv, Late
  <2>2. CASE pc # "destroy"
    BY <2>2, LateStep DEF Late
  <2>3. QED
    BY <2>1, <2>2
<1>4. \A m \in Node : m # n => req'[m] = req[m]
  BY <1>1
<1>5. RedirectInv'
  <2>1. ASSUME pc' \in {"drop", "sweep"}, NEW m \in alive'
        PROVE  Redirected(m)'
    <3>1. m \in alive /\ m \in Node /\ m # n
      BY DEF Inv, TypeOK
    <3>2. Redirected(m)
      BY <2>1, <3>1 DEF Inv, RedirectInv
    <3>3. QED
      BY <1>4, <3>1, <3>2 DEF Redirected
  <2>2. QED
    BY <2>1 DEF RedirectInv
<1>6. QED
  BY <1>1, <1>2, <1>3, <1>4, <1>5

\* Clearing a node outside a closed set leads away from no node in it.
LEMMA ClearedOutside ==
  ASSUME NEW g, NEW h, NEW S \in SUBSET Node, Closed(g, S),
         \A m \in S : h[m] = g[m],
         NEW n \in S
  PROVE  Closed(h, S) /\ Reached(g, n) \subseteq Reached(h, n)
<1>1. Closed(h, S)
  BY DEF Closed
<1>2. ASSUME NEW m \in Reached(g, n), NEW R \in SUBSET Node, n \in R, Closed(h, R)
      PROVE  m \in R
  <2>1. Closed(g, R \cap S)
    BY <1>1, <1>2 DEF Closed
  <2>2. QED
    BY <1>2, <2>1, ReachedInside
<1>3. \A m \in Reached(g, n) : m \in Node
  BY DEF Reached
<1>4. QED
  BY <1>1, <1>2, <1>3 DEF Reached

\* The loops over nodes to delete.
LEMMA DeleteNodeInv == Inv /\ DeleteNode => Inv'
<1> SUFFICES ASSUME Inv, DeleteNode PROVE Inv'
  OBVIOUS
<1>1. /\ pc \in {"drop", "sweep", "destroy"}
      /\ UNCHANGED <<graph, valid, rep, stack, current, seen, pending>>
  BY DEF DeleteNode, search
<1>2. PICK n \in todo :
        /\ \A m \in todo : n <= m
        /\ todo' = todo \ {n}
        /\ alive' = alive \ {n}
        /\ req' = [req EXCEPT ![n] = <<>>]
        /\ by' = Cleared(n)
        /\ \/ pc' = pc
           \/ ~(Elements(req[n]) \subseteq alive) /\ pc' = "undefined"
  BY DEF DeleteNode, NextToDelete, NextInOrder
<1>3. /\ TypeOK' /\ UpdateInv' /\ RedirectInv' /\ SearchInv'
      /\ n \in Node
      /\ \A m \in Node : m # n => req'[m] = req[m]
      /\ req'[n] = <<>>
  BY <1>1, <1>2, DeleteStep
<1>4. CASE pc' # pc
  <2>1. pc' = "undefined" /\ ~(Elements(req[n]) \subseteq alive)
    BY <1>2, <1>4
  <2>2. \E m \in Elements(graph.req[n]) \cup ({rep[n]} \ {Null}) :
          m < n /\ n \in Internal
    BY <1>1, <2>1, MetDeleted
  <2>3. OnlyOrderIsUndefined'
    BY <1>1, <2>2 DEF OnlyOrderIsUndefined
  <2>4. MarkInv' /\ DeleteInv'
    BY <2>1, <2>3 DEF MarkInv, DeleteInv
  <2>5. QED
    BY <1>3, <2>4 DEF Inv
<1>5. CASE pc' = pc /\ pc = "drop"
  <2>1. todo \subseteq External \ valid /\ alive = Internal \cup valid \cup todo
    BY <1>5 DEF Inv, DeleteInv
  <2>2. n \notin Internal
    BY <2>1, NodesAreNumbers DEF Node
  <2>3. todo' \subseteq External \ valid' /\ alive' = Internal \cup valid' \cup todo'
    BY <1>1, <1>2, <2>1, <2>2
  <2>4. MarkInv' /\ DeleteInv'
    BY <1>5, <2>3 DEF MarkInv, DeleteInv, OnlyOrderIsUndefined
  <2>5. QED
    BY <1>3, <2>4 DEF Inv
<1>6. CASE pc' = pc /\ pc = "sweep"
  <2>1. /\ todo \subseteq Internal \ seen
        /\ alive = seen \cup todo
        /\ \A m \in Internal \ alive, k \in todo : m < k
    BY <1>6 DEF Inv, DeleteInv
  <2>2. ASSUME NEW m \in Internal \ alive', NEW k \in todo'
        PROVE  m < k
    <3>1. CASE m = n
      <4>1. n <= k /\ n # k /\ n \in Nat /\ k \in Nat
        BY <1>2, <1>3, <2>1, NodesAreNumbers DEF Node
      <4>2. QED
        BY <3>1, <4>1
    <3>2. CASE m # n
      BY <1>2, <2>1, <3>2
    <3>3. QED
      BY <3>1, <3>2
  <2>3. todo' \subseteq Internal \ seen' /\ alive' = seen' \cup todo'
    BY <1>1, <1>2, <2>1
  <2>4. DeleteInv'
    BY <1>6, <2>2, <2>3 DEF DeleteInv, OnlyOrderIsUndefined
  <2>5. valid \subseteq seen /\ Closed(req, seen) /\ Needed(seen) /\ seen \subseteq Node
    BY <1>6 DEF Inv, MarkInv, TypeOK
  <2>6. \A m \in seen : req'[m] = req[m]
    BY <1>2, <1>3, <2>1, <2>5
  <2>7. \A k \in valid : Closed(req', seen) /\ Reached(req, k) \subseteq Reached(req', k)
    BY <2>5, <2>6, ClearedOutside
  <2>8. Closed(req', seen)
    BY <2>5, <2>6 DEF Closed
  <2>9. Needed(seen)'
    BY <1>1, <2>5, <2>7 DEF Needed
  <2>10. MarkInv'
    BY <1>1, <1>6, <2>5, <2>8, <2>9 DEF MarkInv
  <2>11. QED
    BY <1>3, <2>4, <2>10 DEF Inv
<1>7. CASE pc' = pc /\ pc = "destroy"
  <2>1. /\ todo = alive
        /\ \A k \in alive : \A m \in Elements(req[k]) : m \in alive \/ m < k
        /\ \A k \in alive : Elements(req[k]) \subseteq Elements(graph.req[k]) \cup {rep[k]}
        /\ alive \subseteq Node
    BY <1>7 DEF Inv, DeleteInv, TypeOK
  <2>2. ASSUME NEW k \in alive', NEW m \in Elements(req'[k])
        PROVE  m \in alive' \/ m < k
    <3>1. k \in alive /\ k # n /\ k \in Node
      BY <1>2, <2>1
    <3>2. m \in Elements(req[k])
      BY <1>3, <3>1
    <3>3. CASE m = n
      <4>1. n <= k /\ n \in Nat /\ k \in Nat
        BY <1>2, <1>3, <2>1, <3>1, NodesAreNumbers
      <4>2. QED
        BY <3>1, <3>3, <4>1
    <3>4. CASE m # n
      BY <1>2, <2>1, <3>1, <3>2, <3>4
    <3>5. QED
      BY <3>3, <3>4
  <2>3. \A k \in alive' : Elements(req'[k]) \subseteq Elements(graph.req[k]) \cup {rep[k]}
    BY <1>2, <1>3, <2>1
  <2>4. todo' = alive'
    BY <1>2, <2>1
  <2>5. DeleteInv'
    BY <1>1, <1>7, <2>2, <2>3, <2>4 DEF DeleteInv, OnlyOrderIsUndefined
  <2>6. MarkInv'
    BY <1>7 DEF MarkInv
  <2>7. QED
    BY <1>3, <2>5, <2>6 DEF Inv
<1>8. QED
  BY <1>1, <1>4, <1>5, <1>6, <1>7

\* The nodes of invalid targets are gone, marking begins.
LEMMA DropDoneInv == Inv /\ DropDone => Inv'
<1> SUFFICES ASSUME Inv, DropDone PROVE Inv'
  OBVIOUS
<1>1. /\ pc = "drop" /\ pc' = "mark" /\ todo = {} /\ todo' = valid /\ seen' = {}
      /\ UNCHANGED <<graph, req, by, valid, rep, stack, current, pending, alive>>
  BY DEF DropDone
<1>2. TypeOK'
  BY <1>1 DEF Inv, TypeOK, Node
<1>3. UpdateInv' /\ SearchInv'
  BY <1>1, LateStep DEF Late
<1>4. RedirectInv'
  BY <1>1 DEF Inv, RedirectInv, Redirected
<1>5. Elements(pending') = {}
  BY <1>1, ElementsOne DEF Inv, TypeOK
<1>6. MarkInv'
  BY <1>1, <1>5 DEF MarkInv, Needed
<1>7. DeleteInv'
  BY <1>1 DEF Inv, DeleteInv, OnlyOrderIsUndefined
<1>8. QED
  BY <1>2, <1>3, <1>4, <1>6, <1>7 DEF Inv

\* Marking changes nothing but its own bookkeeping.
LEMMA MarkStep ==
  ASSUME Inv, pc = "mark", pc' = "mark",
         UNCHANGED <<graph, req, by, valid, rep, stack, current, alive>>
  PROVE  UpdateInv' /\ SearchInv' /\ RedirectInv' /\ DeleteInv'
<1>1. UpdateInv' /\ SearchInv'
  BY LateStep DEF Late
<1>2. RedirectInv'
  BY DEF Inv, RedirectInv, Redirected
<1>3. DeleteInv'
  BY DEF Inv, DeleteInv, OnlyOrderIsUndefined
<1>4. QED
  BY <1>1, <1>2, <1>3

\* The loop over the external nodes in removeDeadNodes.
LEMMA MarkTargetInv == Inv /\ MarkTarget => Inv'
<1> SUFFICES ASSUME Inv, MarkTarget PROVE Inv'
  OBVIOUS
<1>1. /\ pc = "mark" /\ pc' = "mark" /\ pending = <<>>
      /\ UNCHANGED <<graph, req, by, valid, rep, stack, current, seen, alive>>
  BY DEF MarkTarget
<1>2. PICK n \in todo : pending' = <<n>> /\ todo' = todo \ {n}
  BY DEF MarkTarget
<1>3. /\ todo \subseteq valid
      /\ valid \ todo \subseteq seen
      /\ \A m \in seen : Elements(req[m]) \subseteq seen
      /\ Needed(seen)
  BY <1>1, ElementsOne DEF Inv, MarkInv
<1>4. n \in valid /\ n \in Node /\ req \in [Node -> Seq(Internal)]
  BY <1>2, <1>3 DEF Inv, TypeOK
<1>5. TypeOK'
  <2>1. <<n>> \in Seq(Node)
    BY <1>4
  <2>2. QED
    BY <1>1, <1>2, <2>1 DEF Inv, TypeOK
<1>6. Elements(pending') = {n}
  BY <1>2, ElementsOne
<1>7. Needed(seen \cup {n})'
  <2>1. n \in Reached(req, n)
    BY <1>4, ReachedStep
  <2>2. QED
    BY <1>1, <1>3, <1>4, <2>1 DEF Needed
<1>8. MarkInv'
  BY <1>1, <1>2, <1>3, <1>6, <1>7 DEF MarkInv
<1>9. QED
  BY <1>1, <1>5, <1>8, MarkStep DEF Inv

\* One call of markAsReachable.
LEMMA MarkNodeInv == Inv /\ MarkNode => Inv'
<1> SUFFICES ASSUME Inv, MarkNode PROVE Inv'
  OBVIOUS
<1> DEFINE n == Head(pending)
           rest == Tail(pending)
<1>1. /\ pc = "mark" /\ pc' = "mark" /\ pending # <<>>
      /\ UNCHANGED <<graph, req, by, valid, rep, stack, todo, current, alive>>
      /\ seen' = seen \cup {n}
      /\ pending' = IF n \in seen THEN rest ELSE req[n] \o rest
  BY DEF MarkNode
<1>2. /\ todo \subseteq valid
      /\ valid \ todo \subseteq seen \cup Elements(pending)
      /\ \A m \in seen : Elements(req[m]) \subseteq seen \cup Elements(pending)
      /\ Needed(seen \cup Elements(pending))
  BY <1>1 DEF Inv, MarkInv
<1>3. /\ req \in [Node -> Seq(Internal)] /\ pending \in Seq(Node)
      /\ seen \subseteq Node /\ valid \subseteq Node
  BY DEF Inv, TypeOK, Node
<1>4. /\ rest \in Seq(Node) /\ n \in Node
      /\ Elements(pending) = {n} \cup Elements(rest)
  BY <1>1, <1>3, ElementsTail
<1> HIDE DEF n, rest
<1>5. req[n] \in Seq(Node) /\ req[n] \in Seq(Internal)
  <2>1. req[n] \in Seq(Internal)
    BY <1>3, <1>4
  <2>2. QED
    BY <2>1 DEF Node
<1>6. /\ req[n] \o rest \in Seq(Node)
      /\ Elements(req[n] \o rest) = Elements(req[n]) \cup Elements(rest)
  BY <1>4, <1>5, ElementsConcat
<1>7. TypeOK'
  <2>1. pending' \in Seq(Node) /\ seen' \subseteq Node
    BY <1>1, <1>3, <1>4, <1>6
  <2>2. QED
    BY <1>1, <2>1 DEF Inv, TypeOK
<1>8. seen' \cup Elements(pending')
        = IF n \in seen THEN seen \cup Elements(pending)
                        ELSE seen \cup Elements(pending) \cup Elements(req[n])
  BY <1>1, <1>4, <1>6
<1>9. PICK k \in valid : n \in Reached(req, k)
  BY <1>2, <1>4 DEF Needed
<1>10. Elements(req[n]) \subseteq Reached(req, k) /\ Elements(req[n]) \subseteq Internal
  <2>1. k \in Node
    BY <1>3
  <2>2. Elements(req[n]) \subseteq Internal
    BY <1>5 DEF Elements
  <2>3. QED
    BY <1>3, <1>9, <2>1, <2>2, ReachedStep
<1>11. Needed(seen' \cup Elements(pending'))
  BY <1>2, <1>8, <1>10 DEF Needed
<1>12. \A m \in seen' : Elements(req[m]) \subseteq seen' \cup Elements(pending')
  BY <1>1, <1>2, <1>8
<1>13. valid \ todo \subseteq seen' \cup Elements(pending')
  BY <1>2, <1>8
<1>14. MarkInv'
  <2>1. Needed(seen \cup Elements(pending))'
    BY <1>1, <1>11 DEF Needed
  <2>2. QED
    BY <1>1, <1>2, <1>12, <1>13, <2>1 DEF MarkInv
<1>15. QED
  BY <1>1, <1>7, <1>14, MarkStep DEF Inv

\* Everything that the targets lead to is marked.
LEMMA MarkDoneInv == Inv /\ MarkDone => Inv'
<1> SUFFICES ASSUME Inv, MarkDone PROVE Inv'
  OBVIOUS
<1>1. /\ pc = "mark" /\ pc' = "sweep" /\ pending = <<>> /\ todo = {}
      /\ todo' = Internal \ seen
      /\ UNCHANGED <<graph, req, by, valid, rep, stack, current, seen, pending, alive>>
  BY DEF MarkDone, search
<1>2. TypeOK'
  BY <1>1 DEF Inv, TypeOK, Node
<1>3. UpdateInv' /\ SearchInv'
  BY <1>1, LateStep DEF Late
<1>4. RedirectInv'
  BY <1>1 DEF Inv, RedirectInv, Redirected
<1>5. /\ valid \subseteq seen
      /\ \A m \in seen : Elements(req[m]) \subseteq seen
      /\ Needed(seen)
  BY <1>1, ElementsOne DEF Inv, MarkInv
<1>6. MarkInv'
  BY <1>1, <1>5 DEF MarkInv, Needed, Closed
<1>7. DeleteInv'
  <2>1. alive = Internal \cup valid /\ seen \subseteq valid \cup Internal
    BY <1>1, <1>5 DEF Inv, DeleteInv, Needed
  <2>2. alive = seen \cup (Internal \ seen) /\ Internal \ alive = {}
    BY <1>5, <2>1
  <2>3. QED
    BY <1>1, <2>2 DEF DeleteInv, OnlyOrderIsUndefined
<1>8. QED
  BY <1>2, <1>3, <1>4, <1>6, <1>7 DEF Inv

\* What is not marked is gone.
LEMMA SweepDoneInv == Inv /\ SweepDone => Inv'
<1> SUFFICES ASSUME Inv, SweepDone PROVE Inv'
  OBVIOUS
<1>1. /\ pc = "sweep" /\ pc' = "done" /\ todo = {}
      /\ UNCHANGED <<graph, req, by, valid, rep, stack, todo, current, seen, pending, alive>>
  BY DEF SweepDone, search
<1>2. TypeOK'
  BY <1>1 DEF Inv, TypeOK
<1>3. UpdateInv' /\ SearchInv'
  BY <1>1, LateStep DEF Late
<1>4. RedirectInv'
  BY <1>1 DEF Inv, RedirectInv, Redirected
<1>5. MarkInv'
  BY <1>1 DEF Inv, MarkInv, Needed
<1>6. DeleteInv'
  BY <1>1 DEF Inv, DeleteInv, OnlyOrderIsUndefined
<1>7. QED
  BY <1>2, <1>3, <1>4, <1>5, <1>6 DEF Inv

\* The destructor of the graph starts with all that is required.
LEMMA DestroyInv == Inv /\ Destroy => Inv'
<1> SUFFICES ASSUME Inv, Destroy PROVE Inv'
  OBVIOUS
<1>1. /\ pc = "done" /\ pc' = "destroy" /\ todo' = alive
      /\ UNCHANGED <<graph, req, by, valid, rep, stack, current, seen, pending, alive>>
  BY DEF Destroy, search
<1>2. TypeOK'
  BY <1>1 DEF Inv, TypeOK
<1>3. UpdateInv' /\ SearchInv'
  BY <1>1, LateStep DEF Late
<1>4. RedirectInv' /\ MarkInv'
  BY <1>1 DEF RedirectInv, MarkInv
<1>5. /\ alive = seen /\ Closed(req, seen)
      /\ \A n \in alive : Redirected(n)
  BY <1>1 DEF Inv, DeleteInv, MarkInv, RedirectInv
<1>6. \A n \in alive : Elements(req[n]) \subseteq Elements(graph.req[n]) \cup {rep[n]}
  BY <1>5, ElementsOne DEF Redirected
<1>7. DeleteInv'
  BY <1>1, <1>5, <1>6 DEF DeleteInv, Closed, OnlyOrderIsUndefined
<1>8. QED
  BY <1>2, <1>3, <1>4, <1>7 DEF Inv

\* The graph is gone.
LEMMA DestroyDoneInv == Inv /\ DestroyDone => Inv'
<1> SUFFICES ASSUME Inv, DestroyDone PROVE Inv'
  OBVIOUS
<1>1. /\ pc = "destroy" /\ pc' = "gone"
      /\ UNCHANGED <<graph, req, by, valid, rep, stack, todo, current, seen, pending, alive>>
  BY DEF DestroyDone, search
<1>2. TypeOK'
  BY <1>1 DEF Inv, TypeOK
<1>3. UpdateInv' /\ SearchInv'
  BY <1>1 DEF Inv, UpdateInv, SearchInv, Late
<1>4. RedirectInv' /\ MarkInv' /\ DeleteInv'
  BY <1>1 DEF RedirectInv, MarkInv, DeleteInv, OnlyOrderIsUndefined
<1>5. QED
  BY <1>2, <1>3, <1>4 DEF Inv

\* Nothing happens.
LEMMA StutterInv == Inv /\ UNCHANGED vars => Inv'
<1> SUFFICES ASSUME Inv, UNCHANGED vars PROVE Inv'
  OBVIOUS
<1>1. UNCHANGED <<graph, req, by, valid, rep, stack, todo, current, seen, pending, alive, pc>>
  BY DEF vars
<1>2. TypeOK'
  BY <1>1 DEF Inv, TypeOK
<1>3. UpdateInv'
  BY <1>1, Kept DEF Inv, UpdateInv
<1>4. RedirectInv'
  BY <1>1 DEF Inv, RedirectInv, Redirected
<1>5. SearchInv'
  BY <1>1, Kept DEF Inv, SearchInv, Searching
<1>6. MarkInv' /\ DeleteInv'
  BY <1>1 DEF Inv, MarkInv, Needed, DeleteInv, OnlyOrderIsUndefined
<1>7. QED
  BY <1>2, <1>3, <1>4, <1>5, <1>6 DEF Inv

\* The invariant is inductive.
LEMMA StepInv == Inv /\ [Next]_vars => Inv'
  BY StartInv, SearchTargetInv, SearchNodeInv, InvalidateInv, SearchesDoneInv,
     UpdateRootInv, UpdateRequirerInv, ReturnInv, UpdatesDoneInv, ApplyInv,
     ApplyDoneInv, DeleteNodeInv, DropDoneInv, MarkTargetInv, MarkNodeInv,
     MarkDoneInv, SweepDoneInv, DestroyInv, DestroyDoneInv, StutterInv DEF Next

\* The invariant holds from the first search to the end of the graph.
LEMMA SpecInv == Spec => []Inv
  BY InitInv, StepInv, PTL DEF Spec

-----------------------------------------------------------------------------
(* What follows from it *)

\* What holds of the remaining nodes when removeDeadNodes has ended.
LEMMA DoneFacts ==
  ASSUME Inv, pc = "done"
  PROVE  /\ TypeOK /\ graph \in Graphs /\ \A n \in Node : UpToDate(n)
         /\ alive \subseteq Node /\ valid \subseteq alive /\ Closed(req, alive)
         /\ \A n \in alive : Redirected(n)
         /\ Needed(alive)
<1>1. TypeOK /\ graph \in Graphs /\ \A n \in Node : UpToDate(n)
  BY DEF Inv, UpdateInv, Late
<1>2. alive = seen /\ alive \subseteq Node
  BY DEF Inv, DeleteInv, TypeOK
<1>3. valid \subseteq alive /\ Closed(req, alive) /\ Needed(alive)
  BY <1>2 DEF Inv, MarkInv
<1>4. \A n \in alive : Redirected(n)
  BY DEF Inv, RedirectInv
<1>5. QED
  BY <1>1, <1>2, <1>3, <1>4

\* The invariant implies that representatives are sound.
LEMMA SoundInv == Inv => RepresentativesAreSound
<1> SUFFICES ASSUME Inv, pc = "done", NEW n \in Node, rep[n] # n
             PROVE  Separates(rep[n], n, ValidExtract)
  BY DEF RepresentativesAreSound, Settled
<1>1. TypeOK /\ graph \in Graphs /\ \A k \in Node : UpToDate(k)
  BY DoneFacts
<1>2. QED
  BY <1>1, RepresentativeSeparates

\* The invariant implies that representatives represent themselves.
LEMMA FinalInv == Inv => RepresentativesAreFinal
<1> SUFFICES ASSUME Inv, pc = "done", NEW n \in Node
             PROVE  rep[rep[n]] = rep[n]
  BY DEF RepresentativesAreFinal, Settled
<1>1. TypeOK /\ graph \in Graphs /\ \A k \in Node : UpToDate(k)
  BY DoneFacts
<1>2. QED
  BY <1>1, RepresentativeOfItself

\* A set that is closed under the requirements as they were is closed under
\* the redirected ones: the representative of a node cannot lie outside, for
\* the nodes it represents would be cut off from every source.
LEMMA ClosedStaysClosed ==
  ASSUME Inv, pc = "done", NEW S \in SUBSET Node, Closed(graph.req, S),
         NEW n \in S
  PROVE  rep[n] \in S
<1> DEFINE r == rep[n]
           T == {m \in S : rep[m] = r}
<1>1. TypeOK /\ graph \in Graphs /\ \A k \in Node : UpToDate(k)
  BY DoneFacts
<1>2. SUFFICES ASSUME r \notin S PROVE FALSE
  OBVIOUS
<1>3. ASSUME NEW m \in T
      PROVE  graph.req[m] # <<>> /\ Elements(graph.req[m]) \subseteq T
  <2>1. m \in Node /\ rep[m] # m
    BY <1>2
  <2>2. /\ graph.req[m] # <<>>
        /\ \A k \in Elements(graph.req[m]) : k \in Node /\ rep[k] = rep[m]
    BY <1>1, <2>1, RegionOfRepresentative
  <2>3. Elements(graph.req[m]) \subseteq S
    BY DEF Closed
  <2>4. QED
    BY <2>2, <2>3
<1>4. Closed(graph.req, T)
  BY <1>3 DEF Closed
<1>5. T \cap Sources(graph.req) = {} /\ T \subseteq Node
  BY <1>3 DEF Sources
<1>6. n \in T
  OBVIOUS
<1> HIDE DEF T
<1>7. QED
  BY <1>1, <1>4, <1>5, <1>6, GraphAssumption DEF Grounded

\* A remaining node that requires nothing is one of the sources, and the
\* sources are still without requirements.
LEMMA SourcesStay ==
  ASSUME Inv, pc = "done", NEW s \in alive
  PROVE  s \in Sources(req) <=> s \in Sources(graph.req)
<1>1. /\ s \in Node /\ Redirected(s)
      /\ TypeOK /\ graph \in Graphs /\ \A k \in Node : UpToDate(k)
  BY DoneFacts
<1>2. CASE rep[s] = s
  BY <1>1, <1>2 DEF Redirected, Sources
<1>3. CASE rep[s] # s
  <2>1. req[s] = <<rep[s]>> /\ graph.req[s] # <<>>
    BY <1>1, <1>3, RegionOfRepresentative DEF Redirected
  <2>2. req[s] # <<>>
    BY <2>1
  <2>3. QED
    BY <2>1, <2>2 DEF Sources
<1>4. QED
  BY <1>2, <1>3

\* The sources of a valid target: one inclusion each.
LEMMA NoSourceIsLost ==
  ASSUME Inv, pc = "done", NEW n \in valid,
         NEW s \in Reached(graph.req, n) \cap Sources(graph.req)
  PROVE  s \in Reached(req, n)
<1>1. /\ TypeOK /\ graph \in Graphs /\ \A k \in Node : UpToDate(k)
      /\ alive \subseteq Node /\ n \in alive /\ Closed(req, alive)
      /\ \A m \in alive : Redirected(m)
  BY DoneFacts
<1>2. /\ s \in Node /\ graph.req[s] = <<>>
      /\ \A S \in SUBSET Node : n \in S /\ Closed(graph.req, S) => s \in S
  BY DEF Reached, Sources
<1>3. ASSUME NEW S \in SUBSET Node, n \in S, Closed(req, S)
      PROVE  s \in S
  <2> DEFINE A == S \cap alive
             T == {m \in Node : rep[m] \in A}
  <2>1. ASSUME NEW m \in A
        PROVE  /\ rep[m] \in A
               /\ rep[m] = m => Elements(graph.req[m]) \subseteq A
    <3>1. Elements(req[m]) \subseteq A
      BY <1>1, <1>3 DEF Closed
    <3>2. CASE rep[m] = m
      <4>1. req[m] = graph.req[m]
        BY <1>1, <3>2 DEF Redirected
      <4>2. QED
        BY <3>1, <3>2, <4>1
    <3>3. CASE rep[m] # m
      <4>1. req[m] = <<rep[m]>>
        BY <1>1, <3>3 DEF Redirected
      <4>2. rep[m] \in Elements(req[m])
        BY <4>1 DEF Elements
      <4>3. QED
        BY <3>1, <3>3, <4>2
    <3>4. QED
      BY <3>2, <3>3
  <2>2. ASSUME NEW m \in T, NEW k \in Elements(graph.req[m])
        PROVE  k \in T
    <3>1. CASE rep[m] = m
      <4>1. k \in A
        BY <2>1, <2>2, <3>1
      <4>2. QED
        BY <1>1, <2>1, <4>1
    <3>2. CASE rep[m] # m
      <4>1. k \in Node /\ rep[k] = rep[m]
        BY <1>1, <2>2, <3>2, RegionOfRepresentative
      <4>2. QED
        BY <2>2, <4>1
    <3>3. QED
      BY <3>1, <3>2
  <2>3. Closed(graph.req, T)
    BY <2>2 DEF Closed
  <2>4. n \in T
    BY <1>1, <1>3, <2>1
  <2>5. s \in T
    BY <1>2, <2>3, <2>4
  <2>6. rep[s] = s
    BY <1>1, <1>2, EveryNodeKnown DEF Representative
  <2>7. QED
    BY <2>5, <2>6
<1>4. QED
  BY <1>2, <1>3 DEF Reached

\* The other inclusion: redirecting adds no source.
LEMMA NothingIsAdded ==
  ASSUME Inv, pc = "done", NEW n \in valid, NEW s \in Reached(req, n)
  PROVE  s \in Reached(graph.req, n) \cap alive
<1>1. /\ alive \subseteq Node /\ n \in alive /\ Closed(req, alive)
      /\ \A m \in alive : Redirected(m)
  BY DoneFacts
<1>2. ASSUME NEW S \in SUBSET Node, n \in S, Closed(graph.req, S)
      PROVE  s \in S \cap alive
  <2>1. ASSUME NEW m \in S \cap alive
        PROVE  Elements(req[m]) \subseteq S \cap alive
    <3>1. req[m] = IF rep[m] = m THEN graph.req[m] ELSE <<rep[m]>>
      BY <1>1 DEF Redirected
    <3>2. Elements(req[m]) \subseteq alive
      BY <1>1 DEF Closed
    <3>3. CASE rep[m] = m
      BY <1>2, <3>1, <3>2, <3>3 DEF Closed
    <3>4. CASE rep[m] # m
      <4>1. rep[m] \in S
        BY <1>2, ClosedStaysClosed
      <4>2. Elements(req[m]) = {rep[m]}
        BY <3>1, <3>4 DEF Elements
      <4>3. QED
        BY <3>2, <4>1, <4>2
    <3>5. QED
      BY <3>3, <3>4
  <2>2. Closed(req, S \cap alive)
    BY <2>1 DEF Closed
  <2>3. QED
    BY <1>1, <1>2, <2>2, ReachedInside
<1>3. s \in Node
  BY DEF Reached
<1>4. n \in Node /\ graph.req \in [Node -> Seq(Internal)]
  BY <1>1 DEF Inv, TypeOK
<1>5. s \in alive
  BY <1>1, ReachedInside
<1>6. QED
  BY <1>2, <1>3, <1>5 DEF Reached

\* The invariant implies that valid targets keep their sources.
LEMMA SourcesInv == Inv => SimplificationKeepsSources
<1> SUFFICES ASSUME Inv, pc = "done", NEW n \in valid
             PROVE  Reached(req, n) \cap Sources(req)
                      = Reached(graph.req, n) \cap Sources(graph.req)
  BY DEF SimplificationKeepsSources
<1>1. \A s \in Reached(req, n) : s \in Reached(graph.req, n) \cap alive
  BY NothingIsAdded
<1>2. \A s \in Reached(graph.req, n) \cap Sources(graph.req) : s \in Reached(req, n)
  BY NoSourceIsLost
<1>3. \A s \in alive : s \in Sources(req) <=> s \in Sources(graph.req)
  BY SourcesStay
<1>4. QED
  BY <1>1, <1>2, <1>3

\* The invariant implies that exactly the needed nodes remain.
LEMMA RemainInv == Inv => NeededNodesRemain
<1> SUFFICES ASSUME Inv, pc = "done"
             PROVE  alive = UNION {Reached(req, n) : n \in valid}
  BY DEF NeededNodesRemain
<1>1. \A n \in valid : Reached(req, n) \subseteq alive
  BY NothingIsAdded
<1>2. \A m \in alive : \E n \in valid : m \in Reached(req, n)
  BY DoneFacts DEF Needed
<1>3. QED
  BY <1>1, <1>2

-----------------------------------------------------------------------------
(* The theorems *)

\* simplifyWitnessGraph keeps its data structures within their types, and no
\* call or search is active once the loop that started it has ended.
THEOREM SimplificationTypeCorrect == Spec => []TypeOK
  BY SpecInv, PTL DEF Inv

\* The assertion Req != nullptr never fails on a complete graph.
THEOREM AssertionNeverFails == Spec => []EveryNodeIsRepresented
<1>1. Inv => EveryNodeIsRepresented
  BY DEF Inv, UpdateInv, EveryNodeIsRepresented
<1>2. QED
  BY <1>1, SpecInv, PTL

\* A node takes over the witness of another one only if all its data flow
\* comes through that one, and no valid extractvalue lies in between.
THEOREM SimplificationSound == Spec => []RepresentativesAreSound
  BY SoundInv, SpecInv, PTL

\* The node that requirements are redirected to keeps its own requirements.
THEOREM RedirectionFinal == Spec => []RepresentativesAreFinal
  BY FinalInv, SpecInv, PTL

\* Every valid target is fed by exactly the sources that fed it before.
THEOREM SourcesKept == Spec => []SimplificationKeepsSources
  BY SourcesInv, SpecInv, PTL

\* removeDeadNodes leaves exactly the nodes that a valid target leads to: it
\* deletes none that a remaining node requires, and forgets none.
THEOREM RemovalExact == Spec => []NeededNodesRemain
  BY RemainInv, SpecInv, PTL

\* The depth-first search drops an invariant if and only if it leads to no
\* getelementptr with an offset before its sources.
THEOREM SearchExact == Spec => []UnchangedAreDropped
<1>1. Inv => UnchangedAreDropped
  BY DEF Inv, SearchInv, Unchanged, UnchangedAreDropped, Late
<1>2. QED
  BY <1>1, SpecInv, PTL

\* Unless an internal node requires, or is redirected to, one that was created
\* before it, no destructor ever meets a deleted node.
THEOREM OnlyOrderMatters == Spec => []OnlyOrderIsUndefined
<1>1. Inv => OnlyOrderIsUndefined
  BY DEF Inv, DeleteInv
<1>2. QED
  BY <1>1, SpecInv, PTL
=============================================================================
