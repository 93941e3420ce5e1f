------------------------- MODULE WitnessSimplification -------------------------
(***************************************************************************)
(* AfterInflowStrategy::simplifyWitnessGraph on a complete witness graph:  *)
(* invariants on unchanged pointers are dropped, every node is mapped to   *)
(* the node that provides its witness, the requirements are redirected to  *)
(* it, and what no target needs any more is deleted. In the end the graph  *)
(* itself is, with or without having been simplified.                      *)
(*   lib/witness_strategies/AfterInflowStrategy.cpp 426-574,               *)
(*   lib/pass/WitnessGraph.cpp 26-36, 217-272,                             *)
(*   include/meminstrument/pass/WitnessGraph.h 113-120                     *)
(* The recursion of updateWitnessNode is a stack of frames; those of the   *)
(* depth-first searches are the sequence of the nodes still to visit.      *)
(***************************************************************************)
EXTENDS Integers, Sequences, FiniteSets

CONSTANTS
  External,   \* nodes of ITargets; nodes are numbered in the order in which
  Internal,   \* WitnessGraph::map visits them, the external ones first
  Invariant,  \* external nodes whose ITarget is an invariant
  Extract,    \* nodes whose instrumentee is an extractvalue
  Graphs,     \* the complete graphs: requirements and requiredBy of the nodes
  Shifted,    \* nodes located at a getelementptr with a non-zero index
  Null

Node == External \cup Internal

ASSUME NodeAssumption ==
  /\ Node \subseteq Nat /\ Null \notin Node
  /\ \A e \in External, i \in Internal : e < i
  /\ Invariant \subseteq External
  /\ Extract \subseteq Node /\ Shifted \subseteq Node

Elements(s) == {s[k] : k \in DOMAIN s}
Closed(g, S) == \A n \in S : Elements(g[n]) \subseteq S
Sources(g) == {n \in Node : g[n] = <<>>}

\* No part of the graph is without a source.
Grounded(g) ==
  \A S \in SUBSET Node : Closed(g, S) /\ S \cap Sources(g) = {} => S = {}

\* What WitnessGraph makes sure of: external nodes have requirements, which
\* are internal nodes, requiredBy is the inverse, every node is grounded.
ASSUME GraphAssumption ==
  \A g \in Graphs :
    /\ g.req \in [Node -> Seq(Internal)]
    /\ g.by \in [Node -> Seq(Node)]
    /\ \A n \in External : g.req[n] # <<>>
    /\ \A m, n \in Node : m \in Elements(g.req[n]) <=> n \in Elements(g.by[m])
    /\ Grounded(g.req)

VARIABLES
  graph,    \* the graph as it was built, which the updates walk along
  req,      \* requirements
  by,       \* the nodes in requiredBy
  valid,    \* external nodes whose ITarget is valid
  rep,      \* ReqMap
  stack,    \* active calls of updateWitnessNode: requirers still to visit
  todo,     \* nodes that the current loop still has to visit
  current,  \* the target that is searched from, or Null
  seen,     \* nodes that the search has visited
  pending,  \* nodes that it has still to visit
  alive,    \* nodes that are not deleted
  pc

vars ==
  <<graph, req, by, valid, rep, stack, todo, current, seen, pending, alive, pc>>

search == <<current, seen, pending>>

\* The loops visit the nodes in the order of the vectors.
NextInOrder(n) == n \in todo /\ \A m \in todo : n <= m

-----------------------------------------------------------------------------
(* Invariants on pointers that did not change *)

\* Without mi-ais-optimize-witness-graph the graph stays as it is.
Start ==
  /\ pc = "start"
  /\ \/ pc' = "search" /\ todo' = External
     \/ pc' = "destroy" /\ todo' = Node
  /\ UNCHANGED <<graph, req, by, valid, rep, stack, search, alive>>

\* Mutation: Seen is declared in front of the loop.
SearchTargetWithOldSeen ==
  /\ pc = "search"
  /\ current = Null
  /\ \E n \in todo :
       /\ NextInOrder(n)
       /\ todo' = todo \ {n}
       /\ IF n \in valid \cap Invariant
            THEN current' = n /\ pending' = <<n>>
            ELSE UNCHANGED <<current, pending>>
  /\ UNCHANGED <<graph, req, by, valid, rep, stack, seen, alive, pc>>

\* One round of the loop over the external nodes.
SearchTarget ==
  /\ pc = "search"
  /\ current = Null
  /\ \E n \in todo :
       /\ NextInOrder(n)
       /\ todo' = todo \ {n}
       /\ IF n \in valid \cap Invariant
            THEN current' = n /\ seen' = {} /\ pending' = <<n>>
            ELSE UNCHANGED search
  /\ UNCHANGED <<graph, req, by, valid, rep, stack, alive, pc>>

\* One call of didNotChangeSinceWitness. If it returns false, so do all that
\* are active, and the target stays.
SearchNode ==
  /\ pc = "search"
  /\ pending # <<>>
  /\ LET n == Head(pending) IN
     /\ seen' = seen \cup {n}
     /\ \/ /\ n \in seen \cup Sources(graph.req)
           /\ pending' = Tail(pending)
           /\ current' = current
        \/ /\ n \notin seen \cup Sources(graph.req)
           /\ n \in Shifted
           /\ pending' = <<>>
           /\ current' = Null
        \/ /\ n \notin seen \cup Sources(graph.req)
           /\ n \notin Shifted
           /\ pending' = graph.req[n] \o Tail(pending)
           /\ current' = current
  /\ UNCHANGED <<graph, req, by, valid, rep, stack, todo, alive, pc>>

\* The search has come back with true.
InvalidateUnchanged ==
  /\ pc = "search"
  /\ current # Null
  /\ pending = <<>>
  /\ valid' = valid \ {current}
  /\ current' = Null
  /\ UNCHANGED <<graph, req, by, rep, stack, todo, seen, pending, alive, pc>>

\* Mutation: the updates start at the targets instead of at the sources.
SearchesDoneToTargets ==
  /\ pc = "search"
  /\ current = Null
  /\ todo = {}
  /\ todo' = External
  /\ pc' = "update"
  /\ UNCHANGED <<graph, req, by, valid, rep, stack, search, alive>>

SearchesDone ==
  /\ pc = "search"
  /\ current = Null
  /\ todo = {}
  /\ todo' = Sources(graph.req)
  /\ pc' = "update"
  /\ UNCHANGED <<graph, req, by, valid, rep, stack, search, alive>>

-----------------------------------------------------------------------------
(* updateWitnessNode *)

\* Mutation: the requirements themselves instead of their representatives.
KnownDirect(n) == {m \in Elements(graph.req[n]) : rep[m] # Null}

\* Mutation: only the first requirement counts.
KnownFirst(n) == {rep[graph.req[n][1]]} \ {Null}

\* The representatives of the requirements. The first one that is not null
\* becomes the reference that the others have to agree with.
Known(n) == {rep[m] : m \in Elements(graph.req[n])} \ {Null}

\* The instrumentee of an invalid target must not be read.
ValidExtract == Extract \cap (Internal \cup valid)

\* Mutation: an extractvalue takes over the witness of its aggregate.
RepresentativeOfAggregate(n) ==
  IF graph.req[n] = <<>> \/ \E a, b \in Known(n) : a # b THEN n
  ELSE IF Known(n) = {} THEN Null
  ELSE CHOOSE m \in Known(n) : TRUE

Representative(n) ==
  IF graph.req[n] = <<>> \/ n \in ValidExtract \/ (\E a, b \in Known(n) : a # b)
    THEN n
  ELSE IF Known(n) = {} THEN Null
  ELSE CHOOSE m \in Known(n) : TRUE

\* One call: the representative is computed anew, and if it changed the
\* requirers are visited, those of the innermost call first.
Call(n, rest) ==
  LET r == Representative(n) IN
  /\ rep' = [rep EXCEPT ![n] = r]
  /\ stack' = IF r # rep[n] THEN <<graph.by[n]>> \o rest ELSE rest
  /\ UNCHANGED <<graph, req, by, valid, search, alive, pc>>

\* Mutation: the loop over the sources does not advance.
UpdateRootStuck ==
  /\ pc = "update"
  /\ stack = <<>>
  /\ \E n \in todo : /\ NextInOrder(n)
                    /\ Call(n, <<>>)
                    /\ todo' = todo

UpdateRoot ==
  /\ pc = "update"
  /\ stack = <<>>
  /\ \E n \in todo : /\ NextInOrder(n)
                    /\ Call(n, <<>>)
                    /\ todo' = todo \ {n}

UpdateRequirer ==
  /\ pc = "update"
  /\ stack # <<>>
  /\ stack[1] # <<>>
  /\ Call(stack[1][1], [stack EXCEPT ![1] = Tail(@)])
  /\ todo' = todo

ReturnFromUpdate ==
  /\ pc = "update"
  /\ stack # <<>>
  /\ stack[1] = <<>>
  /\ stack' = Tail(stack)
  /\ UNCHANGED <<graph, req, by, valid, rep, todo, search, alive, pc>>

UpdatesDone ==
  /\ pc = "update"
  /\ stack = <<>>
  /\ todo = {}
  /\ todo' = Node
  /\ pc' = "apply"
  /\ UNCHANGED <<graph, req, by, valid, rep, stack, search, alive>>

-----------------------------------------------------------------------------
(* Redirecting the requirements *)

\* clearRequirements: it erases the entries that are equal to the required
\* node itself from its requiredBy, not those of the node that is cleared.
Cleared(n) ==
  [m \in Node |-> IF m \in Elements(req[n]) THEN by[m] \ {m} ELSE by[m]]

Redirect(n, r) ==
  /\ req' = [req EXCEPT ![n] = <<r>>]
  /\ by' = [Cleared(n) EXCEPT ![r] = @ \cup {n}]

ApplyRepresentative ==
  /\ pc = "apply"
  /\ \E n \in todo :
       /\ NextInOrder(n)
       /\ IF rep[n] \in {n, Null} THEN UNCHANGED <<req, by>>
                                 ELSE Redirect(n, rep[n])
       /\ pc' = IF rep[n] = Null THEN "assert" ELSE pc
       /\ todo' = todo \ {n}
  /\ UNCHANGED <<graph, valid, rep, stack, search, alive>>

ApplyDone ==
  /\ pc = "apply"
  /\ todo = {}
  /\ todo' = External \ valid
  /\ pc' = "drop"
  /\ UNCHANGED <<graph, req, by, valid, rep, stack, search, alive>>

-----------------------------------------------------------------------------
(* Deleting nodes *)

\* Mutation: the nodes are deleted from the back of their vector.
NextToDeleteFromBack(n) == n \in todo /\ \A m \in todo : m <= n

NextToDelete(n) == NextInOrder(n)

\* One step of a loop over nodes to delete: those of invalid targets, the
\* internal ones that are not marked, or all. The destructor writes to the
\* nodes that its own requires; if one is deleted, anything may happen.
DeleteNode ==
  /\ pc \in {"drop", "sweep", "destroy"}
  /\ \E n \in todo :
       /\ NextToDelete(n)
       /\ todo' = todo \ {n}
       /\ alive' = alive \ {n}
       /\ req' = [req EXCEPT ![n] = <<>>]
       /\ by' = Cleared(n)
       /\ \/ pc' = pc
          \/ ~(Elements(req[n]) \subseteq alive) /\ pc' = "undefined"
  /\ UNCHANGED <<graph, valid, rep, stack, search>>

DropDone ==
  /\ pc = "drop"
  /\ todo = {}
  /\ todo' = valid
  /\ seen' = {}
  /\ pc' = "mark"
  /\ UNCHANGED <<graph, req, by, valid, rep, stack, current, pending, alive>>

\* One round of the loop over the external nodes that are left.
MarkTarget ==
  /\ pc = "mark"
  /\ pending = <<>>
  /\ \E n \in todo : /\ NextInOrder(n)
                    /\ pending' = <<n>>
                    /\ todo' = todo \ {n}
  /\ UNCHANGED <<graph, req, by, valid, rep, stack, current, seen, alive, pc>>

\* Mutation: only the last requirement is followed.
MarkNodeAndLast ==
  /\ pc = "mark"
  /\ pending # <<>>
  /\ LET n == Head(pending) IN
     /\ seen' = seen \cup {n}
     /\ pending' = IF n \in seen \/ req[n] = <<>>
                     THEN Tail(pending)
                     ELSE <<req[n][Len(req[n])]>> \o Tail(pending)
  /\ UNCHANGED <<graph, req, by, valid, rep, stack, todo, current, alive, pc>>

\* One call of markAsReachable.
MarkNode ==
  /\ pc = "mark"
  /\ pending # <<>>
  /\ LET n == Head(pending) IN
     /\ seen' = seen \cup {n}
     /\ pending' = IF n \in seen THEN Tail(pending)
                                 ELSE req[n] \o Tail(pending)
  /\ UNCHANGED <<graph, req, by, valid, rep, stack, todo, current, alive, pc>>

MarkDone ==
  /\ pc = "mark"
  /\ pending = <<>>
  /\ todo = {}
  /\ todo' = Internal \ seen
  /\ pc' = "sweep"
  /\ UNCHANGED <<graph, req, by, valid, rep, stack, search, alive>>

SweepDone ==
  /\ pc = "sweep"
  /\ todo = {}
  /\ pc' = "done"
  /\ UNCHANGED <<graph, req, by, valid, rep, stack, todo, search, alive>>

\* ~WitnessGraph, when the witnesses are created.
Destroy ==
  /\ pc = "done"
  /\ todo' = alive
  /\ pc' = "destroy"
  /\ UNCHANGED <<graph, req, by, valid, rep, stack, search, alive>>

DestroyDone ==
  /\ pc = "destroy"
  /\ todo = {}
  /\ pc' = "gone"
  /\ UNCHANGED <<graph, req, by, valid, rep, stack, todo, search, alive>>

Init ==
  /\ graph \in Graphs
  /\ req = graph.req
  /\ by = [n \in Node |-> Elements(graph.by[n])]
  /\ valid = External
  /\ rep = [n \in Node |-> Null]
  /\ stack = <<>>
  /\ todo = {}
  /\ current = Null
  /\ seen = {}
  /\ pending = <<>>
  /\ alive = Node
  /\ pc = "start"

Next ==
  \/ Start
  \/ SearchTarget
  \/ SearchNode
  \/ InvalidateUnchanged
  \/ SearchesDone
  \/ UpdateRoot
  \/ UpdateRequirer
  \/ ReturnFromUpdate
  \/ UpdatesDone
  \/ ApplyRepresentative
  \/ ApplyDone
  \/ DeleteNode
  \/ DropDone
  \/ MarkTarget
  \/ MarkNode
  \/ MarkDone
  \/ SweepDone
  \/ Destroy
  \/ DestroyDone

Spec == Init /\ [][Next]_vars /\ WF_vars(Next)

-----------------------------------------------------------------------------
(***************************************************************************)
(* Properties.                                                             *)
(***************************************************************************)

\* The state has its types, and calls and searches are active only while
\* their loops run. A node is represented by itself or by an internal node.
TypeOK ==
  /\ graph.req \in [Node -> Seq(Internal)]
  /\ graph.by \in [Node -> Seq(Node)]
  /\ req \in [Node -> Seq(Internal)]
  /\ by \in [Node -> SUBSET Node]
  /\ valid \subseteq External
  /\ rep \in [Node -> Internal \cup External \cup {Null}]
  /\ \A n \in Node : rep[n] \in Internal \cup {n, Null}
  /\ stack \in Seq(Seq(Node))
  /\ pc # "update" => stack = <<>>
  /\ todo \subseteq Node
  /\ current \in External \cup {Null}
  /\ pc # "search" => current = Null
  /\ seen \subseteq Node
  /\ pending \in Seq(Node)
  /\ pc \notin {"search", "mark"} => pending = <<>>
  /\ alive \subseteq Node
  /\ pc \in {"start", "search", "update", "apply", "drop", "mark", "sweep",
            "done", "destroy", "gone", "assert", "undefined"}

\* Every path from n to a source meets r, and none meets a node in X before:
\* there is a region around n that only r leads out of.
Separates(r, n, X) ==
  \E S \in SUBSET (Node \ {r}) :
    /\ n \in S
    /\ S \cap (Sources(graph.req) \cup X) = {}
    /\ \A m \in S : Elements(graph.req[m]) \subseteq S \cup {r}

Settled == pc = "done"

\* A node only takes over the witness of a node that all of its data flow
\* comes through, and of which no extractvalue has taken a part in between.
RepresentativesAreSound ==
  Settled => \A n \in Node :
               rep[n] \notin {n, Null} => Separates(rep[n], n, ValidExtract)

\* The redirected requirement leads to a node that keeps its own: redirecting
\* never builds chains or loops, whatever the order of the loop.
RepresentativesAreFinal ==
  Settled => \A n \in Node : rep[n] # Null => rep[rep[n]] = rep[n]

\* assert(Req != nullptr) holds: the optimistic null is gone at the end.
EveryNodeIsRepresented == pc # "assert"

\* The nodes that n leads to.
Reached(g, n) ==
  {m \in Node : \A S \in SUBSET Node : n \in S /\ Closed(g, S) => m \in S}

\* The sources that the witnesses of a valid target are made from are the
\* same before and after, and everything on the way is still there.
SimplificationKeepsSources ==
  pc = "done" =>
    \A n \in valid : Reached(req, n) \cap Sources(req)
                     = Reached(graph.req, n) \cap Sources(graph.req)

\* removeDeadNodes leaves what a valid target leads to, and nothing else: no
\* node is deleted while a remaining one requires it, and none is forgotten.
NeededNodesRemain ==
  pc = "done" => alive = UNION {Reached(req, n) : n \in valid}

\* An invariant is dropped if and only if its pointer did not change: no node
\* that it leads to, but for sources, is located at a GEP with an offset.
UnchangedAreDropped ==
  pc = "done" =>
    \A n \in External :
      n \notin valid <=>
        n \in Invariant /\ Reached(graph.req, n) \cap Shifted \subseteq Sources(graph.req)

\* A destructor, which "unlinks this Node from the Nodes that are required by
\* it" (WitnessGraph.h 53), meets a deleted one of these in one way only: an
\* internal node requires, or is redirected to, one that was created before it.
OnlyOrderIsUndefined ==
  pc = "undefined" =>
    \E n \in Internal : \E m \in Elements(graph.req[n]) \cup ({rep[n]} \ {Null}) :
      m < n

\* All loops and recursions end, although a node may be updated many times.
Termination == <>(pc \in {"gone", "assert", "undefined"})
=============================================================================
