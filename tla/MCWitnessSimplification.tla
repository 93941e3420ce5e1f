----------------------- MODULE MCWitnessSimplification -----------------------
(* Two targets (1 and 2), nodes with one or two requirements, two sources. *)
EXTENDS WitnessSimplification, SequencesExt, TLC

CONSTANTS Middle, Root, Entries

\* One requirement (gep, bitcast, extractvalue), or two (phi, select).
RequirementsOf(n) ==
  {<<a>> : a \in Internal \ {n}}
    \cup {<<e[1], e[2]>> : e \in {d \in (Internal \ {n}) \X (Internal \ {n}) :
                                   n \notin Extract /\ d[1] < d[2]}}

\* Every node leads to a source.
LeadsToRoot(f) ==
  \A S \in SUBSET Middle :
    S # {} => \E n \in S : ~(Elements(f[n]) \subseteq S)

MCMiddles ==
  LET may == [n \in Middle |-> RequirementsOf(n)] IN
  {f \in [Middle -> UNION {may[n] : n \in Middle}] :
     (\A n \in Middle : f[n] \in may[n]) /\ LeadsToRoot(f)}

\* A node is in requiredBy once per requirement, in the order of the nodes.
RequiredBy(g) ==
  [m \in Node |->
     SelectSeq(FlattenSeq([n \in 1 .. Max(Node) |->
                             IF n \in Node
                               THEN [k \in DOMAIN g[n] |-> <<n, g[n][k]>>]
                               ELSE <<>>]),
               LAMBDA e : e[2] = m)]

Complete(g) ==
  [req |-> g, by |-> LET b == RequiredBy(g) IN
                     [m \in Node |-> [k \in DOMAIN b[m] |-> b[m][k][1]]]]

MCGraphs ==
  {Complete([n \in Node |-> IF n \in External THEN e[n]
                            ELSE IF n \in Root THEN <<>> ELSE f[n]]) :
     f \in MCMiddles, e \in Entries}

\* What the nodes of the targets require: one node each, or the first one
\* a node and the second one, for instance of a select, two.
MCEntryPair == {(1 :> <<3>>) @@ (2 :> <<4, 6>>)}
=============================================================================
