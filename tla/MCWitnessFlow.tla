----------------------------- MODULE MCWitnessFlow -----------------------------
(***************************************************************************)
(* All functions of four pointers in two nested loops that an access and a *)
(* call depend on.                                                         *)
(***************************************************************************)
EXTENDS WitnessFlow

CONSTANTS b1, b2, b3, b4, b5

\* b2 is the outer loop, b3 the inner one, which may go on in b2 or leave to
\* b5; b1 may also go to b4, by two edges.
MCSucc == (b1 :> <<b2, b4, b4>>) @@ (b2 :> <<b3, b5>>)
            @@ (b3 :> <<b3, b2, b5>>) @@ (b4 :> <<>>) @@ (b5 :> <<>>)

\* The order of the edges into a block is fixed.
From == (b1 :> {}) @@ (b2 :> {<<b1, b3>>}) @@ (b3 :> {<<b2, b3>>})
          @@ (b4 :> {<<b1, b1>>}) @@ (b5 :> {<<b2, b3>>})

Definition(op, args, from) == [op |-> op, args |-> args, from |-> from]

\* What can define v when the values are in the blocks of p. The first pointer
\* is no phi, and a select has two pointers to choose from.
Definitions(p, v) ==
  LET before == {w \in 1 .. v - 1 : <<p[w], p[v]>> \in Dominates}
      at(b) == {w \in Value : <<p[w], b>> \in Dominates}
  IN {Definition("source", <<>>, <<>>)}
       \cup {Definition("copy", <<w>>, <<>>) : w \in before}
       \cup {Definition("pair", <<wx[1], wx[2]>>, <<>>) :
               wx \in {yz \in before \X before : yz[1] # yz[2]}}
       \cup IF v = 1 THEN {Definition("entry", <<>>, <<>>)}
            ELSE UNION {{Definition("phi", <<wx[1], wx[2]>>, from) :
                           wx \in {yz \in at(from[1]) \X at(from[2]) :
                                     from[1] = from[2] => yz[1] = yz[2]}} :
                          from \in From[p[v]]}

\* Every pointer is used for the last one, and there is a phi.
Matters(f) ==
  /\ Cardinality({v \in Value : f[v].op \in {"source", "entry"}}) <= 2
  /\ \E v \in Value : f[v].op = "phi"
  /\ Reachable({N}, Uses(f)) = Value

\* The functions with their values in the blocks of p.
Placed(p) ==
  {f \in {<<o1, o2, o3, o4>> :
            o1 \in Definitions(p, 1), o2 \in Definitions(p, 2),
            o3 \in Definitions(p, 3), o4 \in Definitions(p, 4)} :
     PhisAreFirst(f, p) /\ Matters(f)}

MCPrograms == UNION {Placed(p) : p \in {q \in [Value -> Block] : q[1] = b1}}

MCTargets ==
  {<<[kind |-> "plain", args |-> <<3>>], [kind |-> "call", args |-> <<2, 4>>]>>,
   <<[kind |-> "call", args |-> <<4, 4>>], [kind |-> "plain", args |-> <<2>>]>>}

MCFlagsOf == <<{"upper"}, {"explicit"}>>
=============================================================================
