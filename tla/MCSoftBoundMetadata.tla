------------------------- MODULE MCSoftBoundMetadata -------------------------
(* A global variable, local variables, an array without size, a function. *)
EXTENDS SoftBoundMetadata, TLC

CONSTANTS g, l, v, x, fun, r1, r2

\* The local variable v is an array of a computed size, two, and x is declared
\* without a size.
MCStart == (g :> 1) @@ (l :> 3) @@ (v :> 5) @@ (x :> 7) @@ (fun :> 8)
MCSize == (g :> 2) @@ (l :> 2) @@ (v :> 2) @@ (x :> 1)
MCElement == (l :> 2) @@ (v :> 1)

GlobalAddress == [kind |-> "object", of |-> g, at |-> 1]
Data == [kind |-> "data", of |-> "integer", at |-> 1]

MCConstants ==
  {[kind |-> "object", of |-> x, at |-> 7], [kind |-> "object", of |-> g, at |-> 2],
   [kind |-> "function", of |-> fun, at |-> 8], [kind |-> "null", of |-> "null", at |-> 1],
   [kind |-> "inttoptr", of |-> "cast", at |-> 3], [kind |-> "undef", of |-> "null", at |-> 3]}

\* The same constant in an instruction.
InCode(c) == [c EXCEPT !.of = IF @ = "cast" THEN "literal" ELSE @]

\* The global variable is a pointer and an integer, or two integers. Its
\* address is used and one constant more, in the code or the initializer;
\* integers are cast beside a cast and beside null.
MCSources ==
  {[init |-> <<c, Data>>, code |-> {GlobalAddress}, casts |-> c.kind \in {"inttoptr", "null"}] :
     c \in MCConstants}
    \cup {[init |-> <<Data, Data>>, code |-> {GlobalAddress, c}, casts |-> FALSE] :
            c \in {InCode(k) : k \in MCConstants}}

Symmetry == Permutations({r1, r2})

MCShift == {-1, 1}
=============================================================================
