--------------------------- MODULE MCVarArgProxies ---------------------------
(* A variadic function with a mixture of arguments, one that gets two lists  *)
(* and returns one, and one that gets a list and is variadic itself.         *)
EXTENDS VarArgProxies, TLC

CONSTANTS args, copied, l1, l2, c1, c2

Symmetric == Permutations({args, copied}) \cup Permutations({l1, l2}) \cup Permutations({c1, c2})

Nothing == [array |-> FALSE, elems |-> <<>>]
Pointer == [array |-> FALSE, elems |-> <<"p">>]

MCSignatures ==
  {[fun |-> [params |-> <<"i">>, ret |-> Pointer], lists |-> {}, variadic |-> TRUE,
    varargs |-> <<"p", "i", "p">>],
   [fun |-> [params |-> <<"p", "i", "p">>, ret |-> Pointer], lists |-> {1, 3},
    variadic |-> FALSE, varargs |-> <<>>],
   [fun |-> [params |-> <<"p", "p">>, ret |-> Nothing], lists |-> {2}, variadic |-> TRUE,
    varargs |-> <<"p">>]}
=============================================================================
