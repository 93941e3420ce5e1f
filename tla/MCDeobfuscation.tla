---------------------------- MODULE MCDeobfuscation ----------------------------
(* Functions of a few instructions in two blocks. *)
EXTENDS Deobfuscation

CONSTANTS typed, plain, N

\* The instructions that may follow those of prog.
Following(prog) ==
  LET ints == {i \in DOMAIN prog : prog[i].op \in {"load", "call", "bitcast", "phi"}}
      floats == {i \in DOMAIN prog : prog[i].op = "fload"}
      ptrs == {i \in DOMAIN prog : prog[i].op = "inttoptr"} \cup {plain}
  IN {[op |-> "load", args |-> <<p>>] : p \in ptrs \cup {typed}}
       \cup {[op |-> "fload", args |-> <<plain>>], [op |-> "call", args |-> <<>>]}
       \cup {[op |-> o, args |-> <<v>>] : o \in {"inttoptr", "use"}, v \in ints}
       \cup {[op |-> "bitcast", args |-> <<v>>] : v \in ints \cup floats}
       \cup {[op |-> "phi", args |-> <<v, w>>] : v \in ints, w \in ints}
       \cup {[op |-> "store", args |-> <<v, p>>] : v \in ints, p \in ptrs}

FunctionsOf[n \in 0 .. N] ==
  IF n = 0 THEN {<<>>}
  ELSE UNION {{Append(prog, ins) : ins \in Following(prog)} : prog \in FunctionsOf[n - 1]}

\* The first k instructions in one block, the rest in the other, which may
\* come first in the function.
Placed(prog, first, k) ==
  [i \in DOMAIN prog |-> [op |-> prog[i].op, args |-> prog[i].args,
                          block |-> IF i <= k THEN first ELSE 3 - first]]

MCPrograms ==
  {Placed(prog, p[1], p[2]) : prog \in FunctionsOf[N],
                              p \in {<<1, N>>, <<1, 1>>, <<1, 2>>, <<2, 2>>}}

In(b, op, args) == [op |-> op, args |-> args, block |-> b]

MCStoredTwice == {<<In(1, "load", <<typed>>), In(1, "store", <<1, plain>>),
                    In(1, "store", <<1, plain>>)>>}
=============================================================================
