---------------------------- MODULE MCVarArgMarking ----------------------------
(* All functions of four instructions with an argument or a variable that is  *)
(* a va_list. Values may be used before their definition, by phis only.       *)
EXTENDS VarArgMarking

CONSTANTS MCSize, list

MCInst == 1 .. MCSize

Operands(i, op) ==
  LET before == {list} \cup (1 .. i - 1) IN
  CASE op \in {"alloca", "list call"} -> {{}}
    [] op \in {"load", "call", "va", "list load"} -> {{v} : v \in before}
    [] op = "store" -> {{v, w} : v, w \in before}
    [] op = "value" -> {{v, w} : v, w \in {list} \cup (MCInst \ {i})}

Instruction(i, ops) == UNION {{[op |-> op, of |-> of] : of \in Operands(i, op)} : op \in ops}

Bodies ==
  {<<a, b, c, d>> : a \in Instruction(1, {"alloca", "list call", "load", "value"}),
                    b \in Instruction(2, {"list load", "load", "value"}),
                    c \in Instruction(3, {"load", "value", "call"}),
                    d \in Instruction(4, {"load", "store", "va"})}
UsesValues(body) ==
  \A i \in MCInst : \A v \in body[i].of \ {list} : body[v].op \notin {"store", "va", "call"}

MCFunctions ==
  {[op |-> [i \in MCInst |-> body[i].op],
    users |-> [v \in {list} \cup MCInst |-> {i \in MCInst : v \in body[i].of}]]
     : body \in {b \in Bodies : UsesValues(b)}}
=============================================================================
