------------------------------ MODULE WitnessFlow ------------------------------
(***************************************************************************)
(* From the witness graph to bounds at run time. The graph is built        *)
(* (WitnessGraph), AfterInflowStrategy::createWitness makes the witnesses  *)
(* of every target from it, and then the function runs with them: do the   *)
(* bounds that arrive at a target belong to its pointer?                   *)
(*                                                                         *)
(* With default options: the graph is not simplified and witnesses are     *)
(* shared (-mi-no-bounds-share is off). No aggregates, so that a "pair" is *)
(* a select. What runs are the phis and selects that createWitness asks    *)
(* the mechanism for, beside those of the function; a pointer stands for   *)
(* the object it points to, and an object is known by the instruction and  *)
(* the execution of it that gave the pointer.                              *)
(***************************************************************************)
EXTENDS WitnessGraph

CONSTANTS
  Succ,        \* successors of a block, as often as there are edges
  EntryBlock,  \* first block of the function
  MaxBlocks    \* bound: blocks executed in a run

ASSUME BlockAssumption == IsFiniteSet(Block)
ASSUME SuccAssumption == Succ \in [Block -> Seq(Block)]
ASSUME EntryBlockAssumption ==
  EntryBlock \in Block /\ \A b \in Block : EntryBlock \notin Range(Succ[b])
\* A phi has the same argument for several edges from one block.
ASSUME PhiAssumption ==
  \A f \in Programs : \A v \in Value : f[v].op = "phi" =>
    \A i, j \in DOMAIN f[v].from :
      f[v].from[i] = f[v].from[j] => f[v].args[i] = f[v].args[j]

\* After "done", `phase' is "create", "created" and then "run".
VARIABLES
  wit,         \* WitnessMap of the nodes that have witnesses
  operands,    \* of the phis and selects that were made, per witness
  calls,       \* active calls of createWitness, innermost first
  asked,       \* position of the next target to make witnesses for
  place,       \* block of each value
  cur, ran,    \* block that is executed, number of blocks so far
  executed,    \* values of this block that there are already
  val, bounds  \* objects of the pointers and objects of the witnesses

graph == <<program, next, reqs, complete, stack, flags, queue, succ>>
creation == <<wit, operands, calls, asked>>
execution == <<place, cur, ran, executed, val, bounds>>
flowVars == <<vars, creation, execution>>

-----------------------------------------------------------------------------
(* AfterInflowStrategy::createWitness *)

IsCall(n) == n.kind = "external" /\ vec[n.val].kind = "call"

\* The case of createWitness that a node falls under.
Role(n) ==
  CASE reqs[n] = <<>> -> "source"
    [] reqs[n] # <<>> /\ IsCall(n) -> "call"
    [] Len(reqs[n]) = 1 /\ ~IsCall(n) -> "shared"
    [] OTHER -> prog[Instrumentee(n)].op

\* A witness is known by the node that it was made for.
Single(n) == wit[n][1]
HasWitnesses(n) == n \in DOMAIN wit
Update(f, n, x) == [m \in DOMAIN f \cup {n} |-> IF m = n THEN x ELSE f[m]]
SetWitnesses(n, map) == wit' = Update(wit, n, map)
Operands(n) == IF n \in DOMAIN operands THEN operands[n] ELSE <<>>

\* Mutation: a phi gets its witness when those of its operands are there.
EnterCreateLate(n) ==
  /\ IF Role(n) = "source" THEN SetWitnesses(n, <<n>>) ELSE UNCHANGED wit
  /\ Len(calls) < 7
  /\ calls' = IF Role(n) = "source" THEN calls
                                    ELSE <<[node |-> n, at |-> 1]>> \o calls

\* The call createWitness(n) for a node without witnesses. The mechanism makes
\* one for a source; the witness of a phi is there before those it chooses
\* from: "This has to happen in two separate steps to break loops" (366).
EnterCreate(n) ==
  /\ IF Role(n) \in {"source", "phi"} THEN SetWitnesses(n, <<n>>)
                                      ELSE UNCHANGED wit
  /\ calls' = IF Role(n) = "source" THEN calls
                                    ELSE <<[node |-> n, at |-> 1]>> \o calls

StartCreation ==
  /\ phase = "done"
  /\ phase' = "create"
  /\ UNCHANGED <<graph, creation, execution>>

\* WitnessGraph::createWitnesses
CreateForTarget ==
  /\ phase = "create"
  /\ calls = <<>>
  /\ asked <= Len(vec)
  /\ EnterCreate(External(asked))
  /\ asked' = asked + 1
  /\ UNCHANGED <<vars, operands, execution>>

Caller == calls[1].node
Pending == IF calls = <<>> THEN <<>>
           ELSE SubSeq(reqs[Caller], calls[1].at, Len(reqs[Caller]))

CreateRequired ==
  /\ Pending # <<>>
  /\ ~HasWitnesses(Pending[1])
  /\ EnterCreate(Pending[1])
  /\ UNCHANGED <<vars, operands, asked, execution>>

\* A phi: "add the corresponding incoming values for the operands".
AddIncoming ==
  /\ Pending # <<>>
  /\ HasWitnesses(Pending[1])
  /\ Role(Caller) = "phi"
  /\ LET from == prog[Caller.val].from[calls[1].at]
         incoming == [wit |-> Single(Pending[1]), from |-> from]
     IN operands' = Update(operands, Caller, Append(Operands(Caller), incoming))
  /\ calls' = [calls EXCEPT ![1].at = @ + 1]
  /\ UNCHANGED <<vars, wit, asked, execution>>

\* A call invariant: one instrumentee may be required for several arguments.
AddArgument ==
  /\ Pending # <<>>
  /\ HasWitnesses(Pending[1])
  /\ Role(Caller) = "call"
  /\ LET args == vec[Caller.val].args
         at == {i \in DOMAIN args : args[i] = Pending[1].val}
         known == IF HasWitnesses(Caller) THEN wit[Caller] ELSE <<>>
     IN SetWitnesses(Caller, [i \in at \cup DOMAIN known |->
                                IF i \in at THEN Single(Pending[1]) ELSE known[i]])
  /\ calls' = [calls EXCEPT ![1].at = @ + 1]
  /\ UNCHANGED <<vars, operands, asked, execution>>

\* The other cases go on when all requirements have their witnesses.
TakeWitness ==
  /\ Pending # <<>>
  /\ HasWitnesses(Pending[1])
  /\ Role(Caller) \in {"shared", "pair"}
  /\ calls' = [calls EXCEPT ![1].at = @ + 1]
  /\ UNCHANGED <<vars, wit, operands, asked, execution>>

Complete(role) ==
  /\ calls # <<>>
  /\ Pending = <<>>
  /\ Role(Caller) \in role
  /\ calls' = Tail(calls)
  /\ UNCHANGED <<vars, asked, execution>>

\* "We just use the witness of the single requirement, nothing to combine."
Share ==
  /\ Complete({"shared"})
  /\ SetWitnesses(Caller, wit[reqs[Caller][1]])
  /\ UNCHANGED operands

\* Mutation: the witnesses of the two values are swapped.
CombineSwapped ==
  /\ Complete({"pair"})
  /\ SetWitnesses(Caller, <<Caller>>)
  /\ operands' = Update(operands, Caller,
                        [i \in 1 .. 2 |-> Single(reqs[Caller][3 - i])])

\* A select: getWitnessSelect with the same condition.
Combine ==
  /\ Complete({"pair"})
  /\ SetWitnesses(Caller, <<Caller>>)
  /\ operands' = Update(operands, Caller, [i \in 1 .. 2 |-> Single(reqs[Caller][i])])

ReturnFromCreate ==
  /\ Complete({"phi", "call"})
  /\ UNCHANGED <<wit, operands>>

FinishCreation ==
  /\ phase = "create"
  /\ calls = <<>>
  /\ asked > Len(vec)
  /\ phase' = "created"
  /\ UNCHANGED <<graph, creation, execution>>

Create ==
  \/ StartCreation
  \/ CreateForTarget
  \/ CreateRequired
  \/ AddIncoming
  \/ AddArgument
  \/ TakeWitness
  \/ Share
  \/ Combine
  \/ ReturnFromCreate
  \/ FinishCreation

-----------------------------------------------------------------------------
(* The function runs *)

\* <<a, b>> for each block a that is on every way to b.
Dominates ==
  LET past(a) == [c \in Block |-> Range(Succ[c]) \ {a}]
      reached(a) == Reachable({EntryBlock} \ {a}, past(a))
  IN UNION {{<<a, b>> : b \in (Block \ reached(a)) \cup {a}} : a \in Block}

Edges(a, b) == {i \in DOMAIN Succ[a] : Succ[a][i] = b}

\* A value defined by `def' can be in block p[v]: what it uses is defined on
\* every way there (in one block by the order of values), and a phi has an
\* argument per edge into its block.
FitsIn(def, p, v) ==
  LET fromBlock(b) == {i \in DOMAIN def.from : def.from[i] = b} IN
  CASE def.op = "entry" -> p[v] = EntryBlock
    [] def.op = "phi" ->
         /\ \A b \in Block :
              Cardinality(fromBlock(b)) = Cardinality(Edges(b, p[v]))
         /\ \A i \in DOMAIN def.args :
              <<p[def.args[i]], def.from[i]>> \in Dominates
    [] OTHER -> \A w \in Range(def.args) : <<p[w], p[v]>> \in Dominates

PhisAreFirst(f, p) ==
  \A v \in Value : f[v].op = "phi" =>
    \A w \in 1 .. v : p[w] = p[v] => f[w].op = "phi"

\* Nothing has been computed.
Nothing == <<0, 0>>

Witness == {n \in DOMAIN wit : Role(n) \in {"source", "phi", "pair"}}

\* The entry block has no phis.
StartFunction ==
  /\ phase = "created"
  /\ phase' = "run"
  /\ place' \in {p \in [Value -> Block] : /\ \A v \in Value : FitsIn(prog[v], p, v)
                                       /\ PhisAreFirst(prog, p)}
  /\ ran' = 1
  /\ val' = [v \in Value |-> Nothing]
  /\ bounds' = [w \in Witness |-> Nothing]
  /\ UNCHANGED <<graph, creation, cur, executed>>

\* The values of the block that are still to be computed.
Waiting == {v \in Value : place[v] = cur} \ executed
Phis(b) == {v \in Value : place[v] = b /\ prog[v].op = "phi"}

\* The argument of the phi v when control comes from b.
Incoming(v, b) == prog[v].args[CHOOSE i \in DOMAIN prog[v].from : prog[v].from[i] = b]
IncomingWitness(w, b) ==
  (CHOOSE c \in Range(operands[w]) : c.from = b).wit

\* Control goes to the next block. Its phis, and the phis of witnesses among
\* them, read what there is at the end of this one.
EnterBlock ==
  /\ phase = "run"
  /\ Waiting = {}
  /\ ran < MaxBlocks
  /\ \E b \in Range(Succ[cur]) :
       /\ cur' = b
       /\ executed' = Phis(b)
       /\ val' = [v \in Value |->
                    IF v \in Phis(b) THEN val[Incoming(v, cur)] ELSE val[v]]
       /\ bounds' = [w \in Witness |->
                       IF Role(w) = "phi" /\ Instrumentee(w) \in Phis(b)
                         THEN bounds[IncomingWitness(w, cur)] ELSE bounds[w]]
  /\ ran' = ran + 1
  /\ UNCHANGED <<vars, creation, place>>

\* `pick' is the condition of a select, which that of the witness has as well.
Pointer(v, pick) ==
  LET def == prog[v] IN
  CASE def.op \in {"source", "entry"} -> <<v, ran>>
    [] def.op = "copy" -> val[def.args[1]]
    [] def.op = "pair" -> val[def.args[pick]]

\* The inserted code next to a pointer. The mechanism knows the bounds of a source.
Bounds(w, pointer, pick) ==
  IF w.kind = "source" THEN pointer ELSE bounds[operands[w][pick]]

\* The next instruction, and the code that was inserted for it.
ExecuteInstruction ==
  /\ phase = "run"
  /\ \E v \in Waiting, pick \in 1 .. 2 :
       /\ \A w \in Waiting : v <= w
       /\ executed' = executed \cup {v}
       /\ LET pointer == Pointer(v, pick) IN
          /\ val' = [val EXCEPT ![v] = pointer]
          /\ bounds' = [w \in Witness |-> IF Instrumentee(w) = v
                                            THEN Bounds(w, pointer, pick)
                                            ELSE bounds[w]]
  /\ UNCHANGED <<vars, creation, place, cur, ran>>

-----------------------------------------------------------------------------
FlowInit ==
  /\ Init
  /\ wit = <<>>
  /\ operands = <<>>
  /\ calls = <<>>
  /\ asked = 1
  /\ place = <<>>
  /\ cur = EntryBlock
  /\ ran = 0
  /\ executed = {}
  /\ val = <<>>
  /\ bounds = <<>>

Pass == (Next /\ UNCHANGED <<creation, execution>>) \/ Create

FlowNext == Pass \/ StartFunction \/ EnterBlock \/ ExecuteInstruction

\* The pass is one thread that does not wait for anything; the function need
\* not run.
FlowSpec == FlowInit /\ [][FlowNext]_flowVars /\ WF_flowVars(Pass)

-----------------------------------------------------------------------------
\* The pointer v can be used where the function is now.
Available(v) ==
  <<place[v], cur>> \in Dominates /\ (place[v] = cur => v \in executed)

\* Whenever the function is at a place where a target can be, every witness of
\* the target describes the object that its pointer points to now: not one that
\* another way through the function would have given, nor the one of an earlier
\* iteration of a loop. This joins the recursion that shares and links nodes,
\* the one that makes witnesses from them (243-421), and the ways through the
\* function; a witness that is wrong only after a second iteration of a loop
\* with a select is wrong here.
WitnessesFollowPointers ==
  phase = "run" =>
    \A k \in DOMAIN vec :
      LET args == vec[k].args
          t == External(k)
      IN (\A i \in DOMAIN args : Available(args[i])) =>
           \A i \in DOMAIN args :
             /\ HasWitnesses(t) /\ i \in DOMAIN wit[t]
             /\ bounds[wit[t][i]] = val[args[i]]

\* The recursion that builds the graph, the worklist of the flags and the
\* recursion that makes witnesses end, loops in the function or not.
Termination == <>(phase = "created")
=============================================================================
