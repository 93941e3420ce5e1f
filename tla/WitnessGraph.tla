----------------------------- MODULE WitnessGraph -----------------------------
(***************************************************************************)
(* How the witness graph of a function is built and how the flags of the   *)
(* ITargets are propagated through it: WitnessGraph.cpp, WitnessStrategy.  *)
(* cpp and AfterInflowStrategy::addRequired.                               *)
(*                                                                         *)
(* The recursion addRequired -> requireRecursively -> addRequired is a     *)
(* stack of frames. A node is the pair of instrumentee and location plus   *)
(* its kind, which is what ITarget::equals compares before any flag is set.*)
(***************************************************************************)
EXTENDS Integers, Sequences, FiniteSets, SequencesExt

CONSTANTS
  N,         \* number of pointers of the function, in the order of its code
  Block,     \* blocks of the function
  Programs,  \* the functions: each maps a value to its defining operation
  Targets,   \* the vectors of ITargets the graph is built for
  FlagsOf    \* per position of the vector, the flags of the ITarget

(***************************************************************************)
(* Operations, by the case of addRequired they fall under:                 *)
(*   "source"  alloca, call, landingpad, inttoptr, load, invoke            *)
(*   "entry"   arguments and pointer constants                             *)
(*   "copy"    getelementptr, bitcast, extractvalue, load of a va_list     *)
(*   "pair"    select, insertvalue of a pointer                            *)
(*   "phi"     with one incoming block per argument                        *)
(* An operation other than a phi uses values that are defined before it.   *)
(***************************************************************************)
Value == 1 .. N

Op ==
  [op: {"source", "entry"}, args: {<<>>}, from: {<<>>}]
    \cup [op: {"copy"}, args: [1 .. 1 -> Value], from: {<<>>}]
    \cup [op: {"pair"}, args: [1 .. 2 -> Value], from: {<<>>}]
    \cup [op: {"phi"}, args: [1 .. 2 -> Value], from: [1 .. 2 -> Block]]

\* An ITarget: an instrumentee, or the arguments of a call invariant.
Target == [kind: {"plain"}, args: [1 .. 1 -> Value]]
            \cup [kind: {"call"}, args: [1 .. 2 -> Value]]

Flag == {"upper", "lower", "temporal", "explicit"}

\* What is reachable from S in the relation `to'.
Reachable(S, to) ==
  LET grow[within \in SUBSET DOMAIN to] ==
        LET wider == within \cup UNION {to[m] : m \in within} IN
        IF wider = within THEN within ELSE grow[wider]
  IN grow[S]

\* The values that each value of the function f is computed from.
Uses(f) == [v \in Value |-> Range(f[v].args)]

ASSUME NAssumption == N \in Nat
ASSUME ProgramAssumption == Programs \subseteq [Value -> Op]
\* SSA form, in code that can be reached: uses are dominated by definitions.
ASSUME OrderAssumption ==
  \A f \in Programs : \A v \in Value :
    f[v].op # "phi" => Range(f[v].args) \subseteq 1 .. v - 1
\* For the same reason a pointer comes from some definition: phis and copies
\* that only depend on each other are on no way from the entry.
ASSUME OriginAssumption ==
  \A f \in Programs : \A v \in Value :
    \E w \in Reachable({v}, Uses(f)) : f[w].op \in {"source", "entry"}
ASSUME TargetAssumption == Targets \subseteq Seq(Target)
ASSUME FlagAssumption ==
  \A ts \in Targets : \A k \in DOMAIN ts : FlagsOf[k] \subseteq Flag

VARIABLES
  prog, vec,  \* the function and the ITargetVector; never change
  phase,      \* "insert", "propagate" or "done"
  next,       \* position of the next target to insert
  reqs,       \* requirements of the nodes there are
  complete,   \* nodes with HasAllRequirements
  stack,      \* active calls of addRequired, innermost first
  flags,      \* per node
  queue, succ \* the worklist of propagateFlags, position in its first node

vars == <<prog, vec, phase, next, reqs, complete, stack, flags, queue, succ>>
program == <<prog, vec>>

Internal(v, loc) == [kind |-> "internal", val |-> v, loc |-> loc]
Source(v, loc) == [kind |-> "source", val |-> v, loc |-> loc]
External(k) == [kind |-> "external", val |-> k, loc |-> <<"target", k>>]

\* Instruction v, and the instruction after it (getNextNode).
At(v) == <<"at", v>>
After(v) == At(v + 1)
Back(b) == <<"back", b>>
Entry == <<"entry", 0>>
TargetLoc(k) == <<"target", k>>

Instrumentee(n) == IF n.kind = "external" THEN vec[n.val].args[1] ELSE n.val

-----------------------------------------------------------------------------
(* The graph *)

\* getInternalNode: an equal node is reused.
WithNode(g, n) ==
  [m \in DOMAIN g \cup {n} |-> IF m \in DOMAIN g THEN g[m] ELSE <<>>]

\* addRequirement
Link(g, n, m) == [g EXCEPT ![n] = Append(@, m)]

PhiNode(v) == Internal(v, At(v))

\* What the call addRequired(n) asks for, in order, when n stands for v at loc.
Wanted(v) ==
  LET def == prog[v] IN
  CASE def.op = "source" -> <<Source(v, After(v))>>
    [] def.op = "entry" -> <<Source(v, Entry)>>
    [] def.op \in {"copy", "pair"} ->
         [i \in DOMAIN def.args |-> Internal(def.args[i], At(v))]
    [] def.op = "phi" ->
         [i \in DOMAIN def.args |-> Internal(def.args[i], Back(def.from[i]))]

(***************************************************************************)
(* The effect of entering addRequired(n) for an incomplete node n: it is   *)
(* marked, and the frame holds the requests to come, the node `to' that    *)
(* they are added to, and the node `of' that the caller will require.      *)
(* For a phi the requests go to a node of its own, which is linked first   *)
(* and filled only if it has not been before; this breaks loops.           *)
(***************************************************************************)
Frame(n, to, left) == [of |-> n, to |-> to, left |-> left]

EnterPlain(n, wanted) ==
  /\ complete' = complete \cup {n}
  /\ reqs' = WithNode(reqs, n)
  /\ stack' = <<Frame(n, n, wanted)>> \o stack

EnterPhi(n, v) ==
  LET phi == PhiNode(v) IN
  /\ complete' = complete \cup {n, phi}
  /\ reqs' = Link(WithNode(WithNode(reqs, n), phi), n, phi)
  /\ stack' = <<Frame(n, phi, IF phi \in complete THEN <<>> ELSE Wanted(v))>>
                \o stack

Enter(n, v) ==
  IF prog[v].op = "phi" THEN EnterPhi(n, v) ELSE EnterPlain(n, Wanted(v))

-----------------------------------------------------------------------------
(* WitnessGraph::insertRequiredTarget, one target after the other *)

\* A call invariant requires a node per required argument, at the call.
InsertRequiredTarget ==
  /\ phase = "insert"
  /\ stack = <<>>
  /\ next <= Len(vec)
  /\ LET t == vec[next]
         n == External(next)
     IN IF t.kind = "call"
          THEN EnterPlain(n, [i \in DOMAIN t.args |->
                                Internal(t.args[i], TargetLoc(next))])
          ELSE Enter(n, t.args[1])
  /\ next' = next + 1
  /\ UNCHANGED <<program, phase, flags, queue, succ>>

Top == stack[1]
Wants == IF stack = <<>> THEN <<>> ELSE Top.left

\* The innermost frame without its first request.
Served == [stack EXCEPT ![1].left = Tail(@)]

\* requireSource: source nodes have no requirements by definition.
RequireSource ==
  /\ Wants # <<>>
  /\ Wants[1].kind = "source"
  /\ reqs' = Link(WithNode(reqs, Wants[1]), Top.to, Wants[1])
  /\ complete' = complete \cup {Wants[1]}
  /\ stack' = Served
  /\ UNCHANGED <<program, phase, next, flags, queue, succ>>

\* requireRecursively for a node whose requirements are there or are being
\* added further down the stack: addRequired returns at once.
RequireKnown ==
  /\ Wants # <<>>
  /\ Wants[1] \in complete
  /\ Wants[1].kind = "internal"
  /\ reqs' = Link(reqs, Top.to, Wants[1])
  /\ stack' = Served
  /\ UNCHANGED <<program, phase, next, complete, flags, queue, succ>>

\* Mutation: HasAllRequirements is not looked at.
RequireNewAgain ==
  /\ Wants # <<>>
  /\ Wants[1].kind = "internal"
  /\ Len(stack) < 6
  /\ Enter(Wants[1], Wants[1].val)
  /\ UNCHANGED <<program, phase, next, flags, queue, succ>>

\* requireRecursively for a new node: the recursive call. The caller's
\* request is served when the call returns.
RequireNew ==
  /\ Wants # <<>>
  /\ Wants[1] \notin complete
  /\ Wants[1].kind = "internal"
  /\ Enter(Wants[1], Wants[1].val)
  /\ UNCHANGED <<program, phase, next, flags, queue, succ>>

\* Mutation: the requirement of the caller is forgotten.
ReturnUnlinked ==
  /\ stack # <<>>
  /\ Wants = <<>>
  /\ stack' = IF Len(stack) = 1 THEN <<>>
                                ELSE [Tail(stack) EXCEPT ![1].left = Tail(@)]
  /\ UNCHANGED <<program, phase, next, reqs, complete, flags, queue, succ>>

\* The end of addRequired; requireRecursively adds the requirement then.
ReturnFromAddRequired ==
  /\ stack # <<>>
  /\ Wants = <<>>
  /\ IF Len(stack) = 1
       THEN /\ stack' = <<>>
            /\ reqs' = reqs
       ELSE /\ stack' = [Tail(stack) EXCEPT ![1].left = Tail(@)]
            /\ reqs' = Link(reqs, stack[2].to, Top.of)
  /\ UNCHANGED <<program, phase, next, complete, flags, queue, succ>>

-----------------------------------------------------------------------------
(* WitnessGraph::propagateFlags *)

Node == DOMAIN reqs

StartPropagation ==
  /\ phase = "insert"
  /\ stack = <<>>
  /\ next > Len(vec)
  /\ phase' = "propagate"
  /\ flags' = [n \in Node |-> IF n.kind = "external" THEN FlagsOf[n.val]
                                                      ELSE {}]
  /\ queue' = [k \in DOMAIN vec |-> External(k)]
  /\ succ' = 1
  /\ UNCHANGED <<program, next, reqs, complete, stack>>

\* Mutation: a node enters the worklist only when it had no flag before.
JoinFlagsFirstTime ==
  /\ queue # <<>>
  /\ succ <= Len(reqs[queue[1]])
  /\ LET s == reqs[queue[1]][succ]
         joined == flags[s] \cup flags[queue[1]]
     IN /\ flags' = [flags EXCEPT ![s] = joined]
        /\ queue' = IF flags[s] = {} /\ joined # {} THEN Append(queue, s)
                                                    ELSE queue
  /\ succ' = succ + 1
  /\ UNCHANGED <<program, phase, next, reqs, complete, stack>>

\* joinFlags for one requirement of the node at the front of the worklist.
JoinFlags ==
  /\ queue # <<>>
  /\ succ <= Len(reqs[queue[1]])
  /\ LET s == reqs[queue[1]][succ]
         joined == flags[s] \cup flags[queue[1]]
     IN /\ flags' = [flags EXCEPT ![s] = joined]
        /\ queue' = IF joined # flags[s] THEN Append(queue, s) ELSE queue
  /\ succ' = succ + 1
  /\ UNCHANGED <<program, phase, next, reqs, complete, stack>>

\* Mutation: the front of the worklist is not popped.
PopNodeKeeps ==
  /\ queue # <<>>
  /\ succ > Len(reqs[queue[1]])
  /\ queue' = queue
  /\ succ' = 1
  /\ UNCHANGED <<program, phase, next, reqs, complete, stack, flags>>

PopNode ==
  /\ queue # <<>>
  /\ succ > Len(reqs[queue[1]])
  /\ queue' = Tail(queue)
  /\ succ' = 1
  /\ UNCHANGED <<program, phase, next, reqs, complete, stack, flags>>

FinishPropagation ==
  /\ phase = "propagate"
  /\ queue = <<>>
  /\ phase' = "done"
  /\ UNCHANGED <<program, next, reqs, complete, stack, flags, queue, succ>>

-----------------------------------------------------------------------------
Init ==
  /\ prog \in Programs
  /\ vec \in Targets
  /\ phase = "insert"
  /\ next = 1
  /\ reqs = <<>>
  /\ complete = {}
  /\ stack = <<>>
  /\ flags = <<>>
  /\ queue = <<>>
  /\ succ = 1

Build ==
  \/ InsertRequiredTarget
  \/ RequireSource
  \/ RequireKnown
  \/ RequireNew
  \/ ReturnFromAddRequired

Propagate ==
  \/ StartPropagation
  \/ JoinFlags
  \/ PopNode
  \/ FinishPropagation

Next == Build \/ Propagate

Spec == Init /\ [][Next]_vars

-----------------------------------------------------------------------------
(***************************************************************************)
(* Properties.                                                             *)
(***************************************************************************)

\* The parts of the state have their types; what is complete is a node.
TypeOK ==
  /\ prog \in Programs
  /\ vec \in Targets
  /\ phase \in {"insert", "propagate", "done"}
  /\ next \in 1 .. Len(vec) + 1
  /\ \A n \in Node : Range(reqs[n]) \subseteq Node
  /\ complete \subseteq Node
  /\ \A k \in DOMAIN stack : {stack[k].of, stack[k].to} \subseteq complete
  /\ Range(queue) \subseteq Node
  /\ succ \in Nat \ {0}

Requires == [n \in Node |-> Range(reqs[n])]
Descendants(n) == Reachable({n}, Requires)

\* The definitions a pointer may come from, by the SSA graph alone.
Origins(S) ==
  {v \in Reachable(S, Uses(prog)) : prog[v].op \in {"source", "entry"}}

\* The graph does not change any more.
Built == phase = "done"

\* The graph ends in exactly the definitions the pointers of a target come
\* from: none is missed because a node was shared or was entered through a
\* loop, and none is added by sharing. Every node, whoever requires it, leads
\* to a source (WitnessGraph.h 91-93); otherwise the simplification would leave
\* it without a representative.
SourcesMatch ==
  Built =>
    /\ \A k \in DOMAIN vec :
         {n.val : n \in {m \in Descendants(External(k)) : m.kind = "source"}}
           = Origins(Range(vec[k].args))
    /\ \A n \in Node : \E m \in Descendants(n) : m.kind = "source"

IsPhiNode(n) ==
  /\ n.kind = "internal"
  /\ prog[n.val].op = "phi"
  /\ n = PhiNode(n.val)

\* Each node has been given its requirements exactly once, in the order that
\* createWitness relies on: one per incoming block of a phi and for the end
\* of that block (assertion at 367), two for a select (399), one otherwise.
\* "Setting the location to I (and not after I) makes sure that this
\* particular internal Node is only gotten when handling Phis here" (135-136):
\* whoever requires the node of a phi is a target or a node for the phi, so
\* no target at a phi is given the requirements of the phi instead of its own.
RequirementsAreWhole ==
  Built =>
    \A n \in Node :
      /\ \A m \in {k \in Range(reqs[n]) : IsPhiNode(k)} :
           n.kind = "external" \/ n.val = m.val
      /\ CASE n.kind = "source" -> reqs[n] = <<>>
           [] n.kind = "external" /\ vec[n.val].kind = "call" ->
                [i \in DOMAIN reqs[n] |-> reqs[n][i].val] = vec[n.val].args
           [] IsPhiNode(n) ->
                LET phi == prog[n.val] IN
                /\ Len(reqs[n]) = Len(phi.args)
                /\ \A i \in DOMAIN reqs[n] : /\ reqs[n][i].val = phi.args[i]
                                            /\ reqs[n][i].loc = Back(phi.from[i])
           [] OTHER ->
                Len(reqs[n]) = IF prog[Instrumentee(n)].op = "pair" THEN 2 ELSE 1

\* A node ends up with the flags of exactly the targets that depend on it,
\* although the worklist does not visit a node again that gains nothing.
FlagsAreJoined ==
  phase = "done" =>
    \A n \in Node : n.kind # "external" =>
      flags[n] = UNION {FlagsOf[k] : k \in {l \in DOMAIN vec :
                                             n \in Descendants(External(l))}}
=============================================================================
