---------------------------- MODULE VarArgMarking ----------------------------
(***************************************************************************)
(* Marking of what a compiler makes of va_start, va_arg, va_copy and       *)
(* va_end. Two loads lead from a va_list to an argument: from the list to  *)
(* the area where arguments are, and from there. The worklist follows      *)
(* users from every value through which a list is accessible, counting     *)
(* loads down from two. What it marks keeps no checks, and the second load *)
(* is what asks for the bounds of an argument.                             *)
(*   lib/pass/Setup.cpp 99-225, 760-772; lib/pass/Util.cpp 184-243         *)
(* No phase before this one marks an instruction `noinstrument`.           *)
(***************************************************************************)
EXTENDS Naturals, Sequences, FiniteSets, SequencesExt

CONSTANTS
  Inst,     \* instructions
  Arg,      \* arguments of the function that are va_lists
  Functions \* functions: what each instruction does, and who uses each value

\* "alloca", "list load" and "list call" are those with the type of a va_list
\* or of a pointer to one; "va" are the intrinsics for lists; "value" are
\* phis, casts, pointer arithmetic and the like.
Ops == {"alloca", "list load", "list call", "load", "store", "va", "call", "value"}

FunctionsAssumption ==
  /\ IsFiniteSet(Inst) /\ Inst \cap Arg = {}
  /\ Functions \subseteq [op : [Inst -> Ops], users : [Inst \cup Arg -> SUBSET Inst]]
  /\ \A f \in Functions : \A i \in Inst : f.op[i] = "store" => f.users[i] = {}
ASSUME FunctionsAssumption

VARIABLES
  fun,
  handles,  \* handles whose users are not on the worklist yet
  worklist, \* users with the loads that are left
  marked, loadArg,  \* setVarArgHandling, setVarArgLoadArg
  progress

markingVars == <<fun, handles, worklist, marked, loadArg, progress>>

\* getVarArgHandles, which collects in this order.
Group(f, h) == IF h \in Arg THEN 2 ELSE IF f.op[h] = "alloca" THEN 1 ELSE 3
Handles(f) == {h \in Inst : f.op[h] \in {"alloca", "list load", "list call"}} \cup Arg

\* Users in some order of the use list.
Users(v, level) ==
  {[n \in DOMAIN order |-> <<order[n], level>>] : order \in SetToSeqs(fun.users[v])}

\* What was pushed last comes first.
Entry == Head(worklist)
Rest == Tail(worklist)
Is(ops) == progress = "work" /\ worklist # <<>> /\ fun.op[Entry[1]] \in ops

MarkingInit ==
  /\ fun \in Functions
  /\ handles = Handles(fun)
  /\ worklist = <<>> /\ marked = {} /\ loadArg = {} /\ progress = "handles"

\* Mutation: handles are followed first and marked after that.
StartHandleUnmarked(h) ==
  /\ progress = "handles"
  /\ \A g \in handles : Group(fun, h) <= Group(fun, g)
  /\ handles' = handles \ {h}
  /\ \E users \in Users(h, 2) : worklist' = users \o worklist
  /\ UNCHANGED <<fun, loadArg, marked, progress>>

StartHandle(h) ==
  /\ progress = "handles"
  /\ \A g \in handles : Group(fun, h) <= Group(fun, g)
  /\ handles' = handles \ {h}
  /\ marked' = marked \cup ({h} \cap Inst)
  /\ \E users \in Users(h, 2) : worklist' = users \o worklist
  /\ UNCHANGED <<fun, loadArg, progress>>

HandlesDone ==
  /\ progress = "handles" /\ handles = {}
  /\ progress' = "work"
  /\ UNCHANGED <<fun, handles, worklist, marked, loadArg>>

\* Calls are not followed; intrinsics for lists are marked.
PopCall ==
  /\ Is({"va", "call", "list call"})
  /\ marked' = IF fun.op[Entry[1]] = "va" THEN marked \cup {Entry[1]} ELSE marked
  /\ worklist' = Rest
  /\ UNCHANGED <<fun, handles, loadArg, progress>>

PopMarked ==
  /\ Is(Ops \ {"va", "call", "list call"}) /\ Entry[1] \in marked
  /\ worklist' = Rest
  /\ UNCHANGED <<fun, handles, marked, loadArg, progress>>

\* An instruction is marked, and its users follow if loads are left.
Follow(i, level) ==
  /\ marked' = marked \cup {i}
  /\ IF level = 0 THEN worklist' = Rest
     ELSE \E users \in Users(i, level) : worklist' = users \o Rest
  /\ UNCHANGED <<fun, handles, progress>>

\* Mutation: the first load is taken for the second.
PopLoadEarly ==
  /\ Is({"load", "list load"}) /\ Entry[1] \notin marked
  /\ Entry[2] > 0
  /\ loadArg' = IF Entry[2] = 2 THEN loadArg \cup {Entry[1]} ELSE loadArg
  /\ Follow(Entry[1], Entry[2] - 1)

\* assert(propLevel > 0) does not fail, see MarkingTypeOK.
PopLoad ==
  /\ Is({"load", "list load"}) /\ Entry[1] \notin marked
  /\ Entry[2] > 0
  /\ loadArg' = IF Entry[2] = 1 THEN loadArg \cup {Entry[1]} ELSE loadArg
  /\ Follow(Entry[1], Entry[2] - 1)

\* Mutation: what was marked is followed again.
PopOtherAgain ==
  /\ Is({"alloca", "store", "value"})
  /\ loadArg' = loadArg
  /\ Follow(Entry[1], Entry[2])

PopOther ==
  /\ Is({"alloca", "store", "value"}) /\ Entry[1] \notin marked
  /\ loadArg' = loadArg
  /\ Follow(Entry[1], Entry[2])

\* hasUnmarkedVarArgIntrinsic
Finish ==
  /\ progress = "work" /\ worklist = <<>>
  /\ progress' = IF \E i \in Inst \ marked : fun.op[i] = "va" THEN "reported" ELSE "done"
  /\ UNCHANGED <<fun, handles, worklist, marked, loadArg>>

MarkingNext ==
  \/ \E h \in handles : StartHandle(h)
  \/ HandlesDone \/ PopCall \/ PopMarked \/ PopLoad \/ PopOther \/ Finish

MarkingSpec == MarkingInit /\ [][MarkingNext]_markingVars /\ WF_markingVars(MarkingNext)

-----------------------------------------------------------------------------
(***************************************************************************)
(* Properties. Values are at distance two from arguments if they point     *)
(* into a list, and at distance one if they were loaded from there.        *)
(***************************************************************************)

Closed(f, S) == \A v \in S : \A i \in f.users[v] : f.op[i] = "value" => i \in S

\* The values computed from those of S without a load.
ComputedFrom(f, S) ==
  LET closed == {T \in SUBSET (Inst \cup Arg) : S \subseteq T /\ Closed(f, T)}
  IN {v \in Inst \cup Arg : \A T \in closed : v \in T}
UsersOf(f, S, ops) == UNION {{i \in f.users[v] : f.op[i] \in ops} : v \in S}

InList(f) == ComputedFrom(f, Handles(f))
FromList(f) == LET loads == UsersOf(f, InList(f), {"load"}) IN ComputedFrom(f, loads)
Arguments(f) == UsersOf(f, FromList(f), {"load"})

Bookkeeping(f) ==
  LET values == InList(f) \cup FromList(f)
  IN (values \cup Arguments(f) \cup UsersOf(f, values, {"store", "va"})) \cap Inst

\* Every value has one distance, as types ensure in code for va_list.
Consistent(f) == InList(f) \cap FromList(f) = {} /\ FromList(f) \cap Arguments(f) = {}

\* Marks are on instructions; what is to be followed has loads left, hence
\* assert(propLevel > 0) holds at every load.
MarkingTypeOK ==
  /\ fun \in [op : [Inst -> Ops], users : [Inst \cup Arg -> SUBSET Inst]]
  /\ handles \subseteq Handles(fun)
  /\ worklist \in Seq(Inst \X (1 .. 2))
  /\ marked \subseteq Inst /\ loadArg \subseteq marked
  /\ progress \in {"handles", "work", "done", "reported"}

\* Whatever the order of users, marks are only on bookkeeping of lists, so
\* accesses through arguments keep their checks; and if every value has one
\* distance nothing of the bookkeeping is missed, the intrinsics included.
BookkeepingIsMarked ==
  /\ marked \subseteq Bookkeeping(fun)
  /\ progress \in {"done", "reported"} /\ Consistent(fun) => marked = Bookkeeping(fun)

\* The same of the loads that get the arguments: each asks the proxy of the
\* list for the next bounds, so one too few or too many shifts all others.
ArgumentLoadsAreMarked ==
  /\ loadArg \subseteq Arguments(fun)
  /\ progress \in {"done", "reported"} /\ Consistent(fun) => loadArg = Arguments(fun)

\* Values go around in loops; marking ends.
Termination == <>(progress \in {"done", "reported"})
=============================================================================
