# Models of MemInstrument

MemInstrument is an LLVM pass (`src/lib`, `src/include`) that makes memory accesses of a
module safe. It decides where checks and invariants are needed (*ITargets*), drops those that
are not needed, finds out by a *witness graph* where the bounds of every pointer come from,
and lets an *instrumentation mechanism* (SoftBound, Lowfat pointers, Splay, ...) insert code
that provides bounds and checks them. This directory holds TLA+ models of its logic, the runs
that check them with TLC and proofs of their most important properties.

The pass itself is a single thread: what is hard about it are graphs with loops and sharing,
worklists and recursions that have to end, orders of phases, orders of hash sets, and code
that is inserted now and has to be right when the program runs. Where that code runs, calls
interleave arbitrarily with it.

## Inventory

| Part | State | Operations | Depends on |
|---|---|---|---|
| Pipeline, `lib/pass/MemInstrumentPass.cpp` | the ITarget vectors of all functions | `runOnModule`: setup, gathering, filtering, dropping of attributes, witness generation, invariants, external checks, checks | everything below, in this order |
| Setup, `lib/pass/Setup.cpp` | the module | removal of lifetime intrinsics, vararg marking, deobfuscation of pointers, byval conversion, functions to skip | marks are metadata that policies and mechanisms read |
| ITargets, `lib/pass/ITarget.cpp` | valid flag, bounds flags, witnesses of a target | `invalidate`, `joinFlags`, `equals`, `setBoundWitness` | shared by all later phases |
| Policies, `lib/instrumentation_policies` | none | `classifyTargets` per instruction | marks of the setup |
| Optimizations, `lib/optimizations` | profile data, worklist of the example | `updateITargets*`, `materializeExternalChecks*` | run in command-line order on one vector |
| Dropping of attributes, `MemInstrumentPass.cpp` 29-195 | attributes of functions and calls | two passes over the module | validity of targets after the filters |
| Witness graph, `lib/pass/WitnessGraph.cpp`, `lib/witness_strategies` | nodes with requirements and requirers | `insertRequiredTarget`, `addRequired`, `propagateFlags`, `simplifyWitnessGraph`, `createWitnesses` | asks the mechanism for witnesses |
| SoftBound, `lib/instrumentation_mechanisms/SoftBoundMechanism.cpp` | handles of the run-time, per-function allocations | `insertWitnesses`, `insertCheck`, `handleInvariant`, `initialize` | its run-time keeps a shadow stack and metadata in memory |
| Lowfat, Splay | declarations; Splay caches materialized bounds | `initialize`, `instrumentAlloca`, `insertWitnesses`, `insertCheck`, `materializeBounds` | bounds are computed from the pointer or looked up in a tree; `BeforeOutflowPolicy` keeps pointers in bounds where they leave a function |
| Statistics, sleep, example mechanisms | counters in the program | one call per target | - |
| Configuration, registration | the command line | parsing, creation of the parts | - |
| Run-time libraries | shadow stack, metadata | called by inserted code | a git submodule that is empty in this repository |

What makes each part correct, and what is hard about it:

* *Optimizations*: no access that needs a check loses the last check that covers it, whatever
  the order of optimizations. The dominance filter reads flags it changes itself.
* *Witness graph*: the recursion ends although data flow has loops, shared nodes are complete
  in the end, flags reach everything a target depends on, and simplification changes no data
  flow. `updateWitnessNode` is a fixpoint that changes a node more than once.
* *Dropping of attributes*: no attribute stays that inserted code makes wrong. It is decided
  before the code is inserted.
* *SoftBound*: at run time the bounds used for a pointer are those of its object. Caller and
  callee compute slots independently, and code is placed by position while other code is
  being placed there too.
* *Setup*: rewriting keeps the program's meaning, and the later parts see every pointer.
* *Policies*: every pointer that leaves a function or is accessed has a target.
* *Lowfat and Splay*: the bounds found for a pointer's value are those of its object although
  nothing travels with the pointer, and no object is left without bounds silently.

The list `hazards` in `PROJECT.json` names each of these at its line, with the properties that
cover it.

## Modules

| Module | Models | Runs |
|---|---|---|
| `TargetFiltering` | ITargets of one function from gathering to checks; the optimizations | `filtering` |
| `WitnessGraph` | building the graph, propagation of flags | through `WitnessFlow` |
| `WitnessGraphProofs` | theorems about it, and about the witnesses made from it | |
| `WitnessFlow` | making witnesses from the graph, and the function that runs with them | `graph` |
| `WitnessSimplification` | simplification of a finished graph, and its deletion | `simplification` |
| `WitnessSimplificationProofs` | theorems about it | |
| `AttributeDropping` | dropping of attributes, inserted code | `attributes` |
| `ShadowStackCode` | the code that SoftBound inserts for calls, as pure operators | through `ShadowStack`, `VarArgProxies` |
| `ShadowStackPass` | inserting it: targets, witnesses and invariants of all functions | through `ShadowStack` |
| `ShadowStackPassProofs` | theorems about it | |
| `ShadowStack` | the instrumented program while it runs | `shadow_stack`, `select_after_call` |
| `ShadowStackProofs` | theorems about it | |
| `Deobfuscation` | rewriting of integers that are pointers | `deobfuscation`, `stored_twice` |
| `VarArgMarking` | marking of instructions for va_lists | `marking` |
| `MemInstrumentPassProofs` | theorems about `TargetFiltering`, `AttributeDropping` and `VarArgMarking` | |
| `SoftBoundMetadata` | bounds of pointers in memory and registers | `metadata` |
| `SoftBoundMetadataProofs` | theorems about it | |
| `VarArgProxies` | proxies of va_lists while the program runs; takes slots and frames from `ShadowStackCode` | `varargs` |
| `VarArgProxiesProofs` | theorems about it, lemmas on slots and frames of `ShadowStackCode` | |
| `AddressBounds` | bounds that are found by address (Splay, Lowfat), with `BeforeOutflowPolicy` | `lookup` |
| `AddressBoundsProofs` | theorems about it | |
| `SpatialSafety` | what an instrumented program promises, whatever the mechanism: the abstract specification that `SoftBoundMetadata` and `AddressBounds` implement | property `IsSafe` of `metadata` and `lookup` |

The `MC*` modules only give constants their values.

### TargetFiltering

`it` is the ITargetVector; targets never move and never become valid again, so `fate` records
for each whether it is still valid (`"live"`) and otherwise who invalidated it. `pc` is the
phase of `runOnModule`, `oi` the optimization of `OptimizationRunner::updateITargets`, `pair`
the two loop variables of the dominance filter, one comparison per step. `currentWL` is that of
`ExampleExternalChecksPass`, `guards` the external checks it placed. Dominance is a transitive
relation (constant `Dom`). Constant and dynamic sizes are compared as `subsumes` does.

Run `filtering`: three targets with every kind, at two ordered locations or an unreachable one,
two sizes, seven command lines. Three targets are the smallest number in which a target is
removed because of one that is removed itself. It checks that removed targets stay covered
(`SubsumedAreCovered`), that the cover still guards when no filter that drops checks outright
ran later (`SubsumedKeepGuard`), that accesses end up guarded or for a stated reason not
(`AccessesAreGuarded`), and that one run of the dominance filter leaves nothing for a second
(`OnePassSuffices`).

Proved, for every vector, every transitive dominance relation and every list of optimizations: the types
(`TypeCorrect`) and all four properties. Coverage is not inductive by
itself: a cover may be removed as well. The invariant `CoveredBy` therefore asks for a cover
that is *not* subsumed; it survives the removal of that cover because covering is transitive
(`CoversTransitive`) and what removes it covers it. For the second theorem `GuardInv` adds
which fates are possible while the dominance filter is last. `OnePassSuffices` is inductive, because a
comparison adds one pair to those passed (`PassedGrows`) and later ones only invalidate. For
`AccessesAreGuarded`, `EmissionInv` adds what each phase owes at its end: who invalidated a target
(`FatesAreExplained`), that what the example optimization took over is placed once its
materialization is past (`WorklistIsPlaced`), and that a valid check is emitted (`EndIsReached`).

### WitnessGraph

A function maps each of its `N` pointers to the operation that defines it; a node is a pair of
value and location with its kind, since that is what `ITarget::equals` compares. `stack` holds
the active calls of `addRequired` with the requirements each still wants; `complete` is
`HasAllRequirements`. `queue` and `succ` are the worklist of `propagateFlags` and the position
in its current node. Every phi has two incoming values, in this module and in `WitnessFlow`: "every
function" below means every function of this form.

Proved, for every function in SSA form and every vector of targets: the types (`GraphTypeCorrect`),
`RequirementsWhole`, `FlagsReachAll` and `SourcesMatchSSA`. `RequirementsAreWhole` is about the finished graph; what is inductive is an account of the
recursion. `Full` is what a node will have in the end, and the invariant `Filled` says that while a
frame is open, what its node has so far and what the frame still wants are together `Full` of it, that
no two open frames fill the same node, and that every node without an open frame is full. The second
part is where loops matter: a phi that is entered again, by a target or through a loop, must get a frame
that wants nothing. `Linked` says that each frame waits for the very requirement that the frame
above it completes, which makes the return of `addRequired` add the right one. That a node is never
taken for that of a phi (the comment at `AfterInflowStrategy.cpp` 135) follows from all requests being
located elsewhere (`Requests`).

The other two are about paths. `Reachable` iterates a function on sets until nothing is added; the
lemma `GrowthIsClosure` says that in a finite relation this is the smallest closed set, by taking the
largest set on which the iteration would differ. That makes a path a matter of closed sets:
`FlagInv` says that a flag at a node comes from a target that reaches it, and that a node has handed its
flags to each of its requirements or is on the worklist before that requirement (`Awaits`). With the
worklist empty, the nodes with the flags of a target are closed, hence all that it reaches. For
`SourcesMatch` the closed sets of the graph and those of the function's SSA graph are turned into each
other: the nodes that stand for a closed set of values are closed (`Standing`), and the values
whose requests are all in a closed set of nodes are closed (`ServedIn`).

Assumed are the types of the constants, `OrderAssumption`, that operations other than phis use
earlier values, and `OriginAssumption`, that every value is computed from some definition: both hold of
SSA form in code that can be reached.

### WitnessFlow

Extends `WitnessGraph` by what follows it with default options: `WitnessGraph::createWitnesses`
and then a run of the function. `wit` is the `WitnessMap` of each node (a witness is known by the
node it was made for), `operands` what the phis and selects of witnesses choose from, `calls` the
active calls of `createWitness`, each with the position in its loop over the requirements. When
the function runs, `place` puts each value into a block that SSA form allows. When control enters a
block its phis read what there is at the end of the block before (`EnterBlock`); the other values
follow one by one and in order, and next to each goes the code that was inserted for it
(`ExecuteInstruction`; `executed` are the values of the block that there are already). `val` and `bounds` hold the objects that
pointers and witnesses stand for, an object being the instruction *and the execution of it* that
made it, so that the bounds of an earlier iteration are wrong ones.

Run `graph`: all functions of four pointers, with a phi and at most two sources, that fit into two
nested loops and a join behind a switch with two edges to one block; an access and a call with two
pointers, in both orders; up to six blocks executed, enough for either loop to run twice. Four
pointers are enough for a phi in either loop, one behind them, and a value from outside. It checks
that the sources in the graph are those of the data flow,
that every node leads to a source, that no finished node misses a requirement, that phi nodes
are found by phis only, that flags are the join over all that depend on a node
(`FlagsAreJoined`), that at every place where a target may be its witnesses describe its pointers
(`WitnessesFollowPointers`), and that the pass ends (`Termination`). The last uses
`WF_flowVars(Pass)`: the pass is one thread that goes on as long as it has something to do, which is
all that this assumes; the function need not run. That holds of every `WF` here.

Proved, for any function, control flow and targets (`BoundsFollowPointers`): `WitnessesFollowPointers`.
The invariant (`FlowInv`) has three parts.

- *The nodes* (`NodeCases`): a finished node falls under one case of `createWitness` and requires nodes
  for what its value is computed from. This is where the proof uses that the graph is right.
- *The witnesses* (`Work`): `createWitness` may be entered again for a node that it is working on, through
  the phi of a loop. So each node that has a witness has its final one (`Settled`), and a phi on the
  stack, which is there once only, has as many operands as its call has looked at (`Underway`). A witness
  is at a place that *dominates* the place of the node's pointer, for every placement that SSA form allows:
  each requirement but that of a phi leads to a place that dominates, and a phi starts anew.
- *The function* (`Follows`): wherever the pointer of a node is available, its witness has the bounds of
  that pointer. An instruction that gives the pointer anew gives the witness anew in the same step, or
  uses one that is still right. That no instruction changes the witness of a pointer that stays follows
  from dominance being antisymmetric in code that can be reached (`DominanceOrder`): the pointer is not
  available between the two. At a phi both sides read the state at the end of the block before, where
  the arguments are available (`PhiFacts`).

Assumed beside what `WitnessGraph` assumes: blocks are finitely many, no edge leads to the entry
(`EntryBlockAssumption`), and a phi has the same argument for several edges from one block
(`PhiAssumption`); LLVM's verifier demands the last two. `Dominates` is defined by reachability as `Descendants`
is, so the lemma on the smallest closed set serves both. `SourcesMatch`, `RequirementsAreWhole` and
`FlagsAreJoined` are also stated for the whole pass (`GraphStaysRight`).

### WitnessSimplification

`graph` is the graph as built, `req` and `by` what becomes of it, `rep` the map `ReqMap`, `stack`
the active calls of `updateWitnessNode`, `todo` what is left of the loop of the current phase.
The depth-first searches `didNotChangeSinceWitness` and `markAsReachable` go node by node:
`current` is the target that is searched from, `seen` their set, `pending` what their active calls
have still to look at. Nodes are numbered in the order in which `WitnessGraph::map` visits them,
which for the internal ones is that of their creation.

Deletion is one destructor per step (`DeleteNode`), in the three loops that delete: nodes of
invalid targets and unmarked nodes in `removeDeadNodes`, and all that are left in `~WitnessGraph`,
which also happens when the graph was not simplified (`Start`). A destructor writes to
`requiredBy` of the nodes that its own requires; if one of them is deleted, anything may happen, so
the step may end in `pc = "undefined"`. Otherwise it goes on as if nothing was wrong, which is what
freed memory that is not reused gives.

Run `simplification`: all complete graphs with four inner nodes between two targets and two
sources, both targets being invariants, one inner node an `extractvalue`, which is never replaced,
and one located at a shifting `getelementptr`. Four inner nodes allow two nested loops with a side
entry, and sharing between the two searches. Beside the representatives it checks that exactly the
invariants on pointers that did not change are dropped (`UnchangedAreDropped`), that exactly the nodes
that valid targets lead to are left (`NeededNodesRemain`), and that a destructor meets a deleted
node for one reason only: an internal node requires, or is redirected to, one that was created
before it (`OnlyOrderIsUndefined`).

That happens, and it is a defect of the code: the run reaches `"undefined"`, in the sweep and in
`~WitnessGraph`. Two accesses are enough, to an argument and to an element behind it. The first creates
the source of the argument, the second the node of the argument at the `getelementptr`, which
requires the source. `~WitnessGraph` (`WitnessGraph.h` 113-120) deletes in order of creation, the
source first, and then `clearRequirements` (`WitnessGraph.cpp` 26-36) erases from a list of the
deleted node. It needs no option; the sweep of `removeDeadNodes` (255-262) goes in the same order. There is
another one beside it: `clearRequirements` erases the entries equal to `Req`, not to `this` (29),
so a node that was redirected or deleted stays in `requiredBy` of what it required, although
`WitnessGraph.h` 44 and 53 say otherwise. `Cleared` does the same. The updates read these
lists, but only before the first node is redirected.

Proved for every finite or infinite graph that satisfies `GraphAssumption`: everything that run
`simplification` checks but `Termination`. `GraphAssumption` is what `WitnessGraph` establishes; the
run `graph` checks the parts that matter (`SourcesMatch`, `RequirementsAreWhole`). The invariant has
these parts.

- *Representatives* (`UpdateInv`, `RedirectInv`): a node is up to date (`UpToDate`: its representative
  is what its requirements give), or it is still to be visited, in `todo` or in a frame of `stack`. When
  nothing is left to visit, all are up to date, and then the set of nodes without representative
  would be closed and without source, so it is empty (`EveryNodeKnown`); and the nodes that share
  a representative form a region that data flow enters only through that representative
  (`RepresentativeSeparates`). From the latter follow soundness, finality and that sources stay.
- *Searches* (`SearchInv`, `MarkInv`): what is seen leads only to what is seen or pending, and all of it
  is led to by the target. With nothing pending the seen nodes are closed, hence just the nodes
  that the target leads to.
- *Deletion* (`DeleteInv`): in the sweep every deleted node comes before those still to delete, and what
  is to stay is not to delete, so a deleted requirement was created before what requires it.

Superfluous phis may remain, although a comment says they are eliminated (`AfterInflowStrategy.cpp`
532): a phi that was once given itself as representative hands that on to the phis of the same
loop, which hand it back. The witness that is created is right, only with a phi more than needed.

### AttributeDropping

`attrs` and `callAttrs` are the attributes of functions and of the call in each, `inserted` what
inserted code does. `willreturn` stands for the attributes of the first pass and `nomem` for
those of the second, which memory attributes are dropped together. A function has at most one
call, to a function, an intrinsic, or through a pointer. Attributes are true of the program as
it was: the properties ask whether they still are once code was inserted, in a function or in
what it may call.

Targets that are replaced by external checks or have explicit bounds are left out of the run, and so
are invokes. The properties fail on these, as described below, so they are shown of other modules only.

Run `attributes`: all modules of three defined functions, a declaration and an intrinsic; three
allow a chain and a recursion beside it. It also checks that functions to which nothing was
added keep their attributes. Proved: both safety properties and that action property, for every module. For the first two the assumptions
`TargetKind \subseteq {"check", "invariant"}` and `CallKind \subseteq {"call"}` are needed.
Without the first, a function whose only check `ExampleExternalChecksPass` replaced by an external
one counts as clean, keeps its attributes and gets the external check all the same (TLC shows it
with `TargetKind = {"bounds"}`). Without the second,
`CallAttributesStayTrue` fails as well: `dropFunctionAttributes` looks at a `CallInst` only
(line 79), so an invoke keeps its attributes when its callee is instrumented.

### ShadowStackCode, ShadowStackPass and ShadowStack

`ShadowStackCode` says what SoftBound inserts for calls and returns, as operators without state: slots
and sizes of frames, the witnesses that targets need, what they are made from and where the code
for them goes, and the stores, allocation and deallocation of a call.

`ShadowStackPass` inserts it, one step after the other. Functions are instrumented one by one (`now`, `left`);
in each, the targets of one instruction after the other ask for witnesses (`NextTarget`), `calls` are the
calls of `createWitness` with the innermost one first, and a witness is inserted once those it is
made from are there (`CreateRequirement`, `InsertWitnesses`). When all targets have their witnesses the
invariants of calls and returns follow (`HandleInvariant`). `code` is what was inserted before each
instruction, in order: every insertion appends to what others left at its place, which is what may go
wrong.

`ShadowStack` runs the result: `stack` are the active calls, `shadow` the frames of the shadow
stack. A pointer is the object it was derived from and so are bounds, hence "right bounds" is
an equation (`WitnessesAreRight`). Base and bound are always handled together and are one.
A branch skips to the code behind the next return; loops and invokes are left out, varargs are in
`VarArgProxies`. Functions that return aggregates which the policy reports (`IsNested`) are not run.
The instructions of the run-time are external: a frame is pushed, popped, read or written.

Run `shadow_stack`: 142 programs of a main function, a callee with one of twelve signatures and
bodies (arguments of other types in between, pairs, structs with an integer first, arrays of
integers, selects, recursion) and a library function that is wrapped, four active calls at
most. The bound on depth only cuts off the recursion; two levels of it already have frames on
both sides of a return. It checks bounds, the passing of arguments, that frames match calls and
that no access leaves its frame. The programs in which the result of a `select` behind a call
is needed before that of the call are in the run `select_after_call`: the loads are then not
right behind the call, the frame is deallocated too early and (as `WitnessesAreRight` shows on
the same programs) bounds of another frame are read.

Proved, for every set of well-formed programs with any signatures, aggregates, branches and depth of
recursion: `TypeOK` and the three properties of the run, each under `LoadsAreRightAfterTheCall`
(`TypesAreRight`, `ShadowFramesMatchCalls`, `ArgumentsAreRight`, `BoundsAreRight`). The condition is not
idle: the run `select_after_call` shows that the code can violate it, and what then goes wrong. Programs
in which no select follows a call immediately always satisfy it (`LoadsStayTogether`), and for
them all four hold without it (`NoSelectSuffices`).

None of this is inductive alone, and the argument has two halves.

- *The pass* (`ShadowStackPassProofs`). `Layout` describes the code of a function while code is inserted:
  what each item is (`IsItem`), which items come before which (`IsOrdered`), and that what fills a register
  stands before what reads it (`Ready`). `WitnessesFit` says that the witness of a value consists of
  registers of values that are not later than it. Inserted code is appended, so an item that was right
  stays right (`ItemGrows`, `HandledGrows`); only the deallocation of a frame is put in the middle, behind
  loads. `PassInv` adds the calls of `createWitness`: each waits for a value that comes from the one below.
  It is an invariant of every program (`PassIsRight`), also of those the run `select_after_call` looks at.
- *The run* (`ShadowStackProofs`). `ActivationFits`: an active call has the values that may be used where it
  is, and every register that was filled holds the bounds of the very element it stands for.
  `FramesFit`: the frames that are open belong to calls in order, given by a map `owner` from frames to calls, and
  each is as large as its call asks for (`OpenSize` reads that off the position between allocation and
  deallocation). `FrameHolds`: the innermost frame holds the arguments on entry, what was stored so far, and
  what was returned until it was loaded. This last part is where `LoadsAreRightAfterTheCall` is needed: a load behind the
  deallocation would find another frame. `RunInv` puts the three together for the whole stack; each
  action of the program keeps it, and a call hands what the caller stored to the callee because both count
  slots alike (`CallSlots`).

`IInv` is `PassInv`, and `RunInv` once the pass is done. Assumed are the types of the constants
(`ObjectAssumption`, `DepthAssumption`) and `ProgramAssumption`: programs are well-formed as LLVM's verifier
demands (operands dominate their uses, calls fit the signature of the callee), wrappers return one pointer, and the
run-time passes nothing but pointers to `Main`, which returns none.

### Deobfuscation

`code` is the function with the lists of users as LLVM keeps them, newest first, because
`transformObfuscatedLoad` collects replacements while it walks over such a list. `loads` and
`stores` are the two sets of a block; the order in which hash sets are walked is free. All
instructions but those that matter to the search are `"use"`.

Run `deobfuscation`: all functions of four instructions out of loads, calls, casts, phis and
stores, in one block or two, in either layout. No value depends on itself: loops among phis, around
which the sets of seen values end the search, are left out, so nothing is said of whether the
searches end. Four instructions allow two loads one of which gives the location that the other is
stored to, and a load with two stores and a cast. It checks
that every store and use gets the value it had (`ValuesArePreserved`), that nothing refers to
what was deleted, that no load that should be a pointer's remains, and that the assertions fail
only for reasons that are spelled out (`AbortsAreExplained`). The run `stored_twice` shows one of these assertions violated. Two comments of the code do not
hold in the model either: the search puts a phi itself on its worklist instead of its users
(449), so loads that become pointers behind a phi are not found, and the branch for a stored
`ptrtoint` (641) is never taken, as the search returns pointers, calls and loads only.

### VarArgMarking

`fun` says what each instruction does and who uses each value, `worklist` is that of
`markVarargInsts` with its head as the end that is popped, `handles` are those of
`getVarArgHandles` whose users were not pushed yet, `marked` and `loadArg` the two kinds of
metadata. The order of a use list is free. `Finish` is `hasUnmarkedVarArgIntrinsic`.

The worklist never looks at a marked instruction again, so the level at which an instruction is
met first counts. An alloca of a va_list is a handle in whatever block it is, while the code looks at the
entry block; clang puts them there. The properties therefore have two parts: whatever the order, only bookkeeping
is marked, and a load is taken for that of an argument only if two loads lead to it from a list;
if every value has one level (`Consistent`, as types ensure in what clang emits for `va_arg`),
nothing is missed. Run `marking`: 22748 functions of four instructions with a va_list as argument
and possibly one more that is allocated, loaded or returned by a call. Four instructions are
needed for a list, two loads and a phi that joins levels or leads back. Proved, for every
function and any number of lists: both properties and the types, which include the assertion
that a load has loads left. The invariant is the usual one of a worklist: an entry is a user of
a value of its level (`Sound`); and what was marked at a level has users that are marked, calls,
or on the worklist at that level (`Complete`). With an empty worklist the marked values of a
level are closed under use, hence all of the level (`AllIsMarked`).

### SoftBoundMetadata

A step is an instruction of the compiled program together with the code that was inserted for
it, since the inserted code stands directly before it (checks) or behind it (loads and stores of
bounds) and nothing of the program runs in between. `mem` and `table` are the words of memory and
the bounds the run-time keeps for each, `reg` and `wit` pointers and their witnesses. `source` is
the module: initializers, constants in code, whether it casts integers; `intToPtr` and `zeroSized`
are the two options. `Refuse` and `SetUpGlobals` are `initialize`, with the constructor that stores
bounds of initializers. A pointer remembers what it was derived from (`of`), which the inserted
code cannot see: the properties compare bounds with it.

Left out: objects are never freed (the instrumentation promises spatial safety only), a word is
never copied in part, aggregates are loaded element by element, and uninstrumented code does not
write pointers. A run has one thread, as the tests of SoftBound have.

Run `metadata`: a global, a local, a local array of computed length, an array without size and a
function in nine words, two registers (interchangeable, hence a symmetry), all combinations of
options, four instructions. Four are enough to store a pointer, overwrite or copy it, and load it
again, with every access checked on the way; two words per object make it possible to be in,
behind and before an object. It shows that bounds follow their
pointers through every copy (`MetadataIsRight`), that checks pass exactly inside the object
(`ChecksAreExact`), what pointers without an object reach, and that a module is refused exactly if
it holds something that is disallowed or has no bounds (`BadSourcesAreHandled`), and that the program
implements `SpatialSafety` (`IsSafe`, below).

`BadSourcesAreHandled` says for each kind of such a pointer and each option exactly when its check passes.
The kinds are null, integers cast by an instruction or in an initializer (`"cast"`), integers cast by a
constant in an instruction (`"literal"`), and arrays without a size. The third is not like the second,
against the documentation: `getBoundsForWitness` gives a constant `inttoptr` the bounds that null has
(1360-1363), whatever the option is, while `-mi-sb-inttoptr-wide-bounds` promises (81-84) that arbitrary
memory can be accessed through a pointer derived from an integer. `BadSourcesAreHandled` says what the code
does: no check passes for such a pointer under any option.
 Integers that are
stored over a pointer, and `memset`, leave its old bounds in the table (1083): the properties show
that this lets no access pass that should not, because a pointer has to be stored again before
its bounds matter. The exceptions that the properties state are what the model found: the upper
bound of an array of computed length is one past its first element (199), so later elements are
reported; null, and an array without size under null bounds, look like functions of size zero to
a call check (1242); an `undef` pointer in an initializer ends in an assertion (742).

Proved for every layout of memory, every module and both options: `TypeOK`, `MetadataIsRight`,
`ChecksAreExact`, `BadSourcesAreHandled` and the refinement `IsSafe`. The invariant is that every word of memory fits its
entry in the table and every
register its witness, and that a program that runs was not refused: the latter is what makes
missing bounds impossible, and copying keeps the former since it moves words and entries alike.
`BadSourcesAreHandled` needs beside it that pointers with an object, and the constants of a module, never
have the address of null (`SourcesInv`), and both directions of what is refused (`RefusalsAreExplained`,
`DisallowedHasNoBounds`).

### SpatialSafety

The ideal program: memory, registers and a `fault`, without witnesses, bounds or tables. A pointer
carries what it was derived from. It goes on while accesses are in what `rights` allow for that
origin (`may`), may be stopped by a report only where they do not require it to go on (`must` for
accesses, `out` for pointers that are stored or passed, `entry` for calls), and crashes only where
the mechanism promises nothing: in words that do not exist. So every step of an implementation
says two things, no access that should have been stopped and no false alarm. `fault` says why a
program stopped, so that a report cannot be excused by another pointer.

`SoftBoundMetadata` and `AddressBounds` each define `Rights` for their objects and instantiate this
module (`Safety == INSTANCE SpatialSafety WITH rights <- Rights, ...`); the other variables have
the same names. The rights are where the mechanisms differ: objects for SoftBound and Splay, slots
with padding for Lowfat, nothing required of objects without bounds. For SoftBound `must` is `may` but
for arrays of computed length, and integers, which have no bounds at all.

### AddressBounds

A step is again an instruction with the code inserted for it. `known` are the objects whose bounds
the run-time finds by address, for Splay those in its tree, for Lowfat those in a slot. `wit` is the
address that serves as witness: the pointer as it was, or under `-mi-lf-calculate-base-lazy=false`
(`lazyBase`) the base of its slot; `moved` says whether arithmetic lies between a register and its
witness, which is what `-mi-ais-optimize-witness-graph` looks at when it drops invariants. `build`
is the module and its options. Refusal (`Refused`), the choice of what gets a slot (`Placed`) and of
what is registered (`Registered`) are translated from the two `initialize` methods and what they
call; the tree, the tables of sizes and the checks are code of the run-time, hence external. A slot
is described by the size class; only the ends of slots, their disjointness and that a slot is
larger than its object matter, and these are the assumptions (`LayoutAssumption`).

What is hard here is that nothing travels with a pointer. A witness is right only because the
pointer was in bounds when it left the last function, so the safety of an access depends on checks
at all the stores, calls and returns before it. Three ways around these checks exist in the code
and are named in `Assumed`: pointers in initializers, pointers passed by an `invoke` ("TODO
implement", `BeforeOutflowPolicy.cpp` 101), and pointers of constant expressions, whose arithmetic
`getPointerOperands` looks through, if `-mi-ais-optimize-witness-graph` drops their invariant.
`Assumed` is a premise, not code: for modules in which they occur with pointers out of bounds nothing is promised
(`NoRights`), since such a pointer gets the bounds of a neighbour. No property covers
these cases, and `PROJECT.json` lists them as hazards without one. Under Lowfat the same holds of null and
of pointers without a slot that arithmetic moves into a slot, so their `may` is everything.

Run `lookup`: three globals, one of them too large for a slot, a local variable that is too large, an array of computed size and
a function in 24 words, two registers, 43 builds: Splay and both kinds of Lowfat, with
constants and initializers of every kind of pointer, and the linkages, sections, options and
lifetimes on which refusal depends, without multiplying out those that do not meet. The large
global is declared elsewhere in all builds but two, one of Splay, which gives it bounds, and one of
Lowfat, which refuses the module. Programs of four
instructions: a pointer is taken, moved out of bounds, stored or passed, and loaded and
accessed. It checks that witnesses lead to the right bounds (`WitnessesAreRight`), that Lowfat leaves
no object unprotected without an option that says so (`NothingIsLeftOut`: the one for unsafe globals
excuses only sections and linkages that cannot have one; large locals are the
exception that the code makes silently, 591), and `IsSafe`. All three are proved for every layout,
every build and programs of any length. The invariant (`Inv`) says of every register that its
witness is in the region of its object (`Found`), even if the pointer is not, of every word of memory
that it holds a pointer inside its object (`Sound`), and, when invariants of pointers that were not
moved are dropped, that such pointers are in bounds: the last is what makes dropping right.

### VarArgProxies

A call has its lists, the list that each value refers to, and the variables in which inserted
code keeps proxies: one for each list of the function, for each argument and result that is a
list, and a single one for all loads (`proxyAllocs`). `heap` are the proxies of the run-time with
the slot they are at, `memory` and `table` places for addresses of lists with the proxies recorded
for them. Frames and slots are those of `ShadowStackCode`, instantiated; that a proxy finds the
frame of its call is what `ShadowStack` checks (`FramesMatchCalls`). A phi or select is the value
that it chose; a `va_arg` of anything but a pointer has no target and advances no proxy.

The inserted code cannot follow every program, and the model names the two things it cannot
follow, in the history variables `stale` and `misused`. First, `va_start`, `va_copy` and `va_end`
put the new proxy in the variable of the value they are given: a caller or a place in memory that
refers to the same list keeps the old one (`"restarted"`). Second, loads share a variable: when
two lists are loaded and then the first is used, its proxy is that of the second
(`"overwritten"`). Without either of these conditions TLC finds a pointer with the bounds of
another argument. For programs that do neither (`Followed`) the run `varargs` shows
that every proxy is as far as its list whichever way the list is reached
(`ProxiesAreInStep`), that pointers get their own bounds (`VarArgBoundsAreRight`), and, if every
list is ended as C asks, that each proxy is freed once (`ProxiesAreFreed`).

The run has two active calls, two lists, two loads and two places in memory in three signatures
(mixed arguments, two lists passed and one returned, a list and variadic arguments), and all
programs of six operations: enough to start, copy, pass, advance and end. States behind a
violation of `Followed` are cut off (`CONSTRAINT`), since nothing is claimed about them.

Proved for all signatures, any number of lists and places, programs of any length and any depth of
calls: the types and all three properties. That proxies are in step is not inductive. `Framed` adds that
the frame of each active call holds the bounds of its variadic arguments in order, from the slot that
`va_start` computes in the callee; this rests on lemmas about slots (`SlotFacts`, `FrameFacts`): the
slots of a call are distinct and within its frame, and caller and callee count alike. `LoadsAgree`
says that the shared variable belongs to the last load. `TracksInStep` says that every place that
follows its list has a proxy in step with it, and `Distinct` that two such places have the same proxy
only if they refer to the same list, so that advancing or freeing one proxy leaves all other
lists alone. Each operation then changes one list and one proxy, and every place afterwards either
is changed with them or persists (`Persists`). `ProxiesAreFreed` counts: starting a list adds a live
proxy and a started list, ending removes one of each. Assumed is only that the va_lists of a signature
are pointers among its fixed parameters, that a function has finitely many lists, and that one call
may be active (`SignatureAssumption`, `LocalsAssumption`, `BoundAssumption`).

## What is proved and what is only checked

Proved with TLAPS, for all constants that satisfy the named assumptions: type correctness of
`TargetFiltering`, `WitnessGraph`, `WitnessSimplification`, `AttributeDropping`, `VarArgMarking`,
`VarArgProxies`, `ShadowStack`, `SoftBoundMetadata` and `AddressBounds`, the safety properties listed under `theorems` in
`PROJECT.json`, and that `SoftBoundMetadata` and `AddressBounds` implement `SpatialSafety`
(`SoftBoundIsSafe`, `AddressBoundsAreSafe`). A refinement proof has the usual two parts: the initial
states are initial states of the ideal program, and every step is one of its steps. For the
second, the invariant turns what the inserted check compares into what the rights of the pointer's
origin say (`BoundsAreRights` for SoftBound; `ChecksAreRights` and `InvariantsAreRights` for bounds
by address).

Only checked: liveness (`Termination`), since it is out of the prover's reach, and the properties of
`Deobfuscation`, whose search is a recursive operator: what it computes for every input would need
induction over data. So every safety property of every run but those of `Deobfuscation` is also a theorem.

The theorems on `ShadowStack` have a condition on the inserted code that the code can fail to meet
(`LoadsAreRightAfterTheCall`), those on `VarArgProxies` one on the program (`Followed`), and two on
`AttributeDropping` one on the targets and calls of the module; in each case TLC shows what happens without it.

The types of the nine modules above are proved only: no run repeats them. The parts of the invariant of `ShadowStack` were
checked on the instance of `shadow_stack` before they were proved. The theorems on the smaller phases of the
pass, `TargetFiltering`, `AttributeDropping` and `VarArgMarking`, share the module `MemInstrumentPassProofs`.

## Not modelled

Of Lowfat and Splay: materialized bounds and the cache of Splay (only targets with explicit bounds
ask for them, each with one witness), aggregates of witnesses, the code that mirrors a stack slot and
its lifetime, objects of size zero (`__builtin_clzll(0)`, `LowfatMechanism.cpp` 586, is undefined),
and the heap, which is the run-time's. `AccessOnlyPolicy`. Memory is never freed in the models of
programs: the instrumentation promises spatial safety only.

Printing, statistics and metadata that only serves debugging; the command line; the mechanisms
that count or sleep; the profile database; the run-time libraries, which are not part of the
repository. The early exits of `-mi-mode` cut the pipeline short. Other gaps are in the notes of
`components` in `PROJECT.json`.

## Plan

Modules that are left, in this order:

1. *Witnesses of phis* in `ShadowStackCode` and `ShadowStackPass` (`getWitnessPhi`,
   `addIncomingWitnessToPhi`), with loops in the bodies of functions; then invokes.
2. *Simplified graphs* in `WitnessFlow`: `WitnessSimplification` between the graph and the creation of
   witnesses, with the mechanisms that allow it.
3. *Policies*: `AccessOnlyPolicy`, and `isNested` of arrays (`PointerBoundsPolicy.cpp` 236);
   *materialized bounds* of Lowfat and Splay, with the condition under which the `return` in the
   middle of a loop (212) and the cache without flags in its key (209-218 of Splay) are harmless.
4. *By-value arguments and functions to skip* (`Setup.cpp` 228-371), composed with `ShadowStack`:
   what a function without instrumentation does to frames.

Refinements: `ShadowStack` against calls that hand bounds over directly, and from there against
`SpatialSafety`, so that the three run-time models of SoftBound meet in one promise.

Theorems: `ValuesArePreserved` and `LoadsAreDeobfuscated` once the search of `Deobfuscation` is a
recursive function or an action of its own; that phis keep `Layout`, with back edges in `Dominates`.
