--------------------------- MODULE TargetFiltering ---------------------------
(***************************************************************************)
(* What happens to the instrumentation targets (ITargets) of one function  *)
(* between their gathering and the emission of checks: the optimizations   *)
(* run one after the other in command-line order and invalidate targets,   *)
(* the witness-graph simplification may invalidate invariants, and every   *)
(* target that is still valid gets its invariant or check.                 *)
(*   lib/optimizations/*.cpp, lib/pass/MemInstrumentPass.cpp (252-286),    *)
(*   lib/pass/CheckGeneration.cpp                                          *)
(* ITargets never come back to life and are never moved: `it' is the       *)
(* ITargetVector, `fate' the invalidated flag together with its cause.     *)
(***************************************************************************)
EXTENDS Integers, FiniteSets, Sequences

CONSTANTS
  N,          \* number of gathered targets
  Value,      \* instrumentees
  NoValue,    \* what a target without instrumentee has instead
  Argument,   \* the values that are function arguments
  Loc,        \* instructions that targets are located at
  Dom,        \* DominatorTree::dominates on instructions, a set of pairs
  Annotated,  \* locations with the removal metadata (nosanitize)
  CheckEarly, \* locations with the checkearly metadata
  Access,     \* locations that are loads or stores
  Size,       \* constant access sizes
  Length,     \* values that are a dynamic access size
  Configs,    \* command lines
  RatioNum, RatioDen \* -mi-opt-hotness-filter-ratio

Target == 1 .. N

CheckKind == {"const", "var", "call"}
InvariantKind == {"inv", "callinv"}
Optimization == {"dominance", "annotation", "hotness", "example"}

\* BoundsITs and the targets of the witness graph are not gathered.
ITarget ==
  [kind: {"const"}, instrumentee: Value, location: Loc, width: Size]
    \cup [kind: {"var"}, instrumentee: Value, location: Loc, width: Length]
    \cup [kind: {"call", "inv"}, instrumentee: Value, location: Loc, width: {0}]
    \cup [kind: {"callinv"}, instrumentee: {NoValue}, location: Loc, width: {0}]

Config == [opts: Seq(Optimization), optInvariants: BOOLEAN,
           invariantsAreChecks: BOOLEAN, optWitnessGraph: BOOLEAN,
           noInvariantChecks: BOOLEAN]

(***************************************************************************)
(* Dominance of instructions is transitive, also when unreachable code is  *)
(* involved: everything dominates an unreachable instruction, and an       *)
(* unreachable instruction dominates no reachable one.                     *)
(***************************************************************************)
ASSUME NAssumption == N \in Nat
ASSUME ValueAssumption == NoValue \notin Value /\ Argument \subseteq Value
ASSUME SizeAssumption == Size \subseteq Nat
ASSUME ConfigAssumption == Configs \subseteq Config
ASSUME RatioAssumption ==
  RatioNum \in Nat /\ RatioDen \in Nat \ {0} /\ RatioNum <= RatioDen
ASSUME DomAssumption ==
  \A a, b, c \in Loc :
    <<a, b>> \in Dom /\ <<b, c>> \in Dom => <<a, c>> \in Dom

VARIABLES
  it,      \* the ITargetVector; never changes
  config,  \* the command line; never changes
  fate,    \* "live", or why the target was invalidated
  pc,      \* the phase of runOnModule
  oi,      \* index of the optimization that runs
  pair,    \* the two loop positions of the dominance filter
  currentWL, \* targets replaced by a BoundsIT in the example optimization
  guards,  \* targets whose BoundsIT became an external check
  emitted  \* targets whose check or invariant was inserted

vars == <<it, config, fate, pc, oi, pair, currentWL, guards, emitted>>
program == <<it, config>>

Fate == {"live", "subsumed", "annotated", "filtered", "early", "unchanged"}

Live(t) == fate[t] = "live"
IsCheck(t) == it[t].kind \in CheckKind
IsInvariant(t) == it[t].kind \in InvariantKind

Running(opt) ==
  /\ pc = "optimize"
  /\ oi \in DOMAIN config.opts
  /\ config.opts[oi] = opt

NextOptimization ==
  /\ oi' = oi + 1
  /\ pair' = <<1, 1>>
  /\ UNCHANGED <<pc, guards, emitted>>

Invalidate(S, cause) ==
  fate' = [t \in Target |-> IF t \in S THEN cause ELSE fate[t]]

-----------------------------------------------------------------------------
(* DominanceBasedCheckRemovalPass *)

\* Mutation: the comparison of the access sizes the wrong way round.
SubsumesSwapped(one, other) ==
  /\ one.instrumentee # NoValue
  /\ one.instrumentee = other.instrumentee
  /\ one.kind = other.kind
  /\ one.kind \in {"const", "var"}
  /\ IF one.kind = "const" THEN one.width <= other.width
                           ELSE one.width = other.width

\* subsumes(one, other); the bound flags of the targets are not compared.
Subsumes(one, other) ==
  /\ one.instrumentee # NoValue
  /\ one.instrumentee = other.instrumentee
  /\ \/ /\ one.kind = "const" /\ other.kind = "const"
        /\ one.width >= other.width
     \/ /\ one.kind = "var" /\ other.kind = "var"
        /\ one.width = other.width
     \/ /\ config.optInvariants
        /\ other.kind \in InvariantKind
        /\ one.kind \in InvariantKind \cup {"const", "var"}

\* Mutation: the inner loop starts behind the outer one.
AfterTriangular(p) == IF p[2] < N THEN <<p[1], p[2] + 1>>
                                  ELSE <<p[1] + 1, p[1] + 1>>

\* Row-major order: the inner loop runs over `otherTarget'.
After(p) == IF p[2] < N THEN <<p[1], p[2] + 1>> ELSE <<p[1] + 1, 1>>

\* An unsupported configuration ends the compilation before the loops.
Unsupported == config.optInvariants /\ ~config.invariantsAreChecks

RejectDominance ==
  /\ Running("dominance")
  /\ Unsupported
  /\ pc' = "abort"
  /\ UNCHANGED <<program, fate, oi, pair, currentWL, guards, emitted>>

\* Mutation: an invalidated target still removes others.
ComparableDead(target, other) == target # other /\ Live(other)

\* A target is not compared with itself, nor when one of the two is invalid.
Comparable(target, other) ==
  /\ target # other
  /\ Live(target)
  /\ Live(other)

Subsuming(target, other) ==
  /\ Comparable(target, other)
  /\ Subsumes(it[target], it[other])
  /\ <<it[target].location, it[other].location>> \in Dom

DominanceCompare ==
  /\ Running("dominance")
  /\ ~Unsupported
  /\ pair[1] <= N
  /\ Invalidate({other \in {pair[2]} : Subsuming(pair[1], other)}, "subsumed")
  /\ pair' = After(pair)
  /\ UNCHANGED <<program, pc, oi, currentWL, guards, emitted>>

DominanceDone ==
  /\ Running("dominance")
  /\ ~Unsupported
  /\ pair[1] > N
  /\ NextOptimization
  /\ UNCHANGED <<program, fate, currentWL>>

-----------------------------------------------------------------------------
(* The loops of the other optimizations treat each target on its own, so   *)
(* each is one step.                                                       *)

AnnotationRemoval ==
  /\ Running("annotation")
  /\ Invalidate({t \in Target : /\ Live(t)
                                /\ IsCheck(t)
                                /\ it[t].location \in Annotated}, "annotated")
  /\ NextOptimization
  /\ UNCHANGED <<program, currentWL>>

Filterable == {t \in Target : /\ Live(t)
                              /\ IsCheck(t)
                              /\ it[t].location \in Access}

\* The double is truncated: bound is the floor of the share.
FilterBound == (Cardinality(Filterable) * RatioNum) \div RatioDen

\* Which targets come first depends on the seed or the profile.
HotnessRemoval ==
  /\ Running("hotness")
  /\ \E S \in SUBSET Filterable :
        /\ Cardinality(S) = FilterBound
        /\ Invalidate(S, "filtered")
  /\ NextOptimization
  /\ UNCHANGED <<program, currentWL>>

EarlyTargets == {t \in Target : /\ Live(t)
                                /\ it[t].kind = "const"
                                /\ it[t].location \in CheckEarly
                                /\ it[t].instrumentee \in Argument}

\* Mutation: a second run forgets the targets of the first.
ExampleUpdateForgets ==
  /\ Running("example")
  /\ currentWL' = EarlyTargets
  /\ Invalidate(EarlyTargets, "early")
  /\ NextOptimization
  /\ UNCHANGED program

\* The appended BoundsITs are no checks and no invariants: no optimization
\* touches them again.
ExampleUpdate ==
  /\ Running("example")
  /\ currentWL' = currentWL \cup EarlyTargets
  /\ Invalidate(EarlyTargets, "early")
  /\ NextOptimization
  /\ UNCHANGED program

OptimizationsDone ==
  /\ pc = "optimize"
  /\ oi > Len(config.opts)
  /\ pc' = "witnesses"
  /\ UNCHANGED <<program, fate, oi, pair, currentWL, guards, emitted>>

-----------------------------------------------------------------------------
(* generateWitnesses: simplifyWitnessGraph invalidates the invariants whose *)
(* value did not change since its witness; which ones, the graph decides.   *)

SimplifyWitnessGraph ==
  /\ pc = "witnesses"
  /\ config.optWitnessGraph
  /\ config.invariantsAreChecks
  /\ \E S \in SUBSET {t \in Target : Live(t) /\ IsInvariant(t)} :
        Invalidate(S, "unchanged")
  /\ pc' = "invariants"
  /\ UNCHANGED <<program, oi, pair, currentWL, guards, emitted>>

RejectSimplification ==
  /\ pc = "witnesses"
  /\ config.optWitnessGraph
  /\ ~config.invariantsAreChecks
  /\ pc' = "abort"
  /\ UNCHANGED <<program, fate, oi, pair, currentWL, guards, emitted>>

KeepWitnessGraph ==
  /\ pc = "witnesses"
  /\ ~config.optWitnessGraph
  /\ pc' = "invariants"
  /\ UNCHANGED <<program, fate, oi, pair, currentWL, guards, emitted>>

GenerateInvariants ==
  /\ pc = "invariants"
  /\ emitted' = emitted \cup {t \in Target : /\ ~config.noInvariantChecks
                                             /\ Live(t)
                                             /\ IsInvariant(t)}
  /\ pc' = "place"
  /\ oi' = 1
  /\ UNCHANGED <<program, fate, pair, currentWL, guards>>

\* materializeExternalChecksForFunction reads each BoundsIT of currentWL
\* and invalidates it. Reading an invalidated one fails an assertion.
PlaceExternalChecks ==
  /\ pc = "place"
  /\ oi <= Len(config.opts)
  /\ \/ /\ config.opts[oi] = "example"
        /\ currentWL \cap guards = {}
        /\ guards' = guards \cup currentWL
        /\ pc' = pc
     \/ /\ config.opts[oi] = "example"
        /\ currentWL \cap guards # {}
        /\ pc' = "abort"
        /\ guards' = guards
     \/ /\ config.opts[oi] # "example"
        /\ UNCHANGED <<pc, guards>>
  /\ oi' = oi + 1
  /\ UNCHANGED <<program, fate, pair, currentWL, emitted>>

GenerateChecks ==
  /\ pc = "place"
  /\ oi > Len(config.opts)
  /\ emitted' = emitted \cup {t \in Target : Live(t) /\ IsCheck(t)}
  /\ pc' = "done"
  /\ UNCHANGED <<program, fate, oi, pair, currentWL, guards>>

-----------------------------------------------------------------------------
Init ==
  /\ it \in [Target -> ITarget]
  /\ config \in Configs
  /\ fate = [t \in Target |-> "live"]
  /\ pc = "optimize"
  /\ oi = 1
  /\ pair = <<1, 1>>
  /\ currentWL = {}
  /\ guards = {}
  /\ emitted = {}

Optimize ==
  \/ RejectDominance
  \/ DominanceCompare
  \/ DominanceDone
  \/ AnnotationRemoval
  \/ HotnessRemoval
  \/ ExampleUpdate
  \/ OptimizationsDone

Generate ==
  \/ SimplifyWitnessGraph
  \/ RejectSimplification
  \/ KeepWitnessGraph
  \/ GenerateInvariants
  \/ PlaceExternalChecks
  \/ GenerateChecks

Next == Optimize \/ Generate

Spec == Init /\ [][Next]_vars

-----------------------------------------------------------------------------
(***************************************************************************)
(* Properties.                                                             *)
(***************************************************************************)

\* The state stays within its types; a target has at most one cause of death.
TypeOK ==
  /\ it \in [Target -> ITarget]
  /\ config \in Configs
  /\ fate \in [Target -> Fate]
  /\ pc \in {"optimize", "witnesses", "invariants", "place", "done", "abort"}
  /\ oi \in Nat \ {0}
  /\ pair \in (Nat \ {0}) \X (Nat \ {0})
  /\ currentWL \subseteq Target
  /\ guards \subseteq currentWL
  /\ emitted \subseteq Target

\* What it takes for the check of one target to make that of another
\* redundant, from the meaning of the targets: the same pointer is tested
\* earlier on every path, for at least as many bytes.
Covers(c, t) ==
  /\ it[c].instrumentee = it[t].instrumentee
  /\ <<it[c].location, it[t].location>> \in Dom
  /\ \/ /\ it[c].kind = "const" /\ it[t].kind = "const"
        /\ it[t].width <= it[c].width
     \/ /\ it[c].kind = "var" /\ it[t].kind = "var"
        /\ it[t].width = it[c].width
     \/ /\ it[t].kind = "inv"
        /\ it[c].kind \in {"inv", "const", "var"}

\* A target the dominance filter removed is covered by one that it did not
\* remove, whatever ran in between and however long the chain of removals:
\* the only targets lost are those another optimization chose to drop.
SubsumedAreCovered ==
  \A t \in Target : fate[t] = "subsumed" =>
    \E c \in Target : fate[c] # "subsumed" /\ Covers(c, t)

\* No optimization that drops checks outright runs after a dominance filter.
DominanceLast ==
  \A k, l \in DOMAIN config.opts :
    k < l /\ config.opts[k] = "dominance"
      => config.opts[l] \notin {"annotation", "hotness"}

\* With such an order the covering target is still valid or was replaced by
\* an external check. With the opposite order it need not be: the tests
\* optimizations/{annotated_dominated,dominated_annotated}_dependent.ll.
SubsumedKeepGuard ==
  DominanceLast =>
    \A t \in Target : fate[t] = "subsumed" =>
      \E c \in Target : /\ fate[c] \in {"live", "early", "unchanged"}
                        /\ Covers(c, t)

\* What the whole pipeline promises about memory accesses: at the end each
\* access check was emitted, was dropped by annotation or hotness, is placed
\* externally, or is covered by a check (never by an invariant, which
\* -mi-no-invariant-checks could leave out) that is emitted or external.
AccessesAreGuarded ==
  pc = "done" /\ DominanceLast =>
    \A t \in Target : it[t].kind \in {"const", "var"} =>
      \/ fate[t] \in {"annotated", "filtered"}
      \/ t \in emitted \cup guards
      \/ \E c \in emitted \cup guards : IsCheck(c) /\ Covers(c, t)

\* One pass of the double loop is enough: no two valid targets are left of
\* which one covers the other, among the pairs the loops have passed.
Passed(p) == p[1] < pair[1] \/ (p[1] = pair[1] /\ p[2] < pair[2])

OnePassSuffices ==
  Running("dominance") =>
    \A a, b \in Target :
      Passed(<<a, b>>) /\ a # b /\ it[b].kind \notin InvariantKind =>
        ~(Live(a) /\ Live(b) /\ Covers(a, b))
=============================================================================
