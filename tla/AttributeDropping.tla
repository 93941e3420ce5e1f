--------------------------- MODULE AttributeDropping ---------------------------
(***************************************************************************)
(* dropInvalidatedFunctionAttributes: before any check is inserted, the    *)
(* attributes by which LLVM would assume that a function returns, or that  *)
(* it does not access memory, are dropped from the functions and calls for *)
(* which the inserted code makes them wrong.                               *)
(*   lib/pass/MemInstrumentPass.cpp 29-195                                 *)
(***************************************************************************)
EXTENDS FiniteSets

CONSTANTS
  Function,
  Defined,      \* functions with a body
  Intrinsic,    \* LLVM intrinsics, which have no body
  Indirect,     \* the callee of a call through a pointer
  TargetKind,   \* kinds of valid ITargets that the functions may have
  CallKind      \* "call" (CallInst), "invoke" (InvokeInst)

Attribute == {"willreturn", "nomem"}

\* A body has at most one call; its attributes are part of the state.
NoCall == [callee |-> Indirect, kind |-> "none"]
Call == [callee: Function \cup {Indirect}, kind: CallKind]

ASSUME FunctionAssumption ==
  /\ Defined \subseteq Function /\ Intrinsic \subseteq Function \ Defined
  /\ Indirect \notin Function
ASSUME KindAssumption ==
  /\ TargetKind \subseteq {"check", "invariant", "bounds"}
  /\ CallKind \subseteq {"call", "invoke"}

VARIABLES
  invariantsAreChecks, \* of the instrumentation mechanism; never changes
  targets,   \* kinds of the valid ITargets of each function; never changes
  call,      \* the call of each function, or NoCall; never changes
  attrs,     \* attributes of each function
  callAttrs, \* attributes of the call in each function
  inserted,  \* what the inserted code of each function may do
  phase      \* of dropInvalidatedFunctionAttributes and what follows it

droppingVars ==
  <<invariantsAreChecks, targets, call, attrs, callAttrs, inserted, phase>>
fixed == <<invariantsAreChecks, targets, call>>

HasCall(f) == call[f].kind # "none"

-----------------------------------------------------------------------------

\* Mutation: a function that calls others counts as clean.
CleanOfTargets(kinds) == {f \in Defined : targets[f] \cap kinds = {}}

\* noDropWillReturn, noDropNoMem: no valid target of these kinds, no call.
Clean(kinds) == {f \in Defined : targets[f] \cap kinds = {} /\ ~HasCall(f)}

\* Mutation: the functions to skip are not looked up.
DropEverywhere(attr, skipFunctions) ==
  /\ attrs' = [f \in Function |-> IF f \in Intrinsic THEN attrs[f]
                                                   ELSE attrs[f] \ {attr}]
  /\ callAttrs' = [f \in Defined |-> IF call[f].kind = "call"
                                       THEN callAttrs[f] \ {attr}
                                       ELSE callAttrs[f]]

\* Mutation: only calls whose callee is known.
DropDirect(attr, skipFunctions) ==
  /\ attrs' = [f \in Function |-> IF f \in Intrinsic \cup skipFunctions
                                    THEN attrs[f]
                                    ELSE attrs[f] \ {attr}]
  /\ callAttrs' =
       [f \in Defined |->
          IF /\ call[f].kind = "call"
             /\ call[f].callee # Indirect /\ f \notin skipFunctions
            THEN callAttrs[f] \ {attr}
            ELSE callAttrs[f]]

\* dropFunctionAttributes: the calls are those that are a CallInst, and it
\* is the calling function that is looked up in skipFunctions.
Drop(attr, skipFunctions) ==
  /\ attrs' = [f \in Function |-> IF f \in Intrinsic \cup skipFunctions
                                    THEN attrs[f]
                                    ELSE attrs[f] \ {attr}]
  /\ callAttrs' =
       [f \in Defined |->
          IF /\ call[f].kind = "call"
             /\ call[f].callee = Indirect \/ f \notin skipFunctions
            THEN callAttrs[f] \ {attr}
            ELSE callAttrs[f]]

DropWillReturn ==
  /\ phase = "willreturn"
  /\ Drop("willreturn",
          Clean({"check"} \cup IF invariantsAreChecks THEN {"invariant"} ELSE {}))
  /\ phase' = "nomem"
  /\ UNCHANGED <<fixed, inserted>>

\* Mutation: the result for willreturn is used again.
DropNoMemSame ==
  /\ phase = "nomem"
  /\ Drop("nomem", Clean({"check"} \cup IF invariantsAreChecks THEN {"invariant"}
                                                               ELSE {}))
  /\ phase' = "generate"
  /\ UNCHANGED <<fixed, inserted>>

DropNoMem ==
  /\ phase = "nomem"
  /\ Drop("nomem", Clean({"check", "invariant"}))
  /\ phase' = "generate"
  /\ UNCHANGED <<fixed, inserted>>

\* generateInvariants, placeChecks and generateChecks: a check may end the
\* program and, like an invariant, reads or writes metadata. A BoundsIT
\* stands for an external check that an optimization places.
InsertCode ==
  /\ phase = "generate"
  /\ inserted' =
       [f \in Defined |->
          (IF targets[f] # {} THEN {"memory"} ELSE {})
            \cup (IF \/ targets[f] \cap {"check", "bounds"} # {}
                     \/ invariantsAreChecks /\ "invariant" \in targets[f]
                    THEN {"abort"} ELSE {})]
  /\ phase' = "done"
  /\ UNCHANGED <<fixed, attrs, callAttrs>>

\* The attributes are dropped independently of each other, so every function
\* and call starts with both.
DroppingInit ==
  /\ invariantsAreChecks \in BOOLEAN
  /\ targets \in [Defined -> SUBSET TargetKind]
  /\ call \in [Defined -> Call \cup {NoCall}]
  /\ attrs = [f \in Function |-> Attribute]
  /\ callAttrs = [f \in Defined |-> IF HasCall(f) THEN Attribute ELSE {}]
  /\ inserted = [f \in Defined |-> {}]
  /\ phase = "willreturn"

DroppingNext == DropWillReturn \/ DropNoMem \/ InsertCode

DroppingSpec == DroppingInit /\ [][DroppingNext]_droppingVars

-----------------------------------------------------------------------------
(***************************************************************************)
(* Properties.                                                             *)
(***************************************************************************)

\* Code is inserted into functions with a body only.
DroppingTypeOK ==
  /\ invariantsAreChecks \in BOOLEAN
  /\ targets \in [Defined -> SUBSET TargetKind]
  /\ call \in [Defined -> Call \cup {NoCall}]
  /\ attrs \in [Function -> SUBSET Attribute]
  /\ callAttrs \in [Defined -> SUBSET Attribute]
  /\ inserted \in [Defined -> SUBSET {"abort", "memory"}]
  /\ phase \in {"willreturn", "nomem", "generate", "done"}

\* The functions that a call of `callee' may execute: a call through a
\* pointer may reach every function, a declaration may call back.
Callees(f) ==
  IF f \in Intrinsic THEN {}
  ELSE IF f \notin Defined THEN Function
  ELSE IF ~HasCall(f) THEN {}
  ELSE IF call[f].callee = Indirect THEN Function
  ELSE {call[f].callee}

Executed(callee) ==
  LET start == IF callee = Indirect THEN Function ELSE {callee} IN
  {f \in Function :
     \A S \in SUBSET Function :
       start \subseteq S /\ (\A g \in S : Callees(g) \subseteq S) => f \in S}

\* What code inserted into a function denies: an attribute of the caller.
Denied(callee) ==
  LET effects == UNION {inserted[f] : f \in Executed(callee) \cap Defined} IN
  (IF "abort" \in effects THEN {"willreturn"} ELSE {})
    \cup (IF "memory" \in effects THEN {"nomem"} ELSE {})

\* "we need to make sure to eliminate all function attributes that are
\* invalidated by this newly-introduced behavior" (MemInstrumentPass.cpp
\* 100-101): no attribute is left on a function that inserted code denies,
\* in the function itself or in what it calls.
FunctionAttributesStayTrue ==
  phase = "done" =>
    \A f \in Function \ Intrinsic : attrs[f] \cap Denied(f) = {}

\* The same of the attributes of a call.
CallAttributesStayTrue ==
  phase = "done" =>
    \A f \in Defined : HasCall(f) => callAttrs[f] \cap Denied(call[f].callee) = {}

\* "They can keep willreturn attributes" (125-126, 156-158): a function that
\* nothing is inserted into and that calls nothing loses no attribute.
CleanFunctionsKeepAttributes ==
  [][\A f \in Defined :
       targets[f] = {} /\ ~HasCall(f) => attrs'[f] = attrs[f]]_droppingVars
=============================================================================
