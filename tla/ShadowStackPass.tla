---------------------------- MODULE ShadowStackPass ----------------------------
(***************************************************************************)
(* SoftBound instruments a program: functions are handled one after the    *)
(* other, and in each all witnesses are created before the invariants of   *)
(* calls and returns are.                                                  *)
(*   lib/pass/WitnessGeneration.cpp 22-71, CheckGeneration.cpp 28-57       *)
(*   lib/witness_strategies/AfterInflowStrategy.cpp 243-421                *)
(*   lib/instrumentation_mechanisms/SoftBoundMechanism.cpp, as in          *)
(*   ShadowStackCode                                                       *)
(* Functions without a body are wrappers of library functions.             *)
(***************************************************************************)
EXTENDS ShadowStackCode

CONSTANTS
  Function,  \* names of functions
  Programs   \* what the functions may be

VARIABLES
  prog,   \* the program; never changes
  code,   \* what was inserted before each instruction of a function, in order
  made,   \* the witness of each value of a function that has one
  left,   \* the functions that are still to be instrumented
  step,   \* "witnesses", "invariants", and "done" with all functions
  now,    \* the function that is instrumented
  at,     \* the instruction whose targets are handled
  calls   \* values that createWitness has been called for, innermost first

passVars == <<prog, code, made, left, step, now, at, calls>>

Current == prog[now]
HasWitness(o) == o \in DOMAIN made[now]
Updated(f, x, y) == [z \in DOMAIN f \cup {x} |-> IF z = x THEN y ELSE f[z]]

\* The targets of one instruction after the other; calls are those of
\* createWitness that their order asks for.
NextTarget ==
  /\ step = "witnesses"
  /\ calls = <<>>
  /\ at < Len(Current.body)
  /\ at' = at + 1
  /\ calls' = Needs(Current, Current.body[at + 1])
  /\ UNCHANGED <<prog, code, made, left, step, now>>

Requested == Head(calls)
IsRequested == step = "witnesses" /\ calls # <<>>

\* "We already handled this node."
WitnessExists ==
  /\ IsRequested
  /\ HasWitness(Requested)
  /\ calls' = Tail(calls)
  /\ UNCHANGED <<prog, code, made, left, step, now, at>>

\* Requirements come first, in order.
CreateRequirement ==
  /\ IsRequested
  /\ ~HasWitness(Requested)
  /\ LET uses == Uses(Current, Requested) IN
     \E n \in DOMAIN uses :
       /\ ~HasWitness(uses[n])
       /\ \A m \in 1 .. n - 1 : HasWitness(uses[m])
       /\ calls' = <<uses[n]>> \o calls
  /\ UNCHANGED <<prog, code, made, left, step, now, at>>

InsertWitnesses ==
  /\ IsRequested
  /\ ~HasWitness(Requested)
  /\ LET uses == Uses(Current, Requested) IN
     \A n \in DOMAIN uses : HasWitness(uses[n])
  /\ made' = [made EXCEPT ![now] =
                Updated(@, Requested, Witness(Current, @, Requested))]
  /\ code' = [code EXCEPT ![now] =
                InsertBefore(@, Location(Current, Requested),
                             WitnessCode(Current, made[now], Requested))]
  /\ calls' = Tail(calls)
  /\ UNCHANGED <<prog, left, step, now, at>>

WitnessesDone ==
  /\ step = "witnesses"
  /\ calls = <<>>
  /\ at = Len(Current.body)
  /\ step' = "invariants"
  /\ at' = 1
  /\ UNCHANGED <<prog, code, made, left, now, calls>>

HandleInvariant ==
  /\ step = "invariants"
  /\ at <= Len(Current.body)
  /\ code' = [code EXCEPT ![now] = Handled(Current, made[now], @, at)]
  /\ at' = at + 1
  /\ UNCHANGED <<prog, made, left, step, now, calls>>

\* Functions come in the order of the module, which does not matter.
NextFunction ==
  /\ step = "invariants"
  /\ at > Len(Current.body)
  /\ left' = left \ {now}
  /\ IF left' = {} THEN step' = "done" /\ now' = now
                   ELSE step' = "witnesses" /\ now' \in left'
  /\ at' = 0
  /\ UNCHANGED <<prog, code, made, calls>>

PassInit ==
  /\ prog \in Programs
  /\ \A f \in Function : IsSupported(prog[f])
  /\ code = [f \in Function |-> [i \in DOMAIN prog[f].body |-> <<>>]]
  /\ made = [f \in Function |-> <<>>]
  /\ left = {f \in Function : prog[f].body # <<>>}
  /\ step = "witnesses"
  /\ now \in left
  /\ at = 0 /\ calls = <<>>

PassNext ==
  \/ NextTarget
  \/ WitnessExists
  \/ CreateRequirement
  \/ InsertWitnesses
  \/ WitnessesDone
  \/ HandleInvariant
  \/ NextFunction
=============================================================================
