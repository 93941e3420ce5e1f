---------------------------- MODULE SpatialSafety ----------------------------
(***************************************************************************)
(* What an instrumented program promises, whatever the mechanism: it runs  *)
(* like the program it was made from until an access leaves what the       *)
(* pointer was derived from; then it stops before the access. Every        *)
(* mechanism says for the origin of a pointer which words may be accessed, *)
(* which must be accessible, and which addresses may be handed on.         *)
(***************************************************************************)
EXTENDS Integers

CONSTANTS
  Origin,   \* what pointers are derived from
  Highest,  \* the last address
  Memory,   \* addresses of words that there are
  Register,
  Given,    \* the pointers that a program does not derive from others
  Length    \* how many words are accessed at a time

VARIABLES
  rights,   \* per origin; never changes
  pc,       \* "compile", "run", "refused", "reported" or "crashed"
  mem, reg, \* the pointers and integers in words and registers
  fault     \* what the program was about to do when it stopped

vars == <<rights, pc, mem, reg, fault>>

Address == 0 .. Highest
Value == [of : Origin, at : Address]
Interval == [lo : Int, hi : Int]

\* may, must: the words an access has to be in. out: the addresses of pointers
\* that are stored or passed. entry: where calls through the pointer go.
Rights == [may : Interval, must : Interval, out : Interval, entry : SUBSET Address]

Words(a, n) == a .. a + n - 1
Within(i, a, n) == i.lo <= a /\ a + n <= i.hi
MayAccess(p, n) == Within(rights[p.of].may, p.at, n) /\ Words(p.at, n) \subseteq Memory

NoFault == "none"
Fault(what, p, n) == [kind |-> what, ptr |-> p, words |-> n]

Init ==
  /\ rights \in [Origin -> Rights]
  /\ pc = "compile" /\ fault = NoFault
  /\ mem \in [Memory -> Value] /\ reg \in [Register -> Value]

Compile ==
  /\ pc = "compile" /\ pc' \in {"run", "refused"}
  /\ UNCHANGED <<mem, reg, fault, rights>>

Goes == pc' = pc /\ UNCHANGED <<fault, rights>>

\* Register r becomes one of V.
Gets(r, V) ==
  /\ pc = "run" /\ UNCHANGED mem /\ reg'[r] \in V
  /\ reg' = [reg EXCEPT ![r] = reg'[r]] /\ Goes

Give(r) == Gets(r, Given)

\* Arithmetic keeps the origin.
Derive(r, s) == Gets(r, [of : {reg[s].of}, at : Address])

Load(r, s) == MayAccess(reg[s], 1) /\ Gets(r, {mem[reg[s].at]})

Store(r, s) ==
  /\ pc = "run" /\ UNCHANGED reg
  /\ mem' = [mem EXCEPT ![reg[s].at] = reg[r]] /\ MayAccess(reg[s], 1) /\ Goes

Copy(d, s, n) ==
  /\ pc = "run" /\ UNCHANGED reg /\ MayAccess(reg[d], n) /\ MayAccess(reg[s], n)
  /\ mem' = [a \in Memory |-> IF a \in Words(reg[d].at, n)
                                THEN mem[a - reg[d].at + reg[s].at] ELSE mem[a]]
  /\ Goes

Integer == [of : {"integer"}, at : Address]

\* Words become integers, also when a single one is stored.
Fill(d, n) ==
  /\ pc = "run" /\ UNCHANGED reg /\ MayAccess(reg[d], n)
  /\ mem' = [a \in Memory |-> IF a \in Words(reg[d].at, n) THEN mem'[a] ELSE mem[a]]
  /\ \A a \in Words(reg[d].at, n) : mem'[a] \in Integer
  /\ Goes

Stops(why, f) == pc = "run" /\ pc' = why /\ fault' = f /\ UNCHANGED <<mem, reg, rights>>

\* There are no false alarms.
Report(p, n) ==
  \/ Stops("reported", Fault("access", p, n)) /\ ~Within(rights[p.of].must, p.at, n)
  \/ Stops("reported", Fault("outflow", p, 0)) /\ ~Within(rights[p.of].out, p.at, 0)
  \/ Stops("reported", Fault("call", p, 0)) /\ p.at \notin rights[p.of].entry

\* Only what the mechanism allows stops elsewhere: words that do not exist, and
\* calls of what is not a function.
Crash(p, n) ==
  \/ /\ Stops("crashed", Fault("access", p, n))
     /\ Within(rights[p.of].may, p.at, n) /\ ~(Words(p.at, n) \subseteq Memory)
  \/ /\ Stops("crashed", Fault("call", p, 0))
     /\ \A o \in Origin : p.at \notin rights[o].entry

Next ==
  \/ Compile
  \/ \E r \in Register : Give(r)
  \/ \E r, s \in Register : Derive(r, s)
  \/ \E r, s \in Register : Load(r, s)
  \/ \E r, s \in Register : Store(r, s)
  \/ \E d, s \in Register, n \in Length : Copy(d, s, n)
  \/ \E d \in Register, n \in Length : Fill(d, n)
  \/ \E r \in Register, n \in Length : Report(reg[r], n) \/ Crash(reg[r], n)

Spec == Init /\ [][Next]_vars
=============================================================================
