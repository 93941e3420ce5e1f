--------------------------- MODULE MCAddressBounds ---------------------------
(* Three globals, two local variables and a function. *)
EXTENDS AddressBounds, TLC

CONSTANTS g, h, big, l, v, fun, r1, r2

\* A slot is the next larger power of two; l is too large for one. v has a
\* computed size, h is any kind of global, and big, too large for a slot as
\* well, belongs to another module in all builds but two.
MCStart == (g :> 2) @@ (l :> 4) @@ (h :> 8) @@ (v :> 12) @@ (fun :> 14) @@ (big :> 16)
MCSize == (g :> 1) @@ (l :> 2) @@ (h :> 2) @@ (v :> 1) @@ (big :> 4)
MCSlotSize ==
  [n \in 1 .. 23 |-> IF n = 1 THEN 2 ELSE IF n < 4 THEN 4 ELSE IF n < 8 THEN 8
                  ELSE IF n < 16 THEN 16 ELSE 32]

Point(o, a) == [of |-> o, at |-> a]

Plain ==
  [mechanism |-> "splay", lazyBase |-> FALSE, optimize |-> FALSE, allowUnsafe |-> FALSE,
   noGlobals |-> FALSE, noStack |-> FALSE, noVLA |-> FALSE, commonToWeak |-> FALSE,
   declared |-> {big}, unsized |-> {}, sectioned |-> {},
   linkage |-> (g :> "external") @@ (h :> "internal") @@ (big :> "external"),
   lifetime |-> FALSE, invokes |-> FALSE, code |-> {Point(g, 2)}, init |-> <<>>]

Lazy == [Plain EXCEPT !.mechanism = "lowfat", !.lazyBase = TRUE]
Eager == [Plain EXCEPT !.mechanism = "lowfat"]

\* The address behind h, null, an integer and the function, in code or memory.
Pointers == {Point(h, 10), Point("null", 0), Point("cast", 9), Point(fun, 14)}

Optimized(b) == [b EXCEPT !.optimize = TRUE]

WithPointers(b) ==
  {[b EXCEPT !.code = @ \cup {c}] : c \in Pointers} \cup {[b EXCEPT !.init = (8 :> c)] : c \in Pointers}

Declared(b) == {[b EXCEPT !.declared = {h, big}], [b EXCEPT !.declared = {h, big}, !.unsized = {h}]}

OtherGlobals(b) ==
  {[b EXCEPT !.sectioned = {h}], [b EXCEPT !.sectioned = {h}, !.allowUnsafe = TRUE]}
    \cup {[b EXCEPT !.linkage[h] = k, !.commonToWeak = t] :
            k \in {"common", "available_externally"}, t \in BOOLEAN}

StackOptions(b) ==
  {[b EXCEPT !.noGlobals = TRUE], [b EXCEPT !.noStack = TRUE, !.lifetime = TRUE],
   [b EXCEPT !.noVLA = TRUE], [b EXCEPT !.lifetime = TRUE]}

MCBuilds ==
  UNION {WithPointers(b) : b \in {Plain, Lazy, Eager}}
    \cup Declared(Plain) \cup Declared(Eager)
    \cup OtherGlobals(Optimized(Eager)) \cup StackOptions(Optimized(Lazy))
    \cup {[Plain EXCEPT !.lifetime = TRUE], [Lazy EXCEPT !.declared = {}],
          [Plain EXCEPT !.declared = {}], [Plain EXCEPT !.invokes = TRUE], Optimized(Plain)}

Symmetry == Permutations({r1, r2})

MCShift == {-1, 2}
=============================================================================
