-------------------------- MODULE MCTargetFiltering --------------------------
(* Instance of TargetFiltering: l1 dominates l2, u is unreachable code.     *)
EXTENDS TargetFiltering

CONSTANTS l1, l2, u, p, len

MCDom == {<<l1, l2>>} \cup ({l1, l2, u} \X {u})

Cmd(opts, optInv, inv, graph, noInv) ==
  [opts |-> opts, optInvariants |-> optInv, invariantsAreChecks |-> inv,
   optWitnessGraph |-> graph, noInvariantChecks |-> noInv]

\* Lowfat and Splay (invariants are checks) with all optimizations, in both
\* orders of dominance and removal, once with a repeated example.
MCConfigs ==
  {Cmd(<<"annotation", "example", "dominance">>, TRUE, TRUE, TRUE, FALSE),
   Cmd(<<"dominance", "hotness">>, FALSE, TRUE, FALSE, TRUE),
   Cmd(<<"dominance", "annotation">>, TRUE, TRUE, FALSE, FALSE),
   Cmd(<<"example", "dominance", "example">>, FALSE, TRUE, FALSE, TRUE)}

\* SoftBound, where some command lines are rejected.
SoftBoundConfigs ==
  {Cmd(<<"dominance">>, TRUE, FALSE, FALSE, FALSE),
   Cmd(<<"example">>, FALSE, FALSE, TRUE, FALSE),
   Cmd(<<"hotness", "dominance", "dominance">>, FALSE, FALSE, FALSE, FALSE)}

RunConfigs == MCConfigs \cup SoftBoundConfigs
=============================================================================
