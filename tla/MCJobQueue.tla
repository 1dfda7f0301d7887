----------------------------- MODULE MCJobQueue -----------------------------
(***************************************************************************)
(* Instances of JobQueue for TLC: a root job, the job it chains to, and a  *)
(* second, independent root; two worker processes.                         *)
(***************************************************************************)
EXTENDS JobQueue

CONSTANTS w1, w2, source, clip, probe

MCRoots == {source, probe}

MCChain == [j \in Jobs |-> IF j = source THEN {clip} ELSE {}]

MCDelay == [j \in Jobs |-> IF j = clip THEN 1 ELSE 0]

\* The chained job is the least urgent, the lone root the most urgent.
MCPriority == [j \in Jobs |-> IF j = probe THEN 0 ELSE IF j = source THEN 1 ELSE 2]

MCAllKinds == [w \in Workers |-> Jobs]

\* A deployment split in two: w1 has no handler for the lone root's kind.
MCSplitHandlers == [w \in Workers |-> IF w = w1 THEN Jobs \ {probe} ELSE Jobs]
=============================================================================
