--------------------------- MODULE MCCuratorQueue ---------------------------
(* A small instance of CuratorQueue.                                       *)
EXTENDS CuratorQueue, TLC

CONSTANTS j1, j2, w1, w2

\* j1 is the more urgent job.
MCPriority == (j1 :> 1) @@ [j \in Jobs |-> 0]

\* Runners are interchangeable.
MCSymmetry == Permutations(Workers)
=============================================================================
