---------------------------- MODULE MCRunnerMap ----------------------------
(* Two reconcile passes and two respawns that may cross.                    *)
EXTENDS RunnerMap, TLC

CONSTANTS pass1, pass2, respawn1, respawn2

\* Activations of the same kind are alike.
Alike == Permutations({pass1, pass2}) \cup Permutations({respawn1, respawn2})
=============================================================================
