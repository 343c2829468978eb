-------------------------- MODULE MCSchedulerLock --------------------------
(* Two processes: the first runs two workers, the second runs the worker   *)
(* they have in common.                                                    *)
EXTENDS SchedulerLock

CONSTANTS c1, c2, c3, p1, p2, n1, n2

MCOwner == [c \in Calls |-> IF c = c3 THEN p2 ELSE p1]
MCName == [c \in Calls |-> IF c = c2 THEN n2 ELSE n1]
=============================================================================
