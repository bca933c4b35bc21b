---------------------------- MODULE MCMissionPath ----------------------------
(* Small instances of MissionPath for TLC. *)
EXTENDS MissionPathProperties, FiniteSets, TLC

CONSTANTS c1, c2, i1, i2, t1, t2

\* Every call has an id of its own.
MCIdOf == [c \in Calls |-> IF c = c1 THEN i1 ELSE i2]

\* The pool's threads are alike.
ThreadSymmetry == Permutations(Threads)
=============================================================================
