----------------------------- MODULE MCMachine -----------------------------
(* Small instances of Machine for TLC. *)
EXTENDS MachineProperties, TLC

CONSTANTS g1, g2

\* One ordinary mission and one that fails half way.
MCGoals   == {g1, g2}
MCCapable == {g1, g2}
MCFailing == {g2}

\* The ordinary goal has a target, the other's target is infinite.
AllFinite == [g \in Goals |-> "finite"]
OneRaises == [g \in Goals |-> IF g = g2 THEN "nonFinite" ELSE "finite"]
=============================================================================
