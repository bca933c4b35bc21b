----------------------------- MODULE MCDispatch -----------------------------
(* Small instances of Dispatch for TLC. *)
EXTENDS DispatchProperties, TLC

CONSTANTS c1, c2, i1, i2

MCCalls == {c1, c2}

\* Each call has an id of its own, or both callers use the same.
OwnIds   == [c \in MCCalls |-> IF c = c1 THEN i1 ELSE i2]
SharedId == [c \in MCCalls |-> i1]
=============================================================================
