----------------------------- MODULE OSContract -----------------------------
(***************************************************************************)
(* What the adapter and the OS Core say to each other: the push requests   *)
(* of os_client.py, which the handlers of os_core/main.py receive.         *)
(***************************************************************************)
EXTENDS Naturals, Sequences

CONSTANTS
  Ids,       \* mission ids
  Machines,  \* machine ids
  NoMachine  \* no machine: none was selected, assigned_machine_id is NULL

ASSUME MachinesAssumption == NoMachine \notin Machines

\* POST missions/{id}/report, POST machines/register, PATCH machines/{id}/status.
Reports     == [kind : {"report"}, id : Ids, status : {"RUNNING", "COMPLETED", "EXCEPTION"}]
MachinePush == [kind : {"register", "patch"}, machine : Machines]
OSRequests  == Reports \cup MachinePush

Report(i, s) == [kind |-> "report", id |-> i, status |-> s]
Push(k, m)   == [kind |-> k, machine |-> m]
=============================================================================
