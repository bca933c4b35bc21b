------------------------ MODULE MissionPathProperties ------------------------
(***************************************************************************)
(* What the OS Core may and may not show of a mission, stated over         *)
(* MissionPath.                                                            *)
(***************************************************************************)
EXTENDS MissionPath

\* Every variable stays in its domain (records: TypeOK of DispatchProperties).
PathTypeOK ==
  /\ call \in [Calls -> CallPcs]
  /\ chosen \in [Calls -> Machines \cup {NoMachine}]
  /\ reply \in [Calls -> Replies]
  /\ goal \in [Calls -> GoalStates]
  /\ feedback \in [Calls -> [1 .. MaxFeedback -> CallbackPcs]]
  /\ onResult \in [Calls -> CallbackPcs]
  /\ queue \in Seq(OSRequests)
  /\ Len(queue) <= MaxQueued
  /\ sending \in OSRequests \cup {Idle}
  /\ registered \subseteq Machines
  /\ workerAlive \in BOOLEAN
  /\ servedBy \in Threads \cup {NoThread}
  /\ rows \in [Ids -> Rows \cup {NoRow}]
  /\ events \in [Ids -> Seq(Events)]
  /\ machineRows \in [Machines -> MachineTypes]
  /\ conn \in [Connections -> ConnStates]
  /\ create \in [Ids -> CreatePcs]
  /\ thread \in [Threads -> Handlers \cup {Free}]

-----------------------------------------------------------------------------
(* Safety *)

\* A mission the OS Core shows COMPLETED succeeded, and a result_state is the
\* machine's outcome, however late, lost or overtaken the reports are and whatever
\* statement failed.  (State EXCEPTION says less: after a 504 it is shown, without
\* a result_state, while the goal may still succeed.)
NoFalseOutcome ==
  \A c \in Calls : rows[IdOf[c]] # NoRow =>
    LET row == rows[IdOf[c]]
    IN  /\ "COMPLETED" \in {row.state, row.result_state} => goal[c] = "succeeded"
        /\ row.result_state = "EXCEPTION" => goal[c] \in {"aborted", "canceled", "raised"}

\* A mission whose caller was told that it does not run is never shown running
\* or with a result, and no machine is put down for it.
RefusedStaysRefused ==
  \A c \in Calls :
    (/\ reply[c] \in {"409 no_machine", "503 not_ready", "409 machine_rejected_goal"}
     /\ rows[IdOf[c]] # NoRow)
       => /\ rows[IdOf[c]].state \in {"PENDING", "EXCEPTION"}
          /\ rows[IdOf[c]].result_state = "none"
          /\ rows[IdOf[c]].machine = NoMachine

\* What the adapter believes is registered is: the OS Core has the machine as the
\* adapter described it, and never makes up a machine of unknown type.
RegistrationsAgree ==
  \A m \in Machines :
    /\ m \in registered => machineRows[m] = "known"
    /\ machineRows[m] # "unknown"

\* A report the OS Core answers with success is stored, row and event, whatever
\* the connection its thread was left with; only the first report of a mission
\* the OS Core did not know goes without an event.
DeliveredReportsAreStored ==
  \A t \in Threads :
    (/\ At(t, "answering")
     /\ thread[t].ok
     /\ Request(t).kind = "report"
     /\ thread[t].old # "none") =>
       LET i == Request(t).id
           s == Request(t).status
       IN  /\ s # "RUNNING" => rows[i].result_state = s
           /\ \E n \in DOMAIN events[i] :
                events[i][n] = Event("REPORT", thread[t].old, s)

\* Of a mission that both know, the OS Core's row never contradicts the adapter's
\* record: the record is written first, no time limit or late feedback undoes
\* it, and the machine put down for the mission is the one it was sent to.
LedgersAgree ==
  \A c \in Calls :
    LET row    == rows[IdOf[c]]
        record == records[IdOf[c]]
    IN  row # NoRow /\ record # NoRecord =>
          /\ "COMPLETED" \in {row.state, row.result_state} => record.state = "COMPLETED"
          /\ row.result_state = "EXCEPTION" => record.state \in {"EXCEPTION", "CANCELED"}
          /\ row.machine # NoMachine => record.machine = row.machine

-----------------------------------------------------------------------------
(* Action properties *)

ResultRecorded(i) == rows[i] # NoRow /\ rows[i].result_state # "none"

\* result_state is written once: no report changes or clears an outcome the OS
\* Core has recorded, even where it puts the state back to RUNNING or ASSIGNED.
OutcomeRecordedOnce ==
  [][\A i \in Ids :
       ResultRecorded(i) => rows'[i].result_state = rows[i].result_state]_pathVars

-----------------------------------------------------------------------------
(* Refinement *)

OutcomeOf(g) ==
  CASE g \notin GoalEnds -> "none"
    [] g = "succeeded"    -> "COMPLETED"
    [] OTHER              -> "EXCEPTION"

\* What the result callback has put into the adapter's record of call c.
NotedOf(record, result) ==
  IF record = NoRecord \/ result \notin {"reporting", "done"} THEN "none"
  ELSE CASE record.state = "COMPLETED"                 -> "COMPLETED"
         [] record.state \in {"EXCEPTION", "CANCELED"} -> "EXCEPTION"
         [] OTHER                                      -> "none"

RecordedOf(row) == IF row = NoRow THEN "none" ELSE row.result_state

\* A request that is queued, being sent, or with a thread of the OS Core.
UnderWay(request) ==
  \/ \E n \in 1 .. Len(queue) : queue[n] = request
  \/ sending # Idle /\ sending = request
  \/ \E t \in Threads : thread[t] # Free /\ Request(t) = request

Relay ==
  INSTANCE OutcomeRelay WITH
    Missions <- Calls,
    ended    <- [c \in Calls |-> OutcomeOf(goal[c])],
    noted    <- [c \in Calls |-> NotedOf(records[IdOf[c]], onResult[c])],
    carried  <- {x \in Calls \X {"COMPLETED", "EXCEPTION"} : UnderWay(Report(IdOf[x[1]], x[2]))},
    recorded <- [c \in Calls |-> RecordedOf(rows[IdOf[c]])]

\* An outcome reaches the OS Core's row from the machine by way of the adapter's
\* record and a report of it, station by station: none is skipped, none changes
\* it, and a restart of either side makes none up.
RelaysOutcomes == Relay!SafeSpec

-----------------------------------------------------------------------------
(* Liveness *)

\* Without losses, for machines that are registered, and with room in the queue:
\* every mission the OS Core issued and the adapter dispatched gets its outcome
\* recorded.
EveryOutcomeIsRecorded ==
  \A c \in Calls :
    (/\ reply[c] = "201"
     /\ create[IdOf[c]] # "none") ~> ResultRecorded(IdOf[c])

\* Under the same conditions, whoever asks for a mission gets an answer.
EveryCreateIsAnswered ==
  \A i \in Ids : (create[i] # "none") ~> (create[i] = "done")

-----------------------------------------------------------------------------
(* What the documents say and the code does not do *)

ShownCompleted(i) == rows[i] # NoRow /\ rows[i].state = "COMPLETED"

\* README.md: "PENDING --> ASSIGNED --> RUNNING --> COMPLETED"; Mission.action:
\* a mission "ends in exactly one terminal outcome".  A mission the OS Core
\* shows as COMPLETED stays so.
CompletedStaysCompleted ==
  [][\A i \in Ids : ShownCompleted(i) => rows'[i].state = "COMPLETED"]_pathVars

ShownPending(i) == rows[i] # NoRow /\ rows[i].state = "PENDING"

\* README.md: "No path ends without a recorded outcome."  A mission does not
\* stay PENDING.
NoMissionStaysPending == \A i \in Ids : ShownPending(i) ~> ~ShownPending(i)
=============================================================================
