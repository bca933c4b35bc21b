------------------------------- MODULE OSCore -------------------------------
(***************************************************************************)
(* The OS Core (os_core/main.py, os_core/database.py): create_mission,     *)
(* which runs on the event loop, the two push handlers for machines and    *)
(* the one for mission reports, which run on pool threads, and the SQLite  *)
(* database under them.                                                    *)
(*                                                                         *)
(* get_connection keeps one connection per thread, and no function rolls   *)
(* back: a statement that fails leaves its transaction open.  The          *)
(* connections are therefore part of the state.  sqlite3 and the pool are  *)
(* external; a commit is atomic and durable.                               *)
(*                                                                         *)
(* Abstracted: columns no property reads (texts, timestamps, progress,     *)
(* what a heartbeat says), and the read-only endpoints but for what they   *)
(* do to a connection.                                                     *)
(***************************************************************************)
EXTENDS OSContract

CONSTANTS
  NoRow,      \* no such row
  Threads,    \* the pool's threads
  Loop,       \* the event loop's thread
  Free        \* a pool thread without a request

ASSUME ThreadsAssumption == Loop \notin Threads

VARIABLES
  rows,        \* the missions table
  events,      \* mission_events, by mission
  machineRows, \* the machines table: [Machines -> MachineTypes]
  conn,        \* [Connections -> ConnStates]
  create,      \* [Ids -> CreatePcs]: the create_mission that issued the id
  thread       \* [Threads -> the request it handles, or Free]

tableVars == <<rows, events, machineRows>>
osVars    == <<tableVars, conn, create, thread>>

Connections == Threads \cup {Loop}

\* "idle": autocommit.  "open": BEGIN was issued, nothing was read or written.
\* "reading": the transaction has a snapshot, and it is current.  "stale":
\* somebody has committed since.  "writing": it holds the one write lock.
ConnStates == {"idle", "open", "reading", "stale", "writing"}

RowStates == {"PENDING", "ASSIGNED", "RUNNING", "COMPLETED", "EXCEPTION"}
Rows == [state : RowStates, machine : Machines \cup {NoMachine},
         result_state : {"none", "COMPLETED", "EXCEPTION"}]
Events == [type : {"CREATED", "ASSIGNED", "EXCEPTION", "REPORT"},
           old : RowStates \cup {"none"}, new : RowStates]

\* "known": type and capabilities as the adapter sent them; "unknown": as the
\* PATCH handler makes them up.
MachineTypes == {"none", "known", "unknown"}

Logging   == {"logging created", "logging assigned", "logging exception"}
CreatePcs == {"none", "posting", "done"} \cup Logging

\* A request on a pool thread: where its handler stands, what state of the
\* mission it has read, and whether its answer is a success.
HandlerPcs == {"reading", "inserting stub", "updating", "logging", "making up",
               "patching", "answering"}
Handlers == [request : OSRequests, pc : HandlerPcs,
             old : RowStates \cup {"none"}, ok : BOOLEAN]

ASSUME NothingAssumption ==
  /\ NoRow \notin Rows
  /\ Free \notin Handlers

OSInit ==
  /\ rows = [i \in Ids |-> NoRow]
  /\ events = [i \in Ids |-> <<>>]
  /\ machineRows = [m \in Machines |-> "none"]
  /\ conn = [k \in Connections |-> "idle"]
  /\ create = [i \in Ids |-> "none"]
  /\ thread = [t \in Threads |-> Free]

-----------------------------------------------------------------------------
(* SQLite, in WAL mode *)

CanWrite(k) ==
  /\ conn[k] # "stale"
  /\ \A other \in Connections \ {k} : conn[other] # "writing"

\* The statement succeeds and commit() follows: everyone else's snapshot is old.
Commit(k) ==
  /\ CanWrite(k)
  /\ conn' = [other \in Connections |->
       IF other = k                     THEN "idle"
       ELSE IF conn[other] = "reading" THEN "stale"
       ELSE conn[other]]

\* No rollback: the transaction stays as the failed statement leaves it.
\* IntegrityError: the statement had taken the write lock.
ConstraintFails(k) ==
  /\ CanWrite(k)
  /\ conn' = [conn EXCEPT ![k] = "writing"]

\* OperationalError "database is locked": after the busy timeout when another
\* connection writes, at once when the snapshot is old.
DatabaseLocked(k) ==
  /\ ~CanWrite(k)
  /\ conn' = [conn EXCEPT ![k] = IF @ = "idle" THEN "open" ELSE @]

\* A SELECT inside an open transaction takes its snapshot.  (What a stale one
\* still shows only decides which statement is refused next.)
Read(k) == conn' = [conn EXCEPT ![k] = IF @ = "open" THEN "reading" ELSE @]

-----------------------------------------------------------------------------
(* create_mission, on the event loop *)

Event(type, old, new) == [type |-> type, old |-> old, new |-> new]
LogEvent(i, type, old, new) ==
  events' = [events EXCEPT ![i] = Append(@, Event(type, old, new))]

\* The loop runs one create_mission from one await to the next: a row and its
\* event are two commits, but no other create_mission comes between them.
LoopIsFree == \A i \in Ids : create[i] \notin Logging

InsertPending(i) ==
  /\ create[i] = "none"
  /\ LoopIsFree
  /\ \/ /\ Commit(Loop)
        /\ rows' = [rows EXCEPT ![i] =
             [state |-> "PENDING", machine |-> NoMachine, result_state |-> "none"]]
        /\ create' = [create EXCEPT ![i] = "logging created"]
     \/ /\ DatabaseLocked(Loop)
        /\ create' = [create EXCEPT ![i] = "done"]
        /\ UNCHANGED rows
  /\ UNCHANGED <<events, machineRows, thread>>

LogCreated(i) ==
  /\ create[i] = "logging created"
  /\ \/ /\ Commit(Loop)
        /\ LogEvent(i, "CREATED", "none", "PENDING")
        /\ create' = [create EXCEPT ![i] = "posting"]
     \/ /\ DatabaseLocked(Loop)
        /\ create' = [create EXCEPT ![i] = "done"]
        /\ UNCHANGED events
  /\ UNCHANGED <<rows, machineRows, thread>>

\* httpx.ConnectError: the row is EXCEPTION, without an event.
AdapterUnreachable(i) ==
  /\ create[i] = "posting"
  /\ LoopIsFree
  /\ \/ /\ Commit(Loop)
        /\ rows' = [rows EXCEPT ![i].state = "EXCEPTION"]
     \/ /\ DatabaseLocked(Loop)
        /\ UNCHANGED rows
  /\ create' = [create EXCEPT ![i] = "done"]
  /\ UNCHANGED <<events, machineRows, thread>>

\* Any other failure of the request, or a body that is not JSON, is not caught.
PostRaises(i) ==
  /\ create[i] = "posting"
  /\ LoopIsFree
  /\ create' = [create EXCEPT ![i] = "done"]
  /\ UNCHANGED <<tableVars, conn, thread>>

\* 201: assigned_machine_id REFERENCES machines, and the row is written as it
\* comes, whatever its state is by now.
Assign(i, m) ==
  /\ create[i] = "posting"
  /\ LoopIsFree
  /\ \/ /\ machineRows[m] # "none"
        /\ Commit(Loop)
        /\ rows' = [rows EXCEPT ![i].state = "ASSIGNED", ![i].machine = m]
        /\ create' = [create EXCEPT ![i] = "logging assigned"]
     \/ /\ machineRows[m] = "none"
        /\ ConstraintFails(Loop)
        /\ create' = [create EXCEPT ![i] = "done"]
        /\ UNCHANGED rows
     \/ /\ DatabaseLocked(Loop)
        /\ create' = [create EXCEPT ![i] = "done"]
        /\ UNCHANGED rows
  /\ UNCHANGED <<events, machineRows, thread>>

\* Any other answer.
Refuse(i) ==
  /\ create[i] = "posting"
  /\ LoopIsFree
  /\ \/ /\ Commit(Loop)
        /\ rows' = [rows EXCEPT ![i].state = "EXCEPTION"]
        /\ create' = [create EXCEPT ![i] = "logging exception"]
     \/ /\ DatabaseLocked(Loop)
        /\ create' = [create EXCEPT ![i] = "done"]
        /\ UNCHANGED rows
  /\ UNCHANGED <<events, machineRows, thread>>

\* The event's old state is written down as PENDING, whatever it was.
LogAnswer(i) ==
  /\ create[i] \in {"logging assigned", "logging exception"}
  /\ \/ /\ Commit(Loop)
        /\ IF create[i] = "logging assigned"
             THEN LogEvent(i, "ASSIGNED", "PENDING", "ASSIGNED")
             ELSE LogEvent(i, "EXCEPTION", "PENDING", "EXCEPTION")
     \/ /\ DatabaseLocked(Loop)
        /\ UNCHANGED events
  /\ create' = [create EXCEPT ![i] = "done"]
  /\ UNCHANGED <<rows, machineRows, thread>>

-----------------------------------------------------------------------------
(* The push handlers, on pool threads *)

At(t, pc)     == thread[t] # Free /\ thread[t].pc = pc
Request(t)    == thread[t].request
Goto(t, pc)   == thread' = [thread EXCEPT ![t].pc = pc]
Answer(t, ok) == thread' = [thread EXCEPT ![t].pc = "answering", ![t].ok = ok]

Accept(t, request) ==
  /\ thread[t] = Free
  /\ thread' = [thread EXCEPT ![t] =
       [request |-> request, pc |-> "reading", old |-> "none", ok |-> FALSE]]
  /\ UNCHANGED <<tableVars, conn, create>>

\* report_mission reads the row, ...
ReadMission(t) ==
  /\ At(t, "reading")
  /\ Request(t).kind = "report"
  /\ LET row == rows[Request(t).id]
     IN  thread' = [thread EXCEPT
           ![t].pc  = IF row = NoRow THEN "inserting stub" ELSE "updating",
           ![t].old = IF row = NoRow THEN "none" ELSE row.state]
  /\ Read(t)
  /\ UNCHANGED <<tableVars, create>>

\* ... inserts one in the report's state if there was none, with no event, ...
InsertStub(t) ==
  /\ At(t, "inserting stub")
  /\ LET i == Request(t).id
     IN  \/ /\ rows[i] = NoRow
            /\ Commit(t)
            /\ rows' = [rows EXCEPT ![i] =
                 [state |-> Request(t).status, machine |-> NoMachine,
                  result_state |-> "none"]]
            /\ Answer(t, TRUE)
         \/ /\ rows[i] # NoRow
            /\ ConstraintFails(t)
            /\ Answer(t, FALSE)
            /\ UNCHANGED rows
         \/ /\ DatabaseLocked(t)
            /\ Answer(t, FALSE)
            /\ UNCHANGED rows
  /\ UNCHANGED <<events, machineRows, create>>

\* Slips: every status is a result_state; progress clears an earlier result.
OutcomeUnfiltered(row, status) == status
OutcomeReset(row, status) ==
  IF status \in {"COMPLETED", "EXCEPTION"} THEN status ELSE "none"

OutcomeAfter(row, status) ==
  IF status \in {"COMPLETED", "EXCEPTION"} THEN status ELSE row.result_state

\* Slip: the error of the database is swallowed.
UpdateMissionQuietly(t) ==
  /\ At(t, "updating")
  /\ LET i == Request(t).id
         s == Request(t).status
     IN  \/ /\ Commit(t)
            /\ rows' = [rows EXCEPT ![i].state = s,
                                    ![i].result_state = OutcomeAfter(rows[i], s)]
            /\ Goto(t, "logging")
         \/ /\ DatabaseLocked(t)
            /\ Answer(t, TRUE)
            /\ UNCHANGED rows
  /\ UNCHANGED <<events, machineRows, create>>

\* ... and otherwise writes the state, whatever it was, ...
UpdateMission(t) ==
  /\ At(t, "updating")
  /\ LET i == Request(t).id
         s == Request(t).status
     IN  \/ /\ Commit(t)
            /\ rows' = [rows EXCEPT ![i].state = s,
                                    ![i].result_state = OutcomeAfter(rows[i], s)]
            /\ Goto(t, "logging")
         \/ /\ DatabaseLocked(t)
            /\ Answer(t, FALSE)
            /\ UNCHANGED rows
  /\ UNCHANGED <<events, machineRows, create>>

\* ... then the event, with the state it had read.
LogReport(t) ==
  /\ At(t, "logging")
  /\ \/ /\ Commit(t)
        /\ LogEvent(Request(t).id, "REPORT", thread[t].old, Request(t).status)
        /\ Answer(t, TRUE)
     \/ /\ DatabaseLocked(t)
        /\ Answer(t, FALSE)
        /\ UNCHANGED events
  /\ UNCHANGED <<rows, machineRows, create>>

\* patch_status looks for the machine's row before it writes one.
FindMachine(t) ==
  /\ At(t, "reading")
  /\ Request(t).kind = "patch"
  /\ Goto(t, IF machineRows[Request(t).machine] = "none" THEN "making up" ELSE "patching")
  /\ Read(t)
  /\ UNCHANGED <<tableVars, create>>

\* register_machine overwrites type and capabilities; a PATCH leaves them, or
\* makes them up.
MachineRowAfter(t) ==
  IF Request(t).kind = "register" THEN "known"
  ELSE IF At(t, "making up")      THEN "unknown"
  ELSE machineRows[Request(t).machine]

WriteMachine(t) ==
  /\ \/ At(t, "reading") /\ Request(t).kind = "register"
     \/ At(t, "making up")
     \/ At(t, "patching")
  /\ \/ /\ Commit(t)
        /\ machineRows' = [machineRows EXCEPT ![Request(t).machine] = MachineRowAfter(t)]
        /\ Answer(t, TRUE)
     \/ /\ DatabaseLocked(t)
        /\ Answer(t, FALSE)
        /\ UNCHANGED machineRows
  /\ UNCHANGED <<rows, events, create>>

\* A read-only endpoint on a pool thread: it changes nothing but the connection.
ServeRead(t) ==
  /\ thread[t] = Free
  /\ conn[t] = "open"
  /\ Read(t)
  /\ UNCHANGED <<tableVars, create, thread>>

\* anyio prunes a thread that was idle for long, and its connection is closed.
PruneThread(t) ==
  /\ thread[t] = Free
  /\ conn[t] # "idle"
  /\ conn' = [conn EXCEPT ![t] = "idle"]
  /\ UNCHANGED <<tableVars, create, thread>>

HandlerStep(t) ==
  \/ ReadMission(t)
  \/ InsertStub(t)
  \/ UpdateMission(t)
  \/ LogReport(t)
  \/ FindMachine(t)
  \/ WriteMachine(t)
=============================================================================
