-------------------------------- MODULE Fleet --------------------------------
(***************************************************************************)
(* The adapter's fleet (adapter_node.py, class AdapterNode): discovery,    *)
(* heartbeats and stale reports, run by the executor's threads in a        *)
(* reentrant group and joined by one lock; what they push through the      *)
(* outbound client (os_client.py); the descriptor (translate.py); and the  *)
(* machine's row in the OS Core (main.py, database.py).                    *)
(*                                                                         *)
(* Time is abstracted to whether the silence of a machine has lasted more  *)
(* than stale_after_sec.  A sweep and a GET read the clock before they     *)
(* have the lock, so a machine that has lapsed by then may not have by     *)
(* their reading; the selection reads it under the lock.  The machines are *)
(* external: each says what it says, or nothing.  A push handler of the OS *)
(* Core is one step here, early or late; MissionPath has its statements.   *)
(***************************************************************************)
EXTENDS OSClient, Selection

CONSTANTS
  Topics,     \* the <id> of each /machines/<id>/state
  Says,       \* [Topics -> SUBSET Messages]: what is published there
  Silence,    \* nothing is
  Executors,  \* the threads of the executor
  NoTask,     \* a thread without a callback
  NoRow,      \* the OS Core has no row
  Pool,       \* threads of the OS Core that may hold on to a request
  Losses,     \* requests and answers may be lost, and end the worker
  Restarts    \* the adapter may be restarted

ASSUME FleetAssumption ==
  /\ Topics \subseteq Machines
  /\ Says \in [Topics -> SUBSET Messages]
  /\ Silence \notin Messages
  /\ {Losses, Restarts} \subseteq BOOLEAN

VARIABLES
  air,         \* [Topics -> Messages \cup {Silence}]: what the machine says now
  records,     \* _machines
  subscribed,  \* _machine_subs
  clients,     \* _action_clients
  task,        \* [Executors -> Tasks]: the callback each thread runs
  fate,        \* [Machines -> Fates]: the stale report of the present silence
  machineRows, \* the machines table
  held         \* [Pool -> Requests \cup {Idle}]: given up on, yet to be handled

osVars    == <<machineRows, held>>
fleetVars == <<air, records, subscribed, clients, task, fate, osVars>>
vars      == <<fleetVars, clientVars>>

RowIds == Machines \cup {Unnamed}

\* The machine descriptor, and the row it ends up in.  stale: the fault
\* NO_HEARTBEAT; known: type and capabilities are the machine's own.  Abstracted:
\* the other columns (current_mission_id, battery, place, health).
OSStates    == {"AVAILABLE", "ASSIGNED", "RUNNING", "OFFLINE"}
Descriptors == [id : RowIds, state : OSStates, stale : BOOLEAN]
Rows        == [state : OSStates, stale : BOOLEAN, known : BOOLEAN]
Requests    == [kind : {"register", "patch"}, machine : RowIds, body : Descriptors]

HeartbeatTasks == [pc : {"storing", "pushing"}, topic : Topics, msg : Messages]
SweepTasks     == [pc : {"reporting", "discovering"},
                   left : SUBSET [machine : Machines, msg : Messages]]
Tasks          == {NoTask} \cup HeartbeatTasks \cup SweepTasks

ASSUME NothingAssumption ==
  /\ NoTask \notin HeartbeatTasks \cup SweepTasks
  /\ NoRow \notin Rows

\* History: no report yet, one that was queued, one that was dropped or got no
\* answer, one that a heartbeat handled late has undone, more than one.
Fates == {"none", "told", "lost", "undone", "repeated"}

FleetInit ==
  /\ air = [c \in Topics |-> Silence]
  /\ records = [m \in Machines |-> NoRecord]
  /\ subscribed = {}
  /\ clients = {}
  /\ task = [t \in Executors |-> NoTask]
  /\ fate = [m \in Machines |-> "none"]
  /\ machineRows = [m \in RowIds |-> NoRow]
  /\ held = [w \in Pool |-> Idle]

Init == FleetInit /\ ClientInit

-----------------------------------------------------------------------------
(* translate.py *)

DescribedState(msg, stale) ==
  IF stale \/ msg.connection # "ONLINE"              THEN "OFFLINE"
  ELSE IF msg.state \in {"COMPLETED", "EXCEPTION"} THEN "AVAILABLE"
  ELSE msg.state

Descriptor(msg, stale) ==
  [id |-> msg.id, state |-> DescribedState(msg, stale), stale |-> stale]

\* connection_status as GET /machines gives it, to a reader whose clock says
\* whether the machine is silent.
ShownConnection(record, silent) ==
  IF silent THEN "CONNECTION_BROKEN" ELSE record.msg.connection

\* The clock was read before the lock: perhaps before the machine lapsed, but a
\* silence that a heartbeat has ended is no silence by any clock.
MayJudge(record) == {record.lapsed, FALSE}

-----------------------------------------------------------------------------
(* Heartbeats *)

At(t, pc) == task[t] # NoTask /\ task[t].pc = pc
Run(t, next) == task' = [task EXCEPT ![t] = next]

\* The record is kept under the id the machine gives itself, if it gives one.
KeyOf(topic, msg) == IF msg.id = Unnamed THEN topic ELSE msg.id

Concerns(t, m) ==
  \/ /\ At(t, "storing") \/ At(t, "pushing")
     /\ KeyOf(task[t].topic, task[t].msg) = m
  \/ /\ At(t, "reporting") \/ At(t, "discovering")
     /\ \E r \in task[t].left : r.machine = m

AirChanges(topic) ==
  /\ \E said \in (Says[topic] \cup {Silence}) \ {air[topic]} :
       air' = [air EXCEPT ![topic] = said]
  /\ UNCHANGED <<records, subscribed, clients, task, fate, osVars, clientVars>>

\* A callback starts on a free thread with what the machine says now.
Hear(t, topic) ==
  /\ task[t] = NoTask
  /\ topic \in subscribed
  /\ air[topic] # Silence
  /\ Run(t, [pc |-> "storing", topic |-> topic, msg |-> air[topic]])
  /\ UNCHANGED <<air, records, subscribed, clients, fate, osVars, clientVars>>

\* Slip: the record is updated in place, its stale mark with it.
StoredInPlace(msg, old) ==
  [msg |-> msg, lapsed |-> FALSE,
   reported_stale |-> IF old = NoRecord THEN FALSE ELSE old.reported_stale]

Stored(msg, old) == [msg |-> msg, lapsed |-> FALSE, reported_stale |-> FALSE]

\* Slip: a heartbeat that says nothing new is not passed on.
StoreAndPushNews(t) ==
  /\ At(t, "storing")
  /\ LET m == KeyOf(task[t].topic, task[t].msg)
     IN  /\ records' = [records EXCEPT ![m] = Stored(task[t].msg, records[m])]
         /\ fate' = [fate EXCEPT ![m] = "none"]
         /\ Run(t, IF records[m] # NoRecord /\ records[m].msg = task[t].msg
                     THEN NoTask ELSE [task[t] EXCEPT !.pc = "pushing"])
  /\ UNCHANGED <<air, subscribed, clients, osVars, clientVars>>

Store(t) ==
  /\ At(t, "storing")
  /\ LET m == KeyOf(task[t].topic, task[t].msg)
     IN  /\ records' = [records EXCEPT ![m] = Stored(task[t].msg, records[m])]
         /\ fate' = [fate EXCEPT ![m] = "none"]
  /\ Run(t, [task[t] EXCEPT !.pc = "pushing"])
  /\ UNCHANGED <<air, subscribed, clients, osVars, clientVars>>

\* A registration goes out under the descriptor's id, a PATCH under the key.
Tell(m, descriptor) ==
  PushStatus(m, [kind |-> "patch", machine |-> m, body |-> descriptor],
                [kind |-> "register", machine |-> descriptor.id, body |-> descriptor])

PushHeartbeat(t) ==
  /\ At(t, "pushing")
  /\ Tell(KeyOf(task[t].topic, task[t].msg), Descriptor(task[t].msg, FALSE))
  /\ Run(t, NoTask)
  /\ UNCHANGED <<air, records, subscribed, clients, fate, osVars>>

-----------------------------------------------------------------------------
(* The discovery timer: stale reports first, new topics next *)

\* stale_after_sec have passed.  No callback takes that long.
Lapse(m) ==
  /\ records[m] # NoRecord
  /\ ~records[m].lapsed
  /\ \A t \in Executors : ~Concerns(t, m)
  /\ records' = [records EXCEPT ![m].lapsed = TRUE]
  /\ UNCHANGED <<air, subscribed, clients, task, fate, osVars, clientVars>>

\* More than stale_after_sec have passed since last_seen.
SilentNow == {m \in Heard(records) : records[m].lapsed}

\* Slip: whoever is silent is reported, at every sweep.
StillStale(silent) == silent

NewlyStale(silent) == {m \in silent : ~records[m].reported_stale}

\* Marked under the lock is who was silent when the clock was read; what will be
\* reported is what the records say now.  (A sweep that would find nothing to do
\* is left out.)
MarkStale(t, silent) ==
  /\ task[t] = NoTask
  /\ silent \subseteq SilentNow
  /\ NewlyStale(silent) # {} \/ ~(Topics \subseteq subscribed)
  /\ records' = [m \in Machines |->
       IF m \in NewlyStale(silent) THEN [records[m] EXCEPT !.reported_stale = TRUE]
                                   ELSE records[m]]
  /\ Run(t, [pc   |-> "reporting",
             left |-> {[machine |-> m, msg |-> records[m].msg] : m \in NewlyStale(silent)}])
  /\ UNCHANGED <<air, subscribed, clients, fate, osVars, clientVars>>

Sweep(t) == \E silent \in SUBSET Machines : MarkStale(t, silent)

\* A sweep in which m did not lapse between clock and lock.
SweepSees(m) ==
  \E t \in Executors : \E silent \in SUBSET Machines :
    (m \in SilentNow => m \in silent) /\ MarkStale(t, silent)

Dropped == Len(queue) = MaxQueued

\* The machine may have been heard again since it was marked: the report is
\* then belated, and belongs to no present silence.
FateAfter(m) ==
  IF ~records[m].reported_stale THEN fate[m]
  ELSE IF fate[m] # "none"      THEN "repeated"
  ELSE IF Dropped               THEN "lost"
  ELSE "told"

ReportStale(t) ==
  /\ At(t, "reporting")
  /\ \E r \in task[t].left :
       /\ Tell(r.machine, Descriptor(r.msg, TRUE))
       /\ fate' = [fate EXCEPT ![r.machine] = FateAfter(r.machine)]
       /\ Run(t, [task[t] EXCEPT !.left = @ \ {r}])
  /\ UNCHANGED <<air, records, subscribed, clients, osVars>>

AllReported(t) ==
  /\ At(t, "reporting")
  /\ task[t].left = {}
  /\ Run(t, IF Topics \subseteq subscribed THEN NoTask
            ELSE [task[t] EXCEPT !.pc = "discovering"])
  /\ UNCHANGED <<air, records, subscribed, clients, fate, osVars, clientVars>>

\* Subscription and action client are made in one critical section, each
\* under the id of the topic.
Subscribe(t) ==
  /\ At(t, "discovering")
  /\ \E topic \in Topics \ subscribed :
       /\ subscribed' = subscribed \cup {topic}
       /\ clients' = clients \cup {topic}
  /\ UNCHANGED <<air, records, task, fate, osVars, clientVars>>

EndSweep(t) ==
  /\ At(t, "discovering")
  /\ Run(t, NoTask)
  /\ UNCHANGED <<air, records, subscribed, clients, fate, osVars, clientVars>>

-----------------------------------------------------------------------------
(* The OS Core, and what becomes of a request *)

FromDescriptor(d, known) ==
  [state |-> d.state, stale |-> d.stale, known |-> known]

\* A PATCH leaves alone what it does not name.
Patched(row, d) == [row EXCEPT !.state = d.state, !.stale = d.stale]

RowAfter(request) ==
  LET row == machineRows[request.machine]
  IN  IF request.kind = "register" THEN FromDescriptor(request.body, TRUE)
      ELSE IF row = NoRow          THEN FromDescriptor(request.body, FALSE)
      ELSE Patched(row, request.body)

Handle(request) ==
  machineRows' = [machineRows EXCEPT ![request.machine] = RowAfter(request)]

\* A stale report that gets no answer is not repeated.
ReportFails ==
  fate' = [m \in Machines |->
    IF /\ sending.body.stale
       /\ sending.machine = m
       /\ fate[m] = "told"
      THEN "lost" ELSE fate[m]]

Answered ==
  /\ sending # Idle
  /\ Handle(sending)
  /\ SendAnswered
  /\ UNCHANGED <<air, records, subscribed, clients, task, fate, held>>

\* The OS Core has handled the request, never will, or has a thread that has yet
\* to: the adapter cannot tell.
Abandoned(request) ==
  \/ Handle(request) /\ UNCHANGED held
  \/ UNCHANGED osVars
  \/ /\ \E w \in Pool : held[w] = Idle /\ held' = [held EXCEPT ![w] = request]
     /\ UNCHANGED machineRows

\* Refused, timed out or broken.
Unanswered ==
  /\ Losses
  /\ sending # Idle
  /\ Abandoned(sending)
  /\ ReportFails
  /\ SendFailed \/ SendRaises
  /\ UNCHANGED <<air, records, subscribed, clients, task>>

ReportOnItsWay(m) ==
  \/ sending # Idle /\ sending.machine = m /\ sending.body.stale
  \/ \E n \in 1 .. Len(queue) : queue[n].machine = m /\ queue[n].body.stale

\* A heartbeat handled behind the report of a silence undoes it.
LateFate(request) ==
  [m \in Machines |->
    IF /\ request.machine = m
       /\ ~request.body.stale
       /\ fate[m] = "told"
       /\ ~ReportOnItsWay(m)
      THEN "undone" ELSE fate[m]]

\* A thread of the OS Core gets to a request whose sender has gone on.
HandleLate(w) ==
  /\ held[w] # Idle
  /\ Handle(held[w])
  /\ held' = [held EXCEPT ![w] = Idle]
  /\ fate' = LateFate(held[w])
  /\ UNCHANGED <<air, records, subscribed, clients, task, clientVars>>

TakeNext ==
  /\ TakeRequest
  /\ UNCHANGED fleetVars

\* A new process: everything but the machines and the OS Core's rows is gone.
AdapterRestarts ==
  /\ Restarts
  /\ records' = [m \in Machines |-> NoRecord]
  /\ subscribed' = {}
  /\ clients' = {}
  /\ task' = [t \in Executors |-> NoTask]
  /\ fate' = [m \in Machines |-> "none"]
  /\ IF sending = Idle THEN UNCHANGED osVars ELSE Abandoned(sending)
  /\ queue' = <<>>
  /\ sending' = Idle
  /\ registered' = {}
  /\ workerAlive' = TRUE
  /\ UNCHANGED air

-----------------------------------------------------------------------------
TaskStep(t) ==
  \/ Store(t)
  \/ PushHeartbeat(t)
  \/ ReportStale(t)
  \/ AllReported(t)
  \/ Subscribe(t)
  \/ EndSweep(t)

Next ==
  \/ \E topic \in Topics : AirChanges(topic) \/ \E t \in Executors : Hear(t, topic)
  \/ \E m \in Machines : Lapse(m)
  \/ \E t \in Executors : Sweep(t) \/ TaskStep(t)
  \/ TakeNext \/ Answered \/ Unanswered
  \/ \E w \in Pool : HandleLate(w)
  \/ AdapterRestarts

SafeSpec == Init /\ [][Next]_vars

\* Callbacks that have started end, the worker goes on, and time passes.  A
\* heartbeat and the timer get one of the executor's threads in time, however
\* busy these are.
Fairness ==
  /\ \A topic \in Topics : SF_vars(\E t \in Executors : Hear(t, topic))
  /\ \A m \in Machines : SF_vars(SweepSees(m))
  /\ \A t \in Executors : WF_vars(TaskStep(t))
  /\ \A m \in Machines : WF_vars(Lapse(m))
  /\ WF_vars(TakeNext)
  /\ WF_vars(Answered \/ Unanswered)

Spec == SafeSpec /\ Fairness
=============================================================================
