----------------------------- MODULE FleetProofs -----------------------------
(***************************************************************************)
(* The safety of the adapter's fleet for any machines, topics, executor    *)
(* threads and queue size, whatever is lost and whenever the adapter is    *)
(* restarted.                                                              *)
(***************************************************************************)
EXTENDS FleetProperties, SelectionProofs, TLAPS

-----------------------------------------------------------------------------
(* The inductive invariant *)

\* What a sweep still has to report.
Pending(t) == IF At(t, "reporting") \/ At(t, "discovering") THEN task[t].left ELSE {}

\* A machine that waits to be reported is not marked again: it is marked still,
\* or it was heard since, and then cannot lapse before it has been reported.
PendingInv ==
  /\ \A t \in Executors : \A r \in Pending(t) :
       /\ records[r.machine] # NoRecord
       /\ records[r.machine].lapsed => records[r.machine].reported_stale
       /\ records[r.machine].reported_stale => fate[r.machine] = "none"
  /\ \A t, u \in Executors : \A r \in Pending(t), s \in Pending(u) :
       r.machine = s.machine => t = u /\ r = s

SilenceInv ==
  \A m \in Machines :
    /\ records[m] # NoRecord /\ records[m].reported_stale => records[m].lapsed
    /\ fate[m] # "none" => records[m] # NoRecord /\ records[m].reported_stale
    /\ fate[m] # "repeated"

\* Whoever was heard was heard on a topic that has its action client.
VoiceInv ==
  /\ clients = subscribed
  /\ \A t \in Executors : At(t, "storing") \/ At(t, "pushing") =>
       task[t].topic \in subscribed /\ task[t].msg \in Says[task[t].topic]
  /\ \A m \in Machines : records[m] # NoRecord =>
       \E topic \in subscribed : \E msg \in Says[topic] : KeyOf(topic, msg) = m

PatchFindsRow(request) == request.kind = "patch" => machineRows[request.machine] # NoRow

RowInv ==
  /\ RowsAreRegistered
  /\ \A n \in 1 .. Len(queue) : PatchFindsRow(queue[n])
  /\ sending # Idle => PatchFindsRow(sending)
  /\ \A w \in Pool : held[w] # Idle => PatchFindsRow(held[w])

FleetInv == FleetTypeOK /\ PendingInv /\ SilenceInv /\ VoiceInv /\ RowInv

-----------------------------------------------------------------------------
(* What is put into the queue *)

LEMMA EnqueuedElements ==
  ASSUME NEW q \in Seq(Requests), Len(q) <= MaxQueued, NEW request \in Requests
  PROVE  /\ Enqueued(q, request) \in Seq(Requests)
         /\ Len(Enqueued(q, request)) <= MaxQueued
         /\ \A n \in 1 .. Len(Enqueued(q, request)) :
              \/ Enqueued(q, request)[n] = request
              \/ n \in 1 .. Len(q) /\ Enqueued(q, request)[n] = q[n]
BY QueueAssumption DEF Enqueued

LEMMA DescriptorType ==
  ASSUME NEW msg \in Messages, NEW stale \in BOOLEAN
  PROVE  Descriptor(msg, stale) \in Descriptors /\ Descriptor(msg, stale).id = msg.id
<1>1. /\ msg.id \in RowIds
      /\ msg.state \in MachineStates
  BY DEF Messages, RowIds
<1>2. DescribedState(msg, stale) \in OSStates
  BY <1>1 DEF DescribedState, OSStates, MachineStates
<1> QED  BY <1>1, <1>2 DEF Descriptor, Descriptors

LEMMA KeyType ==
  ASSUME NEW topic \in Topics, NEW msg \in Messages
  PROVE  KeyOf(topic, msg) \in Machines
BY FleetAssumption DEF KeyOf, Messages

\* A push that is put into the queue is a request, and a PATCH only goes out for
\* what is registered.
LEMMA TellPuts ==
  ASSUME FleetTypeOK, NEW m \in Machines, NEW msg \in Messages, NEW stale \in BOOLEAN,
         Tell(m, Descriptor(msg, stale))
  PROVE  /\ queue' \in Seq(Requests)
         /\ Len(queue') <= MaxQueued
         /\ \A n \in 1 .. Len(queue') :
              \/ n \in 1 .. Len(queue) /\ queue'[n] = queue[n]
              \/ queue'[n].kind = "patch" => queue'[n].machine = m /\ m \in registered
         /\ UNCHANGED <<sending, registered, workerAlive>>
<1> DEFINE d == Descriptor(msg, stale)
           patch == [kind |-> "patch", machine |-> m, body |-> d]
           registration == [kind |-> "register", machine |-> d.id, body |-> d]
           put == IF m \in registered THEN patch ELSE registration
<1>1. d \in Descriptors /\ d.id \in RowIds
  BY DescriptorType DEF Messages, RowIds
<1>2. m \in RowIds  BY DEF RowIds
<1>3. patch \in Requests /\ registration \in Requests
  <2> HIDE DEF d
  <2> QED  BY <1>1, <1>2 DEF Requests
<1>4. put.kind = "patch" => put.machine = m /\ m \in registered  OBVIOUS
<1>5. queue' = Enqueued(queue, put) /\ UNCHANGED <<sending, registered, workerAlive>>
  BY DEF Tell, PushStatus, Enqueue
<1>6. queue \in Seq(Requests) /\ Len(queue) <= MaxQueued  BY DEF FleetTypeOK
<1>7. put \in Requests  BY <1>3
<1> HIDE DEF put
<1>8. /\ Enqueued(queue, put) \in Seq(Requests)
      /\ Len(Enqueued(queue, put)) <= MaxQueued
      /\ \A n \in 1 .. Len(Enqueued(queue, put)) :
           \/ Enqueued(queue, put)[n] = put
           \/ n \in 1 .. Len(queue) /\ Enqueued(queue, put)[n] = queue[n]
  BY <1>6, <1>7, EnqueuedElements
<1> QED  BY <1>4, <1>5, <1>8

-----------------------------------------------------------------------------
(* Type correctness *)

Left == [machine : Machines, msg : Messages]

LEMMA TaskTypes ==
  ASSUME FleetTypeOK, NEW t \in Executors
  PROVE  /\ At(t, "storing") \/ At(t, "pushing") =>
              /\ task[t] \in HeartbeatTasks
              /\ task[t].topic \in Topics
              /\ task[t].msg \in Messages
              /\ KeyOf(task[t].topic, task[t].msg) \in Machines
         /\ At(t, "reporting") \/ At(t, "discovering") =>
              task[t] \in SweepTasks /\ task[t].left \in SUBSET Left
<1>1. task[t] \in {NoTask} \cup HeartbeatTasks \cup SweepTasks
  BY DEF FleetTypeOK, Tasks
<1>2. ASSUME At(t, "storing") \/ At(t, "pushing")
      PROVE  task[t] \in HeartbeatTasks /\ task[t].topic \in Topics /\ task[t].msg \in Messages
  BY <1>1, <1>2 DEF At, HeartbeatTasks, SweepTasks
<1>3. ASSUME At(t, "reporting") \/ At(t, "discovering")
      PROVE  task[t] \in SweepTasks /\ task[t].left \in SUBSET Left
  BY <1>1, <1>3 DEF At, HeartbeatTasks, SweepTasks, Left
<1> QED  BY <1>2, <1>3, KeyType

LEMMA RunType ==
  ASSUME FleetTypeOK, NEW t \in Executors, NEW next \in Tasks, Run(t, next)
  PROVE  task' \in [Executors -> Tasks]
BY DEF Run, FleetTypeOK

LEMMA RowAfterType ==
  ASSUME FleetTypeOK, NEW request \in Requests
  PROVE  RowAfter(request) \in Rows
<1>1. /\ request.machine \in RowIds
      /\ request.body \in Descriptors
      /\ request.kind \in {"register", "patch"}
  BY DEF Requests
<1>2. machineRows[request.machine] \in Rows \cup {NoRow}  BY <1>1 DEF FleetTypeOK
<1>3. \A known \in BOOLEAN : FromDescriptor(request.body, known) \in Rows
  BY <1>1 DEF FromDescriptor, Descriptors, Rows
<1>4. ASSUME NEW row \in Rows  PROVE Patched(row, request.body) \in Rows
  BY <1>1 DEF Patched, Descriptors, Rows
<1> QED  BY <1>2, <1>3, <1>4 DEF RowAfter

LEMMA HandleType ==
  ASSUME FleetTypeOK, NEW request \in Requests, Handle(request)
  PROVE  /\ machineRows' \in [RowIds -> Rows \cup {NoRow}]
         /\ machineRows'[request.machine] = RowAfter(request)
         /\ \A m \in RowIds \ {request.machine} : machineRows'[m] = machineRows[m]
<1>1. request.machine \in RowIds  BY DEF Requests
<1>2. RowAfter(request) \in Rows  BY RowAfterType
<1>3. machineRows \in [RowIds -> Rows \cup {NoRow}]  BY DEF FleetTypeOK
<1> QED  BY <1>1, <1>2, <1>3 DEF Handle

LEMMA AbandonedType ==
  ASSUME FleetTypeOK, NEW request \in Requests, Abandoned(request)
  PROVE  /\ machineRows' \in [RowIds -> Rows \cup {NoRow}]
         /\ held' \in [Pool -> Requests \cup {Idle}]
<1>1. CASE Handle(request) /\ UNCHANGED held  BY <1>1, HandleType DEF FleetTypeOK
<1>2. CASE UNCHANGED osVars  BY <1>2 DEF osVars, FleetTypeOK
<1>3. CASE /\ \E w \in Pool : held' = [held EXCEPT ![w] = request]
           /\ UNCHANGED machineRows
  BY <1>3 DEF FleetTypeOK
<1> QED  BY <1>1, <1>2, <1>3 DEF Abandoned

LEMMA StoredType ==
  ASSUME NEW msg \in Messages, NEW old
  PROVE  Stored(msg, old) \in MachineRecords
BY DEF Stored, MachineRecords

LEMMA TypeStep ==
  ASSUME FleetTypeOK, Next
  PROVE  FleetTypeOK'
<1> USE DEF FleetTypeOK, osVars
<1>1. ASSUME NEW topic \in Topics, AirChanges(topic)  PROVE FleetTypeOK'
  <2>1. \A said \in Says[topic] : said \in Messages  BY FleetAssumption
  <2> QED  BY <1>1, <2>1 DEF AirChanges, clientVars
<1>2. ASSUME NEW topic \in Topics, NEW t \in Executors, Hear(t, topic)  PROVE FleetTypeOK'
  <2>1. [pc |-> "storing", topic |-> topic, msg |-> air[topic]] \in Tasks
    BY <1>2 DEF Hear, Tasks, HeartbeatTasks
  <2>2. task' \in [Executors -> Tasks]  BY <1>2, <2>1, RunType DEF Hear
  <2> QED  BY <1>2, <2>2 DEF Hear, clientVars
<1>3. ASSUME NEW m \in Machines, Lapse(m)  PROVE FleetTypeOK'
  <2>1. records[m] \in MachineRecords  BY <1>3 DEF Lapse
  <2>2. [records[m] EXCEPT !.lapsed = TRUE] \in MachineRecords  BY <2>1 DEF MachineRecords
  <2>3. records' = [records EXCEPT ![m] = [records[m] EXCEPT !.lapsed = TRUE]]
    BY <1>3 DEF Lapse
  <2>4. records' \in [Machines -> MachineRecords \cup {NoRecord}]  BY <2>2, <2>3
  <2> QED  BY <1>3, <2>4 DEF Lapse, clientVars
<1>4. ASSUME NEW t \in Executors, NEW silent \in SUBSET Machines, MarkStale(t, silent)
      PROVE  FleetTypeOK'
  <2> DEFINE stale == NewlyStale(silent)
             left  == {[machine |-> m, msg |-> records[m].msg] : m \in stale}
  <2>1. \A m \in stale : m \in Machines /\ records[m] \in MachineRecords
    BY <1>4 DEF MarkStale, NewlyStale, SilentNow, Heard
  <2>2. \A m \in stale :
          /\ [records[m] EXCEPT !.reported_stale = TRUE] \in MachineRecords
          /\ records[m].msg \in Messages
    BY <2>1 DEF MachineRecords
  <2>3. records' \in [Machines -> MachineRecords \cup {NoRecord}]
    BY <1>4, <2>2 DEF MarkStale
  <2>4. \A m \in stale : [machine |-> m, msg |-> records[m].msg] \in Left
    BY <2>1, <2>2 DEF Left
  <2>5. left \in SUBSET Left
    <3> HIDE DEF stale
    <3> QED  BY ONLY <2>4
  <2>6. [pc |-> "reporting", left |-> left] \in Tasks
    BY <2>5 DEF Tasks, SweepTasks, Left
  <2>7. task' \in [Executors -> Tasks]  BY <1>4, <2>6, RunType DEF MarkStale
  <2> QED  BY <1>4, <2>3, <2>7 DEF MarkStale, clientVars
<1>5. ASSUME NEW t \in Executors, Store(t)  PROVE FleetTypeOK'
  <2>1. /\ task[t] \in HeartbeatTasks
        /\ task[t].msg \in Messages
        /\ KeyOf(task[t].topic, task[t].msg) \in Machines
    BY <1>5, TaskTypes DEF Store
  <2>2. [task[t] EXCEPT !.pc = "pushing"] \in Tasks  BY <2>1 DEF Tasks, HeartbeatTasks
  <2>3. task' \in [Executors -> Tasks]  BY <1>5, <2>2, RunType DEF Store
  <2>4. records' \in [Machines -> MachineRecords \cup {NoRecord}]
    BY <1>5, <2>1, StoredType DEF Store
  <2>5. fate' \in [Machines -> Fates]  BY <1>5, <2>1 DEF Store, Fates
  <2> QED  BY <1>5, <2>3, <2>4, <2>5 DEF Store, clientVars
<1>6. ASSUME NEW t \in Executors, PushHeartbeat(t)  PROVE FleetTypeOK'
  <2>1. task[t].msg \in Messages /\ KeyOf(task[t].topic, task[t].msg) \in Machines
    BY <1>6, TaskTypes DEF PushHeartbeat
  <2>2. /\ queue' \in Seq(Requests)
        /\ Len(queue') <= MaxQueued
        /\ UNCHANGED <<sending, registered, workerAlive>>
    BY <1>6, <2>1, TellPuts DEF PushHeartbeat
  <2>3. task' \in [Executors -> Tasks]  BY <1>6, RunType DEF PushHeartbeat, Tasks
  <2> QED  BY <1>6, <2>2, <2>3 DEF PushHeartbeat
<1>7. ASSUME NEW t \in Executors, ReportStale(t)  PROVE FleetTypeOK'
  <2>1. PICK r \in task[t].left :
          /\ Tell(r.machine, Descriptor(r.msg, TRUE))
          /\ fate' = [fate EXCEPT ![r.machine] = FateAfter(r.machine)]
          /\ Run(t, [task[t] EXCEPT !.left = @ \ {r}])
    BY <1>7 DEF ReportStale
  <2>2. task[t] \in SweepTasks /\ task[t].left \in SUBSET Left
    BY <1>7, TaskTypes DEF ReportStale
  <2>3. r.machine \in Machines /\ r.msg \in Messages  BY <2>2 DEF Left
  <2>4. /\ queue' \in Seq(Requests)
        /\ Len(queue') <= MaxQueued
        /\ UNCHANGED <<sending, registered, workerAlive>>
    BY <2>1, <2>3, TellPuts
  <2>5. [task[t] EXCEPT !.left = @ \ {r}] \in Tasks  BY <2>2 DEF Tasks, SweepTasks
  <2>6. task' \in [Executors -> Tasks]  BY <2>1, <2>5, RunType
  <2>7. FateAfter(r.machine) \in Fates  BY <2>3 DEF FateAfter, Fates
  <2>8. fate' \in [Machines -> Fates]  BY <2>1, <2>7
  <2> QED  BY <1>7, <2>4, <2>6, <2>8 DEF ReportStale
<1>8. ASSUME NEW t \in Executors, AllReported(t)  PROVE FleetTypeOK'
  <2>1. task[t] \in SweepTasks  BY <1>8, TaskTypes DEF AllReported
  <2>2. [task[t] EXCEPT !.pc = "discovering"] \in Tasks /\ NoTask \in Tasks
    BY <2>1 DEF Tasks, SweepTasks
  <2>3. task' \in [Executors -> Tasks]  BY <1>8, <2>2, RunType DEF AllReported
  <2> QED  BY <1>8, <2>3 DEF AllReported, clientVars
<1>9. ASSUME NEW t \in Executors, Subscribe(t)  PROVE FleetTypeOK'
  BY <1>9 DEF Subscribe, clientVars
<1>10. ASSUME NEW t \in Executors, EndSweep(t)  PROVE FleetTypeOK'
  <2>1. task' \in [Executors -> Tasks]  BY <1>10, RunType DEF EndSweep, Tasks
  <2> QED  BY <1>10, <2>1 DEF EndSweep, clientVars
<1>11. ASSUME TakeNext  PROVE FleetTypeOK'
  <2>1. /\ sending' = Head(queue)
        /\ queue' = Tail(queue)
        /\ queue # <<>>
        /\ UNCHANGED <<registered, workerAlive>>
    BY <1>11 DEF TakeNext, TakeRequest
  <2>2. sending' \in Requests /\ queue' \in Seq(Requests) /\ Len(queue') <= MaxQueued
    BY <2>1, QueueAssumption
  <2> QED  BY <1>11, <2>1, <2>2 DEF TakeNext, fleetVars
<1>12. ASSUME Answered  PROVE FleetTypeOK'
  <2>1. sending \in Requests /\ sending.machine \in RowIds
    BY <1>12 DEF Answered, Requests
  <2>2. machineRows' \in [RowIds -> Rows \cup {NoRow}]
    BY <1>12, <2>1, HandleType DEF Answered
  <2>3. registered' \subseteq RowIds /\ sending' = Idle /\ UNCHANGED <<queue, workerAlive>>
    BY <1>12, <2>1 DEF Answered, SendAnswered
  <2> QED  BY <1>12, <2>2, <2>3 DEF Answered
<1>13. ASSUME Unanswered  PROVE FleetTypeOK'
  <2>1. sending \in Requests  BY <1>13 DEF Unanswered
  <2>2. /\ machineRows' \in [RowIds -> Rows \cup {NoRow}]
        /\ held' \in [Pool -> Requests \cup {Idle}]
    BY <1>13, <2>1, AbandonedType DEF Unanswered
  <2>3. fate' \in [Machines -> Fates]  BY <1>13 DEF Unanswered, ReportFails, Fates
  <2>4. sending' = Idle /\ workerAlive' \in BOOLEAN /\ UNCHANGED <<queue, registered>>
    BY <1>13 DEF Unanswered, SendFailed, SendRaises
  <2> QED  BY <1>13, <2>2, <2>3, <2>4 DEF Unanswered
<1>14. ASSUME NEW w \in Pool, HandleLate(w)  PROVE FleetTypeOK'
  <2>1. held[w] \in Requests  BY <1>14 DEF HandleLate
  <2>2. machineRows' \in [RowIds -> Rows \cup {NoRow}]
    BY <1>14, <2>1, HandleType DEF HandleLate
  <2>3. held' \in [Pool -> Requests \cup {Idle}]  BY <1>14 DEF HandleLate
  <2>4. fate' \in [Machines -> Fates]  BY <1>14 DEF HandleLate, LateFate, Fates
  <2> QED  BY <1>14, <2>2, <2>3, <2>4 DEF HandleLate, clientVars
<1>15. ASSUME AdapterRestarts  PROVE FleetTypeOK'
  <2>1. queue' = <<>> /\ Len(queue') <= MaxQueued  BY <1>15, QueueAssumption DEF AdapterRestarts
  <2>2. /\ machineRows' \in [RowIds -> Rows \cup {NoRow}]
        /\ held' \in [Pool -> Requests \cup {Idle}]
    <3>1. CASE sending = Idle  BY <1>15, <3>1 DEF AdapterRestarts
    <3>2. CASE sending # Idle  BY <1>15, <3>2, AbandonedType DEF AdapterRestarts
    <3> QED  BY <3>1, <3>2
  <2> QED  BY <1>15, <2>1, <2>2 DEF AdapterRestarts, Tasks, Fates
<1> QED
  BY <1>1, <1>2, <1>3, <1>4, <1>5, <1>6, <1>7, <1>8, <1>9, <1>10, <1>11, <1>12, <1>13, <1>14,
     <1>15
     DEF Next, TaskStep, Sweep

-----------------------------------------------------------------------------
(* One report per silence *)

LEMMA RunPending ==
  ASSUME FleetTypeOK, NEW t \in Executors, NEW next \in Tasks, Run(t, next)
  PROVE  /\ \A u \in Executors \ {t} : Pending(u)' = Pending(u)
         /\ next \in {NoTask} \cup HeartbeatTasks => Pending(t)' = {}
         /\ next \in SweepTasks => Pending(t)' = next.left
<1>1. task \in [Executors -> Tasks]  BY DEF FleetTypeOK
<1>2. task' = [task EXCEPT ![t] = next]  BY DEF Run
<1>3. task'[t] = next /\ \A u \in Executors \ {t} : task'[u] = task[u]  BY <1>1, <1>2
<1>4. \A u \in Executors \ {t} : Pending(u)' = Pending(u)  BY <1>3 DEF Pending, At
<1>5. next \in {NoTask} \cup HeartbeatTasks => Pending(t)' = {}
  BY <1>3 DEF Pending, At, HeartbeatTasks
<1>6. next \in SweepTasks => Pending(t)' = next.left
  BY <1>3, NothingAssumption DEF Pending, At, SweepTasks
<1> QED  BY <1>4, <1>5, <1>6

LEMMA PendingType ==
  ASSUME FleetTypeOK, NEW t \in Executors
  PROVE  \A r \in Pending(t) : r.machine \in Machines /\ r.msg \in Messages
BY TaskTypes DEF Pending, Left

\* A step that leaves the records alone, takes on nothing to report and at most
\* loses a report or undoes it.
LEMMA SilenceKept ==
  ASSUME FleetTypeOK, PendingInv, SilenceInv,
         UNCHANGED records,
         \A m \in Machines :
           fate'[m] = fate[m] \/ (fate[m] = "told" /\ fate'[m] \in {"lost", "undone"}),
         \A t \in Executors : Pending(t)' \subseteq Pending(t)
  PROVE  PendingInv' /\ SilenceInv'
<1>1. \A t \in Executors : \A r \in Pending(t) : r.machine \in Machines  BY PendingType
<1>2. \A t \in Executors : \A r \in Pending(t)' :
        /\ records[r.machine] # NoRecord
        /\ records[r.machine].lapsed => records[r.machine].reported_stale
        /\ records[r.machine].reported_stale => fate'[r.machine] = "none"
  BY <1>1 DEF PendingInv
<1>3. \A t, u \in Executors : \A r \in Pending(t)', s \in Pending(u)' :
        r.machine = s.machine => t = u /\ r = s
  BY DEF PendingInv
<1>4. PendingInv'  BY <1>2, <1>3 DEF PendingInv
<1>5. SilenceInv'  BY DEF SilenceInv
<1> QED  BY <1>4, <1>5

LEMMA SilenceStep ==
  ASSUME FleetTypeOK, PendingInv, SilenceInv, Next
  PROVE  PendingInv' /\ SilenceInv'
<1>1. ASSUME NEW topic \in Topics, AirChanges(topic)  PROVE PendingInv' /\ SilenceInv'
  BY <1>1, SilenceKept DEF AirChanges, Pending, At
<1>2. ASSUME NEW topic \in Topics, NEW t \in Executors, Hear(t, topic)
      PROVE  PendingInv' /\ SilenceInv'
  <2>1. [pc |-> "storing", topic |-> topic, msg |-> air[topic]] \in HeartbeatTasks
    BY <1>2 DEF Hear, HeartbeatTasks, FleetTypeOK
  <2>2. \A u \in Executors : Pending(u)' \subseteq Pending(u)
    BY <1>2, <2>1, RunPending DEF Hear, Tasks
  <2> QED  BY <1>2, <2>2, SilenceKept DEF Hear
<1>3. ASSUME NEW m \in Machines, Lapse(m)  PROVE PendingInv' /\ SilenceInv'
  <2>1. /\ records[m] \in MachineRecords
        /\ records' = [records EXCEPT ![m] = [records[m] EXCEPT !.lapsed = TRUE]]
        /\ UNCHANGED <<task, fate>>
    BY <1>3 DEF Lapse, FleetTypeOK
  <2>2. /\ records'[m] \in MachineRecords
        /\ records'[m].reported_stale = records[m].reported_stale
        /\ records'[m].lapsed
        /\ \A n \in Machines \ {m} : records'[n] = records[n]
    BY <2>1 DEF MachineRecords, FleetTypeOK
  <2>3. \A t \in Executors : Pending(t)' = Pending(t)  BY <2>1 DEF Pending, At
  <2>4. \A t \in Executors : \A r \in Pending(t) : r.machine \in Machines \ {m}
    BY <1>3, PendingType, NothingAssumption DEF Lapse, Concerns, Pending, At
  <2>5. PendingInv'
    <3>1. \A t \in Executors : \A r \in Pending(t) : records'[r.machine] = records[r.machine]
      BY <2>2, <2>4
    <3>2. UNCHANGED fate  BY <2>1
    <3> QED  BY <2>3, <3>1, <3>2 DEF PendingInv
  <2>6. SilenceInv'
    BY <2>1, <2>2, NoRecordAssumption DEF SilenceInv
  <2> QED  BY <2>5, <2>6
<1>4. ASSUME NEW t \in Executors, NEW silent \in SUBSET Machines, MarkStale(t, silent)
      PROVE  PendingInv' /\ SilenceInv'
  <2> DEFINE stale == NewlyStale(silent)
             left  == {[machine |-> m, msg |-> records[m].msg] : m \in stale}
             next  == [pc |-> "reporting", left |-> left]
  <2>1. \A m \in stale : m \in Machines /\ records[m] \in MachineRecords
                         /\ records[m].lapsed /\ ~records[m].reported_stale
    BY <1>4 DEF MarkStale, NewlyStale, SilentNow, Heard, FleetTypeOK
  <2>2. \A m \in stale : [machine |-> m, msg |-> records[m].msg] \in Left
    BY <2>1 DEF Left, MachineRecords
  <2>3. left \in SUBSET Left
    <3> HIDE DEF stale
    <3> QED  BY ONLY <2>2
  <2>4. next \in SweepTasks  BY <2>3 DEF SweepTasks, Left
  <2>5. /\ \A u \in Executors \ {t} : Pending(u)' = Pending(u)
        /\ Pending(t)' = left
    BY <1>4, <2>4, RunPending DEF MarkStale, Tasks
  <2>6. /\ \A m \in stale : records'[m] \in MachineRecords
             /\ records'[m].lapsed /\ records'[m].reported_stale
        /\ \A m \in Machines \ stale : records'[m] = records[m]
        /\ UNCHANGED fate
    BY <1>4, <2>1 DEF MarkStale, MachineRecords
  <2>7. \A u \in Executors : \A r \in Pending(u) :
          r.machine \in Machines /\ r.machine \notin stale
    BY <2>1, PendingType DEF PendingInv
  <2>8. \A m \in stale : fate[m] = "none"  BY <2>1 DEF SilenceInv
  <2>9. SilenceInv'
    BY <2>1, <2>6, NoRecordAssumption DEF SilenceInv
  <2>10. \A r \in left : r.machine \in stale /\ r = [machine |-> r.machine, msg |-> records[r.machine].msg]
    OBVIOUS
  <2> HIDE DEF stale, left, next
  <2>11. \A u \in Executors : \A r \in Pending(u)' :
          /\ records'[r.machine] # NoRecord
          /\ records'[r.machine].lapsed => records'[r.machine].reported_stale
          /\ records'[r.machine].reported_stale => fate[r.machine] = "none"
    <3>1. ASSUME NEW u \in Executors \ {t}, NEW r \in Pending(u)'
          PROVE  /\ records'[r.machine] # NoRecord
                 /\ records'[r.machine].lapsed => records'[r.machine].reported_stale
                 /\ records'[r.machine].reported_stale => fate[r.machine] = "none"
      <4>1. r \in Pending(u) /\ records'[r.machine] = records[r.machine]
        BY <2>5, <2>6, <2>7, <3>1
      <4> QED  BY <4>1 DEF PendingInv
    <3>2. ASSUME NEW r \in Pending(t)'
          PROVE  /\ records'[r.machine] # NoRecord
                 /\ records'[r.machine].lapsed => records'[r.machine].reported_stale
                 /\ records'[r.machine].reported_stale => fate[r.machine] = "none"
      BY <2>5, <2>6, <2>8, <2>10, <3>2, NoRecordAssumption
    <3> QED  BY <3>1, <3>2
  <2>12. \A u, v \in Executors : \A r \in Pending(u)', s \in Pending(v)' :
          r.machine = s.machine => u = v /\ r = s
    <3> SUFFICES ASSUME NEW u \in Executors, NEW v \in Executors,
                        NEW r \in Pending(u)', NEW s \in Pending(v)', r.machine = s.machine
                 PROVE  u = v /\ r = s
      OBVIOUS
    <3>1. CASE u = t /\ v = t  BY <2>5, <2>10, <3>1
    <3>2. CASE u # t /\ v # t  BY <2>5, <3>2 DEF PendingInv
    <3>3. CASE u = t /\ v # t  BY <2>5, <2>7, <2>10, <3>3
    <3>4. CASE u # t /\ v = t  BY <2>5, <2>7, <2>10, <3>4
    <3> QED  BY <3>1, <3>2, <3>3, <3>4
  <2> QED  BY <2>6, <2>9, <2>11, <2>12 DEF PendingInv
<1>5. ASSUME NEW t \in Executors, Store(t)  PROVE PendingInv' /\ SilenceInv'
  <2> DEFINE m == KeyOf(task[t].topic, task[t].msg)
  <2>1. m \in Machines /\ task[t] \in HeartbeatTasks /\ task[t].msg \in Messages
    BY <1>5, TaskTypes DEF Store
  <2>2. /\ records' = [records EXCEPT ![m] = Stored(task[t].msg, records[m])]
        /\ fate' = [fate EXCEPT ![m] = "none"]
        /\ Run(t, [task[t] EXCEPT !.pc = "pushing"])
    BY <1>5 DEF Store
  <2>3. [task[t] EXCEPT !.pc = "pushing"] \in HeartbeatTasks  BY <2>1 DEF HeartbeatTasks
  <2>4. \A u \in Executors : Pending(u)' \subseteq Pending(u)
    BY <2>2, <2>3, RunPending DEF Tasks
  <2> HIDE DEF m
  <2>5. /\ records'[m] \in MachineRecords
        /\ ~records'[m].lapsed /\ ~records'[m].reported_stale
        /\ fate'[m] = "none"
        /\ \A n \in Machines \ {m} : records'[n] = records[n] /\ fate'[n] = fate[n]
    BY <2>1, <2>2, StoredType DEF Stored, FleetTypeOK
  <2>6. \A u \in Executors : \A r \in Pending(u) :
          /\ records'[r.machine] # NoRecord
          /\ records'[r.machine].lapsed => records'[r.machine].reported_stale
          /\ records'[r.machine].reported_stale => fate'[r.machine] = "none"
    BY <2>5, PendingType, NoRecordAssumption DEF PendingInv
  <2>7. PendingInv'  BY <2>4, <2>6 DEF PendingInv
  <2>8. SilenceInv'  BY <2>1, <2>5 DEF SilenceInv
  <2> QED  BY <2>7, <2>8
<1>6. ASSUME NEW t \in Executors, PushHeartbeat(t)  PROVE PendingInv' /\ SilenceInv'
  <2>1. \A u \in Executors : Pending(u)' \subseteq Pending(u)
    BY <1>6, RunPending DEF PushHeartbeat, Tasks
  <2> QED  BY <1>6, <2>1, SilenceKept DEF PushHeartbeat
<1>7. ASSUME NEW t \in Executors, ReportStale(t)  PROVE PendingInv' /\ SilenceInv'
  <2>1. PICK r \in task[t].left :
          /\ fate' = [fate EXCEPT ![r.machine] = FateAfter(r.machine)]
          /\ Run(t, [task[t] EXCEPT !.left = @ \ {r}])
    BY <1>7 DEF ReportStale
  <2>2. /\ task[t] \in SweepTasks
        /\ r \in Pending(t)
        /\ Pending(t) = task[t].left
        /\ UNCHANGED records
    BY <1>7, <2>1, TaskTypes DEF ReportStale, Pending
  <2>3. /\ [task[t] EXCEPT !.left = @ \ {r}] \in SweepTasks
        /\ [task[t] EXCEPT !.left = @ \ {r}].left = Pending(t) \ {r}
    BY <2>2 DEF SweepTasks
  <2>4. /\ Pending(t)' = Pending(t) \ {r}
        /\ \A u \in Executors \ {t} : Pending(u)' = Pending(u)
    BY <2>1, <2>3, RunPending DEF Tasks
  <2>5. \A u \in Executors : \A s \in Pending(u)' : s \in Pending(u) /\ s.machine # r.machine
    BY <2>2, <2>4 DEF PendingInv
  <2>6. r.machine \in Machines /\ \A u \in Executors : \A s \in Pending(u) : s.machine \in Machines
    BY <2>2, PendingType
  <2>7. /\ \A n \in Machines \ {r.machine} : fate'[n] = fate[n]
        /\ fate'[r.machine] = FateAfter(r.machine)
    BY <2>1, <2>6 DEF FleetTypeOK
  <2>8. PendingInv'
    <3>1. \A u \in Executors : \A s \in Pending(u)' :
            s \in Pending(u) /\ fate'[s.machine] = fate[s.machine]
      BY <2>5, <2>6, <2>7
    <3> QED  BY <2>2, <3>1 DEF PendingInv
  <2>9. /\ records[r.machine] # NoRecord
        /\ records[r.machine].reported_stale => fate[r.machine] = "none"
    BY <2>2 DEF PendingInv
  <2>10. /\ FateAfter(r.machine) # "repeated"
         /\ FateAfter(r.machine) # "none" => records[r.machine].reported_stale
    <3>1. CASE ~records[r.machine].reported_stale
      <4>1. FateAfter(r.machine) = fate[r.machine]  BY <3>1 DEF FateAfter
      <4> QED  BY <2>6, <3>1, <4>1 DEF SilenceInv
    <3>2. CASE records[r.machine].reported_stale
      <4>1. FateAfter(r.machine) \in {"lost", "told"}  BY <2>9, <3>2 DEF FateAfter
      <4> QED  BY <3>2, <4>1
    <3> QED  BY <3>1, <3>2
  <2>11. SilenceInv'  BY <2>2, <2>6, <2>7, <2>9, <2>10 DEF SilenceInv
  <2> QED  BY <2>8, <2>11
<1>8. ASSUME NEW t \in Executors, AllReported(t)  PROVE PendingInv' /\ SilenceInv'
  <2>1. task[t] \in SweepTasks /\ Pending(t) = task[t].left
    BY <1>8, TaskTypes DEF AllReported, Pending
  <2>2. [task[t] EXCEPT !.pc = "discovering"] \in SweepTasks
        /\ [task[t] EXCEPT !.pc = "discovering"].left = task[t].left
    BY <2>1 DEF SweepTasks
  <2>3. \A u \in Executors : Pending(u)' \subseteq Pending(u)
    BY <1>8, <2>1, <2>2, RunPending DEF AllReported, Tasks
  <2> QED  BY <1>8, <2>3, SilenceKept DEF AllReported
<1>9. ASSUME NEW t \in Executors, Subscribe(t)  PROVE PendingInv' /\ SilenceInv'
  BY <1>9, SilenceKept DEF Subscribe, Pending, At
<1>10. ASSUME NEW t \in Executors, EndSweep(t)  PROVE PendingInv' /\ SilenceInv'
  <2>1. \A u \in Executors : Pending(u)' \subseteq Pending(u)
    BY <1>10, RunPending DEF EndSweep, Tasks
  <2> QED  BY <1>10, <2>1, SilenceKept DEF EndSweep
<1>11. ASSUME TakeNext \/ Answered  PROVE PendingInv' /\ SilenceInv'
  BY <1>11, SilenceKept DEF TakeNext, Answered, fleetVars, Pending, At
<1>12. ASSUME Unanswered  PROVE PendingInv' /\ SilenceInv'
  BY <1>12, SilenceKept DEF Unanswered, ReportFails, Pending, At
<1>13. ASSUME NEW w \in Pool, HandleLate(w)  PROVE PendingInv' /\ SilenceInv'
  BY <1>13, SilenceKept DEF HandleLate, LateFate, Pending, At
<1>14. ASSUME AdapterRestarts  PROVE PendingInv' /\ SilenceInv'
  <2>1. \A t \in Executors : Pending(t)' = {}  BY <1>14 DEF AdapterRestarts, Pending, At
  <2> QED  BY <1>14, <2>1 DEF AdapterRestarts, PendingInv, SilenceInv
<1> QED
  BY <1>1, <1>2, <1>3, <1>4, <1>5, <1>6, <1>7, <1>8, <1>9, <1>10, <1>11, <1>12, <1>13, <1>14
     DEF Next, TaskStep, Sweep

-----------------------------------------------------------------------------
(* Whoever was heard has an action client *)

\* A step that subscribes to no less, hears no machine for the first time and
\* starts no heartbeat.
LEMMA VoiceKept ==
  ASSUME FleetTypeOK, VoiceInv,
         clients' = subscribed', subscribed \subseteq subscribed',
         \A m \in Machines : records'[m] # NoRecord => records[m] # NoRecord,
         \A t \in Executors : task'[t] = task[t] \/ (~At(t, "storing")' /\ ~At(t, "pushing")')
  PROVE  VoiceInv'
<1>1. \A t \in Executors : At(t, "storing")' \/ At(t, "pushing")' =>
        task'[t].topic \in subscribed' /\ task'[t].msg \in Says[task'[t].topic]
  BY DEF VoiceInv, At
<1>2. \A m \in Machines : records'[m] # NoRecord =>
        \E topic \in subscribed' : \E msg \in Says[topic] : KeyOf(topic, msg) = m
  BY DEF VoiceInv
<1> QED  BY <1>1, <1>2 DEF VoiceInv

LEMMA VoiceStep ==
  ASSUME FleetTypeOK, VoiceInv, Next
  PROVE  VoiceInv'
<1>0. task \in [Executors -> Tasks]  BY DEF FleetTypeOK
<1>1. ASSUME NEW topic \in Topics, AirChanges(topic)  PROVE VoiceInv'
  BY <1>1, VoiceKept DEF AirChanges, VoiceInv
<1>2. ASSUME NEW topic \in Topics, NEW t \in Executors, Hear(t, topic)  PROVE VoiceInv'
  <2>1. /\ task' = [task EXCEPT ![t] = [pc |-> "storing", topic |-> topic, msg |-> air[topic]]]
        /\ topic \in subscribed /\ air[topic] \in Says[topic]
        /\ UNCHANGED <<records, subscribed, clients>>
    BY <1>2 DEF Hear, Run, FleetTypeOK
  <2>2. task'[t].topic = topic /\ task'[t].msg = air[topic]
        /\ \A u \in Executors \ {t} : task'[u] = task[u]
    BY <1>0, <2>1
  <2>3. \A u \in Executors : At(u, "storing")' \/ At(u, "pushing")' =>
          task'[u].topic \in subscribed /\ task'[u].msg \in Says[task'[u].topic]
    BY <2>1, <2>2 DEF VoiceInv, At
  <2> QED  BY <2>1, <2>3 DEF VoiceInv
<1>3. ASSUME NEW m \in Machines, Lapse(m)  PROVE VoiceInv'
  <2>1. \A n \in Machines : records'[n] # NoRecord => records[n] # NoRecord
    BY <1>3 DEF Lapse, FleetTypeOK
  <2> QED  BY <1>3, <2>1, VoiceKept DEF Lapse, VoiceInv
<1>4. ASSUME NEW t \in Executors, NEW silent \in SUBSET Machines, MarkStale(t, silent)
      PROVE  VoiceInv'
  <2>1. \A n \in Machines : records'[n] # NoRecord => records[n] # NoRecord
    BY <1>4 DEF MarkStale, NewlyStale, SilentNow, Heard
  <2>2. \A u \in Executors : task'[u] = task[u] \/ (~At(u, "storing")' /\ ~At(u, "pushing")')
    BY <1>0, <1>4 DEF MarkStale, Run, At
  <2> QED  BY <1>4, <2>1, <2>2, VoiceKept DEF MarkStale, VoiceInv
<1>5. ASSUME NEW t \in Executors, Store(t)  PROVE VoiceInv'
  <2> DEFINE m == KeyOf(task[t].topic, task[t].msg)
  <2>1. m \in Machines /\ task[t] \in HeartbeatTasks
    BY <1>5, TaskTypes DEF Store
  <2>2. /\ records' = [records EXCEPT ![m] = Stored(task[t].msg, records[m])]
        /\ task' = [task EXCEPT ![t] = [task[t] EXCEPT !.pc = "pushing"]]
        /\ UNCHANGED <<subscribed, clients>>
    BY <1>5 DEF Store, Run
  <2>3. task[t].topic \in subscribed /\ task[t].msg \in Says[task[t].topic]
    BY <1>5 DEF Store, VoiceInv
  <2>4. /\ task'[t].topic = task[t].topic /\ task'[t].msg = task[t].msg
        /\ \A u \in Executors \ {t} : task'[u] = task[u]
    BY <1>0, <2>1, <2>2 DEF HeartbeatTasks
  <2>5. \A u \in Executors : At(u, "storing")' \/ At(u, "pushing")' =>
          task'[u].topic \in subscribed /\ task'[u].msg \in Says[task'[u].topic]
    BY <2>3, <2>4 DEF VoiceInv, At
  <2>6. \E topic \in subscribed : \E msg \in Says[topic] : KeyOf(topic, msg) = m  BY <2>3
  <2>7. \A n \in Machines \ {m} : records'[n] = records[n]  BY <2>1, <2>2 DEF FleetTypeOK
  <2> HIDE DEF m
  <2>8. \A n \in Machines : records'[n] # NoRecord =>
          \E topic \in subscribed : \E msg \in Says[topic] : KeyOf(topic, msg) = n
    BY <2>6, <2>7 DEF VoiceInv
  <2> QED  BY <2>2, <2>5, <2>8 DEF VoiceInv
<1>6. ASSUME NEW t \in Executors, PushHeartbeat(t) \/ EndSweep(t)  PROVE VoiceInv'
  <2>1. \A u \in Executors : task'[u] = task[u] \/ (~At(u, "storing")' /\ ~At(u, "pushing")')
    BY <1>0, <1>6 DEF PushHeartbeat, EndSweep, Run, At
  <2> QED  BY <1>6, <2>1, VoiceKept DEF PushHeartbeat, EndSweep, VoiceInv
<1>7. ASSUME NEW t \in Executors, ReportStale(t)  PROVE VoiceInv'
  <2>1. PICK r \in task[t].left : Run(t, [task[t] EXCEPT !.left = @ \ {r}])
    BY <1>7 DEF ReportStale
  <2>2. task[t] \in SweepTasks /\ task[t].pc = "reporting"
    BY <1>7, TaskTypes DEF ReportStale, At
  <2>3. [task[t] EXCEPT !.left = @ \ {r}].pc = "reporting"  BY <2>2 DEF SweepTasks
  <2>4. \A u \in Executors : task'[u] = task[u] \/ (~At(u, "storing")' /\ ~At(u, "pushing")')
    BY <1>0, <2>1, <2>3 DEF Run, At
  <2> QED  BY <1>7, <2>4, VoiceKept DEF ReportStale, VoiceInv
<1>8. ASSUME NEW t \in Executors, AllReported(t)  PROVE VoiceInv'
  <2>1. task[t] \in SweepTasks  BY <1>8, TaskTypes DEF AllReported
  <2>2. [task[t] EXCEPT !.pc = "discovering"].pc = "discovering"  BY <2>1 DEF SweepTasks
  <2>3. \A u \in Executors : task'[u] = task[u] \/ (~At(u, "storing")' /\ ~At(u, "pushing")')
    BY <1>0, <1>8, <2>2 DEF AllReported, Run, At
  <2> QED  BY <1>8, <2>3, VoiceKept DEF AllReported, VoiceInv
<1>9. ASSUME NEW t \in Executors, Subscribe(t)  PROVE VoiceInv'
  <2>1. clients' = subscribed' /\ subscribed \subseteq subscribed'
    BY <1>9 DEF Subscribe, VoiceInv
  <2> QED  BY <1>9, <2>1, VoiceKept DEF Subscribe
<1>10. ASSUME TakeNext \/ Answered \/ Unanswered \/ \E w \in Pool : HandleLate(w)
       PROVE  VoiceInv'
  BY <1>10, VoiceKept DEF TakeNext, Answered, Unanswered, HandleLate, fleetVars, VoiceInv
<1>11. ASSUME AdapterRestarts  PROVE VoiceInv'
  BY <1>11 DEF AdapterRestarts, VoiceInv, At
<1> QED
  BY <1>1, <1>2, <1>3, <1>4, <1>5, <1>6, <1>7, <1>8, <1>9, <1>10, <1>11
     DEF Next, TaskStep, Sweep

-----------------------------------------------------------------------------
(* A PATCH finds a row *)

\* A step that keeps every row and puts into the queue, if anything, a
\* registration or the PATCH of a machine that is registered.
LEMMA RowsKept ==
  ASSUME FleetTypeOK, RowInv,
         UNCHANGED <<osVars, registered, sending>>,
         \A n \in 1 .. Len(queue') :
           \/ n \in 1 .. Len(queue) /\ queue'[n] = queue[n]
           \/ queue'[n].kind = "patch" => queue'[n].machine \in registered
  PROVE  RowInv'
<1>1. registered \subseteq RowIds  BY DEF FleetTypeOK
<1>2. \A n \in 1 .. Len(queue') : queue'[n].kind = "patch" => machineRows[queue'[n].machine] # NoRow
  BY <1>1 DEF RowInv, RowsAreRegistered, PatchFindsRow
<1> QED  BY <1>2 DEF RowInv, RowsAreRegistered, PatchFindsRow, osVars

\* No row goes, and each is known.
RowsStand ==
  \A m \in RowIds :
    /\ machineRows[m] # NoRow => machineRows'[m] # NoRow
    /\ machineRows'[m] # NoRow => machineRows'[m].known

LEMMA HandledRows ==
  ASSUME FleetTypeOK, RowsAreRegistered,
         NEW request \in Requests, PatchFindsRow(request), Handle(request)
  PROVE  RowsStand /\ machineRows'[request.machine] # NoRow
<1>1. /\ request.machine \in RowIds
      /\ request.kind \in {"register", "patch"}
      /\ request.body \in Descriptors
  BY DEF Requests
<1>2. /\ RowAfter(request) \in Rows
      /\ machineRows'[request.machine] = RowAfter(request)
      /\ \A m \in RowIds \ {request.machine} : machineRows'[m] = machineRows[m]
  BY RowAfterType, HandleType
<1>3. RowAfter(request).known
  <2>1. CASE request.kind = "register"
    BY <1>1, <2>1 DEF RowAfter, FromDescriptor
  <2>2. CASE request.kind = "patch"
    <3>1. machineRows[request.machine] \in Rows /\ machineRows[request.machine].known
      BY <1>1, <2>2 DEF PatchFindsRow, RowsAreRegistered, FleetTypeOK
    <3>2. RowAfter(request) = Patched(machineRows[request.machine], request.body)
      BY <2>2, <3>1, NothingAssumption DEF RowAfter
    <3> QED  BY <3>1, <3>2 DEF Patched, Rows
  <2> QED  BY <1>1, <2>1, <2>2
<1> QED  BY <1>1, <1>2, <1>3, NothingAssumption DEF RowsStand, RowsAreRegistered

\* Whoever still holds a request finds the row it found.
LEMMA HeldRows ==
  ASSUME FleetTypeOK, RowInv, RowsStand,
         NEW w \in Pool, held[w] # Idle
  PROVE  held[w].kind = "patch" => machineRows'[held[w].machine] # NoRow
<1>1. held[w] \in Requests /\ held[w].machine \in RowIds
  BY DEF FleetTypeOK, Requests
<1> QED  BY <1>1 DEF RowInv, RowsStand, PatchFindsRow

LEMMA AbandonedRows ==
  ASSUME FleetTypeOK, RowInv,
         NEW request \in Requests, PatchFindsRow(request), Abandoned(request)
  PROVE  /\ RowsStand
         /\ \A w \in Pool : held'[w] # Idle =>
              (held'[w].kind = "patch" => machineRows'[held'[w].machine] # NoRow)
<1>1. RowsAreRegistered  BY DEF RowInv
<1>2. CASE Handle(request) /\ UNCHANGED held
  BY <1>1, <1>2, HandledRows, HeldRows
<1>3. CASE UNCHANGED osVars
  <2>1. RowsStand  BY <1>1, <1>3 DEF RowsStand, RowsAreRegistered, osVars
  <2> QED  BY <1>3, <2>1, HeldRows DEF osVars
<1>4. CASE /\ \E w \in Pool : held[w] = Idle /\ held' = [held EXCEPT ![w] = request]
           /\ UNCHANGED machineRows
  <2>1. RowsStand  BY <1>1, <1>4 DEF RowsStand, RowsAreRegistered
  <2>2. \A w \in Pool : held'[w] \in {held[w], request}  BY <1>4 DEF FleetTypeOK
  <2>3. request.kind = "patch" => machineRows'[request.machine] # NoRow
    BY <1>4 DEF PatchFindsRow
  <2> QED  BY <2>1, <2>2, <2>3, HeldRows
<1> QED  BY <1>2, <1>3, <1>4 DEF Abandoned

LEMMA QueuedType ==
  ASSUME FleetTypeOK
  PROVE  \A n \in 1 .. Len(queue) : queue[n].machine \in RowIds
<1>1. \A n \in 1 .. Len(queue) : queue[n] \in Requests  BY DEF FleetTypeOK
<1>2. \A request \in Requests : request.machine \in RowIds  BY DEF Requests
<1> QED  BY <1>1, <1>2

LEMMA RowStep ==
  ASSUME FleetTypeOK, RowInv, Next
  PROVE  RowInv'
<1>1. ASSUME UNCHANGED <<osVars, clientVars>>  PROVE RowInv'
  BY <1>1, RowsKept DEF clientVars
<1>2. ASSUME NEW t \in Executors, PushHeartbeat(t)  PROVE RowInv'
  <2>1. task[t].msg \in Messages /\ KeyOf(task[t].topic, task[t].msg) \in Machines
    BY <1>2, TaskTypes DEF PushHeartbeat
  <2>2. /\ \A n \in 1 .. Len(queue') :
             \/ n \in 1 .. Len(queue) /\ queue'[n] = queue[n]
             \/ queue'[n].kind = "patch" => queue'[n].machine \in registered
        /\ UNCHANGED <<sending, registered, workerAlive>>
    BY <1>2, <2>1, TellPuts DEF PushHeartbeat
  <2> QED  BY <1>2, <2>2, RowsKept DEF PushHeartbeat
<1>3. ASSUME NEW t \in Executors, ReportStale(t)  PROVE RowInv'
  <2>1. PICK r \in task[t].left : Tell(r.machine, Descriptor(r.msg, TRUE))
    BY <1>3 DEF ReportStale
  <2>2. r.machine \in Machines /\ r.msg \in Messages
    BY <1>3, TaskTypes DEF ReportStale, Left
  <2>3. /\ \A n \in 1 .. Len(queue') :
             \/ n \in 1 .. Len(queue) /\ queue'[n] = queue[n]
             \/ queue'[n].kind = "patch" => queue'[n].machine \in registered
        /\ UNCHANGED <<sending, registered, workerAlive>>
    BY <2>1, <2>2, TellPuts
  <2> QED  BY <1>3, <2>3, RowsKept DEF ReportStale
<1>4. ASSUME TakeNext  PROVE RowInv'
  <2>1. /\ queue \in Seq(Requests) /\ queue # <<>>
        /\ sending' = Head(queue) /\ queue' = Tail(queue)
        /\ UNCHANGED <<machineRows, held, registered>>
    BY <1>4 DEF TakeNext, TakeRequest, FleetTypeOK, fleetVars, osVars
  <2>2. sending' = queue[1] /\ Len(queue) > 0 /\ Len(queue') = Len(queue) - 1
        /\ \A n \in 1 .. Len(queue') : queue'[n] = queue[n + 1]
    BY <2>1
  <2>3. /\ sending'.kind = "patch" => machineRows[sending'.machine] # NoRow
        /\ \A n \in 1 .. Len(queue') :
             queue'[n].kind = "patch" => machineRows[queue'[n].machine] # NoRow
    BY <2>1, <2>2 DEF RowInv, PatchFindsRow
  <2> QED  BY <2>1, <2>3 DEF RowInv, RowsAreRegistered, PatchFindsRow
<1>5. \A n \in 1 .. Len(queue) : queue[n].machine \in RowIds  BY QueuedType
<1>6. ASSUME Answered  PROVE RowInv'
  <2>1. /\ sending # Idle /\ sending \in Requests
        /\ Handle(sending)
        /\ registered' \subseteq registered \cup {sending.machine}
        /\ sending' = Idle /\ UNCHANGED <<queue, held>>
    BY <1>6 DEF Answered, SendAnswered, FleetTypeOK
  <2>2. RowsStand /\ machineRows'[sending.machine] # NoRow
    BY <2>1, HandledRows DEF RowInv
  <2>3. RowsAreRegistered'  BY <2>1, <2>2 DEF RowInv, RowsAreRegistered, RowsStand
  <2>4. \A n \in 1 .. Len(queue) : PatchFindsRow(queue[n])'
    BY <1>5, <2>1, <2>2 DEF RowInv, PatchFindsRow, RowsStand
  <2>5. \A w \in Pool : held[w] # Idle => PatchFindsRow(held[w])'
    BY <2>1, <2>2, HeldRows DEF PatchFindsRow
  <2> QED  BY <2>1, <2>3, <2>4, <2>5 DEF RowInv, PatchFindsRow
<1>7. ASSUME Unanswered \/ (AdapterRestarts /\ sending # Idle)  PROVE RowInv'
  <2>1. /\ sending # Idle /\ sending \in Requests /\ PatchFindsRow(sending)
        /\ Abandoned(sending)
        /\ sending' = Idle
        /\ registered' \subseteq registered
        /\ queue' = queue \/ queue' = <<>>
    BY <1>7 DEF Unanswered, AdapterRestarts, SendFailed, SendRaises, FleetTypeOK, RowInv
  <2>2. /\ RowsStand
        /\ \A w \in Pool : held'[w] # Idle => PatchFindsRow(held[w])'
    BY <2>1, AbandonedRows DEF PatchFindsRow
  <2>3. RowsAreRegistered'  BY <2>1, <2>2 DEF RowInv, RowsAreRegistered, RowsStand
  <2>4. \A n \in 1 .. Len(queue') : PatchFindsRow(queue[n])'
    BY <1>5, <2>1, <2>2 DEF RowInv, PatchFindsRow, RowsStand
  <2> QED  BY <2>1, <2>2, <2>3, <2>4 DEF RowInv
<1>a. ASSUME NEW w \in Pool, HandleLate(w)  PROVE RowInv'
  <2>1. /\ held[w] \in Requests /\ PatchFindsRow(held[w])
        /\ Handle(held[w])
        /\ held' = [held EXCEPT ![w] = Idle]
        /\ UNCHANGED clientVars
    BY <1>a DEF HandleLate, FleetTypeOK, RowInv
  <2>2. RowsStand  BY <2>1, HandledRows DEF RowInv
  <2>3. RowsAreRegistered'  BY <2>1, <2>2 DEF RowInv, RowsAreRegistered, RowsStand, clientVars
  <2>4. \A n \in 1 .. Len(queue) : PatchFindsRow(queue[n])'
    BY <1>5, <2>1, <2>2 DEF RowInv, PatchFindsRow, RowsStand, clientVars
  <2>5. ASSUME sending # Idle  PROVE PatchFindsRow(sending)'
    <3>1. sending.machine \in RowIds  BY <2>5 DEF FleetTypeOK, Requests
    <3> QED  BY <2>1, <2>2, <2>5, <3>1 DEF RowInv, PatchFindsRow, RowsStand, clientVars
  <2>6. \A u \in Pool : held'[u] # Idle => held'[u] = held[u]
    BY <2>1 DEF FleetTypeOK
  <2>7. \A u \in Pool : held'[u] # Idle => PatchFindsRow(held[u])'
    BY <2>2, <2>6, HeldRows DEF PatchFindsRow
  <2> QED  BY <2>1, <2>3, <2>4, <2>5, <2>7 DEF RowInv, clientVars
<1>b. ASSUME AdapterRestarts, sending = Idle  PROVE RowInv'
  BY <1>b DEF AdapterRestarts, RowInv, RowsAreRegistered, PatchFindsRow, osVars
<1>8. ASSUME NEW topic \in Topics, AirChanges(topic) \/ \E t \in Executors : Hear(t, topic)
      PROVE  RowInv'
  BY <1>1, <1>8 DEF AirChanges, Hear
<1>9. ASSUME NEW m \in Machines, Lapse(m)  PROVE RowInv'
  BY <1>1, <1>9 DEF Lapse
<1>10. ASSUME NEW t \in Executors,
              Sweep(t) \/ Store(t) \/ AllReported(t) \/ Subscribe(t) \/ EndSweep(t)
       PROVE  RowInv'
  BY <1>1, <1>10 DEF Sweep, MarkStale, Store, AllReported, Subscribe, EndSweep
<1> QED
  BY <1>2, <1>3, <1>4, <1>6, <1>7, <1>8, <1>9, <1>10, <1>a, <1>b DEF Next, TaskStep

-----------------------------------------------------------------------------
(* The theorems *)

LEMMA FleetInvInit == Init => FleetInv
<1> SUFFICES ASSUME Init PROVE FleetInv  OBVIOUS
<1> USE DEF Init, FleetInit, ClientInit
<1>1. FleetTypeOK
  <2>1. queue \in Seq(Requests) /\ Len(queue) <= MaxQueued  BY QueueAssumption
  <2> QED  BY <2>1 DEF FleetTypeOK, Tasks, Fates
<1>2. \A t \in Executors : Pending(t) = {}  BY DEF Pending, At
<1>3. PendingInv /\ SilenceInv  BY <1>2 DEF PendingInv, SilenceInv
<1>4. VoiceInv  BY DEF VoiceInv, At
<1>5. RowInv  BY DEF RowInv, RowsAreRegistered
<1> QED  BY <1>1, <1>3, <1>4, <1>5 DEF FleetInv

LEMMA FleetInvStep == FleetInv /\ [Next]_vars => FleetInv'
<1> SUFFICES ASSUME FleetInv, [Next]_vars PROVE FleetInv'  OBVIOUS
<1>1. CASE Next
  BY <1>1, TypeStep, SilenceStep, VoiceStep, RowStep DEF FleetInv
<1>2. CASE UNCHANGED vars
  <2> USE <1>2 DEF vars, fleetVars, osVars, clientVars, FleetInv
  <2>1. FleetTypeOK'  BY DEF FleetTypeOK
  <2>2. PendingInv' /\ SilenceInv'  BY SilenceKept DEF Pending, At
  <2>3. VoiceInv'  BY VoiceKept DEF VoiceInv
  <2>4. RowInv'  BY RowsKept
  <2> QED  BY <2>1, <2>2, <2>3, <2>4
<1> QED  BY <1>1, <1>2

THEOREM FleetInvariance == SafeSpec => []FleetInv
BY FleetInvInit, FleetInvStep, PTL DEF SafeSpec

\* Every variable stays in its domain, and the queue of the outbound client
\* within its bound, whoever puts into it.
THEOREM FleetTypeCorrect == SafeSpec => []FleetTypeOK
<1>1. FleetInv => FleetTypeOK  BY DEF FleetInv
<1> QED  BY <1>1, FleetInvariance, PTL

\* A machine that falls silent is reported once, for any number of sweeps and
\* heartbeats at a time.
THEOREM ReportedOncePerSilence == SafeSpec => []OneReportPerSilence
<1>1. FleetInv => OneReportPerSilence  BY DEF FleetInv, SilenceInv, OneReportPerSilence
<1> QED  BY <1>1, FleetInvariance, PTL

\* A machine that was marked as silent, or that a GET shows CONNECTION_BROKEN by a
\* clock read at any time, gets no mission; and a GET that reads the clock after
\* the mark shows it.
THEOREM SilentGetNoMission == SafeSpec => []SilenceIsHeeded
<1>1. FleetInv => SilenceIsHeeded
  <2> SUFFICES ASSUME FleetInv, NEW m \in Machines
               PROVE  /\ m \in Heard(records) =>
                           /\ records[m].reported_stale =>
                                ShownConnection(records[m], records[m].lapsed) = "CONNECTION_BROKEN"
                           /\ records[m].reported_stale \/ MayShowBroken(m) =>
                                \A wanted \in Capabilities : SelectMachine(records, wanted) # m
                      /\ fate[m] # "none" => m \in Heard(records) /\ records[m].reported_stale
    BY DEF SilenceIsHeeded
  <2>1. records \in Fleets  BY DEF FleetInv, FleetTypeOK, Fleets
  <2>2. m \in Heard(records) /\ records[m].reported_stale => records[m].lapsed
    BY DEF FleetInv, SilenceInv, Heard
  <2>3. MayShowBroken(m) => records[m].lapsed \/ records[m].msg.connection # "ONLINE"
    BY DEF MayShowBroken, MayJudge, ShownConnection
  <2>4. records[m].lapsed \/ records[m].msg.connection # "ONLINE" =>
          \A wanted \in Capabilities : SelectMachine(records, wanted) # m
    BY <2>1, SelectionIsFit
  <2> QED  BY <2>2, <2>3, <2>4 DEF FleetInv, SilenceInv, Heard, ShownConnection
<1> QED  BY <1>1, FleetInvariance, PTL

\* dispatch_mission finds no action client for the machine it has selected (503
\* action_client_not_ready) only when the machine was heard on a topic of another
\* id: never because discovery is under way, since whoever was heard was heard on
\* a topic whose client was made with its subscription.
THEOREM MissingClientSpokeElsewhere ==
  SafeSpec =>
    [](\A wanted \in Capabilities :
         LET m == SelectMachine(records, wanted)
         IN  m \in Machines \ clients =>
               \E topic \in subscribed \ {m} : \E msg \in Says[topic] : msg.id = m)
<1>1. ASSUME FleetInv, NEW wanted \in Capabilities,
             SelectMachine(records, wanted) \in Machines \ clients
      PROVE  \E topic \in subscribed \ {SelectMachine(records, wanted)} :
               \E msg \in Says[topic] : msg.id = SelectMachine(records, wanted)
  <2> DEFINE m == SelectMachine(records, wanted)
  <2>1. records \in Fleets  BY <1>1 DEF FleetInv, FleetTypeOK, Fleets
  <2>2. m \in Machines /\ m \notin clients  BY <1>1
  <2>3. records[m] # NoRecord  BY <2>1, <2>2, SelectionIsFit
  <2> HIDE DEF m
  <2>3a. \E topic \in subscribed : \E msg \in Says[topic] : KeyOf(topic, msg) = m
    BY <1>1, <2>2, <2>3 DEF FleetInv, VoiceInv
  <2>3b. PICK topic \in subscribed : \E msg \in Says[topic] : KeyOf(topic, msg) = m
    BY <2>3a
  <2>4. PICK msg \in Says[topic] : KeyOf(topic, msg) = m
    BY <2>3b
  <2>5. topic # m  BY <1>1, <2>2, <2>4 DEF FleetInv, VoiceInv
  <2>6. msg.id = m  BY <2>4, <2>5 DEF KeyOf
  <2> QED  BY <2>4, <2>5, <2>6 DEF m
<1>2. FleetInv =>
        \A wanted \in Capabilities :
          LET m == SelectMachine(records, wanted)
          IN  m \in Machines \ clients =>
                \E topic \in subscribed \ {m} : \E msg \in Says[topic] : msg.id = m
  BY <1>1
<1> QED  BY <1>2, FleetInvariance, PTL

\* The OS Core holds no machine of unknown type, and every one the adapter takes
\* to be registered.
THEOREM RegisteredHaveRows == SafeSpec => []RowsAreRegistered
<1>1. FleetInv => RowsAreRegistered  BY DEF FleetInv, RowInv
<1> QED  BY <1>1, FleetInvariance, PTL
=============================================================================
