----------------------------- MODULE PathProofs -----------------------------
(***************************************************************************)
(* The safety of a mission's way through the system, for any missions,     *)
(* machines, pool threads and queue size, whatever is lost, whichever      *)
(* statement fails and whenever the adapter or the OS Core is restarted,   *)
(* if every call has a mission id of its own.                              *)
(***************************************************************************)
EXTENDS MissionPathProperties, TLAPS

\* (As in DispatchProperties; dispatch_duplicate shows what happens otherwise.)
OwnIds == \A c, d \in Calls : IdOf[c] = IdOf[d] => c = d

-----------------------------------------------------------------------------
(* The inductive invariant *)

FailedGoals == {"aborted", "canceled", "raised"}
Dispatched  == {"accepted"} \cup GoalEnds

\* A goal as the adapter knows it: it has ended when its result is in the record.
Reported(result) == result \in {"reporting", "done"}
HeardOf(g, result) == IF g \in GoalEnds /\ ~Reported(result) THEN "accepted" ELSE g
heard == [c \in Calls |-> HeardOf(goal[c], onResult[c])]

\* What may be said of a goal that is g by now; it may be said ever after.
Truly(g, status) ==
  /\ g \in Dispatched
  /\ status = "COMPLETED" => g = "succeeded"
  /\ status = "EXCEPTION" => g \in FailedGoals

\* A report tells the truth of a call's goal, a PATCH is for a known machine.
Sound(goals, machines, request) ==
  /\ request.kind = "report" =>
       \E c \in Calls : IdOf[c] = request.id /\ Truly(goals[c], request.status)
  /\ request.kind = "patch" => machines[request.machine] = "known"

RequestInv ==
  /\ \A n \in 1 .. Len(queue) : Sound(heard, machineRows, queue[n])
  /\ sending # Idle => Sound(heard, machineRows, sending)
  /\ \A t \in Threads : thread[t] # Free => Sound(heard, machineRows, thread[t].request)

\* A goal is not sent before its call waits for it, and a callback is about a
\* goal that was accepted.
CallOK(pc, r, g, fs, result) ==
  /\ pc \notin {"waiting", "done"} => g = "unsent"
  /\ pc # "done" => r = "none" /\ result = "none"
  /\ r \in {"409 no_machine", "503 not_ready"} => g = "unsent"
  /\ r = "409 machine_rejected_goal" => g = "refused"
  /\ \A n \in 1 .. MaxFeedback : fs[n] \in {"due", "reporting"} => g \in Dispatched
  /\ result = "reporting" => g \in GoalEnds

CallInv ==
  \A c \in Calls : CallOK(call[c], reply[c], goal[c], feedback[c], onResult[c])

\* The worker waits for the thread that has its request.
ServedInv ==
  servedBy # NoThread =>
    sending # Idle /\ thread[servedBy] # Free /\ thread[servedBy].request = sending

Outcome(status, row) == status # "RUNNING" => row.result_state = status
Logged(log, old, status) == \E n \in 1 .. Len(log) : log[n] = Event("REPORT", old, status)

\* What handler h has done when it stands at its pc.
HandlerOK(h, missions, logs, machines) ==
  LET q == h.request
  IN  /\ h.pc = "inserting stub" => q.kind = "report" /\ h.old = "none"
      /\ h.pc = "updating" => q.kind = "report" /\ missions[q.id] # NoRow
      /\ h.pc = "logging" =>
           q.kind = "report" /\ missions[q.id] # NoRow /\ Outcome(q.status, missions[q.id])
      /\ h.pc # "making up"
      /\ h.pc = "patching" => q.kind = "patch"
      /\ (h.pc = "answering" /\ h.ok) =>
           /\ (q.kind = "report" /\ h.old # "none") =>
                /\ missions[q.id] # NoRow
                /\ Outcome(q.status, missions[q.id])
                /\ Logged(logs[q.id], h.old, q.status)
           /\ q.kind = "register" => machines[q.machine] = "known"

HandlerInv ==
  \A t \in Threads : thread[t] # Free => HandlerOK(thread[t], rows, events, machineRows)

RowOK(row, g, r, m) ==
  /\ row.state \in {"RUNNING", "COMPLETED"} => Truly(g, row.state)
  /\ row.result_state # "none" => Truly(g, row.result_state)
  /\ row.state = "ASSIGNED" \/ row.machine # NoMachine => r = "201"
  /\ row.machine \in {NoMachine, m}

RowInv ==
  /\ \A i \in Ids : create[i] \in {"posting"} \cup Logging => rows[i] # NoRow
  /\ \A c \in Calls : rows[IdOf[c]] # NoRow => RowOK(rows[IdOf[c]], heard[c], reply[c], chosen[c])

PathInv ==
  /\ PathTypeOK
  /\ CallInv
  /\ RequestInv
  /\ ServedInv
  /\ HandlerInv
  /\ RowInv
  /\ RegistrationsAgree

DispatchTypes ==
  /\ call \in [Calls -> CallPcs]
  /\ chosen \in [Calls -> Machines \cup {NoMachine}]
  /\ reply \in [Calls -> Replies]
  /\ goal \in [Calls -> GoalStates]
  /\ feedback \in [Calls -> [1 .. MaxFeedback -> CallbackPcs]]
  /\ onResult \in [Calls -> CallbackPcs]

ClientTypes ==
  /\ queue \in Seq(OSRequests)
  /\ Len(queue) <= MaxQueued
  /\ sending \in OSRequests \cup {Idle}
  /\ registered \subseteq Machines
  /\ workerAlive \in BOOLEAN
  /\ servedBy \in Threads \cup {NoThread}

OSTypes ==
  /\ rows \in [Ids -> Rows \cup {NoRow}]
  /\ events \in [Ids -> Seq(Events)]
  /\ machineRows \in [Machines -> MachineTypes]
  /\ conn \in [Connections -> ConnStates]
  /\ create \in [Ids -> CreatePcs]
  /\ thread \in [Threads -> Handlers \cup {Free}]

LEMMA PathTypes == PathTypeOK <=> DispatchTypes /\ ClientTypes /\ OSTypes
BY DEF PathTypeOK, DispatchTypes, ClientTypes, OSTypes

-----------------------------------------------------------------------------
(* What only grows *)

GoalsGrow(goals, next) ==
  \A c \in Calls :
    /\ goals[c] \in Dispatched => next[c] \in Dispatched
    /\ goals[c] \in GoalEnds => next[c] = goals[c]

AnswersStand ==
  \A c \in Calls : reply[c] = "201" => reply'[c] = "201" /\ chosen'[c] = chosen[c]

RowsGrow(missions, next) ==
  \A i \in Ids : missions[i] # NoRow =>
    /\ next[i] # NoRow
    /\ missions[i].result_state # "none" => next[i].result_state = missions[i].result_state

EventsGrow(logs, next) ==
  \A i \in Ids :
    /\ Len(logs[i]) <= Len(next[i])
    /\ \A n \in 1 .. Len(logs[i]) : next[i][n] = logs[i][n]

MachinesGrow(machines, next) ==
  \A m \in Machines : machines[m] = "known" => next[m] = "known"

LEMMA TrulyKept ==
  ASSUME NEW g, NEW h, NEW status,
         g \in Dispatched => h \in Dispatched, g \in GoalEnds => h = g,
         Truly(g, status)
  PROVE  Truly(h, status)
BY DEF Truly, GoalEnds, FailedGoals

LEMMA SoundKept ==
  ASSUME NEW goals, NEW goals2, GoalsGrow(goals, goals2),
         NEW machines, NEW machines2, MachinesGrow(machines, machines2),
         NEW request \in OSRequests, Sound(goals, machines, request)
  PROVE  Sound(goals2, machines2, request)
<1>1. ASSUME request.kind = "report"
      PROVE  \E c \in Calls : IdOf[c] = request.id /\ Truly(goals2[c], request.status)
  <2>1. PICK c \in Calls : IdOf[c] = request.id /\ Truly(goals[c], request.status)
    BY <1>1 DEF Sound
  <2>2. Truly(goals2[c], request.status)  BY <2>1, TrulyKept DEF GoalsGrow
  <2> QED  BY <2>1, <2>2
<1>2. ASSUME request.kind = "patch"  PROVE machines2[request.machine] = "known"
  <2>1. request.machine \in Machines  BY <1>2 DEF OSRequests, Reports, MachinePush
  <2> QED  BY <1>2, <2>1 DEF Sound, MachinesGrow
<1> QED  BY <1>1, <1>2 DEF Sound

LEMMA RequestFields ==
  ASSUME NEW q \in OSRequests
  PROVE  /\ q.kind \in {"report", "register", "patch"}
         /\ q.kind = "report" =>
              q.id \in Ids /\ q.status \in {"RUNNING", "COMPLETED", "EXCEPTION"}
         /\ q.kind # "report" => q.machine \in Machines
BY DEF OSRequests, Reports, MachinePush

LEMMA HandlerKept ==
  ASSUME NEW h \in Handlers,
         NEW missions, NEW missions2, RowsGrow(missions, missions2),
         NEW logs, NEW logs2, EventsGrow(logs, logs2),
         \A i \in Ids : Len(logs[i]) \in Nat /\ Len(logs2[i]) \in Nat,
         NEW machines, NEW machines2, MachinesGrow(machines, machines2),
         HandlerOK(h, missions, logs, machines)
  PROVE  HandlerOK(h, missions2, logs2, machines2)
<1> DEFINE q == h.request
<1>1. q \in OSRequests  BY DEF Handlers
<1>2. /\ q.kind = "report" => q.id \in Ids /\ q.status \in {"RUNNING", "COMPLETED", "EXCEPTION"}
      /\ q.kind # "report" => q.machine \in Machines
  BY <1>1, RequestFields
<1>3. ASSUME q.kind = "report", missions[q.id] # NoRow, Outcome(q.status, missions[q.id])
      PROVE  missions2[q.id] # NoRow /\ Outcome(q.status, missions2[q.id])
  BY <1>2, <1>3 DEF RowsGrow, Outcome
<1>4. ASSUME q.kind = "report", Logged(logs[q.id], h.old, q.status)
      PROVE  Logged(logs2[q.id], h.old, q.status)
  <2>1. q.id \in Ids  BY <1>2, <1>4
  <2>2. PICK n \in 1 .. Len(logs[q.id]) : logs[q.id][n] = Event("REPORT", h.old, q.status)
    BY <1>4 DEF Logged
  <2>3. n \in 1 .. Len(logs2[q.id]) /\ logs2[q.id][n] = logs[q.id][n]
    BY <2>1, <2>2 DEF EventsGrow
  <2> QED  BY <2>2, <2>3 DEF Logged
<1>5. ASSUME q.kind = "report", missions[q.id] # NoRow  PROVE missions2[q.id] # NoRow
  BY <1>2, <1>5 DEF RowsGrow
<1>6. ASSUME q.kind = "register", machines[q.machine] = "known"
      PROVE  machines2[q.machine] = "known"
  BY <1>2, <1>6 DEF MachinesGrow
<1> QED  BY <1>3, <1>4, <1>5, <1>6 DEF HandlerOK

LEMMA RowKept ==
  ASSUME NEW row, NEW g, NEW g2, NEW r, NEW r2, NEW m, NEW m2,
         g \in Dispatched => g2 \in Dispatched, g \in GoalEnds => g2 = g,
         r = "201" => r2 = "201" /\ m2 = m, RowOK(row, g, r, m)
  PROVE  RowOK(row, g2, r2, m2)
BY TrulyKept DEF RowOK

-----------------------------------------------------------------------------
(* What a step has to show, part by part *)

LEMMA RequestsKept ==
  ASSUME PathInv, ClientTypes', OSTypes',
         GoalsGrow(heard, heard'), MachinesGrow(machineRows, machineRows'),
         \A n \in 1 .. Len(queue') :
           \/ \E k \in 1 .. Len(queue) : queue'[n] = queue[k]
           \/ Sound(heard', machineRows', queue'[n]),
         \/ sending' \in {sending, Idle}
         \/ \E k \in 1 .. Len(queue) : sending' = queue[k],
         \A t \in Threads :
           \/ thread'[t] = Free
           \/ thread[t] # Free /\ thread'[t].request = thread[t].request
           \/ sending # Idle /\ thread'[t].request = sending
  PROVE  RequestInv'
<1>1. /\ queue \in Seq(OSRequests)
      /\ sending \in OSRequests \cup {Idle}
      /\ thread \in [Threads -> Handlers \cup {Free}]
      /\ RequestInv
  BY PathTypes DEF PathInv, ClientTypes, OSTypes
<1>2. \A k \in 1 .. Len(queue) : Sound(heard', machineRows', queue[k])
  <2>1. \A k \in 1 .. Len(queue) : queue[k] \in OSRequests /\ Sound(heard, machineRows, queue[k])
    BY <1>1 DEF RequestInv
  <2> QED  BY <2>1, SoundKept
<1>3. sending # Idle => Sound(heard', machineRows', sending)
  BY <1>1, SoundKept DEF RequestInv
<1>4. \A t \in Threads : thread[t] # Free => Sound(heard', machineRows', thread[t].request)
  <2>1. \A t \in Threads : thread[t] # Free =>
          thread[t].request \in OSRequests /\ Sound(heard, machineRows, thread[t].request)
    BY <1>1 DEF RequestInv, Handlers
  <2> QED  BY <2>1, SoundKept
<1>5. \A n \in 1 .. Len(queue') : Sound(heard', machineRows', queue'[n])  BY <1>2
<1>6. sending' # Idle => Sound(heard', machineRows', sending')  BY <1>2, <1>3
<1>7. \A t \in Threads : thread'[t] # Free => Sound(heard', machineRows', thread'[t].request)
  BY <1>3, <1>4
<1> QED  BY <1>5, <1>6, <1>7 DEF RequestInv

LEMMA HandlersKept ==
  ASSUME PathInv, OSTypes',
         RowsGrow(rows, rows'), EventsGrow(events, events'),
         MachinesGrow(machineRows, machineRows'),
         \A t \in Threads :
           \/ thread'[t] \in {thread[t], Free}
           \/ HandlerOK(thread'[t], rows', events', machineRows')
  PROVE  HandlerInv'
<1>1. thread \in [Threads -> Handlers \cup {Free}] /\ HandlerInv
  BY PathTypes DEF PathInv, OSTypes
<1>2. \A i \in Ids : Len(events[i]) \in Nat /\ Len(events'[i]) \in Nat
  <2>1. \A i \in Ids : events[i] \in Seq(Events) /\ events'[i] \in Seq(Events)
    BY PathTypes DEF PathInv, OSTypes
  <2> QED  BY <2>1
<1>3. \A t \in Threads : thread[t] # Free => HandlerOK(thread[t], rows', events', machineRows')
  BY <1>1, <1>2, HandlerKept DEF HandlerInv
<1> QED  BY <1>3 DEF HandlerInv

LEMMA RowsKept ==
  ASSUME PathInv, RowsGrow(rows, rows'), GoalsGrow(heard, heard'), AnswersStand,
         \A i \in Ids : create'[i] \in {"posting"} \cup Logging =>
           create[i] \in {"posting"} \cup Logging \/ rows'[i] # NoRow,
         \A c \in Calls :
           \/ rows'[IdOf[c]] \in {rows[IdOf[c]], NoRow}
           \/ RowOK(rows'[IdOf[c]], heard'[c], reply'[c], chosen'[c])
  PROVE  RowInv'
<1>1. \A c \in Calls : IdOf[c] \in Ids  BY DispatchAssumption
<1>2. \A i \in Ids : create'[i] \in {"posting"} \cup Logging => rows'[i] # NoRow
  BY DEF PathInv, RowInv, RowsGrow
<1>3. ASSUME NEW c \in Calls, rows'[IdOf[c]] # NoRow
      PROVE  RowOK(rows'[IdOf[c]], heard'[c], reply'[c], chosen'[c])
  <2>1. CASE rows'[IdOf[c]] = rows[IdOf[c]]
    <3>1. RowOK(rows[IdOf[c]], heard[c], reply[c], chosen[c])
      BY <1>3, <2>1 DEF PathInv, RowInv
    <3> QED  BY <2>1, <3>1, RowKept DEF GoalsGrow, AnswersStand
  <2> QED  BY <1>3, <2>1
<1> QED  BY <1>2, <1>3 DEF RowInv

LEMMA ServedKept ==
  ASSUME PathInv, OSTypes,
         \/ servedBy' = NoThread
         \/ /\ UNCHANGED <<servedBy, sending>>
            /\ \A t \in Threads : thread[t] # Free =>
                 thread'[t] = thread[t]
                 \/ (thread'[t] # Free /\ thread'[t].request = thread[t].request)
  PROVE  ServedInv'
BY PathTypes DEF PathInv, ServedInv, ClientTypes

\* A step of the adapter alone.
LEMMA AdapterOnly ==
  ASSUME PathInv, UNCHANGED <<clientVars, osVars, servedBy>>,
         DispatchTypes', CallInv', GoalsGrow(heard, heard'), AnswersStand
  PROVE  PathInv'
<1>1. ClientTypes' /\ OSTypes'
  BY PathTypes DEF PathInv, ClientTypes, OSTypes, clientVars, osVars, tableVars
<1>2. /\ RowsGrow(rows, rows')
      /\ EventsGrow(events, events')
      /\ MachinesGrow(machineRows, machineRows')
  <2>1. \A i \in Ids : events[i] \in Seq(Events)  BY PathTypes DEF PathInv, OSTypes
  <2> QED  BY <2>1 DEF RowsGrow, EventsGrow, MachinesGrow, osVars, tableVars
<1>3. UNCHANGED <<queue, sending, registered, thread, rows, create, machineRows, servedBy>>
  BY DEF clientVars, osVars, tableVars
<1>4. RequestInv'  BY <1>1, <1>2, <1>3, RequestsKept
<1>5. HandlerInv'  BY <1>1, <1>2, <1>3, HandlersKept
<1>6. RowInv'  BY <1>2, <1>3, RowsKept
<1>7. ServedInv'  BY <1>3, ServedKept, PathTypes DEF PathInv
<1>8. RegistrationsAgree'  BY <1>3 DEF PathInv, RegistrationsAgree
<1>9. PathTypeOK'  BY <1>1 DEF PathTypeOK, DispatchTypes, ClientTypes, OSTypes
<1> QED  BY <1>4, <1>5, <1>6, <1>7, <1>8, <1>9 DEF PathInv

-----------------------------------------------------------------------------
(* The adapter's calls and callbacks *)

LEMMA OneCall ==
  ASSUME PathInv, NEW c \in Calls,
         \A d \in Calls \ {c} :
           /\ call'[d] = call[d] /\ reply'[d] = reply[d] /\ goal'[d] = goal[d]
           /\ feedback'[d] = feedback[d] /\ onResult'[d] = onResult[d]
           /\ chosen'[d] = chosen[d],
         CallOK(call'[c], reply'[c], goal'[c], feedback'[c], onResult'[c]),
         goal[c] \in Dispatched => goal'[c] \in Dispatched,
         goal[c] \in GoalEnds => goal'[c] = goal[c],
         Reported(onResult[c]) => Reported(onResult'[c]),
         reply[c] = "201" => reply'[c] = "201" /\ chosen'[c] = chosen[c]
  PROVE  CallInv' /\ GoalsGrow(heard, heard') /\ AnswersStand
<1>1. \A d \in Calls \ {c} : CallOK(call'[d], reply'[d], goal'[d], feedback'[d], onResult'[d])
  BY DEF PathInv, CallInv
<1>2. CallInv'  BY <1>1 DEF CallInv
<1>3. GoalsGrow(heard, heard')
  BY DEF GoalsGrow, heard, HeardOf, Dispatched, GoalEnds
<1>4. AnswersStand  BY DEF AnswersStand
<1> QED  BY <1>2, <1>3, <1>4

LEMMA CallSteps ==
  ASSUME PathInv, NEW c \in Calls, Receive(c) \/ CallStep(c)
  PROVE  /\ DispatchTypes'
         /\ CallInv' /\ GoalsGrow(heard, heard') /\ AnswersStand
<1>1. DispatchTypes  BY PathTypes DEF PathInv
<1>2. CallOK(call[c], reply[c], goal[c], feedback[c], onResult[c])  BY DEF PathInv, CallInv
<1> DEFINE Shown == /\ DispatchTypes'
                    /\ CallInv' /\ GoalsGrow(heard, heard') /\ AnswersStand
<1> USE DEF DispatchTypes
<1>3. ASSUME NEW pc \in CallPcs \ {"waiting", "done"}, Proceed(c, pc),
             call[c] \notin {"waiting", "done"},
             chosen' \in [Calls -> Machines \cup {NoMachine}],
             \A d \in Calls \ {c} : chosen'[d] = chosen[d],
             UNCHANGED <<goal, callbackVars>>
      PROVE  Shown
  <2>1. /\ call' = [call EXCEPT ![c] = pc]
        /\ UNCHANGED <<reply, goal, feedback, onResult>>
    BY <1>3 DEF Proceed, callbackVars
  <2>2. DispatchTypes'  BY <1>1, <1>3, <2>1
  <2>3. call'[c] = pc /\ \A d \in Calls \ {c} : call'[d] = call[d]  BY <1>1, <2>1
  <2>4. CallOK(call'[c], reply'[c], goal'[c], feedback'[c], onResult'[c])
    BY <1>2, <1>3, <2>1, <2>3 DEF CallOK
  <2>5. reply[c] # "201"  BY <1>2, <1>3 DEF CallOK
  <2> QED  BY <1>3, <2>1, <2>2, <2>3, <2>4, <2>5, OneCall
<1>4. ASSUME NEW r \in Replies, Return(c, r), call[c] # "done",
             r \in {"409 no_machine", "503 not_ready"} => goal[c] = "unsent",
             r = "409 machine_rejected_goal" => goal[c] = "refused",
             onResult' \in {onResult, [onResult EXCEPT ![c] = "due"]},
             UNCHANGED <<chosen, goal, feedback>>
      PROVE  Shown
  <2>1. /\ call' = [call EXCEPT ![c] = "done"]
        /\ reply' = [reply EXCEPT ![c] = r]
    BY <1>4 DEF Return
  <2>2. DispatchTypes'  BY <1>1, <1>4, <2>1 DEF CallPcs, CallbackPcs
  <2>3. /\ call'[c] = "done" /\ reply'[c] = r
        /\ onResult'[c] \in {onResult[c], "due"}
        /\ \A d \in Calls \ {c} :
             call'[d] = call[d] /\ reply'[d] = reply[d] /\ onResult'[d] = onResult[d]
    BY <1>1, <1>4, <2>1
  <2>4. CallOK(call'[c], reply'[c], goal'[c], feedback'[c], onResult'[c])
    BY <1>2, <1>4, <2>3 DEF CallOK
  <2>5. reply[c] # "201" /\ ~Reported(onResult[c])
    BY <1>2, <1>4 DEF CallOK, Reported
  <2> QED  BY <1>4, <2>2, <2>3, <2>4, <2>5, OneCall
<1>5. CASE Receive(c)
  BY <1>1, <1>3, <1>5 DEF Receive, CallPcs
<1>6. CASE CheckId(c)
  <2>1. call[c] = "checking" /\ UNCHANGED <<chosen, goal, callbackVars>>  BY <1>6 DEF CheckId
  <2>2. CASE Proceed(c, "selecting")  BY <1>1, <1>3, <2>1, <2>2 DEF CallPcs
  <2>3. CASE Return(c, "409 mission_id_already_used")
    BY <1>4, <2>1, <2>3 DEF Replies, callbackVars
  <2> QED  BY <1>6, <2>2, <2>3 DEF CheckId
<1>7. CASE SelectMachine(c)
  <2>1. call[c] = "selecting" /\ UNCHANGED <<goal, callbackVars>>  BY <1>7 DEF SelectMachine
  <2>2. CASE Return(c, "409 no_machine") /\ UNCHANGED chosen
    <3>1. goal[c] = "unsent"  BY <1>2, <2>1 DEF CallOK
    <3> QED  BY <1>4, <2>1, <2>2, <3>1 DEF Replies, callbackVars
  <2>3. CASE Proceed(c, "connecting") /\ \E m \in Machines : chosen' = [chosen EXCEPT ![c] = m]
    <3>1. /\ chosen' \in [Calls -> Machines \cup {NoMachine}]
          /\ \A d \in Calls \ {c} : chosen'[d] = chosen[d]
      BY <1>1, <2>3
    <3> QED  BY <1>3, <2>1, <2>3, <3>1 DEF CallPcs
  <2> QED  BY <1>7, <2>2, <2>3 DEF SelectMachine
<1>8. CASE Connect(c)
  <2>1. call[c] = "connecting" /\ UNCHANGED <<chosen, goal, callbackVars>>  BY <1>8 DEF Connect
  <2>2. goal[c] = "unsent"  BY <1>2, <2>1 DEF CallOK
  <2>3. CASE Proceed(c, "sending")  BY <1>1, <1>3, <2>1, <2>3 DEF CallPcs
  <2>4. CASE Return(c, "503 not_ready")  BY <1>4, <2>1, <2>2, <2>4 DEF Replies, callbackVars
  <2> QED  BY <1>8, <2>3, <2>4 DEF Connect
<1>9. CASE SendGoal(c)
  <2>1. /\ call[c] = "sending"
        /\ call' = [call EXCEPT ![c] = "waiting"]
        /\ goal' = [goal EXCEPT ![c] = "offered"]
        /\ UNCHANGED <<reply, chosen, feedback, onResult>>
    BY <1>9 DEF SendGoal, Proceed, callbackVars
  <2>2. DispatchTypes'  BY <1>1, <2>1 DEF CallPcs, GoalStates
  <2>3. /\ call'[c] = "waiting" /\ goal'[c] = "offered"
        /\ \A d \in Calls \ {c} : call'[d] = call[d] /\ goal'[d] = goal[d]
    BY <1>1, <2>1
  <2>4. goal[c] = "unsent" /\ reply[c] = "none"  BY <1>2, <2>1 DEF CallOK
  <2>5. "unsent" \notin Dispatched /\ "unsent" \notin GoalEnds  BY DEF Dispatched, GoalEnds
  <2>6. CallOK(call'[c], reply'[c], goal'[c], feedback'[c], onResult'[c])
    BY <1>2, <2>1, <2>3, <2>4, <2>5 DEF CallOK
  <2> QED  BY <2>1, <2>2, <2>3, <2>4, <2>5, <2>6, OneCall
<1>10. CASE GoalAccepted(c)
  BY <1>4, <1>10 DEF GoalAccepted, Replies
<1>11. CASE GoalRefused(c)
  BY <1>4, <1>11 DEF GoalRefused, Replies, callbackVars
<1>12. CASE GiveUp(c)
  BY <1>4, <1>12 DEF GiveUp, Replies, callbackVars
<1> QED
  BY <1>5, <1>6, <1>7, <1>8, <1>9, <1>10, <1>11, <1>12 DEF CallStep, CallReturns

LEMMA CallbackSteps ==
  ASSUME PathInv, NEW c \in Calls, MachineStep(c) \/ RecordStep(c)
  PROVE  /\ DispatchTypes'
         /\ CallInv' /\ GoalsGrow(heard, heard') /\ AnswersStand
<1>1. DispatchTypes  BY PathTypes DEF PathInv
<1>2. CallOK(call[c], reply[c], goal[c], feedback[c], onResult[c])  BY DEF PathInv, CallInv
<1> USE DEF DispatchTypes
<1> DEFINE Shown == /\ DispatchTypes'
                    /\ CallInv' /\ GoalsGrow(heard, heard') /\ AnswersStand
<1>3. ASSUME NEW next \in GoalStates \ {"unsent"}, goal' = [goal EXCEPT ![c] = next],
             \/ goal[c] = "offered"
             \/ goal[c] = "accepted" /\ next \in GoalEnds,
             UNCHANGED <<callVars, callbackVars>>
      PROVE  Shown
  <2>1. UNCHANGED <<call, chosen, reply, feedback, onResult>>
    BY <1>3 DEF callVars, callbackVars
  <2>2. DispatchTypes'  BY <1>1, <1>3, <2>1
  <2>3. goal'[c] = next /\ \A d \in Calls \ {c} : goal'[d] = goal[d]  BY <1>1, <1>3
  <2>4. CallOK(call'[c], reply'[c], goal'[c], feedback'[c], onResult'[c])
    BY <1>2, <1>3, <2>1, <2>3 DEF CallOK, Dispatched, GoalEnds
  <2>5. /\ goal[c] \in Dispatched => goal'[c] \in Dispatched
        /\ goal[c] \notin GoalEnds
    BY <1>3, <2>3 DEF Dispatched, GoalEnds
  <2> QED  BY <2>1, <2>2, <2>3, <2>4, <2>5, OneCall
<1>4. CASE MachineAccepts(c)  BY <1>3, <1>4 DEF MachineAccepts, GoalStates
<1>5. CASE MachineRefuses(c)  BY <1>3, <1>5 DEF MachineRefuses, GoalStates
<1>6. CASE MachineEnds(c)
  <2>1. PICK e \in GoalEnds : goal' = [goal EXCEPT ![c] = e]  BY <1>6 DEF MachineEnds
  <2>2. e \in GoalStates \ {"unsent"}  BY DEF GoalStates, GoalEnds
  <2> QED  BY <1>3, <1>6, <2>1, <2>2 DEF MachineEnds
<1>7. ASSUME NEW n \in 1 .. MaxFeedback, NEW pc \in CallbackPcs,
             feedback' = [feedback EXCEPT ![c][n] = pc],
             pc \in {"due", "reporting"} => goal[c] \in Dispatched,
             UNCHANGED <<callVars, goal, onResult>>
      PROVE  Shown
  <2>1. UNCHANGED <<call, chosen, reply, goal, onResult>>  BY <1>7 DEF callVars
  <2>2. DispatchTypes'  BY <1>1, <1>7, <2>1
  <2>3. /\ feedback'[c] = [feedback[c] EXCEPT ![n] = pc]
        /\ \A d \in Calls \ {c} : feedback'[d] = feedback[d]
    BY <1>1, <1>7
  <2>4. \A k \in 1 .. MaxFeedback : feedback'[c][k] = IF k = n THEN pc ELSE feedback[c][k]
    BY <1>1, <2>3
  <2>5. CallOK(call'[c], reply'[c], goal'[c], feedback'[c], onResult'[c])
    BY <1>2, <1>7, <2>1, <2>4 DEF CallOK
  <2> QED  BY <2>1, <2>2, <2>3, <2>5, OneCall
<1>8. CASE \E n \in 1 .. MaxFeedback : MachineSendsFeedback(c, n)
  <2>1. PICK n \in 1 .. MaxFeedback : MachineSendsFeedback(c, n)  BY <1>8
  <2>2. goal[c] \in Dispatched  BY <2>1 DEF MachineSendsFeedback, Dispatched
  <2> QED  BY <1>7, <2>1, <2>2 DEF MachineSendsFeedback, CallbackPcs
<1>9. CASE \E n \in 1 .. MaxFeedback : FeedbackRecord(c, n)
  <2>1. PICK n \in 1 .. MaxFeedback : FeedbackRecord(c, n)  BY <1>9
  <2>2. goal[c] \in Dispatched  BY <1>2, <2>1 DEF FeedbackRecord, CallOK
  <2>3. AfterLock \in CallbackPcs  BY DEF AfterLock, CallbackPcs
  <2> QED  BY <1>7, <2>1, <2>2, <2>3 DEF FeedbackRecord
<1>10. CASE ResultRecord(c)
  <2>1. /\ goal[c] \in GoalEnds /\ onResult[c] = "due"
        /\ onResult' = [onResult EXCEPT ![c] = AfterLock]
        /\ UNCHANGED <<call, chosen, reply, goal, feedback>>
    BY <1>10 DEF ResultRecord, callVars
  <2>2. AfterLock \in CallbackPcs  BY DEF AfterLock, CallbackPcs
  <2>3. DispatchTypes'  BY <1>1, <2>1, <2>2
  <2>4. /\ onResult'[c] = AfterLock
        /\ \A d \in Calls \ {c} : onResult'[d] = onResult[d]
    BY <1>1, <2>1
  <2>5. CallOK(call'[c], reply'[c], goal'[c], feedback'[c], onResult'[c])
    BY <1>2, <2>1, <2>4 DEF CallOK
  <2>6. ~Reported(onResult[c])  BY <2>1 DEF Reported
  <2> QED  BY <2>1, <2>3, <2>4, <2>5, <2>6, OneCall
<1> QED
  BY <1>4, <1>5, <1>6, <1>8, <1>9, <1>10 DEF MachineStep, RecordStep

-----------------------------------------------------------------------------
(* The queue and the worker *)

LEMMA QueueElements ==
  ASSUME NEW q \in Seq(OSRequests), Len(q) <= MaxQueued, NEW request \in OSRequests
  PROVE  /\ Enqueued(q, request) \in Seq(OSRequests)
         /\ Len(Enqueued(q, request)) <= MaxQueued
         /\ \A n \in 1 .. Len(Enqueued(q, request)) :
              \/ Enqueued(q, request)[n] = request
              \/ n \in 1 .. Len(q) /\ Enqueued(q, request)[n] = q[n]
BY QueueAssumption DEF Enqueued

\* A step that leaves the tables as they are takes nothing from them.
LEMMA TablesQuiet ==
  ASSUME PathInv, UNCHANGED tableVars
  PROVE  /\ RowsGrow(rows, rows')
         /\ EventsGrow(events, events')
         /\ MachinesGrow(machineRows, machineRows')
<1>1. \A i \in Ids : events[i] \in Seq(Events)  BY PathTypes DEF PathInv, OSTypes
<1>2. \A i \in Ids : Len(events[i]) \in Nat  BY <1>1
<1> QED  BY <1>2 DEF RowsGrow, EventsGrow, MachinesGrow, tableVars

LEMMA GoalsQuiet ==
  ASSUME UNCHANGED <<heard, reply, chosen>>
  PROVE  GoalsGrow(heard, heard') /\ AnswersStand
BY DEF GoalsGrow, AnswersStand

LEMMA PutKept ==
  ASSUME PathInv, NEW request \in OSRequests, Sound(heard, machineRows, request),
         Enqueue(request), UNCHANGED <<heard, reply, chosen, osVars, servedBy>>,
         DispatchTypes', CallInv'
  PROVE  PathInv'
<1>1. /\ queue' = Enqueued(queue, request)
      /\ UNCHANGED <<sending, registered, workerAlive>>
      /\ UNCHANGED <<tableVars, rows, events, machineRows, conn, create, thread>>
  BY DEF Enqueue, osVars, tableVars
<1>2. /\ queue' \in Seq(OSRequests) /\ Len(queue') <= MaxQueued
      /\ \A n \in 1 .. Len(queue') :
           queue'[n] = request \/ (n \in 1 .. Len(queue) /\ queue'[n] = queue[n])
  BY <1>1, QueueElements, PathTypes DEF PathInv, ClientTypes
<1>3. ClientTypes'  BY <1>1, <1>2, PathTypes DEF PathInv, ClientTypes
<1>4. OSTypes'  BY <1>1, PathTypes DEF PathInv, OSTypes
<1>5. RequestInv'
  BY <1>1, <1>2, <1>3, <1>4, RequestsKept, TablesQuiet, GoalsQuiet
<1>6. HandlerInv'  BY <1>1, <1>4, HandlersKept, TablesQuiet
<1>7. RowInv'  BY <1>1, RowsKept, TablesQuiet, GoalsQuiet
<1>8. ServedInv'  BY <1>1, ServedKept, PathTypes DEF PathInv
<1>9. RegistrationsAgree'  BY <1>1 DEF PathInv, RegistrationsAgree
<1>10. PathTypeOK'  BY <1>3, <1>4 DEF PathTypeOK, DispatchTypes, ClientTypes, OSTypes
<1> QED  BY <1>5, <1>6, <1>7, <1>8, <1>9, <1>10 DEF PathInv

LEMMA ReportSteps ==
  ASSUME PathInv, NEW c \in Calls, ReportStep(c), UNCHANGED <<osVars, servedBy>>
  PROVE  PathInv'
<1>1. DispatchTypes  BY PathTypes DEF PathInv
<1>2. CallOK(call[c], reply[c], goal[c], feedback[c], onResult[c])  BY DEF PathInv, CallInv
<1>3. IdOf[c] \in Ids  BY DispatchAssumption
<1>4. ASSUME NEW s \in {"RUNNING", "COMPLETED", "EXCEPTION"}, Truly(heard[c], s)
      PROVE  /\ Report(IdOf[c], s) \in OSRequests
             /\ Sound(heard, machineRows, Report(IdOf[c], s))
  BY <1>3, <1>4 DEF Report, OSRequests, Reports, Sound
<1>5. CASE \E n \in 1 .. MaxFeedback : FeedbackReport(c, n)
  <2>1. PICK n \in 1 .. MaxFeedback : FeedbackReport(c, n)  BY <1>5
  <2>2. /\ Enqueue(Report(IdOf[c], "RUNNING"))
        /\ feedback' = [feedback EXCEPT ![c][n] = "done"]
        /\ UNCHANGED <<call, chosen, reply, goal, onResult>>
    BY <2>1 DEF FeedbackReport, ReportMission, callVars
  <2>3. Truly(heard[c], "RUNNING") /\ UNCHANGED heard
    BY <1>2, <2>1, <2>2 DEF FeedbackReport, CallOK, Truly, heard, HeardOf, Dispatched
  <2>4. DispatchTypes'  BY <1>1, <2>2 DEF DispatchTypes, CallbackPcs
  <2>5. /\ \A k \in 1 .. MaxFeedback : feedback'[c][k] \in {"done", feedback[c][k]}
        /\ \A d \in Calls \ {c} : feedback'[d] = feedback[d]
    BY <1>1, <2>2 DEF DispatchTypes
  <2>6. CallOK(call'[c], reply'[c], goal'[c], feedback'[c], onResult'[c])
    BY <1>2, <2>2, <2>5 DEF CallOK
  <2>7. CallInv'  BY <2>2, <2>5, <2>6, OneCall
  <2> QED  BY <1>4, <2>2, <2>3, <2>4, <2>7, PutKept
<1>6. CASE ResultReport(c)
  <2> DEFINE s == IF Verdict(goal[c]) = "COMPLETED" THEN "COMPLETED" ELSE "EXCEPTION"
  <2>1. /\ Enqueue(Report(IdOf[c], s))
        /\ onResult' = [onResult EXCEPT ![c] = "done"]
        /\ UNCHANGED <<call, chosen, reply, goal, feedback>>
    BY <1>6 DEF ResultReport, ReportVerdict, ReportMission, callVars
  <2>2. goal[c] \in GoalEnds  BY <1>2, <1>6 DEF ResultReport, CallOK
  <2>3. heard[c] = goal[c]
    BY <1>6 DEF ResultReport, heard, HeardOf, Reported
  <2>4. Truly(heard[c], s)
    BY <2>2, <2>3 DEF Truly, Verdict, ResultStateOf, GoalEnds, Dispatched, FailedGoals
  <2>5. s \in {"RUNNING", "COMPLETED", "EXCEPTION"}  OBVIOUS
  <2> HIDE DEF s
  <2>6. DispatchTypes'  BY <1>1, <2>1 DEF DispatchTypes, CallbackPcs
  <2>7. /\ onResult[c] = "reporting" /\ onResult'[c] = "done"
        /\ \A d \in Calls \ {c} : onResult'[d] = onResult[d]
    BY <1>1, <1>6, <2>1 DEF DispatchTypes, ResultReport
  <2>8. CallOK(call'[c], reply'[c], goal'[c], feedback'[c], onResult'[c])
    BY <1>2, <2>1, <2>7 DEF CallOK
  <2>9. CallInv'  BY <2>1, <2>7, <2>8, OneCall DEF Reported
  <2>10. UNCHANGED heard  BY <2>1, <2>7 DEF heard, HeardOf, Reported
  <2> QED  BY <1>4, <2>1, <2>4, <2>5, <2>6, <2>9, <2>10, PutKept
<1> QED  BY <1>5, <1>6 DEF ReportStep

LEMMA DispatchQuiet ==
  ASSUME PathInv, UNCHANGED dispatchVars
  PROVE  DispatchTypes' /\ CallInv' /\ UNCHANGED <<heard, reply, chosen>>
BY PathTypes DEF PathInv, DispatchTypes, CallInv, dispatchVars, callVars, callbackVars, heard

LEMMA HeartbeatStep ==
  ASSUME PathInv, NEW m \in Machines, Heartbeat(m)
  PROVE  PathInv'
<1> DEFINE request == IF m \in registered THEN Push("patch", m) ELSE Push("register", m)
<1>1. Enqueue(request) /\ UNCHANGED <<dispatchVars, osVars, servedBy>>
  BY DEF Heartbeat, PatchStatus, PushStatus
<1>2. request \in OSRequests  BY DEF Push, OSRequests, MachinePush
<1>3. Sound(heard, machineRows, request)
  BY DEF Push, Sound, PathInv, RegistrationsAgree
<1> HIDE DEF request
<1> QED  BY <1>1, <1>2, <1>3, DispatchQuiet, PutKept

\* The worker takes a request, or is done with one; nothing else moves.
LEMMA WorkerSteps ==
  ASSUME PathInv, Take \/ PushLost
  PROVE  PathInv'
<1>1. UNCHANGED <<dispatchVars, osVars, tableVars, rows, events, machineRows, conn, create, thread>>
  BY DEF Take, PushLost, osVars, tableVars
<1>2. ClientTypes  BY PathTypes DEF PathInv
<1>3. OSTypes'  BY <1>1, PathTypes DEF PathInv, OSTypes
<1>4. /\ ClientTypes'
      /\ \A n \in 1 .. Len(queue') : \E k \in 1 .. Len(queue) : queue'[n] = queue[k]
      /\ sending' \in {sending, Idle} \/ \E k \in 1 .. Len(queue) : sending' = queue[k]
      /\ UNCHANGED registered
      /\ servedBy' = NoThread \/ (UNCHANGED servedBy /\ sending = Idle)
  <2>1. CASE Take
    <3>1. /\ sending = Idle /\ queue # <<>>
          /\ sending' = Head(queue) /\ queue' = Tail(queue)
          /\ UNCHANGED <<registered, workerAlive, servedBy>>
      BY <2>1 DEF Take, TakeRequest
    <3>2. queue \in Seq(OSRequests) /\ Len(queue) <= MaxQueued  BY <1>2 DEF ClientTypes
    <3>3. /\ sending' = queue[1] /\ 1 \in 1 .. Len(queue)
          /\ queue' \in Seq(OSRequests) /\ Len(queue') <= MaxQueued
          /\ \A n \in 1 .. Len(queue') : n + 1 \in 1 .. Len(queue) /\ queue'[n] = queue[n + 1]
      BY <3>1, <3>2, QueueAssumption
    <3>4. queue[1] \in OSRequests  BY <3>2, <3>3
    <3> QED  BY <1>2, <3>1, <3>3, <3>4 DEF ClientTypes
  <2>2. CASE PushLost
    <3>1. /\ sending' = Idle /\ servedBy' = NoThread /\ UNCHANGED <<queue, registered>>
          /\ workerAlive' \in BOOLEAN
      BY <1>2, <2>2 DEF PushLost, SendFailed, SendRaises, ClientTypes
    <3> QED  BY <1>2, <3>1 DEF ClientTypes
  <2> QED  BY <2>1, <2>2
<1>5. RequestInv'
  BY <1>1, <1>3, <1>4, RequestsKept, TablesQuiet, DispatchQuiet, GoalsQuiet
<1>6. HandlerInv'  BY <1>1, <1>3, HandlersKept, TablesQuiet
<1>7. RowInv'  BY <1>1, RowsKept, TablesQuiet, DispatchQuiet, GoalsQuiet
<1>8. ServedInv'  BY <1>4 DEF PathInv, ServedInv
<1>9. RegistrationsAgree'  BY <1>1, <1>4 DEF PathInv, RegistrationsAgree
<1>10. DispatchTypes' /\ CallInv'  BY <1>1, DispatchQuiet
<1>11. PathTypeOK'  BY <1>3, <1>4, <1>10 DEF PathTypeOK, DispatchTypes, ClientTypes, OSTypes
<1> QED  BY <1>5, <1>6, <1>7, <1>8, <1>9, <1>10, <1>11 DEF PathInv

-----------------------------------------------------------------------------
(* The OS Core *)

\* What the steps of the OS Core alone have to show.
Written(t) ==
  \/ thread'[t] = thread[t]
  \/ /\ thread[t] # Free /\ thread'[t] # Free
     /\ thread'[t].request = thread[t].request
     /\ HandlerOK(thread'[t], rows', events', machineRows')

LEMMA ServerOnly ==
  ASSUME PathInv, UNCHANGED <<dispatchVars, clientVars, servedBy>>, OSTypes',
         RowsGrow(rows, rows'), EventsGrow(events, events'),
         MachinesGrow(machineRows, machineRows'),
         \A m \in Machines : machineRows'[m] # "unknown",
         \A t \in Threads : Written(t),
         \A i \in Ids : create'[i] \in {"posting"} \cup Logging =>
           create[i] \in {"posting"} \cup Logging \/ rows'[i] # NoRow,
         \A c \in Calls :
           \/ rows'[IdOf[c]] \in {rows[IdOf[c]], NoRow}
           \/ RowOK(rows'[IdOf[c]], heard'[c], reply'[c], chosen'[c])
  PROVE  PathInv' /\ RowsGrow(rows, rows')
<1>1. DispatchTypes' /\ CallInv' /\ UNCHANGED <<heard, reply, chosen>>  BY DispatchQuiet
<1>2. UNCHANGED <<queue, sending, registered, workerAlive, servedBy>>  BY DEF clientVars
<1>3. ClientTypes'  BY <1>2, PathTypes DEF PathInv, ClientTypes
<1>4. RequestInv'
  BY <1>1, <1>2, <1>3, RequestsKept, GoalsQuiet DEF Written
<1>5. HandlerInv'  BY HandlersKept DEF Written
<1>6. RowInv'  BY <1>1, RowsKept, GoalsQuiet
<1>7. ServedInv'  BY <1>2, ServedKept, PathTypes DEF PathInv, Written
<1>8. RegistrationsAgree'
  BY <1>2 DEF PathInv, RegistrationsAgree, MachinesGrow
<1>9. PathTypeOK'  BY <1>1, <1>3 DEF PathTypeOK, DispatchTypes, ClientTypes, OSTypes
<1> QED  BY <1>1, <1>4, <1>5, <1>6, <1>7, <1>8, <1>9 DEF PathInv

LEMMA ConnectionTypes ==
  ASSUME OSTypes, NEW k \in Connections,
         Commit(k) \/ ConstraintFails(k) \/ DatabaseLocked(k) \/ Read(k)
  PROVE  conn' \in [Connections -> ConnStates]
<1>1. conn \in [Connections -> ConnStates]  BY DEF OSTypes
<1>2. CASE Commit(k)  BY <1>1, <1>2 DEF Commit, ConnStates
<1>3. CASE ConstraintFails(k)  BY <1>1, <1>3 DEF ConstraintFails, ConnStates
<1>4. CASE DatabaseLocked(k)  BY <1>1, <1>4 DEF DatabaseLocked, ConnStates
<1>5. CASE Read(k)  BY <1>1, <1>5 DEF Read, ConnStates
<1> QED  BY <1>2, <1>3, <1>4, <1>5

LEMMA LogGrows ==
  ASSUME PathInv, NEW i \in Ids, NEW e \in Events,
         events' = [events EXCEPT ![i] = Append(@, e)]
  PROVE  /\ events' \in [Ids -> Seq(Events)]
         /\ EventsGrow(events, events')
         /\ \E n \in 1 .. Len(events'[i]) : events'[i][n] = e
<1>1. events \in [Ids -> Seq(Events)]  BY PathTypes DEF PathInv, OSTypes
<1>2. events'[i] = Append(events[i], e) /\ \A j \in Ids \ {i} : events'[j] = events[j]
  BY <1>1
<1>3. events[i] \in Seq(Events)  BY <1>1
<1>4. /\ Append(events[i], e) \in Seq(Events)
      /\ Len(Append(events[i], e)) = Len(events[i]) + 1
      /\ Len(events[i]) \in Nat
      /\ \A n \in 1 .. Len(events[i]) : Append(events[i], e)[n] = events[i][n]
      /\ Append(events[i], e)[Len(events[i]) + 1] = e
  BY <1>3
<1>5. \A j \in Ids : Len(events[j]) \in Nat  BY <1>1
<1>6. events' \in [Ids -> Seq(Events)]  BY <1>1, <1>4
<1>7. EventsGrow(events, events')  BY <1>2, <1>4, <1>5 DEF EventsGrow
<1>8. Len(events[i]) + 1 \in 1 .. Len(events'[i])  BY <1>2, <1>4
<1> QED  BY <1>2, <1>4, <1>6, <1>7, <1>8

\* A step that changes a connection and no more than that.
LEMMA OtherUses ==
  ASSUME PathInv, NEW t \in Threads, OtherUse(t)
  PROVE  PathInv' /\ RowsGrow(rows, rows')
<1>1. /\ UNCHANGED <<dispatchVars, clientVars, servedBy>>
      /\ UNCHANGED tableVars
      /\ UNCHANGED <<rows, events, machineRows, create, thread>>
  BY DEF OtherUse, ServeRead, PruneThread, tableVars
<1>2. OSTypes /\ t \in Connections  BY PathTypes DEF PathInv, Connections
<1>3. conn' \in [Connections -> ConnStates]
  <2>1. CASE ServeRead(t)  BY <1>2, <2>1, ConnectionTypes DEF ServeRead
  <2>2. CASE PruneThread(t)  BY <1>2, <2>2 DEF PruneThread, OSTypes, ConnStates
  <2> QED  BY <2>1, <2>2 DEF OtherUse
<1>4. OSTypes'  BY <1>1, <1>2, <1>3 DEF OSTypes
<1>5. \A m \in Machines : machineRows'[m] # "unknown"  BY <1>1 DEF PathInv, RegistrationsAgree
<1>6. \A u \in Threads : Written(u)  BY <1>1 DEF Written
<1> QED  BY <1>1, <1>4, <1>5, <1>6, TablesQuiet, ServerOnly

-----------------------------------------------------------------------------
(* create_mission *)

\* A step of the create_mission of call c: it may write c's row, or its event.
LEMMA CreateKept ==
  ASSUME PathInv, OwnIds, NEW c \in Calls,
         UNCHANGED <<dispatchVars, clientVars, servedBy, machineRows, thread>>,
         conn' \in [Connections -> ConnStates],
         NEW pc \in CreatePcs, create' = [create EXCEPT ![IdOf[c]] = pc],
         pc \in {"posting"} \cup Logging =>
           create[IdOf[c]] \in {"posting"} \cup Logging \/ rows'[IdOf[c]] # NoRow,
         \/ UNCHANGED rows
         \/ \E row \in Rows :
              /\ rows' = [rows EXCEPT ![IdOf[c]] = row]
              /\ RowOK(row, heard[c], reply[c], chosen[c])
              /\ rows[IdOf[c]] # NoRow => row.result_state = rows[IdOf[c]].result_state,
         \/ UNCHANGED events
         \/ \E e \in Events : events' = [events EXCEPT ![IdOf[c]] = Append(@, e)]
  PROVE  PathInv' /\ RowsGrow(rows, rows')
<1> DEFINE i == IdOf[c]
<1>1. i \in Ids /\ \A d \in Calls \ {c} : IdOf[d] \in Ids \ {i}
  BY DispatchAssumption DEF OwnIds
<1>2. OSTypes  BY PathTypes DEF PathInv
<1>3. DispatchTypes' /\ CallInv' /\ UNCHANGED <<heard, reply, chosen>>  BY DispatchQuiet
<1>4. /\ rows' \in [Ids -> Rows \cup {NoRow}]
      /\ RowsGrow(rows, rows')
      /\ \A d \in Calls :
           rows'[IdOf[d]] \in {rows[IdOf[d]], NoRow} \/ RowOK(rows'[IdOf[d]], heard'[d], reply'[d], chosen'[d])
  <2>1. CASE UNCHANGED rows  BY <1>2, <2>1 DEF OSTypes, RowsGrow
  <2>2. CASE ~UNCHANGED rows
    <3>1. PICK row \in Rows :
            /\ rows' = [rows EXCEPT ![i] = row]
            /\ RowOK(row, heard[c], reply[c], chosen[c])
            /\ rows[i] # NoRow => row.result_state = rows[i].result_state
      BY <2>2
    <3>2. rows' \in [Ids -> Rows \cup {NoRow}]  BY <1>2, <3>1 DEF OSTypes
    <3>3. rows'[i] = row /\ \A j \in Ids \ {i} : rows'[j] = rows[j]
      BY <1>1, <1>2, <3>1 DEF OSTypes
    <3>4. row # NoRow  BY NothingAssumption
    <3>5. RowsGrow(rows, rows')  BY <1>1, <3>1, <3>3, <3>4 DEF RowsGrow
    <3>6. RowOK(rows'[IdOf[c]], heard'[c], reply'[c], chosen'[c])  BY <1>3, <3>1, <3>3
    <3> QED  BY <1>1, <3>2, <3>3, <3>5, <3>6
  <2> QED  BY <2>1, <2>2
<1>5. events' \in [Ids -> Seq(Events)] /\ EventsGrow(events, events')
  <2>1. CASE UNCHANGED events
    <3>1. \A j \in Ids : events[j] \in Seq(Events)  BY <1>2 DEF OSTypes
    <3>2. \A j \in Ids : Len(events[j]) \in Nat  BY <3>1
    <3> QED  BY <1>2, <2>1, <3>2 DEF OSTypes, EventsGrow
  <2>2. CASE ~UNCHANGED events
    <3>1. PICK e \in Events : events' = [events EXCEPT ![i] = Append(@, e)]  BY <2>2
    <3> QED  BY <1>1, <3>1, LogGrows
  <2> QED  BY <2>1, <2>2
<1>6. create' \in [Ids -> CreatePcs]  BY <1>2 DEF OSTypes
<1>7. OSTypes'  BY <1>2, <1>4, <1>5, <1>6 DEF OSTypes
<1>8. \A j \in Ids : create'[j] \in {"posting"} \cup Logging =>
        create[j] \in {"posting"} \cup Logging \/ rows'[j] # NoRow
  BY <1>1, <1>2 DEF OSTypes
<1>9. MachinesGrow(machineRows, machineRows') /\ \A m \in Machines : machineRows'[m] # "unknown"
  BY DEF MachinesGrow, PathInv, RegistrationsAgree
<1>10. \A t \in Threads : Written(t)  BY DEF Written
<1> HIDE DEF i
<1> QED  BY <1>4, <1>5, <1>7, <1>8, <1>9, <1>10, ServerOnly

LEMMA CreateSteps ==
  ASSUME PathInv, OwnIds, NEW c \in Calls,
         CreateMission(c) \/ NotReached(c) \/ AnswerLost(c) \/ CreateStep(c)
  PROVE  PathInv' /\ RowsGrow(rows, rows')
<1> DEFINE i == IdOf[c]
           Shown == PathInv' /\ RowsGrow(rows, rows')
<1>1. /\ OSTypes /\ Loop \in Connections /\ i \in Ids
      /\ rows[i] \in Rows \cup {NoRow}
  BY PathTypes, DispatchAssumption DEF PathInv, OSTypes, Connections
<1>2. UNCHANGED <<dispatchVars, clientVars, servedBy>>
  BY DEF CreateMission, NotReached, AnswerLost, CreateStep, MissionAnswered, EventLogged
<1>3. rows[i] # NoRow => RowOK(rows[i], heard[c], reply[c], chosen[c])  BY DEF PathInv, RowInv
<1>4. create[i] \in {"posting"} \cup Logging => rows[i] # NoRow
  BY <1>1 DEF PathInv, RowInv
<1>5. {"none", "posting", "done", "logging created", "logging assigned",
       "logging exception"} \subseteq CreatePcs
  BY DEF CreatePcs, Logging
<1>6. ASSUME DatabaseLocked(Loop) \/ ConstraintFails(Loop),
             create' = [create EXCEPT ![i] = "done"],
             UNCHANGED <<rows, events, machineRows, thread>>
      PROVE  Shown
  BY <1>1, <1>2, <1>5, <1>6, ConnectionTypes, CreateKept DEF Logging
\* The row that a statement leaves where there was one.
<1>7. ASSUME rows[i] # NoRow, NEW s \in {"ASSIGNED", "EXCEPTION"},
             NEW m \in Machines \cup {NoMachine},
             m = rows[i].machine \/ (reply[c] = "201" /\ m = chosen[c]),
             s = "ASSIGNED" => reply[c] = "201"
      PROVE  LET row == [rows[i] EXCEPT !.state = s, !.machine = m]
             IN  /\ row \in Rows /\ RowOK(row, heard[c], reply[c], chosen[c])
                 /\ row.result_state = rows[i].result_state
  <2>1. rows[i] \in Rows  BY <1>1, <1>7
  <2> DEFINE row == [rows[i] EXCEPT !.state = s, !.machine = m]
  <2>2. /\ row \in Rows
        /\ row.state = s /\ row.machine = m /\ row.result_state = rows[i].result_state
    BY <2>1 DEF Rows, RowStates
  <2>3. RowOK(row, heard[c], reply[c], chosen[c])
    BY <1>3, <1>7, <2>2 DEF RowOK
  <2> QED  BY <2>2, <2>3
<1>8. CASE CreateMission(c)
  <2>1. InsertPending(i)  BY <1>8 DEF CreateMission
  <2>2. UNCHANGED <<events, machineRows, thread>>  BY <2>1 DEF InsertPending
  <2>3. CASE DatabaseLocked(Loop) /\ create' = [create EXCEPT ![i] = "done"] /\ UNCHANGED rows
    BY <1>6, <2>2, <2>3
  <2> DEFINE row == [state |-> "PENDING", machine |-> NoMachine, result_state |-> "none"]
  <2>4. CASE /\ Commit(Loop)
             /\ rows' = [rows EXCEPT ![i] = row]
             /\ create' = [create EXCEPT ![i] = "logging created"]
    <3>1. row \in Rows /\ RowOK(row, heard[c], reply[c], chosen[c]) /\ row.result_state = "none"
      BY DEF Rows, RowStates, RowOK
    <3>2. heard[c] = "unsent"
      BY <1>8 DEF CreateMission, PathInv, CallInv, CallOK, heard, HeardOf, GoalEnds
    <3>3. rows[i] # NoRow => rows[i].result_state = "none"
      BY <1>3, <3>2 DEF RowOK, Truly, Dispatched, GoalEnds
    <3>4. rows'[i] # NoRow  BY <1>1, <2>4, <3>1, NothingAssumption DEF OSTypes
    <3>5. conn' \in [Connections -> ConnStates]  BY <1>1, <2>4, ConnectionTypes
    <3> HIDE DEF row
    <3> QED
      BY <1>2, <1>5, <2>2, <2>4, <3>1, <3>3, <3>4, <3>5, CreateKept
  <2> QED  BY <2>1, <2>3, <2>4 DEF InsertPending
\* The statement of one that is posting succeeds.
<1>9. ASSUME create[i] = "posting", Commit(Loop),
             NEW s \in {"ASSIGNED", "EXCEPTION"}, NEW m \in Machines \cup {NoMachine},
             m = rows[i].machine \/ (reply[c] = "201" /\ m = chosen[c]),
             s = "ASSIGNED" => reply[c] = "201",
             rows' = [rows EXCEPT ![i] = [rows[i] EXCEPT !.state = s, !.machine = m]],
             NEW pc \in CreatePcs, create' = [create EXCEPT ![i] = pc],
             UNCHANGED <<events, machineRows, thread>>
      PROVE  Shown
  <2>1. rows[i] # NoRow  BY <1>4, <1>9
  <2> DEFINE row == [rows[i] EXCEPT !.state = s, !.machine = m]
  <2>2. /\ row \in Rows /\ RowOK(row, heard[c], reply[c], chosen[c])
        /\ row.result_state = rows[i].result_state
    BY <1>7, <1>9, <2>1
  <2>3. rows' = [rows EXCEPT ![i] = row]  BY <1>9
  <2> HIDE DEF row
  <2>4. conn' \in [Connections -> ConnStates]  BY <1>1, <1>9, ConnectionTypes
  <2> QED  BY <1>2, <1>9, <2>2, <2>3, <2>4, CreateKept
<1>10. ASSUME rows[i] # NoRow, NEW s, rows' = [rows EXCEPT ![i].state = s]
       PROVE  /\ rows[i].machine \in Machines \cup {NoMachine}
              /\ rows' = [rows EXCEPT ![i] = [rows[i] EXCEPT !.state = s, !.machine = rows[i].machine]]
  <2>1. rows[i] \in Rows  BY <1>1, <1>10
  <2>2. rows[i].machine \in Machines \cup {NoMachine}  BY <2>1 DEF Rows
  <2>3. [rows[i] EXCEPT !.state = s] = [rows[i] EXCEPT !.state = s, !.machine = rows[i].machine]
    BY <2>1 DEF Rows
  <2> QED  BY <1>10, <2>2, <2>3
<1>11. CASE NotReached(c)
  <2>1. AdapterUnreachable(i)  BY <1>11 DEF NotReached
  <2>2. /\ create[i] = "posting" /\ create' = [create EXCEPT ![i] = "done"]
        /\ UNCHANGED <<events, machineRows, thread>>
    BY <2>1 DEF AdapterUnreachable
  <2>3. CASE DatabaseLocked(Loop) /\ UNCHANGED rows  BY <1>6, <2>2, <2>3
  <2>4. CASE Commit(Loop) /\ rows' = [rows EXCEPT ![i].state = "EXCEPTION"]
    BY <1>4, <1>5, <1>9, <1>10, <2>2, <2>4
  <2> QED  BY <2>1, <2>3, <2>4 DEF AdapterUnreachable
<1>12. CASE AnswerLost(c)
  <2>1. /\ create[i] = "posting" /\ create' = [create EXCEPT ![i] = "done"]
        /\ UNCHANGED <<rows, events, machineRows, conn, thread>>
    BY <1>12 DEF AnswerLost, PostRaises, tableVars
  <2>2. conn' \in [Connections -> ConnStates]  BY <1>1, <2>1 DEF OSTypes
  <2> QED  BY <1>2, <1>5, <2>1, <2>2, CreateKept
<1>13. CASE MissionAnswered(c)
  <2>1. CASE reply[c] = "201" /\ Assign(i, chosen[c])
    <3>1. /\ create[i] = "posting" /\ UNCHANGED <<events, machineRows, thread>>
      BY <2>1 DEF Assign
    <3>2. CASE /\ Commit(Loop)
               /\ rows' = [rows EXCEPT ![i].state = "ASSIGNED", ![i].machine = chosen[c]]
               /\ create' = [create EXCEPT ![i] = "logging assigned"]
      <4>1. chosen[c] \in Machines \cup {NoMachine}
        BY PathTypes DEF PathInv, DispatchTypes
      <4>2. rows' = [rows EXCEPT ![i] =
                       [rows[i] EXCEPT !.state = "ASSIGNED", !.machine = chosen[c]]]
        BY <1>1, <3>2 DEF OSTypes
      <4> QED  BY <1>5, <1>9, <2>1, <3>1, <3>2, <4>1, <4>2
    <3>3. CASE /\ ConstraintFails(Loop) \/ DatabaseLocked(Loop)
               /\ create' = [create EXCEPT ![i] = "done"] /\ UNCHANGED rows
      BY <1>6, <3>1, <3>3
    <3> QED  BY <2>1, <3>2, <3>3 DEF Assign
  <2>2. CASE Refuse(i)
    <3>1. /\ create[i] = "posting" /\ UNCHANGED <<events, machineRows, thread>>
      BY <2>2 DEF Refuse
    <3>2. CASE /\ Commit(Loop)
               /\ rows' = [rows EXCEPT ![i].state = "EXCEPTION"]
               /\ create' = [create EXCEPT ![i] = "logging exception"]
      BY <1>4, <1>5, <1>9, <1>10, <3>1, <3>2
    <3>3. CASE DatabaseLocked(Loop) /\ create' = [create EXCEPT ![i] = "done"] /\ UNCHANGED rows
      BY <1>6, <3>1, <3>3
    <3> QED  BY <2>2, <3>2, <3>3 DEF Refuse
  <2> QED  BY <1>13, <2>1, <2>2 DEF MissionAnswered
<1>14. CASE EventLogged(c)
  <2>1. ASSUME NEW type \in {"CREATED", "ASSIGNED", "EXCEPTION"},
               NEW old \in {"none", "PENDING"}, NEW new \in {"PENDING", "ASSIGNED", "EXCEPTION"},
               create[i] \in Logging, Commit(Loop), LogEvent(i, type, old, new),
               NEW pc \in {"posting", "done"}, create' = [create EXCEPT ![i] = pc],
               UNCHANGED <<rows, machineRows, thread>>
        PROVE  Shown
    <3>1. Event(type, old, new) \in Events  BY DEF Event, Events, RowStates
    <3>2. events' = [events EXCEPT ![i] = Append(@, Event(type, old, new))]
      BY <2>1 DEF LogEvent
    <3>3. conn' \in [Connections -> ConnStates]  BY <1>1, <2>1, ConnectionTypes
    <3> QED  BY <1>2, <1>5, <2>1, <3>1, <3>2, <3>3, CreateKept
  <2>2. CASE LogCreated(i)
    <3>1. create[i] = "logging created" /\ UNCHANGED <<rows, machineRows, thread>>
      BY <2>2 DEF LogCreated
    <3> QED  BY <1>6, <2>1, <2>2, <3>1 DEF LogCreated, Logging
  <2>3. CASE LogAnswer(i)
    <3>1. /\ create[i] \in Logging /\ UNCHANGED <<rows, machineRows, thread>>
          /\ create' = [create EXCEPT ![i] = "done"]
      BY <2>3 DEF LogAnswer, Logging
    <3> QED  BY <1>6, <2>1, <2>3, <3>1 DEF LogAnswer
  <2> QED  BY <1>14, <2>2, <2>3 DEF EventLogged
<1> QED  BY <1>8, <1>11, <1>12, <1>13, <1>14 DEF CreateStep

-----------------------------------------------------------------------------
(* The push handlers *)

\* A step of the handler on thread t.
LEMMA HandlerWrote ==
  ASSUME PathInv, NEW t \in Threads, thread[t] # Free,
         UNCHANGED <<dispatchVars, clientVars, servedBy, create>>,
         conn' \in [Connections -> ConnStates],
         NEW h \in Handlers, thread' = [thread EXCEPT ![t] = h],
         h.request = thread[t].request,
         HandlerOK(h, rows', events', machineRows'),
         rows' \in [Ids -> Rows \cup {NoRow}], RowsGrow(rows, rows'),
         \A c \in Calls :
           \/ rows'[IdOf[c]] \in {rows[IdOf[c]], NoRow}
           \/ RowOK(rows'[IdOf[c]], heard[c], reply[c], chosen[c]),
         events' \in [Ids -> Seq(Events)], EventsGrow(events, events'),
         machineRows' \in [Machines -> MachineTypes], MachinesGrow(machineRows, machineRows'),
         \A m \in Machines : machineRows'[m] # "unknown"
  PROVE  PathInv' /\ RowsGrow(rows, rows')
<1>1. OSTypes  BY PathTypes DEF PathInv
<1>2. thread' \in [Threads -> Handlers \cup {Free}]  BY <1>1 DEF OSTypes
<1>3. OSTypes'  BY <1>1, <1>2 DEF OSTypes
<1>4. thread'[t] = h /\ \A u \in Threads \ {t} : thread'[u] = thread[u]
  BY <1>1 DEF OSTypes
<1>5. h # Free  BY NothingAssumption
<1>6. \A u \in Threads : Written(u)  BY <1>4, <1>5 DEF Written
<1>7. UNCHANGED <<heard, reply, chosen>>  BY DispatchQuiet
<1> QED  BY <1>3, <1>6, <1>7, ServerOnly

LEMMA EventsQuiet ==
  ASSUME PathInv, UNCHANGED events
  PROVE  EventsGrow(events, events')
<1>1. \A i \in Ids : events[i] \in Seq(Events)  BY PathTypes DEF PathInv, OSTypes
<1>2. \A i \in Ids : Len(events[i]) \in Nat  BY <1>1
<1> QED  BY <1>2 DEF EventsGrow

LEMMA HandlerSteps ==
  ASSUME PathInv, OwnIds, NEW t \in Threads, HandleRequest(t)
  PROVE  PathInv' /\ RowsGrow(rows, rows')
<1> DEFINE h == thread[t]
           q == h.request
           Shown == PathInv' /\ RowsGrow(rows, rows')
<1>1. UNCHANGED <<dispatchVars, clientVars, servedBy>> /\ HandlerStep(t)
  BY DEF HandleRequest
<1>2. OSTypes /\ t \in Connections  BY PathTypes DEF PathInv, Connections
<1>3. h # Free
  BY <1>1 DEF HandlerStep, ReadMission, InsertStub, UpdateMission, LogReport, FindMachine,
              WriteMachine, At
<1>4. /\ h \in Handlers /\ q \in OSRequests
      /\ HandlerOK(h, rows, events, machineRows)
      /\ Sound(heard, machineRows, q)
  BY <1>2, <1>3 DEF OSTypes, Handlers, PathInv, HandlerInv, RequestInv
<1>5. /\ q.kind \in {"report", "register", "patch"}
      /\ q.kind = "report" =>
           /\ q.id \in Ids /\ q.status \in {"RUNNING", "COMPLETED", "EXCEPTION"}
           /\ rows[q.id] \in Rows \cup {NoRow}
      /\ q.kind # "report" => q.machine \in Machines
  BY <1>2, <1>4, RequestFields DEF OSTypes
<1>6. \A m \in Machines : machineRows[m] # "unknown"  BY DEF PathInv, RegistrationsAgree
\* The handler goes to pc, or answers; tables stay as they are.
<1>7. ASSUME UNCHANGED tableVars, UNCHANGED create,
             conn' \in [Connections -> ConnStates],
             NEW next \in Handlers, thread' = [thread EXCEPT ![t] = next],
             next.request = q, HandlerOK(next, rows, events, machineRows)
      PROVE  Shown
  <2>1. UNCHANGED <<rows, events, machineRows>>  BY <1>7 DEF tableVars
  <2>2. HandlerOK(next, rows', events', machineRows')  BY <1>7, <2>1
  <2> HIDE DEF h, q
  <2>3. thread[t] # Free /\ next.request = thread[t].request  BY <1>3, <1>7 DEF h, q
  <2> QED  BY <1>1, <1>2, <1>6, <1>7, <2>1, <2>2, <2>3, TablesQuiet, HandlerWrote DEF OSTypes
<1>8. ASSUME NEW k \in BOOLEAN
      PROVE  LET next == [h EXCEPT !.pc = "answering", !.ok = k]
             IN  /\ next \in Handlers /\ next.request = q
                 /\ next.pc = "answering" /\ next.ok = k /\ next.old = h.old
  BY <1>4 DEF Handlers, HandlerPcs
<1>9. ASSUME NEW k, Answer(t, k)
      PROVE  thread' = [thread EXCEPT ![t] = [h EXCEPT !.pc = "answering", !.ok = k]]
  BY <1>2, <1>9 DEF Answer, OSTypes
\* What is locked or refused is answered as a failure.
<1>10. ASSUME UNCHANGED tableVars, UNCHANGED create, Answer(t, FALSE),
              ConstraintFails(t) \/ DatabaseLocked(t)
       PROVE  Shown
  <2> DEFINE next == [h EXCEPT !.pc = "answering", !.ok = FALSE]
  <2>1. /\ next \in Handlers /\ next.request = q
        /\ next.pc = "answering" /\ next.ok = FALSE
    BY <1>8
  <2>2. thread' = [thread EXCEPT ![t] = next]  BY <1>9, <1>10
  <2>3. conn' \in [Connections -> ConnStates]  BY <1>2, <1>10, ConnectionTypes
  <2> HIDE DEF next
  <2>4. HandlerOK(next, rows, events, machineRows)  BY <2>1 DEF HandlerOK
  <2> QED  BY <1>7, <1>10, <2>1, <2>2, <2>3, <2>4
<1>11. CASE ReadMission(t)
  <2> DEFINE next == [h EXCEPT
               !.pc  = IF rows[q.id] = NoRow THEN "inserting stub" ELSE "updating",
               !.old = IF rows[q.id] = NoRow THEN "none" ELSE rows[q.id].state]
  <2>1. /\ q.kind = "report" /\ UNCHANGED tableVars /\ UNCHANGED create /\ Read(t)
        /\ thread' = [thread EXCEPT ![t] = next]
    BY <1>2, <1>11 DEF ReadMission, Request, OSTypes
  <2>2. rows[q.id] # NoRow => rows[q.id].state \in RowStates  BY <1>5, <2>1 DEF Rows
  <2>3. /\ next \in Handlers /\ next.request = q
        /\ next.pc = IF rows[q.id] = NoRow THEN "inserting stub" ELSE "updating"
        /\ next.old = IF rows[q.id] = NoRow THEN "none" ELSE rows[q.id].state
    BY <1>4, <2>2 DEF Handlers, HandlerPcs
  <2>4. conn' \in [Connections -> ConnStates]  BY <1>2, <2>1, ConnectionTypes
  <2> HIDE DEF next
  <2>5. HandlerOK(next, rows, events, machineRows)  BY <2>1, <2>3 DEF HandlerOK
  <2> QED  BY <1>7, <2>1, <2>3, <2>4, <2>5
<1>12. CASE FindMachine(t)
  <2>1. /\ q.kind = "patch" /\ UNCHANGED tableVars /\ UNCHANGED create /\ Read(t)
        /\ machineRows[q.machine] = "known"
        /\ Goto(t, "patching")
    BY <1>4, <1>12 DEF FindMachine, Request, Sound
  <2> DEFINE next == [h EXCEPT !.pc = "patching"]
  <2>2. thread' = [thread EXCEPT ![t] = next]  BY <1>2, <2>1 DEF Goto, OSTypes
  <2>3. next \in Handlers /\ next.request = q /\ next.pc = "patching"
    BY <1>4 DEF Handlers, HandlerPcs
  <2>4. conn' \in [Connections -> ConnStates]  BY <1>2, <2>1, ConnectionTypes
  <2> HIDE DEF next
  <2>5. HandlerOK(next, rows, events, machineRows)  BY <2>1, <2>3 DEF HandlerOK
  <2> QED  BY <1>7, <2>1, <2>2, <2>3, <2>4, <2>5
\* A report speaks for one call.
<1>13. ASSUME q.kind = "report"
       PROVE  \A c \in Calls : IdOf[c] = q.id => Truly(heard[c], q.status)
  BY <1>4, <1>13 DEF Sound, OwnIds
\* A statement that writes row for the mission of a report.
<1>14. ASSUME q.kind = "report", NEW row \in Rows, rows' = [rows EXCEPT ![q.id] = row],
              \A c \in Calls : IdOf[c] = q.id => RowOK(row, heard[c], reply[c], chosen[c]),
              (rows[q.id] # NoRow /\ rows[q.id].result_state # "none")
                => row.result_state = rows[q.id].result_state
       PROVE  /\ rows' \in [Ids -> Rows \cup {NoRow}]
              /\ rows'[q.id] = row /\ row # NoRow
              /\ RowsGrow(rows, rows')
              /\ \A c \in Calls :
                   \/ rows'[IdOf[c]] \in {rows[IdOf[c]], NoRow}
                   \/ RowOK(rows'[IdOf[c]], heard[c], reply[c], chosen[c])
  <2> HIDE DEF h, q
  <2>1. rows' \in [Ids -> Rows \cup {NoRow}]  BY <1>2, <1>14 DEF OSTypes
  <2>2. rows'[q.id] = row /\ \A i \in Ids \ {q.id} : rows'[i] = rows[i]
    BY <1>2, <1>5, <1>14 DEF OSTypes
  <2>3. row # NoRow  BY NothingAssumption
  <2>4. \A c \in Calls : IdOf[c] \in Ids  BY DispatchAssumption
  <2>5. RowsGrow(rows, rows')  BY <1>14, <2>2, <2>3 DEF RowsGrow
  <2> QED  BY <1>14, <2>1, <2>2, <2>3, <2>4, <2>5
<1>15. CASE InsertStub(t)
  <2>1. /\ h.pc = "inserting stub" /\ q.kind = "report" /\ h.old = "none"
        /\ UNCHANGED <<events, machineRows, create>>
    BY <1>4, <1>15 DEF InsertStub, At, HandlerOK
  <2>2. CASE (ConstraintFails(t) \/ DatabaseLocked(t)) /\ Answer(t, FALSE) /\ UNCHANGED rows
    BY <1>10, <2>1, <2>2 DEF tableVars
  <2> DEFINE row == [state |-> q.status, machine |-> NoMachine, result_state |-> "none"]
             next == [h EXCEPT !.pc = "answering", !.ok = TRUE]
  <2>3. CASE /\ rows[q.id] = NoRow /\ Commit(t)
             /\ rows' = [rows EXCEPT ![q.id] = row] /\ Answer(t, TRUE)
    <3>1. /\ row \in Rows /\ row.state = q.status /\ row.machine = NoMachine
          /\ row.result_state = "none"
      BY <1>5, <2>1 DEF Rows, RowStates
    <3>2. rows' = [rows EXCEPT ![q.id] = row] /\ rows[q.id] = NoRow  BY <2>3
    <3>3. /\ next \in Handlers /\ next.request = q
          /\ next.pc = "answering" /\ next.ok = TRUE /\ next.old = h.old
      BY <1>8
    <3>4. thread' = [thread EXCEPT ![t] = next]  BY <1>9, <2>3
    <3>5. conn' \in [Connections -> ConnStates]  BY <1>2, <2>3, ConnectionTypes
    <3> HIDE DEF row, next
    <3>6. \A c \in Calls : IdOf[c] = q.id => RowOK(row, heard[c], reply[c], chosen[c])
      BY <1>5, <1>13, <2>1, <3>1 DEF RowOK
    <3>7. HandlerOK(next, rows', events', machineRows')
      BY <2>1, <3>3 DEF HandlerOK
    <3>8. /\ rows' \in [Ids -> Rows \cup {NoRow}] /\ RowsGrow(rows, rows')
          /\ \A c \in Calls :
               \/ rows'[IdOf[c]] \in {rows[IdOf[c]], NoRow}
               \/ RowOK(rows'[IdOf[c]], heard[c], reply[c], chosen[c])
      BY <1>14, <2>1, <3>1, <3>2, <3>6
    <3>9. /\ events' \in [Ids -> Seq(Events)] /\ EventsGrow(events, events')
          /\ machineRows' \in [Machines -> MachineTypes]
          /\ MachinesGrow(machineRows, machineRows')
          /\ \A m \in Machines : machineRows'[m] # "unknown"
      BY <1>2, <1>6, <2>1, EventsQuiet DEF OSTypes, MachinesGrow
    <3> QED  BY <1>1, <1>3, <2>1, <3>3, <3>4, <3>5, <3>7, <3>8, <3>9, HandlerWrote
  <2> QED  BY <1>15, <2>2, <2>3 DEF InsertStub, Request
<1>16. CASE UpdateMission(t)
  <2>1. /\ h.pc = "updating" /\ q.kind = "report" /\ rows[q.id] # NoRow
        /\ UNCHANGED <<events, machineRows, create>>
    BY <1>4, <1>16 DEF UpdateMission, At, HandlerOK
  <2>2. CASE DatabaseLocked(t) /\ Answer(t, FALSE) /\ UNCHANGED rows
    BY <1>10, <2>1, <2>2 DEF tableVars
  <2> DEFINE row == [rows[q.id] EXCEPT !.state = q.status,
                                       !.result_state = OutcomeAfter(rows[q.id], q.status)]
             next == [h EXCEPT !.pc = "logging"]
  <2>3. CASE /\ Commit(t)
             /\ rows' = [rows EXCEPT ![q.id].state = q.status,
                                     ![q.id].result_state = OutcomeAfter(rows[q.id], q.status)]
             /\ Goto(t, "logging")
    <3>1. rows[q.id] \in Rows  BY <1>5, <2>1
    <3>2. /\ row \in Rows /\ row.state = q.status /\ row.machine = rows[q.id].machine
          /\ row.result_state = OutcomeAfter(rows[q.id], q.status)
      BY <1>5, <2>1, <3>1 DEF Rows, RowStates, OutcomeAfter
    <3>3. rows' = [rows EXCEPT ![q.id] = row]  BY <1>2, <1>5, <2>1, <2>3 DEF OSTypes
    <3>4. next \in Handlers /\ next.request = q /\ next.pc = "logging"
      BY <1>4 DEF Handlers, HandlerPcs
    <3>5. thread' = [thread EXCEPT ![t] = next]  BY <1>2, <2>3 DEF Goto, OSTypes
    <3>6. conn' \in [Connections -> ConnStates]  BY <1>2, <2>3, ConnectionTypes
    <3> HIDE DEF row, next
    <3>7. \A c \in Calls : IdOf[c] = q.id => RowOK(rows[q.id], heard[c], reply[c], chosen[c])
      BY <2>1 DEF PathInv, RowInv
    <3>8. \A c \in Calls : IdOf[c] = q.id => RowOK(row, heard[c], reply[c], chosen[c])
      BY <1>5, <1>13, <2>1, <3>2, <3>7 DEF RowOK, OutcomeAfter
    \* A second outcome is the first one once more.
    <3>9. rows[q.id].result_state # "none" => row.result_state = rows[q.id].result_state
      <4>1. PICK c \in Calls : IdOf[c] = q.id /\ Truly(heard[c], q.status)
        BY <1>4, <2>1 DEF Sound
      <4>2. rows[q.id].result_state # "none" => Truly(heard[c], rows[q.id].result_state)
        BY <3>7, <4>1 DEF RowOK
      <4>3. rows[q.id].result_state \in {"none", "COMPLETED", "EXCEPTION"}
        BY <3>1 DEF Rows
      <4> QED  BY <1>5, <2>1, <3>2, <4>1, <4>2, <4>3 DEF Truly, FailedGoals, OutcomeAfter
    <3>10. /\ rows' \in [Ids -> Rows \cup {NoRow}] /\ RowsGrow(rows, rows')
           /\ rows'[q.id] = row /\ row # NoRow
           /\ \A c \in Calls :
                \/ rows'[IdOf[c]] \in {rows[IdOf[c]], NoRow}
                \/ RowOK(rows'[IdOf[c]], heard[c], reply[c], chosen[c])
      BY <1>14, <2>1, <3>2, <3>3, <3>8, <3>9
    <3>11. HandlerOK(next, rows', events', machineRows')
      BY <1>5, <2>1, <3>2, <3>4, <3>10 DEF HandlerOK, Outcome, OutcomeAfter
    <3>12. /\ events' \in [Ids -> Seq(Events)] /\ EventsGrow(events, events')
           /\ machineRows' \in [Machines -> MachineTypes]
           /\ MachinesGrow(machineRows, machineRows')
           /\ \A m \in Machines : machineRows'[m] # "unknown"
      BY <1>2, <1>6, <2>1, EventsQuiet DEF OSTypes, MachinesGrow
    <3> QED  BY <1>1, <1>3, <2>1, <3>4, <3>5, <3>6, <3>10, <3>11, <3>12, HandlerWrote
  <2> QED  BY <1>16, <2>2, <2>3 DEF UpdateMission, Request
<1>17. CASE LogReport(t)
  <2>1. /\ h.pc = "logging" /\ q.kind = "report" /\ rows[q.id] # NoRow
        /\ Outcome(q.status, rows[q.id])
        /\ UNCHANGED <<rows, machineRows, create>>
    BY <1>4, <1>17 DEF LogReport, At, HandlerOK
  <2>2. CASE DatabaseLocked(t) /\ Answer(t, FALSE) /\ UNCHANGED events
    BY <1>10, <2>1, <2>2 DEF tableVars
  <2> DEFINE e == Event("REPORT", h.old, q.status)
             next == [h EXCEPT !.pc = "answering", !.ok = TRUE]
  <2>3. CASE /\ Commit(t) /\ Answer(t, TRUE)
             /\ events' = [events EXCEPT ![q.id] = Append(@, e)]
    <3>1. e \in Events
      BY <1>4, <1>5, <2>1 DEF Event, Events, RowStates, Handlers
    <3>2. /\ next \in Handlers /\ next.request = q
          /\ next.pc = "answering" /\ next.ok = TRUE /\ next.old = h.old
      BY <1>8
    <3>3. thread' = [thread EXCEPT ![t] = next]  BY <1>9, <2>3
    <3>4. conn' \in [Connections -> ConnStates]  BY <1>2, <2>3, ConnectionTypes
    <3>5. /\ events' \in [Ids -> Seq(Events)] /\ EventsGrow(events, events')
          /\ \E n \in 1 .. Len(events'[q.id]) : events'[q.id][n] = e
      <4> HIDE DEF e
      <4> QED  BY <1>5, <2>1, <2>3, <3>1, LogGrows
    <3>6. Logged(events'[q.id], h.old, q.status)  BY <3>5 DEF Logged
    <3> HIDE DEF next
    <3>7. HandlerOK(next, rows', events', machineRows')
      BY <2>1, <3>2, <3>6 DEF HandlerOK
    <3>8. /\ rows' \in [Ids -> Rows \cup {NoRow}] /\ RowsGrow(rows, rows')
          /\ machineRows' \in [Machines -> MachineTypes]
          /\ MachinesGrow(machineRows, machineRows')
          /\ \A m \in Machines : machineRows'[m] # "unknown"
      BY <1>2, <1>6, <2>1 DEF OSTypes, MachinesGrow, RowsGrow
    <3> QED  BY <1>1, <1>3, <2>1, <3>2, <3>3, <3>4, <3>5, <3>7, <3>8, HandlerWrote
  <2> QED  BY <1>17, <2>2, <2>3 DEF LogReport, LogEvent, Request
<1>18. CASE WriteMachine(t)
  <2>1. UNCHANGED <<rows, events, create>>  BY <1>18 DEF WriteMachine
  <2>2. CASE DatabaseLocked(t) /\ Answer(t, FALSE) /\ UNCHANGED machineRows
    BY <1>10, <2>1, <2>2 DEF tableVars
  <2> DEFINE next == [h EXCEPT !.pc = "answering", !.ok = TRUE]
  <2>3. CASE /\ Commit(t) /\ Answer(t, TRUE)
             /\ machineRows' = [machineRows EXCEPT ![q.machine] = MachineRowAfter(t)]
    <3>1. /\ q.kind # "report"
          /\ MachineRowAfter(t) = IF q.kind = "register" THEN "known" ELSE machineRows[q.machine]
      BY <1>3, <1>4, <1>18 DEF WriteMachine, MachineRowAfter, Request, At, HandlerOK
    <3>2. /\ next \in Handlers /\ next.request = q
          /\ next.pc = "answering" /\ next.ok = TRUE
      BY <1>8
    <3>3. thread' = [thread EXCEPT ![t] = next]  BY <1>9, <2>3
    <3>4. conn' \in [Connections -> ConnStates]  BY <1>2, <2>3, ConnectionTypes
    <3>5. /\ machineRows' \in [Machines -> MachineTypes]
          /\ MachinesGrow(machineRows, machineRows')
          /\ \A m \in Machines : machineRows'[m] # "unknown"
          /\ q.kind = "register" => machineRows'[q.machine] = "known"
      BY <1>2, <1>5, <1>6, <2>3, <3>1 DEF OSTypes, MachineTypes, MachinesGrow
    <3> HIDE DEF next
    <3>6. HandlerOK(next, rows', events', machineRows')
      BY <3>1, <3>2, <3>5 DEF HandlerOK
    <3>7. /\ rows' \in [Ids -> Rows \cup {NoRow}] /\ RowsGrow(rows, rows')
          /\ events' \in [Ids -> Seq(Events)] /\ EventsGrow(events, events')
      BY <1>2, <2>1, EventsQuiet DEF OSTypes, RowsGrow
    <3>8. \A c \in Calls : rows'[IdOf[c]] \in {rows[IdOf[c]], NoRow}  BY <2>1
    <3> QED  BY <1>1, <1>3, <2>1, <3>2, <3>3, <3>4, <3>5, <3>6, <3>7, <3>8, HandlerWrote
  <2> QED  BY <1>18, <2>2, <2>3 DEF WriteMachine, Request
<1> QED  BY <1>1, <1>11, <1>12, <1>15, <1>16, <1>17, <1>18 DEF HandlerStep

\* The worker's request reaches the OS Core.
LEMMA DeliverStep ==
  ASSUME PathInv, NEW t \in Threads, Deliver(t)
  PROVE  PathInv' /\ RowsGrow(rows, rows')
<1> DEFINE h == [request |-> sending, pc |-> "reading", old |-> "none", ok |-> FALSE]
<1>1. /\ sending # Idle /\ thread[t] = Free
      /\ thread' = [thread EXCEPT ![t] = h] /\ servedBy' = t
      /\ UNCHANGED <<dispatchVars, clientVars, tableVars, conn, create>>
  BY DEF Deliver, Accept
<1>2. UNCHANGED <<queue, sending, registered, workerAlive, rows, events, machineRows>>
  BY <1>1 DEF clientVars, tableVars
<1>3. ClientTypes /\ OSTypes  BY PathTypes DEF PathInv
<1>4. DispatchTypes' /\ CallInv' /\ UNCHANGED <<heard, reply, chosen>>  BY <1>1, DispatchQuiet
<1>5. h \in Handlers  BY <1>1, <1>3 DEF ClientTypes, Handlers, HandlerPcs
<1>6. h.request = sending /\ h.pc = "reading" /\ h # Free  BY <1>5, NothingAssumption
<1> HIDE DEF h
<1>7. thread'[t] = h /\ \A u \in Threads \ {t} : thread'[u] = thread[u]
  BY <1>1, <1>3 DEF OSTypes
<1>8. ClientTypes' /\ OSTypes'  BY <1>1, <1>2, <1>3, <1>5 DEF ClientTypes, OSTypes
<1>9. HandlerOK(h, rows', events', machineRows')  BY <1>6 DEF HandlerOK
<1>10. RequestInv'
  BY <1>1, <1>2, <1>4, <1>6, <1>7, <1>8, RequestsKept, TablesQuiet, GoalsQuiet
<1>11. HandlerInv'  BY <1>1, <1>7, <1>8, <1>9, HandlersKept, TablesQuiet
<1>12. RowInv'  BY <1>1, <1>2, <1>4, RowsKept, TablesQuiet, GoalsQuiet
<1>13. ServedInv'  BY <1>1, <1>2, <1>6, <1>7 DEF ServedInv
<1>14. RegistrationsAgree'  BY <1>2 DEF PathInv, RegistrationsAgree
<1>15. PathTypeOK'  BY <1>4, <1>8 DEF PathTypeOK, DispatchTypes, ClientTypes, OSTypes
<1> QED
  BY <1>1, <1>4, <1>10, <1>11, <1>12, <1>13, <1>14, <1>15, TablesQuiet DEF PathInv

\* The OS Core's answer, which the worker may no longer wait for.
LEMMA AnswerStep ==
  ASSUME PathInv, NEW t \in Threads, AnswerPush(t)
  PROVE  PathInv' /\ RowsGrow(rows, rows')
<1>1. /\ At(t, "answering") /\ thread' = [thread EXCEPT ![t] = Free]
      /\ UNCHANGED <<dispatchVars, tableVars, conn, create>>
      /\ UNCHANGED <<rows, events, machineRows>>
  BY DEF AnswerPush, tableVars
<1>2. ClientTypes /\ OSTypes  BY PathTypes DEF PathInv
<1>3. thread'[t] = Free /\ \A u \in Threads \ {t} : thread'[u] = thread[u]
  BY <1>1, <1>2 DEF OSTypes
<1>4. DispatchTypes' /\ CallInv' /\ UNCHANGED <<heard, reply, chosen>>  BY <1>1, DispatchQuiet
<1>5. OSTypes'  BY <1>1, <1>2 DEF OSTypes
<1>6. /\ ClientTypes' /\ UNCHANGED queue /\ sending' \in {sending, Idle}
      /\ \A m \in Machines : m \in registered' => machineRows[m] = "known"
      /\ servedBy' = NoThread \/ (UNCHANGED <<servedBy, sending>> /\ servedBy # t)
  <2>1. CASE servedBy # t
    <3>1. UNCHANGED <<queue, sending, registered, workerAlive, servedBy>>
      BY <2>1 DEF AnswerPush, clientVars
    <3> QED  BY <1>2, <2>1, <3>1 DEF ClientTypes, PathInv, RegistrationsAgree
  <2>2. CASE servedBy = t
    <3>1. servedBy # NoThread  BY <2>2, PathAssumption
    <3>2. sending # Idle /\ thread[t] # Free /\ thread[t].request = sending
      BY <2>2, <3>1 DEF PathInv, ServedInv
    <3>3. sending \in OSRequests  BY <1>2, <3>2 DEF ClientTypes
    <3>4. sending.kind = "register" => sending.machine \in Machines  BY <3>3, RequestFields
    <3>5. CASE thread[t].ok /\ SendAnswered
      <4>1. /\ sending' = Idle /\ UNCHANGED <<queue, workerAlive>>
            /\ registered' = registered \cup
                 (IF sending.kind = "register" THEN {sending.machine} ELSE {})
        BY <3>5 DEF SendAnswered
      <4>2. HandlerOK(thread[t], rows, events, machineRows)  BY <3>2 DEF PathInv, HandlerInv
      <4>3. sending.kind = "register" => machineRows[sending.machine] = "known"
        BY <1>1, <3>2, <3>5, <4>2 DEF HandlerOK, At
      <4>4. registered' \subseteq Machines  BY <1>2, <3>4, <4>1 DEF ClientTypes
      <4>5. \A m \in registered' : machineRows[m] = "known"
        BY <1>2, <4>1, <4>3 DEF ClientTypes, PathInv, RegistrationsAgree
      <4>6. servedBy' = NoThread  BY <2>2 DEF AnswerPush
      <4> QED  BY <1>2, <4>1, <4>4, <4>5, <4>6 DEF ClientTypes
    <3>6. CASE SendFailed
      <4>1. sending' = Idle /\ UNCHANGED <<queue, registered, workerAlive>>
        BY <3>6 DEF SendFailed
      <4>2. servedBy' = NoThread  BY <2>2 DEF AnswerPush
      <4> QED  BY <1>2, <4>1, <4>2 DEF ClientTypes, PathInv, RegistrationsAgree
    <3> QED  BY <2>2, <3>5, <3>6 DEF AnswerPush
  <2> QED  BY <2>1, <2>2
<1>7. RequestInv'
  BY <1>1, <1>3, <1>4, <1>5, <1>6, RequestsKept, TablesQuiet, GoalsQuiet
<1>8. HandlerInv'  BY <1>1, <1>3, <1>5, HandlersKept, TablesQuiet
<1>9. RowInv'  BY <1>1, <1>4, RowsKept, TablesQuiet, GoalsQuiet
<1>10. ServedInv'
  BY <1>2, <1>3, <1>6 DEF PathInv, ServedInv, ClientTypes
<1>11. RegistrationsAgree'  BY <1>1, <1>6 DEF PathInv, RegistrationsAgree
<1>12. PathTypeOK'  BY <1>4, <1>5, <1>6 DEF PathTypeOK, DispatchTypes, ClientTypes, OSTypes
<1> QED
  BY <1>1, <1>4, <1>7, <1>8, <1>9, <1>10, <1>11, <1>12, TablesQuiet DEF PathInv

-----------------------------------------------------------------------------
(* Restarts *)

LEMMA AdapterRestart ==
  ASSUME PathInv, AdapterRestarts
  PROVE  PathInv' /\ RowsGrow(rows, rows')
<1>1. /\ queue' = <<>> /\ sending' = Idle /\ registered' = {} /\ workerAlive' = TRUE
      /\ servedBy' = NoThread
      /\ UNCHANGED <<chosen, reply, goal, tableVars, rows, events, machineRows, conn, create,
                     thread>>
  BY DEF AdapterRestarts, osVars, tableVars
<1>2. DispatchTypes  BY PathTypes DEF PathInv
<1>3. \A c \in Calls :
        \/ call'[c] = call[c] /\ feedback'[c] = feedback[c] /\ onResult'[c] = onResult[c]
        \/ /\ call'[c] = "done" /\ onResult'[c] = "done"
           /\ \A n \in 1 .. MaxFeedback : feedback'[c][n] = "done"
  BY DEF AdapterRestarts
<1>4. DispatchTypes'
  BY <1>1, <1>2 DEF AdapterRestarts, DispatchTypes, CallPcs, CallbackPcs
<1>5. /\ CallInv'
      /\ GoalsGrow(heard, heard') /\ AnswersStand
  <2>1. ASSUME NEW c \in Calls
        PROVE  CallOK(call'[c], reply'[c], goal'[c], feedback'[c], onResult'[c])
    <3>1. CallOK(call[c], reply[c], goal[c], feedback[c], onResult[c])  BY DEF PathInv, CallInv
    <3> QED  BY <1>1, <1>3, <3>1 DEF CallOK
  <2>2. \A c \in Calls : Reported(onResult[c]) => Reported(onResult'[c])
    BY <1>3 DEF Reported
  <2>3. GoalsGrow(heard, heard')
    BY <1>1, <2>2 DEF GoalsGrow, heard, HeardOf, Dispatched, GoalEnds
  <2> QED  BY <1>1, <2>1, <2>3 DEF CallInv, AnswersStand
<1>6. ClientTypes'  BY <1>1, QueueAssumption DEF ClientTypes
<1>7. OSTypes'  BY <1>1, PathTypes DEF PathInv, OSTypes
<1>8. Len(queue') = 0  BY <1>1
<1>9. RequestInv'
  BY <1>1, <1>5, <1>6, <1>7, <1>8, RequestsKept, TablesQuiet
<1>10. HandlerInv'  BY <1>1, <1>7, HandlersKept, TablesQuiet
<1>11. RowInv'  BY <1>1, <1>5, RowsKept, TablesQuiet
<1>12. ServedInv'  BY <1>1 DEF ServedInv
<1>13. RegistrationsAgree'  BY <1>1 DEF PathInv, RegistrationsAgree
<1>14. PathTypeOK'  BY <1>4, <1>6, <1>7 DEF PathTypeOK, DispatchTypes, ClientTypes, OSTypes
<1> QED
  BY <1>1, <1>5, <1>9, <1>10, <1>11, <1>12, <1>13, <1>14, TablesQuiet DEF PathInv

LEMMA OSRestart ==
  ASSUME PathInv, OSRestarts
  PROVE  PathInv' /\ RowsGrow(rows, rows')
<1>1. /\ conn' = [k \in Connections |-> "idle"]
      /\ create' = [i \in Ids |-> IF create[i] = "none" THEN "none" ELSE "done"]
      /\ thread' = [t \in Threads |-> Free]
      /\ servedBy' = NoThread
      /\ UNCHANGED <<dispatchVars, tableVars, rows, events, machineRows>>
      /\ sending' \in {sending, Idle} /\ UNCHANGED <<queue, registered, workerAlive>>
  BY DEF OSRestarts, SendFailed, clientVars, tableVars
<1>2. ClientTypes'  BY <1>1, PathTypes DEF PathInv, ClientTypes
<1>3. OSTypes'
  BY <1>1, PathTypes DEF PathInv, OSTypes, ConnStates, CreatePcs
<1>4. DispatchTypes' /\ CallInv' /\ UNCHANGED <<heard, reply, chosen>>  BY <1>1, DispatchQuiet
<1>5. RequestInv'
  BY <1>1, <1>2, <1>3, <1>4, RequestsKept, TablesQuiet, GoalsQuiet
<1>6. HandlerInv'  BY <1>1 DEF HandlerInv
<1>7. \A i \in Ids : create'[i] \notin {"posting"} \cup Logging  BY <1>1 DEF Logging
<1>8. RowInv'  BY <1>1, <1>4, <1>7, RowsKept, TablesQuiet, GoalsQuiet
<1>9. ServedInv'  BY <1>1 DEF ServedInv
<1>10. RegistrationsAgree'  BY <1>1 DEF PathInv, RegistrationsAgree
<1>11. PathTypeOK'  BY <1>2, <1>3, <1>4 DEF PathTypeOK, DispatchTypes, ClientTypes, OSTypes
<1> QED
  BY <1>1, <1>4, <1>5, <1>6, <1>8, <1>9, <1>10, <1>11, TablesQuiet DEF PathInv

-----------------------------------------------------------------------------
(* The theorems *)

LEMMA PathInitially == PathInit => PathInv
<1> SUFFICES ASSUME PathInit  PROVE PathInv
  OBVIOUS
<1>1. PathTypeOK
  BY QueueAssumption DEF PathInit, Init, DispatchInit, ClientInit, OSInit, PathTypeOK, CallPcs,
     Replies, GoalStates, CallbackPcs, MachineTypes, ConnStates, CreatePcs
<1>2. CallInv
  BY DEF PathInit, Init, DispatchInit, CallInv, CallOK
<1>3. RequestInv
  <2>1. queue = <<>> /\ sending = Idle /\ \A t \in Threads : thread[t] = Free
    BY DEF PathInit, Init, ClientInit, OSInit
  <2>2. Len(queue) = 0  BY <2>1
  <2> QED  BY <2>1, <2>2 DEF RequestInv
<1>4. ServedInv  BY DEF PathInit, ServedInv
<1>5. HandlerInv  BY DEF PathInit, OSInit, HandlerInv
<1>6. RowInv  BY DispatchAssumption DEF PathInit, OSInit, RowInv, Logging
<1>7. RegistrationsAgree  BY DEF PathInit, Init, ClientInit, OSInit, RegistrationsAgree
<1> QED  BY <1>1, <1>2, <1>3, <1>4, <1>5, <1>6, <1>7 DEF PathInv

\* No step undoes what is recorded, and none breaks the invariant.
LEMMA PathStep ==
  ASSUME OwnIds, PathInv, [PathNext]_pathVars
  PROVE  PathInv' /\ RowsGrow(rows, rows')
<1>1. CASE UNCHANGED pathVars
  <2>1. UNCHANGED <<clientVars, osVars, servedBy, dispatchVars, tableVars>>
    BY <1>1 DEF pathVars, osVars
  <2> QED  BY <2>1, DispatchQuiet, GoalsQuiet, AdapterOnly, TablesQuiet
<1>2. ASSUME NEW c \in Calls, AdapterStep(c) \/ PostMission(c) \/ PostDirectly(c)
      PROVE  PathInv' /\ RowsGrow(rows, rows')
  <2>1. CASE ReportStep(c) /\ UNCHANGED <<osVars, servedBy>>
    <3>1. UNCHANGED tableVars  BY <2>1 DEF osVars
    <3> QED  BY <2>1, <3>1, ReportSteps, TablesQuiet
  <2>2. CASE /\ Receive(c) \/ CallStep(c) \/ MachineStep(c) \/ RecordStep(c)
             /\ UNCHANGED <<clientVars, osVars, servedBy>>
    <3>1. UNCHANGED tableVars  BY <2>2 DEF osVars
    <3> QED  BY <2>2, <3>1, CallSteps, CallbackSteps, AdapterOnly, TablesQuiet
  <2> QED  BY <1>2, <2>1, <2>2 DEF AdapterStep, PostMission, PostDirectly
<1>3. ASSUME NEW c \in Calls,
             CreateMission(c) \/ NotReached(c) \/ AnswerLost(c) \/ CreateStep(c)
      PROVE  PathInv' /\ RowsGrow(rows, rows')
  BY <1>3, CreateSteps
<1>4. ASSUME NEW m \in Machines, Heartbeat(m)
      PROVE  PathInv' /\ RowsGrow(rows, rows')
  <2>1. UNCHANGED tableVars  BY <1>4 DEF Heartbeat, osVars
  <2> QED  BY <1>4, <2>1, HeartbeatStep, TablesQuiet
<1>5. CASE Take \/ PushLost
  <2>1. UNCHANGED tableVars  BY <1>5 DEF Take, PushLost, osVars
  <2> QED  BY <1>5, <2>1, WorkerSteps, TablesQuiet
<1>6. ASSUME NEW t \in Threads,
             Deliver(t) \/ AnswerPush(t) \/ HandleRequest(t) \/ OtherUse(t)
      PROVE  PathInv' /\ RowsGrow(rows, rows')
  BY <1>6, DeliverStep, AnswerStep, HandlerSteps, OtherUses
<1>7. CASE AdapterRestarts  BY <1>7, AdapterRestart
<1>8. CASE OSRestarts  BY <1>8, OSRestart
<1> QED
  BY <1>1, <1>2, <1>3, <1>4, <1>5, <1>6, <1>7, <1>8 DEF PathNext

\* The inductive invariant holds in every reachable state.
THEOREM PathInvariance == ASSUME OwnIds PROVE PathSafeSpec => []PathInv
<1>1. PathInv /\ [PathNext]_pathVars => PathInv'  BY PathStep
<1> QED  BY <1>1, PathInitially, PTL DEF PathSafeSpec

\* Every variable of the composition stays in its domain.
THEOREM PathTypeCorrect == ASSUME OwnIds PROVE PathSafeSpec => []PathTypeOK
<1>1. PathInv => PathTypeOK  BY DEF PathInv
<1> QED  BY <1>1, PathInvariance, PTL

\* The OS Core shows no mission COMPLETED, and records no result_state, that the
\* machine did not give it.
THEOREM OutcomesAreTrue == ASSUME OwnIds PROVE PathSafeSpec => []NoFalseOutcome
<1>1. PathInv => NoFalseOutcome
  <2> SUFFICES ASSUME PathInv, NEW c \in Calls, rows[IdOf[c]] # NoRow
               PROVE  LET row == rows[IdOf[c]]
                      IN  /\ "COMPLETED" \in {row.state, row.result_state}
                               => goal[c] = "succeeded"
                          /\ row.result_state = "EXCEPTION"
                               => goal[c] \in {"aborted", "canceled", "raised"}
    BY DEF NoFalseOutcome
  <2>1. RowOK(rows[IdOf[c]], heard[c], reply[c], chosen[c])  BY DEF PathInv, RowInv
  <2>2. heard[c] \in {"succeeded"} \cup FailedGoals => goal[c] = heard[c]
    BY DEF heard, HeardOf, FailedGoals
  <2> QED  BY <2>1, <2>2 DEF RowOK, Truly, FailedGoals
<1> QED  BY <1>1, PathInvariance, PTL

\* A mission whose caller was told that it does not run is never shown running,
\* assigned or with a result.
THEOREM RefusalsAreFinal == ASSUME OwnIds PROVE PathSafeSpec => []RefusedStaysRefused
<1>1. PathInv => RefusedStaysRefused
  <2> SUFFICES ASSUME PathInv, NEW c \in Calls,
                      reply[c] \in {"409 no_machine", "503 not_ready",
                                    "409 machine_rejected_goal"},
                      rows[IdOf[c]] # NoRow
               PROVE  /\ rows[IdOf[c]].state \in {"PENDING", "EXCEPTION"}
                      /\ rows[IdOf[c]].result_state = "none"
                      /\ rows[IdOf[c]].machine = NoMachine
    BY DEF RefusedStaysRefused
  <2>1. RowOK(rows[IdOf[c]], heard[c], reply[c], chosen[c])  BY DEF PathInv, RowInv
  <2>2. heard[c] \in {"unsent", "refused"}
    BY DEF PathInv, CallInv, CallOK, heard, HeardOf, GoalEnds
  <2>3. rows[IdOf[c]] \in Rows
    BY PathTypes, DispatchAssumption DEF PathInv, OSTypes
  <2>4. rows[IdOf[c]].state \in RowStates  BY <2>3 DEF Rows
  <2> QED
    BY <2>1, <2>2, <2>4 DEF RowOK, Truly, Dispatched, GoalEnds, RowStates
<1> QED  BY <1>1, PathInvariance, PTL

\* A machine the adapter believes registered is, and as the adapter described it.
THEOREM RegistrationsHold == ASSUME OwnIds PROVE PathSafeSpec => []RegistrationsAgree
<1>1. PathInv => RegistrationsAgree  BY DEF PathInv
<1> QED  BY <1>1, PathInvariance, PTL

\* A report that is answered with success is stored, as row and as event.
THEOREM SuccessMeansStored ==
  ASSUME OwnIds PROVE PathSafeSpec => []DeliveredReportsAreStored
<1>1. PathInv => DeliveredReportsAreStored
  <2> SUFFICES ASSUME PathInv, NEW t \in Threads, At(t, "answering"), thread[t].ok,
                      Request(t).kind = "report", thread[t].old # "none"
               PROVE  LET i == Request(t).id
                          s == Request(t).status
                      IN  /\ s # "RUNNING" => rows[i].result_state = s
                          /\ \E n \in DOMAIN events[i] :
                               events[i][n] = Event("REPORT", thread[t].old, s)
    BY DEF DeliveredReportsAreStored
  <2>1. thread[t] # Free /\ thread[t].pc = "answering"  BY DEF At
  <2>2. HandlerOK(thread[t], rows, events, machineRows)  BY <2>1 DEF PathInv, HandlerInv
  <2>3. OSTypes  BY PathTypes DEF PathInv
  <2>4. thread[t].request \in OSRequests  BY <2>1, <2>3 DEF OSTypes, Handlers
  <2>5. events[Request(t).id] \in Seq(Events)
    BY <2>3, <2>4, RequestFields DEF OSTypes, Request
  <2>6. DOMAIN events[Request(t).id] = 1 .. Len(events[Request(t).id])  BY <2>5
  <2> QED  BY <2>1, <2>2, <2>6 DEF HandlerOK, Outcome, Logged, Request
<1> QED  BY <1>1, PathInvariance, PTL

\* An outcome is recorded once.
THEOREM OutcomeIsRecordedOnce == ASSUME OwnIds PROVE PathSafeSpec => OutcomeRecordedOnce
<1>1. PathInv /\ [PathNext]_pathVars =>
        [\A i \in Ids :
           ResultRecorded(i) => rows'[i].result_state = rows[i].result_state]_pathVars
  BY PathStep DEF RowsGrow, ResultRecorded
<1> QED  BY <1>1, PathInvariance, PTL DEF PathSafeSpec, OutcomeRecordedOnce
=============================================================================
