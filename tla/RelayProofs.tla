---------------------------- MODULE RelayProofs ----------------------------
(***************************************************************************)
(* MissionPath implements OutcomeRelay, for any instance, with losses and  *)
(* restarts, if every call has a mission id of its own: a step of one is a *)
(* step of the other, or none.                                             *)
(***************************************************************************)
EXTENDS LedgerProofs

Outcomes == {"COMPLETED", "EXCEPTION"}

OutcomeReport(c, o) == Report(IdOf[c], o)

-----------------------------------------------------------------------------
(* What a step has to show, station by station *)

EndsStand     == \A c \in Calls : OutcomeOf(goal'[c]) = OutcomeOf(goal[c])
NotesStand    == \A c \in Calls : NotedOf(records'[IdOf[c]], onResult'[c])
                                    = NotedOf(records[IdOf[c]], onResult[c])
RecordedStand == \A c \in Calls : RecordedOf(rows'[IdOf[c]]) = RecordedOf(rows[IdOf[c]])
NoneAdded     == \A c \in Calls : \A o \in Outcomes :
                   UnderWay(OutcomeReport(c, o))' => UnderWay(OutcomeReport(c, o))

LEMMA Loses ==
  ASSUME EndsStand, NotesStand, RecordedStand, NoneAdded
  PROVE  Relay!Lose
BY DEF EndsStand, NotesStand, RecordedStand, NoneAdded, Relay!Lose, Outcomes, OutcomeReport

LEMMA Forgets ==
  ASSUME EndsStand, RecordedStand, NoneAdded,
         \A c \in Calls : NotedOf(records'[IdOf[c]], onResult'[c]) = "none"
  PROVE  Relay!Forget
BY DEF EndsStand, RecordedStand, NoneAdded, Relay!Forget, Outcomes, OutcomeReport

\* Two reports are the same if they are about the same call and say the same.
LEMMA ReportsDiffer ==
  ASSUME OwnIds, NEW c \in Calls, NEW d \in Calls, NEW s, NEW o,
         OutcomeReport(c, s) = OutcomeReport(d, o)
  PROVE  c = d /\ s = o
BY DEF OutcomeReport, Report, OwnIds

\* A step that takes requests out, or hands them on, adds none.
LEMMA TakesOut ==
  ASSUME \A n \in 1 .. Len(queue') : \E k \in 1 .. Len(queue) : queue'[n] = queue[k],
         \/ sending' \in {sending, Idle}
         \/ \E k \in 1 .. Len(queue) : sending' = queue[k],
         \A t \in Threads :
           \/ thread'[t] = Free
           \/ thread[t] # Free /\ thread'[t].request = thread[t].request
           \/ sending # Idle /\ thread'[t].request = sending
  PROVE  NoneAdded
<1> SUFFICES ASSUME NEW c \in Calls, NEW o \in Outcomes, UnderWay(OutcomeReport(c, o))'
             PROVE  UnderWay(OutcomeReport(c, o))
  BY DEF NoneAdded
<1> DEFINE q == OutcomeReport(c, o)
<1>1. \/ \E n \in 1 .. Len(queue') : queue'[n] = q
      \/ sending' # Idle /\ sending' = q
      \/ \E t \in Threads : thread'[t] # Free /\ thread'[t].request = q
  BY DEF UnderWay, Request, OutcomeReport, Report
<1> HIDE DEF q
<1>2. UnderWay(q)  BY <1>1 DEF UnderWay, Request
<1> QED  BY <1>2 DEF q

LEMMA RequestsStand ==
  ASSUME PathInv, UNCHANGED <<queue, sending, thread>>
  PROVE  NoneAdded
<1>1. \A n \in 1 .. Len(queue') : n \in 1 .. Len(queue) /\ queue'[n] = queue[n]
  OBVIOUS
<1> QED  BY <1>1, TakesOut

\* Neither does a request that is not about an outcome.
LEMMA PutsOther ==
  ASSUME PathInv, NEW request \in OSRequests, Enqueue(request), UNCHANGED thread,
         \A c \in Calls : \A o \in Outcomes : request # OutcomeReport(c, o)
  PROVE  NoneAdded
<1> SUFFICES ASSUME NEW c \in Calls, NEW o \in Outcomes, UnderWay(OutcomeReport(c, o))'
             PROVE  UnderWay(OutcomeReport(c, o))
  BY DEF NoneAdded
<1> DEFINE q == OutcomeReport(c, o)
<1>1. q # request  OBVIOUS
<1>2. /\ queue \in Seq(OSRequests) /\ Len(queue) <= MaxQueued
      /\ queue' = Enqueued(queue, request) /\ sending' = sending
  BY PathTypes DEF PathInv, ClientTypes, Enqueue
<1>3. \A n \in 1 .. Len(queue') :
        queue'[n] = request \/ (n \in 1 .. Len(queue) /\ queue'[n] = queue[n])
  BY <1>2, QueueElements
<1>4. \/ \E n \in 1 .. Len(queue') : queue'[n] = q
      \/ sending' # Idle /\ sending' = q
      \/ \E t \in Threads : thread'[t] # Free /\ thread'[t].request = q
  BY DEF UnderWay, Request, OutcomeReport, Report
<1> HIDE DEF q
<1>5. UnderWay(q)  BY <1>1, <1>2, <1>3, <1>4 DEF UnderWay, Request
<1> QED  BY <1>5 DEF q

\* A goal that has not ended has no outcome, one that has has one, and nothing is
\* noted before the result callback has run.
LEMMA OpenGoal ==
  ASSUME NEW g, g \notin GoalEnds PROVE OutcomeOf(g) = "none"
BY DEF OutcomeOf, GoalEnds

LEMMA EndedGoal ==
  ASSUME NEW g \in GoalEnds
  PROVE  OutcomeOf(g) = IF Verdict(g) = "COMPLETED" THEN "COMPLETED" ELSE "EXCEPTION"
<1>1. CASE g = "succeeded"
  BY <1>1 DEF OutcomeOf, Verdict, ResultStateOf, GoalEnds
<1>2. CASE g \in {"aborted", "canceled", "raised"}
  BY <1>2 DEF OutcomeOf, Verdict, ResultStateOf, GoalEnds
<1> QED  BY <1>1, <1>2 DEF GoalEnds

LEMMA NotYetNoted ==
  ASSUME NEW record, NEW result, ~Reported(result)
  PROVE  NotedOf(record, result) = "none"
BY DEF NotedOf, Reported

LEMMA RecordsStand ==
  ASSUME UNCHANGED rows PROVE RecordedStand
BY DEF RecordedStand

LEMMA DispatchStands ==
  ASSUME UNCHANGED <<records, goal, onResult>> PROVE EndsStand /\ NotesStand
BY DEF EndsStand, NotesStand

-----------------------------------------------------------------------------
(* The adapter *)

\* A record that is made or marked before the result is in notes no outcome.
LEMMA CallRelays ==
  ASSUME OwnIds, LedgerInv, NEW c \in Calls, Receive(c) \/ CallStep(c),
         UNCHANGED <<clientVars, osVars>>
  PROVE  Relay!Lose
<1>1. /\ DispatchTypes /\ IdOf[c] \in Ids
      /\ \A d \in Calls \ {c} : IdOf[d] \in Ids \ {IdOf[c]}
  BY PathTypes, DispatchAssumption DEF LedgerInv, PathInv, OwnIds
<1>2. call[c] # "done" /\ onResult[c] = "none"
  <2>1. call[c] # "done"
    BY DEF Receive, CallStep, CheckId, SelectMachine, Connect, SendGoal, CallReturns,
       GoalAccepted, GoalRefused, GiveUp
  <2> QED  BY <2>1, BeforeGoal
<1>3. /\ onResult'[c] \in {"none", "due"}
      /\ \A d \in Calls \ {c} : onResult'[d] = onResult[d]
  BY <1>1, <1>2 DEF Receive, CallStep, CheckId, SelectMachine, Connect, SendGoal, CallReturns,
     GoalAccepted, GoalRefused, GiveUp, callbackVars, DispatchTypes
<1>4. /\ \A d \in Calls \ {c} : goal'[d] = goal[d]
      /\ goal'[c] = goal[c] \/ (goal[c] = "unsent" /\ goal'[c] = "offered")
  <2>1. CASE SendGoal(c)
    <3>1. goal[c] = "unsent"  BY <2>1, BeforeGoal DEF SendGoal
    <3> QED  BY <1>1, <2>1, <3>1 DEF SendGoal, DispatchTypes
  <2>2. CASE ~SendGoal(c)
    <3>1. UNCHANGED goal
      BY <2>2 DEF Receive, CallStep, CheckId, SelectMachine, Connect, CallReturns,
         GoalAccepted, GoalRefused, GiveUp, callbackVars
    <3> QED  BY <3>1
  <2> QED  BY <2>1, <2>2
<1>5. \A i \in Ids \ {IdOf[c]} : records'[i] = records[i]
  <2>1. records \in [Ids -> MaybeRecords]  BY DEF LedgerInv, RecordInv
  <2>2. CASE UNCHANGED records  BY <2>2
  <2>3. CASE SendGoal(c)  BY <2>1, <2>3 DEF SendGoal
  <2>4. CASE GoalRefused(c) \/ GiveUp(c)
    BY <2>1, <2>4 DEF GoalRefused, GiveUp, FailMission
  <2> QED
    BY <2>2, <2>3, <2>4 DEF Receive, CallStep, CheckId, SelectMachine, Connect, CallReturns,
       GoalAccepted, callbackVars
<1>6. EndsStand
  <2>1. OutcomeOf(goal'[c]) = OutcomeOf(goal[c])  BY <1>4, OpenGoal DEF GoalEnds
  <2> QED  BY <1>4, <2>1 DEF EndsStand
<1>7. NotesStand
  <2>1. NotedOf(records'[IdOf[c]], onResult'[c]) = NotedOf(records[IdOf[c]], onResult[c])
    BY <1>2, <1>3, NotYetNoted DEF Reported
  <2> QED  BY <1>1, <1>3, <1>5, <2>1 DEF NotesStand
<1>8. UNCHANGED <<queue, sending, thread, rows>>  BY DEF clientVars, osVars, tableVars
<1> QED  BY <1>6, <1>7, <1>8, Loses, RequestsStand, RecordsStand DEF LedgerInv

\* The machine ends the mission.
LEMMA MachineRelays ==
  ASSUME OwnIds, LedgerInv, NEW c \in Calls, MachineStep(c), UNCHANGED <<clientVars, osVars>>
  PROVE  Relay!Lose \/ Relay!End(c)
<1>1. DispatchTypes  BY PathTypes DEF LedgerInv, PathInv
<1>2. UNCHANGED <<records, onResult, queue, sending, thread, rows>>
  BY DEF MachineStep, MachineAccepts, MachineRefuses, MachineSendsFeedback, MachineEnds,
     callbackVars, clientVars, osVars, tableVars
<1>3. NotesStand /\ RecordedStand  BY <1>2 DEF NotesStand, RecordedStand
<1>4. CASE ~MachineEnds(c)
  <2>1. /\ \A d \in Calls \ {c} : goal'[d] = goal[d]
        /\ goal'[c] = goal[c] \/ {goal[c], goal'[c]} \cap GoalEnds = {}
    BY <1>1, <1>4 DEF MachineStep, MachineAccepts, MachineRefuses, MachineSendsFeedback,
       DispatchTypes, GoalEnds
  <2>2. OutcomeOf(goal'[c]) = OutcomeOf(goal[c])  BY <2>1, OpenGoal
  <2>3. EndsStand  BY <2>1, <2>2 DEF EndsStand
  <2> QED  BY <1>2, <1>3, <2>3, Loses, RequestsStand DEF LedgerInv
<1>5. CASE MachineEnds(c)
  <2>1. PICK e \in GoalEnds : goal[c] = "accepted" /\ goal' = [goal EXCEPT ![c] = e]
    BY <1>5 DEF MachineEnds
  <2>2. /\ goal'[c] = e /\ \A d \in Calls \ {c} : goal'[d] = goal[d]
        /\ OutcomeOf(goal[c]) = "none"
    BY <1>1, <2>1 DEF DispatchTypes, OutcomeOf, GoalEnds
  <2>3. OutcomeOf(e) \in Outcomes  BY DEF OutcomeOf, Outcomes
  <2> DEFINE was == [d \in Calls |-> OutcomeOf(goal[d])]
  <2>4. [d \in Calls |-> OutcomeOf(goal'[d])] = [was EXCEPT ![c] = OutcomeOf(e)]
    BY <2>2
  <2>5. /\ UNCHANGED [d \in Calls |-> NotedOf(records[IdOf[d]], onResult[d])]
        /\ UNCHANGED [d \in Calls |-> RecordedOf(rows[IdOf[d]])]
        /\ UNCHANGED {x \in Calls \X {"COMPLETED", "EXCEPTION"} :
                        UnderWay(Report(IdOf[x[1]], x[2]))}
    BY <1>2 DEF UnderWay, Request
  <2> QED  BY <2>2, <2>3, <2>4, <2>5 DEF Relay!End, Relay!Outcomes, Outcomes
<1> QED  BY <1>4, <1>5

\* Feedback leaves what is noted as it is, the result notes it.
LEMMA CallbackRelays ==
  ASSUME OwnIds, LedgerInv, NEW c \in Calls, RecordStep(c), UNCHANGED <<clientVars, osVars>>
  PROVE  Relay!Lose \/ Relay!Note(c)
<1> DEFINE r == records[IdOf[c]]
<1>1. /\ DispatchTypes /\ RecordOf(c) /\ records \in [Ids -> MaybeRecords]
      /\ IdOf[c] \in Ids /\ \A d \in Calls \ {c} : IdOf[d] \in Ids \ {IdOf[c]}
      /\ CallOK(call[c], reply[c], goal[c], feedback[c], onResult[c])
  BY PathTypes, DispatchAssumption DEF LedgerInv, PathInv, RecordInv, OwnIds, CallInv
<1>2. UNCHANGED <<goal, queue, sending, thread, rows>>
  BY DEF RecordStep, FeedbackRecord, ResultRecord, clientVars, osVars, tableVars
<1>3. EndsStand /\ RecordedStand /\ NoneAdded
  BY <1>2, RequestsStand DEF EndsStand, RecordedStand, LedgerInv
<1>4. ASSUME NEW n \in 1 .. MaxFeedback, FeedbackRecord(c, n)  PROVE Relay!Lose
  <2>1. /\ feedback[c][n] = "due" /\ UNCHANGED onResult
        /\ records' = [records EXCEPT ![IdOf[c]].state = RunningAfter(@)]
    BY <1>4 DEF FeedbackRecord
  <2>2. CASE ~Reported(onResult[c])
    <3>1. \A d \in Calls \ {c} : records'[IdOf[d]] = records[IdOf[d]]  BY <1>1, <2>1
    <3> QED  BY <1>3, <2>1, <2>2, <3>1, NotYetNoted, Loses DEF NotesStand
  <2>3. CASE Reported(onResult[c])
    <3>1. r # NoRecord  BY <1>1, <2>1 DEF RecordOf, RecordOK, CallOK, Dispatched, GoalEnds
    <3>2. r.state = Verdict(goal[c]) /\ goal[c] \in GoalEnds
      BY <1>1, <2>3, <3>1 DEF RecordOf, RecordOK
    <3>3. RunningAfter(r.state) = r.state
      BY <3>2 DEF RunningAfter, Verdict, ResultStateOf, GoalEnds
    <3>4. r \in MissionRecords  BY <1>1, <3>1 DEF MaybeRecords
    <3>5. [r EXCEPT !.state = RunningAfter(r.state)] = r  BY <3>3, <3>4 DEF MissionRecords
    <3>6. records' = [records EXCEPT ![IdOf[c]] = [r EXCEPT !.state = RunningAfter(r.state)]]
      BY <1>1, <2>1
    <3>7. \A d \in Calls : records'[IdOf[d]] = records[IdOf[d]]
      BY <1>1, <3>5, <3>6
    <3> QED  BY <1>3, <2>1, <3>7, Loses DEF NotesStand
  <2> QED  BY <2>2, <2>3
<1>5. CASE ResultRecord(c)
  <2> DEFINE x == [r EXCEPT !.state = Verdict(goal[c]), !.result = ResultStateOf(goal[c]),
                            !.error = ""]
             was == [d \in Calls |-> NotedOf(records[IdOf[d]], onResult[d])]
  <2>1. /\ onResult[c] = "due" /\ goal[c] \in GoalEnds
        /\ onResult' = [onResult EXCEPT ![c] = AfterLock]
        /\ records' = [records EXCEPT ![IdOf[c]] = x]
    BY <1>1, <1>5 DEF ResultRecord
  <2>2. r \in MissionRecords
    BY <1>1, <2>1 DEF RecordOf, RecordOK, GoalEnds, MaybeRecords
  <2>3. x.state = Verdict(goal[c]) /\ x \in MissionRecords
    BY <2>1, <2>2 DEF MissionRecords, RecordStates, RecordEnds, Verdict, ResultStateOf, GoalEnds
  <2>4. x # NoRecord  BY <2>3, RecordAssumption
  <2> HIDE DEF x, r
  <2>5. /\ records'[IdOf[c]] = x /\ onResult'[c] \in {"reporting", "done"}
        /\ \A d \in Calls \ {c} : records'[IdOf[d]] = records[IdOf[d]] /\ onResult'[d] = onResult[d]
    BY <1>1, <2>1 DEF AfterLock, DispatchTypes
  <2>6. NotedOf(x, onResult'[c]) = OutcomeOf(goal[c])
    <3>1. CASE goal[c] = "succeeded"
      BY <2>3, <2>4, <2>5, <3>1 DEF NotedOf, OutcomeOf, Verdict, ResultStateOf, GoalEnds
    <3>2. CASE goal[c] = "canceled"
      BY <2>3, <2>4, <2>5, <3>2 DEF NotedOf, OutcomeOf, Verdict, ResultStateOf, GoalEnds
    <3>3. CASE goal[c] \in {"aborted", "raised"}
      BY <2>3, <2>4, <2>5, <3>3 DEF NotedOf, OutcomeOf, Verdict, ResultStateOf, GoalEnds
    <3> QED  BY <2>1, <3>1, <3>2, <3>3 DEF GoalEnds
  <2>7. OutcomeOf(goal[c]) # "none"  BY <2>1, EndedGoal
  <2>8. was[c] = "none"  BY <2>1, NotYetNoted DEF Reported
  <2>9. [d \in Calls |-> NotedOf(records'[IdOf[d]], onResult'[d])]
          = [was EXCEPT ![c] = OutcomeOf(goal[c])]
    BY <2>5, <2>6
  <2>10. /\ UNCHANGED [d \in Calls |-> OutcomeOf(goal[d])]
         /\ UNCHANGED [d \in Calls |-> RecordedOf(rows[IdOf[d]])]
         /\ UNCHANGED {y \in Calls \X {"COMPLETED", "EXCEPTION"} :
                         UnderWay(Report(IdOf[y[1]], y[2]))}
    BY <1>2 DEF UnderWay, Request
  <2> QED  BY <2>7, <2>8, <2>9, <2>10 DEF Relay!Note
<1> QED  BY <1>4, <1>5 DEF RecordStep

\* What is noted is reported, if there is room for it.
LEMMA ReportRelays ==
  ASSUME OwnIds, LedgerInv, NEW c \in Calls, ReportStep(c), UNCHANGED osVars
  PROVE  Relay!Lose \/ Relay!Report(c)
<1>1. /\ DispatchTypes /\ RecordOf(c) /\ IdOf[c] \in Ids
      /\ CallOK(call[c], reply[c], goal[c], feedback[c], onResult[c])
  BY PathTypes, DispatchAssumption DEF LedgerInv, PathInv, RecordInv, CallInv
<1>2. UNCHANGED <<records, goal, thread, rows>>
  BY DEF ReportStep, FeedbackReport, ResultReport, osVars, tableVars
<1>3. EndsStand /\ RecordedStand  BY <1>2 DEF EndsStand, RecordedStand
<1>4. ASSUME NEW n \in 1 .. MaxFeedback, FeedbackReport(c, n)  PROVE Relay!Lose
  <2>1. Enqueue(Report(IdOf[c], "RUNNING")) /\ UNCHANGED onResult
    BY <1>4 DEF FeedbackReport, ReportMission
  <2>2. Report(IdOf[c], "RUNNING") \in OSRequests
    BY <1>1 DEF Report, OSRequests, Reports
  <2>3. \A d \in Calls : \A o \in Outcomes : Report(IdOf[c], "RUNNING") # OutcomeReport(d, o)
    BY DEF Report, OutcomeReport, Outcomes
  <2>4. NoneAdded  BY <1>2, <2>1, <2>2, <2>3, PutsOther DEF LedgerInv
  <2>5. NotesStand  BY <1>2, <2>1 DEF NotesStand
  <2> QED  BY <1>3, <2>4, <2>5, Loses
<1>5. CASE ResultReport(c)
  <2> DEFINE s == IF Verdict(goal[c]) = "COMPLETED" THEN "COMPLETED" ELSE "EXCEPTION"
             q == OutcomeReport(c, s)
  <2>1. /\ onResult[c] = "reporting" /\ onResult' = [onResult EXCEPT ![c] = "done"]
        /\ Enqueue(q)
    BY <1>5 DEF ResultReport, ReportVerdict, ReportMission, OutcomeReport
  <2>2. goal[c] \in GoalEnds /\ records[IdOf[c]] # NoRecord
    BY <1>1, <2>1 DEF CallOK, RecordOf, RecordOK, GoalEnds
  <2>3. records[IdOf[c]].state = Verdict(goal[c])
    BY <1>1, <2>1, <2>2 DEF RecordOf, RecordOK, Reported
  <2>4. NotedOf(records[IdOf[c]], "reporting") = s /\ NotedOf(records[IdOf[c]], "done") = s
    <3>1. CASE goal[c] = "succeeded"
      BY <2>2, <2>3, <3>1 DEF NotedOf, Verdict, ResultStateOf
    <3>2. CASE goal[c] = "canceled"
      BY <2>2, <2>3, <3>2 DEF NotedOf, Verdict, ResultStateOf
    <3>3. CASE goal[c] \in {"aborted", "raised"}
      BY <2>2, <2>3, <3>3 DEF NotedOf, Verdict, ResultStateOf
    <3> QED  BY <2>2, <3>1, <3>2, <3>3 DEF GoalEnds
  <2>5. NotesStand
    <3>1. onResult'[c] = "done" /\ \A d \in Calls \ {c} : onResult'[d] = onResult[d]
      BY <1>1, <2>1 DEF DispatchTypes
    <3> QED  BY <1>2, <2>1, <2>4, <3>1 DEF NotesStand
  <2>6. s \in Outcomes /\ s # "none"  BY DEF Outcomes
  <2> HIDE DEF s
  <2>7. q \in OSRequests
    BY <1>1, <2>6 DEF OutcomeReport, Report, OSRequests, Reports, Outcomes
  <2>8. CASE Len(queue) < MaxQueued
    <3>1. queue \in Seq(OSRequests)  BY PathTypes DEF LedgerInv, PathInv, ClientTypes
    <3>2. queue' = Append(queue, q) /\ sending' = sending
      BY <2>1, <2>8 DEF Enqueue, Enqueued
    <3> HIDE DEF q
    <3>3. /\ Len(queue') = Len(queue) + 1 /\ queue'[Len(queue) + 1] = q
          /\ Len(queue) \in Nat
          /\ \A n \in 1 .. Len(queue) : queue'[n] = queue[n]
      BY <2>7, <3>1, <3>2
    <3>4. \A x : (\E n \in 1 .. Len(queue') : queue'[n] = x)
                   <=> x = q \/ \E n \in 1 .. Len(queue) : queue[n] = x
      <4>1. \A n \in 1 .. Len(queue') : n \in 1 .. Len(queue) \/ n = Len(queue) + 1
        BY <3>3
      <4>2. \A n \in 1 .. Len(queue) : n \in 1 .. Len(queue')
        BY <3>3
      <4>3. Len(queue) + 1 \in 1 .. Len(queue')  BY <3>3
      <4> QED  BY <3>3, <4>1, <4>2, <4>3
    <3>5. \A d \in Calls : \A o \in Outcomes :
            UnderWay(OutcomeReport(d, o))' <=> UnderWay(OutcomeReport(d, o)) \/ (d = c /\ o = s)
      <4>1. SUFFICES ASSUME NEW d \in Calls, NEW o \in Outcomes
                     PROVE  UnderWay(OutcomeReport(d, o))'
                              <=> UnderWay(OutcomeReport(d, o)) \/ (d = c /\ o = s)
        OBVIOUS
      <4>2. OutcomeReport(d, o) = q <=> d = c /\ o = s  BY ReportsDiffer DEF q
      <4>3. UnderWay(OutcomeReport(d, o))' <=>
              UnderWay(OutcomeReport(d, o)) \/ OutcomeReport(d, o) = q
        BY <1>2, <3>2, <3>4 DEF UnderWay, Request, OutcomeReport, Report
      <4> QED  BY <4>2, <4>3
    <3> DEFINE bag == {x \in Calls \X {"COMPLETED", "EXCEPTION"} :
                         UnderWay(Report(IdOf[x[1]], x[2]))}
    <3>6. bag' = bag \cup {<<c, s>>}
      BY <2>6, <3>5 DEF OutcomeReport, Outcomes
    <3>7. [d \in Calls |-> NotedOf(records[IdOf[d]], onResult[d])][c] = s  BY <2>1, <2>4
    <3>8. /\ UNCHANGED [d \in Calls |-> OutcomeOf(goal[d])]
          /\ UNCHANGED [d \in Calls |-> NotedOf(records[IdOf[d]], onResult[d])]
          /\ UNCHANGED [d \in Calls |-> RecordedOf(rows[IdOf[d]])]
      BY <1>2, <2>5 DEF NotesStand
    <3> QED  BY <2>6, <3>6, <3>7, <3>8 DEF Relay!Report
  <2>9. CASE ~(Len(queue) < MaxQueued)
    <3>1. UNCHANGED <<queue, sending>>  BY <2>1, <2>9 DEF Enqueue, Enqueued
    <3> QED  BY <1>2, <1>3, <2>5, <3>1, Loses, RequestsStand DEF LedgerInv
  <2> QED  BY <2>8, <2>9
<1> QED  BY <1>4, <1>5 DEF ReportStep

LEMMA RestartForgets ==
  ASSUME LedgerInv, AdapterRestarts
  PROVE  Relay!Forget
<1>1. /\ records' = [i \in Ids |-> NoRecord] /\ queue' = <<>> /\ sending' = Idle
      /\ UNCHANGED <<goal, thread, rows>>
  BY DEF AdapterRestarts, osVars, tableVars
<1>2. \A c \in Calls : records'[IdOf[c]] = NoRecord  BY <1>1, DispatchAssumption
<1>3. \A c \in Calls : NotedOf(records'[IdOf[c]], onResult'[c]) = "none"
  BY <1>2 DEF NotedOf
<1>4. EndsStand /\ RecordedStand  BY <1>1 DEF EndsStand, RecordedStand
<1>5. Len(queue') = 0  BY <1>1
<1>6. NoneAdded  BY <1>1, <1>5, TakesOut
<1> QED  BY <1>3, <1>4, <1>6, Forgets

-----------------------------------------------------------------------------
(* The OS Core *)

\* What a statement leaves of the row of one call.
LEMMA OneRow ==
  ASSUME OwnIds, PathInv, NEW c \in Calls, NEW row,
         rows' = [rows EXCEPT ![IdOf[c]] = row],
         RecordedOf(row) = RecordedOf(rows[IdOf[c]])
  PROVE  RecordedStand
<1>1. /\ rows \in [Ids -> Rows \cup {NoRow}] /\ IdOf[c] \in Ids
      /\ \A d \in Calls \ {c} : IdOf[d] \in Ids \ {IdOf[c]}
  BY PathTypes, DispatchAssumption DEF PathInv, OSTypes, OwnIds
<1>2. /\ rows'[IdOf[c]] = row
      /\ \A d \in Calls \ {c} : rows'[IdOf[d]] = rows[IdOf[d]]
  BY <1>1
<1> QED  BY <1>2 DEF RecordedStand

\* create_mission writes a row's state and machine, never its result.
LEMMA CreateRelays ==
  ASSUME OwnIds, LedgerInv, NEW c \in Calls,
         CreateMission(c) \/ NotReached(c) \/ AnswerLost(c) \/ CreateStep(c)
  PROVE  Relay!Lose
<1> DEFINE i == IdOf[c]
<1>1. /\ PathInv /\ rows \in [Ids -> Rows \cup {NoRow}] /\ i \in Ids
      /\ rows[i] \in Rows \cup {NoRow}
  BY PathTypes, DispatchAssumption DEF LedgerInv, PathInv, OSTypes
<1>2. UNCHANGED <<dispatchVars, clientVars, thread>>
  BY DEF CreateMission, InsertPending, NotReached, AdapterUnreachable, AnswerLost, PostRaises,
     CreateStep, MissionAnswered, Assign, Refuse, EventLogged, LogCreated, LogAnswer
<1>3. UNCHANGED <<records, goal, onResult, queue, sending, thread>>
  BY <1>2 DEF dispatchVars, callbackVars, clientVars
<1>4. create[i] \in {"posting"} \cup Logging => rows[i] # NoRow
  BY <1>1 DEF PathInv, RowInv
<1>5. ASSUME create[i] = "posting", NEW s \in {"ASSIGNED", "EXCEPTION"},
             NEW m \in Machines \cup {NoMachine},
             \/ rows' = [rows EXCEPT ![i].state = s]
             \/ rows' = [rows EXCEPT ![i].state = s, ![i].machine = m]
      PROVE  RecordedStand
  <2>1. rows[i] \in Rows  BY <1>1, <1>4, <1>5
  <2> DEFINE row == [rows[i] EXCEPT !.state = s]
             sent == [rows[i] EXCEPT !.state = s, !.machine = m]
  <2>2. row.result_state = rows[i].result_state /\ sent.result_state = rows[i].result_state
    BY <2>1 DEF Rows
  <2>3. row \in Rows /\ sent \in Rows  BY <1>5, <2>1 DEF Rows, RowStates
  <2>4. rows' = [rows EXCEPT ![i] = row] \/ rows' = [rows EXCEPT ![i] = sent]
    BY <1>1, <1>5
  <2> HIDE DEF row, sent
  <2>5. rows[i] # NoRow /\ row # NoRow /\ sent # NoRow  BY <2>1, <2>3, NothingAssumption
  <2> QED  BY <1>1, <2>2, <2>4, <2>5, OneRow DEF RecordedOf
<1>6. RecordedStand
  <2>1. CASE CreateMission(c)
    <3>1. CASE UNCHANGED rows  BY <3>1, RecordsStand
    <3> DEFINE row == [state |-> "PENDING", machine |-> NoMachine, result_state |-> "none"]
    <3>2. CASE rows' = [rows EXCEPT ![i] = row]
      <4>1. heard[c] = "unsent"
        BY <1>1, <2>1 DEF CreateMission, PathInv, CallInv, CallOK, heard, HeardOf, GoalEnds
      <4>2. rows[i] # NoRow => rows[i].result_state = "none"
        BY <1>1, <4>1 DEF PathInv, RowInv, RowOK, Truly, Dispatched, GoalEnds
      <4>3. row \in Rows /\ row.result_state = "none"  BY DEF Rows, RowStates
      <4> HIDE DEF row
      <4> QED  BY <1>1, <3>2, <4>2, <4>3, NothingAssumption, OneRow DEF RecordedOf
    <3> QED  BY <2>1, <3>1, <3>2 DEF CreateMission, InsertPending
  <2>2. CASE NotReached(c)
    BY <1>5, <2>2, RecordsStand DEF NotReached, AdapterUnreachable
  <2>3. CASE AnswerLost(c)
    BY <2>3, RecordsStand DEF AnswerLost, PostRaises, tableVars
  <2>4. CASE MissionAnswered(c)
    <3>1. CASE Assign(i, chosen[c])
      <4>1. chosen[c] \in Machines \cup {NoMachine}
        BY <1>1, PathTypes DEF PathInv, DispatchTypes
      <4> QED  BY <1>5, <3>1, <4>1, RecordsStand DEF Assign
    <3>2. CASE Refuse(i)  BY <1>5, <3>2, RecordsStand DEF Refuse
    <3> QED  BY <2>4, <3>1, <3>2 DEF MissionAnswered
  <2>5. CASE EventLogged(c)
    BY <2>5, RecordsStand DEF EventLogged, LogCreated, LogAnswer
  <2> QED  BY <2>1, <2>2, <2>3, <2>4, <2>5 DEF CreateStep
<1> QED  BY <1>1, <1>3, <1>6, Loses, RequestsStand, DispatchStands

\* A handler keeps its request while it works on it.
LEMMA HandlerHolds ==
  ASSUME OSTypes, NEW t \in Threads, HandleRequest(t)
  PROVE  /\ thread[t] # Free /\ thread[t] \in Handlers
         /\ thread'[t] # Free /\ thread'[t].request = thread[t].request
         /\ \A u \in Threads \ {t} : thread'[u] = thread[u]
<1>1. HandlerStep(t)  BY DEF HandleRequest
<1>2. thread[t] # Free
  BY <1>1 DEF HandlerStep, ReadMission, InsertStub, UpdateMission, LogReport, FindMachine,
     WriteMachine, At
<1>3. thread[t] \in Handlers  BY <1>2 DEF OSTypes
<1> DEFINE h(pc, old, ok) == [thread[t] EXCEPT !.pc = pc, !.old = old, !.ok = ok]
           Held == /\ thread'[t] # Free /\ thread'[t].request = thread[t].request
                   /\ \A u \in Threads \ {t} : thread'[u] = thread[u]
<1>4. ASSUME NEW pc \in HandlerPcs, NEW old \in RowStates \cup {"none"}, NEW ok \in BOOLEAN,
             thread' = [thread EXCEPT ![t] = h(pc, old, ok)]
      PROVE  Held
  <2>1. h(pc, old, ok) \in Handlers /\ h(pc, old, ok).request = thread[t].request
    BY <1>3 DEF Handlers
  <2> HIDE DEF h
  <2> QED  BY <1>4, <2>1, NothingAssumption DEF OSTypes
<1>5. thread[t].old \in RowStates \cup {"none"} /\ thread[t].ok \in BOOLEAN
  BY <1>3 DEF Handlers
<1>6. ASSUME NEW pc \in HandlerPcs, Goto(t, pc)  PROVE Held
  <2>1. thread' = [thread EXCEPT ![t] = h(pc, thread[t].old, thread[t].ok)]
    BY <1>3, <1>6 DEF Goto, OSTypes, Handlers
  <2> HIDE DEF h, Held
  <2> QED  BY <1>4, <1>5, <2>1
<1>7. ASSUME NEW ok \in BOOLEAN, Answer(t, ok)  PROVE Held
  <2>1. thread' = [thread EXCEPT ![t] = h("answering", thread[t].old, ok)]
    BY <1>3, <1>7 DEF Answer, OSTypes, Handlers
  <2> HIDE DEF h, Held
  <2> QED  BY <1>4, <1>5, <2>1 DEF HandlerPcs
<1>8. ASSUME ReadMission(t)  PROVE Held
  <2> DEFINE row == rows[Request(t).id]
             pc  == IF row = NoRow THEN "inserting stub" ELSE "updating"
             old == IF row = NoRow THEN "none" ELSE row.state
  <2>1. thread[t].request \in OSRequests /\ Request(t).kind = "report"
    BY <1>3, <1>8 DEF Handlers, ReadMission, Request
  <2>2. row # NoRow => row.state \in RowStates
    BY <2>1, RequestFields DEF OSTypes, Request, Rows
  <2>3. thread' = [thread EXCEPT ![t] = h(pc, old, thread[t].ok)]
    BY <1>3, <1>8 DEF ReadMission, OSTypes, Handlers
  <2>4. pc \in HandlerPcs /\ old \in RowStates \cup {"none"}  BY <2>2 DEF HandlerPcs
  <2> HIDE DEF h, Held, pc, old
  <2> QED  BY <1>4, <1>5, <2>3, <2>4
<1>9. ASSUME FindMachine(t)  PROVE Held
  <2>1. Goto(t, "making up") \/ Goto(t, "patching")  BY <1>9 DEF FindMachine
  <2> HIDE DEF h, Held
  <2> QED  BY <1>6, <2>1 DEF HandlerPcs
<1>10. ASSUME InsertStub(t) \/ UpdateMission(t) \/ LogReport(t) \/ WriteMachine(t)
       PROVE  Held
  <2>1. Goto(t, "logging") \/ \E ok \in BOOLEAN : Answer(t, ok)
    BY <1>10 DEF InsertStub, UpdateMission, LogReport, WriteMachine
  <2> HIDE DEF h, Held
  <2> QED  BY <1>6, <1>7, <2>1 DEF HandlerPcs
<1> HIDE DEF h
<1> QED  BY <1>1, <1>2, <1>3, <1>8, <1>9, <1>10 DEF HandlerStep

\* What a handler does changes neither its request nor any other.
LEMMA SameRequests ==
  ASSUME PathInv, NEW t \in Threads, HandleRequest(t)
  PROVE  \A c \in Calls : \A o \in Outcomes :
           UnderWay(OutcomeReport(c, o))' <=> UnderWay(OutcomeReport(c, o))
<1>1. UNCHANGED <<queue, sending>>  BY DEF HandleRequest, clientVars
<1>2. \A u \in Threads : /\ thread'[u] # Free <=> thread[u] # Free
                         /\ thread[u] # Free => thread'[u].request = thread[u].request
  BY HandlerHolds, PathTypes DEF PathInv
<1> QED  BY <1>1, <1>2 DEF UnderWay, Request, OutcomeReport, Report

\* report_mission records the outcome its report is about, or nothing new.
LEMMA HandlerRelays ==
  ASSUME OwnIds, LedgerInv, NEW t \in Threads, HandleRequest(t)
  PROVE  Relay!Lose \/ \E c \in Calls : Relay!Record(c)
<1> DEFINE q == thread[t].request
<1>1. PathInv /\ OSTypes  BY PathTypes DEF LedgerInv, PathInv
<1>2. HandlerStep(t) /\ UNCHANGED dispatchVars  BY DEF HandleRequest
<1>3. UNCHANGED <<records, goal, onResult>>  BY <1>2 DEF dispatchVars, callbackVars
<1>4. /\ thread[t] # Free /\ thread[t] \in Handlers /\ q \in OSRequests
      /\ HandlerOK(thread[t], rows, events, machineRows)
      /\ Sound(heard, machineRows, q)
  <2>1. thread[t] # Free /\ thread[t] \in Handlers  BY <1>1, HandlerHolds
  <2> QED  BY <1>1, <2>1 DEF Handlers, PathInv, HandlerInv, RequestInv
<1>5. NoneAdded  BY <1>1, SameRequests DEF NoneAdded
<1>6. RecordedStand => Relay!Lose  BY <1>3, <1>5, DispatchStands, Loses
<1>7. CASE ReadMission(t) \/ LogReport(t) \/ FindMachine(t) \/ WriteMachine(t)
  <2>1. UNCHANGED rows
    BY <1>7 DEF ReadMission, LogReport, FindMachine, WriteMachine, tableVars
  <2> QED  BY <1>6, <2>1, RecordsStand
<1>8. ASSUME q.kind = "report"
      PROVE  \E c \in Calls : IdOf[c] = q.id
  BY <1>4, <1>8 DEF Sound
<1>9. CASE InsertStub(t)
  <2> DEFINE row == [state |-> q.status, machine |-> NoMachine, result_state |-> "none"]
  <2>1. thread[t].pc = "inserting stub"  BY <1>9 DEF InsertStub, At
  <2>2. q.kind = "report"  BY <1>4, <2>1 DEF HandlerOK
  <2>3. PICK c \in Calls : IdOf[c] = q.id  BY <1>8, <2>2
  <2>4. \/ UNCHANGED rows
        \/ rows[IdOf[c]] = NoRow /\ rows' = [rows EXCEPT ![IdOf[c]] = row]
    BY <1>9, <2>3 DEF InsertStub, Request
  <2>5. RecordedOf(row) = "none"  BY DEF RecordedOf
  <2> HIDE DEF row
  <2>6. RecordedStand  BY <1>1, <2>4, <2>5, OneRow, RecordsStand DEF RecordedOf
  <2> QED  BY <1>6, <2>6
<1>10. CASE UpdateMission(t)
  <2>1. thread[t].pc = "updating"  BY <1>10 DEF UpdateMission, At
  <2>2. q.kind = "report" /\ rows[q.id] # NoRow  BY <1>4, <2>1 DEF HandlerOK
  <2>3. PICK c \in Calls : IdOf[c] = q.id  BY <1>8, <2>2
  <2>4. q \in Reports /\ q.status \in {"RUNNING"} \cup Outcomes
    BY <1>4, <2>2, RequestFields DEF OSRequests, MachinePush, Outcomes
  <2> DEFINE was == rows[IdOf[c]]
             row == [was EXCEPT !.state = q.status,
                                !.result_state = OutcomeAfter(was, q.status)]
  <2>5. was \in Rows /\ IdOf[c] \in Ids
    BY <1>1, <2>2, <2>3, DispatchAssumption DEF OSTypes
  <2>6. \/ UNCHANGED rows
        \/ rows' = [rows EXCEPT ![IdOf[c]] = row]
    BY <1>1, <1>10, <2>3, <2>5 DEF UpdateMission, Request, OSTypes
  <2>7. /\ row \in Rows /\ row # NoRow /\ was # NoRow
        /\ row.result_state = OutcomeAfter(was, q.status)
    BY <2>4, <2>5, NothingAssumption DEF Rows, RowStates, OutcomeAfter, Outcomes
  <2> HIDE DEF row
  <2>8. CASE UNCHANGED rows  BY <1>6, <2>8, RecordsStand
  <2>9. CASE rows' = [rows EXCEPT ![IdOf[c]] = row] /\ q.status = "RUNNING"
    BY <1>1, <1>6, <2>7, <2>9, OneRow DEF RecordedOf, OutcomeAfter
  <2>10. CASE rows' = [rows EXCEPT ![IdOf[c]] = row] /\ was.result_state # "none"
    <3>1. RowsGrow(rows, rows')  BY <1>1, HandlerSteps
    <3>2. rows'[IdOf[c]] = row  BY <1>1, <2>5, <2>10 DEF OSTypes
    <3>3. row.result_state = was.result_state  BY <2>5, <2>7, <2>10, <3>1, <3>2 DEF RowsGrow
    <3> QED  BY <1>1, <1>6, <2>7, <2>10, <3>3, OneRow DEF RecordedOf
  <2>11. CASE /\ rows' = [rows EXCEPT ![IdOf[c]] = row] /\ q.status \in Outcomes
              /\ was.result_state = "none"
    <3> DEFINE shown == [d \in Calls |-> RecordedOf(rows[IdOf[d]])]
               bag   == {x \in Calls \X {"COMPLETED", "EXCEPTION"} :
                           UnderWay(Report(IdOf[x[1]], x[2]))}
    <3>1. RecordedOf(was) = "none" /\ RecordedOf(row) = q.status
      BY <2>7, <2>11 DEF RecordedOf, OutcomeAfter, Outcomes
    <3>2. /\ rows'[IdOf[c]] = row
          /\ \A d \in Calls \ {c} : rows'[IdOf[d]] = rows[IdOf[d]]
      <4>1. \A d \in Calls \ {c} : IdOf[d] \in Ids \ {IdOf[c]}
        BY DispatchAssumption DEF OwnIds
      <4> QED  BY <1>1, <2>5, <2>11, <4>1 DEF OSTypes
    <3>3. shown' = [shown EXCEPT ![c] = q.status] /\ shown[c] = "none"
      BY <3>1, <3>2
    <3>4. q = OutcomeReport(c, q.status)
      BY <2>3, <2>4 DEF Reports, OutcomeReport, Report
    <3>5. UnderWay(OutcomeReport(c, q.status))
      BY <1>4, <3>4 DEF UnderWay, Request
    <3>6. <<c, q.status>> \in bag  BY <2>11, <3>5 DEF OutcomeReport, Outcomes
    <3>7. UNCHANGED bag  BY <1>1, SameRequests DEF OutcomeReport, Outcomes
    <3>8. /\ UNCHANGED [d \in Calls |-> OutcomeOf(goal[d])]
          /\ UNCHANGED [d \in Calls |-> NotedOf(records[IdOf[d]], onResult[d])]
      BY <1>3
    <3> QED  BY <2>11, <3>3, <3>6, <3>7, <3>8 DEF Relay!Record, Relay!Outcomes, Outcomes
  <2> QED  BY <2>4, <2>6, <2>8, <2>9, <2>10, <2>11
<1> QED  BY <1>2, <1>7, <1>9, <1>10 DEF HandlerStep

\* What else the worker and the pool do hands requests on or takes them out.
LEMMA TransportRelays ==
  ASSUME LedgerInv,
         \/ Take \/ PushLost \/ OSRestarts
         \/ \E t \in Threads : Deliver(t) \/ AnswerPush(t) \/ OtherUse(t)
  PROVE  Relay!Lose
<1>1. PathInv /\ ClientTypes /\ OSTypes  BY PathTypes DEF LedgerInv, PathInv
<1>2. UNCHANGED <<dispatchVars, records, goal, onResult, rows>>
  BY DEF Take, PushLost, OSRestarts, Deliver, AnswerPush, OtherUse, Accept, ServeRead,
     PruneThread, osVars, tableVars, dispatchVars, callbackVars
<1>3. NoneAdded
  <2>1. CASE Take
    <3>1. /\ queue \in Seq(OSRequests) /\ queue # <<>>
          /\ sending' = Head(queue) /\ queue' = Tail(queue) /\ UNCHANGED thread
      BY <1>1, <2>1 DEF ClientTypes, Take, TakeRequest, osVars
    <3>2. /\ sending' = queue[1] /\ 1 \in 1 .. Len(queue)
          /\ \A n \in 1 .. Len(queue') : n + 1 \in 1 .. Len(queue) /\ queue'[n] = queue[n + 1]
      BY <3>1
    <3>3. \A t \in Threads : thread'[t] = Free
                             \/ (thread[t] # Free /\ thread'[t].request = thread[t].request)
      BY <3>1
    <3> QED  BY <3>2, <3>3, TakesOut
  <2>2. CASE \/ PushLost \/ OSRestarts
             \/ \E t \in Threads : Deliver(t) \/ AnswerPush(t) \/ OtherUse(t)
    <3>1. UNCHANGED queue /\ sending' \in {sending, Idle}
      BY <2>2 DEF PushLost, OSRestarts, Deliver, AnswerPush, OtherUse, SendFailed, SendRaises,
         SendAnswered, clientVars
    <3>2. \A t \in Threads :
            \/ thread'[t] = Free
            \/ thread[t] # Free /\ thread'[t].request = thread[t].request
            \/ sending # Idle /\ thread'[t].request = sending
      <4>1. CASE PushLost \/ OSRestarts \/ \E t \in Threads : OtherUse(t)
        BY <4>1 DEF PushLost, OSRestarts, OtherUse, ServeRead, PruneThread, osVars
      <4>2. CASE \E t \in Threads : AnswerPush(t)
        BY <1>1, <4>2 DEF OSTypes, AnswerPush
      <4>3. ASSUME NEW t \in Threads, Deliver(t)
            PROVE  \A u \in Threads : \/ thread'[u] = Free
                                      \/ thread[u] # Free /\ thread'[u].request = thread[u].request
                                      \/ sending # Idle /\ thread'[u].request = sending
        BY <1>1, <4>3 DEF OSTypes, Deliver, Accept
      <4> QED  BY <2>2, <4>1, <4>2, <4>3
    <3> QED  BY <3>1, <3>2, TakesOut
  <2> QED  BY <2>1, <2>2
<1> QED  BY <1>2, <1>3, DispatchStands, RecordsStand, Loses

\* A heartbeat is not about a mission.
LEMMA HeartbeatRelays ==
  ASSUME LedgerInv, NEW m \in Machines, Heartbeat(m)
  PROVE  Relay!Lose
<1> DEFINE request == IF m \in registered THEN Push("patch", m) ELSE Push("register", m)
<1>1. Enqueue(request) /\ UNCHANGED <<records, goal, onResult, rows, thread>>
  BY DEF Heartbeat, PatchStatus, PushStatus, dispatchVars, callbackVars, osVars, tableVars
<1>2. request \in OSRequests /\ request.kind # "report"
  BY DEF Push, OSRequests, MachinePush
<1>3. \A c \in Calls : \A o \in Outcomes : request # OutcomeReport(c, o)
  BY <1>2 DEF OutcomeReport, Report
<1> HIDE DEF request
<1>4. NoneAdded  BY <1>1, <1>2, <1>3, PutsOther DEF LedgerInv
<1> QED  BY <1>1, <1>4, DispatchStands, RecordsStand, Loses

-----------------------------------------------------------------------------
(* The theorem *)

LEMMA RelayInitially == PathInit => Relay!Init
<1> SUFFICES ASSUME PathInit  PROVE Relay!Init
  OBVIOUS
<1>1. \A c \in Calls : /\ OutcomeOf(goal[c]) = "none"
                       /\ NotedOf(records[IdOf[c]], onResult[c]) = "none"
                       /\ RecordedOf(rows[IdOf[c]]) = "none"
  BY DispatchAssumption
  DEF PathInit, Init, DispatchInit, OSInit, OutcomeOf, NotedOf, RecordedOf, GoalEnds
<1>2. Len(queue) = 0 /\ sending = Idle /\ \A t \in Threads : thread[t] = Free
  BY DEF PathInit, Init, ClientInit, OSInit
<1>3. \A c \in Calls : \A o \in Outcomes : ~UnderWay(Report(IdOf[c], o))
  BY <1>2 DEF UnderWay
<1> QED  BY <1>1, <1>3 DEF Relay!Init, Outcomes

LEMMA RelayStep ==
  ASSUME OwnIds, LedgerInv, [PathNext]_pathVars
  PROVE  [Relay!Next]_(Relay!vars)
<1> SUFFICES Relay!Next  \/ UNCHANGED Relay!vars
  OBVIOUS
<1>1. CASE UNCHANGED pathVars
  <2>1. UNCHANGED <<records, goal, onResult, rows, queue, sending, thread>>
    BY <1>1 DEF pathVars, dispatchVars, callbackVars, clientVars, osVars, tableVars
  <2>2. NoneAdded  BY <2>1, RequestsStand DEF LedgerInv
  <2> QED  BY <2>1, <2>2, DispatchStands, RecordsStand, Loses DEF Relay!Next
<1>2. ASSUME NEW c \in Calls, AdapterStep(c) \/ PostMission(c) \/ PostDirectly(c)
      PROVE  Relay!Next
  <2>1. Relay!Lose \/ Relay!End(c) \/ Relay!Note(c) \/ Relay!Report(c)
    BY <1>2, CallRelays, MachineRelays, CallbackRelays, ReportRelays
    DEF AdapterStep, PostMission, PostDirectly
  <2> QED  BY <2>1 DEF Relay!Next
<1>3. ASSUME NEW c \in Calls,
             CreateMission(c) \/ NotReached(c) \/ AnswerLost(c) \/ CreateStep(c)
      PROVE  Relay!Next
  BY <1>3, CreateRelays DEF Relay!Next
<1>4. ASSUME NEW m \in Machines, Heartbeat(m)  PROVE Relay!Next
  BY <1>4, HeartbeatRelays DEF Relay!Next
<1>5. ASSUME NEW t \in Threads, HandleRequest(t)  PROVE Relay!Next
  BY <1>5, HandlerRelays DEF Relay!Next
<1>6. CASE \/ Take \/ PushLost \/ OSRestarts
           \/ \E t \in Threads : Deliver(t) \/ AnswerPush(t) \/ OtherUse(t)
  BY <1>6, TransportRelays DEF Relay!Next
<1>7. CASE AdapterRestarts  BY <1>7, RestartForgets DEF Relay!Next
<1> QED  BY <1>1, <1>2, <1>3, <1>4, <1>5, <1>6, <1>7 DEF PathNext

\* However requests are lost and whichever side is restarted, an outcome is in
\* the OS Core's row only if the machine ended the mission so, the adapter noted
\* it and reported it.
THEOREM OutcomesAreRelayed == ASSUME OwnIds PROVE PathSafeSpec => RelaysOutcomes
<1>1. LedgerInv /\ [PathNext]_pathVars => [Relay!Next]_(Relay!vars)  BY RelayStep
<1> QED
  BY <1>1, RelayInitially, LedgerInvariance, PTL DEF PathSafeSpec, RelaysOutcomes, Relay!SafeSpec
=============================================================================
