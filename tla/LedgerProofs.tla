---------------------------- MODULE LedgerProofs ----------------------------
(***************************************************************************)
(* The OS Core's rows and the adapter's records agree: what PathProofs     *)
(* shows of the rows and an invariant of the records, joined through the   *)
(* goal that both are about.  As there, for any instance, with losses and  *)
(* restarts, if every call has a mission id of its own.                    *)
(***************************************************************************)
EXTENDS PathProofs

MaybeRecords == {NoRecord} \cup MissionRecords

\* Of call c: its record, if there is one, is about the goal it sent and says how
\* that ended once the result is in; a goal without a record is one that a
\* restarted adapter forgot, and nothing of it is heard any more.
RecordOK(record, pc, m, g, fs, result) ==
  /\ pc \in {"connecting", "sending"} => m \in Machines
  /\ record # NoRecord =>
       /\ g # "unsent"
       /\ record.machine = m
       /\ Reported(result) => g \in GoalEnds /\ record.state = Verdict(g)
  /\ (g # "unsent" /\ record = NoRecord) =>
       pc = "done" /\ result = "done" /\ \A n \in 1 .. MaxFeedback : fs[n] = "done"

RecordOf(c) ==
  RecordOK(records[IdOf[c]], call[c], chosen[c], goal[c], feedback[c], onResult[c])

RecordInv ==
  /\ records \in [Ids -> MaybeRecords]
  /\ \A c \in Calls : RecordOf(c)

LedgerInv == PathInv /\ RecordInv

\* A step of call c is about its own record and callbacks, and they stay right.
OnlyCall(c) ==
  /\ records' \in [Ids -> MaybeRecords]
  /\ \A i \in Ids \ {IdOf[c]} : records'[i] = records[i]
  /\ \A d \in Calls \ {c} :
       /\ call'[d] = call[d] /\ chosen'[d] = chosen[d] /\ goal'[d] = goal[d]
       /\ feedback'[d] = feedback[d] /\ onResult'[d] = onResult[d]

StepOf(c) == OnlyCall(c) /\ RecordOf(c)'

LEMMA OneRecord ==
  ASSUME OwnIds, RecordInv, NEW c \in Calls, StepOf(c)
  PROVE  RecordInv'
<1>1. ASSUME NEW d \in Calls \ {c}  PROVE RecordOf(d)'
  <2>1. IdOf[d] \in Ids \ {IdOf[c]}  BY DispatchAssumption DEF OwnIds
  <2>2. RecordOf(d)  BY DEF RecordInv
  <2> QED  BY <2>1, <2>2 DEF StepOf, OnlyCall, RecordOf
<1> QED  BY <1>1 DEF StepOf, OnlyCall, RecordInv

LEMMA RecordsQuiet ==
  ASSUME RecordInv, UNCHANGED dispatchVars  PROVE RecordInv'
BY DEF dispatchVars, callVars, callbackVars, RecordInv, RecordOf

\* Where a call stands before its goal is sent, and that none of it is heard then.
LEMMA BeforeGoal ==
  ASSUME LedgerInv, NEW c \in Calls
  PROVE  /\ call[c] \notin {"waiting", "done"} =>
              goal[c] = "unsent" /\ records[IdOf[c]] = NoRecord
         /\ call[c] # "done" => onResult[c] = "none"
         /\ IdOf[c] \in Ids /\ records[IdOf[c]] \in MaybeRecords
<1>1. CallOK(call[c], reply[c], goal[c], feedback[c], onResult[c])
  BY DEF LedgerInv, PathInv, CallInv
<1>2. RecordOf(c)  BY DEF LedgerInv, RecordInv
<1>3. IdOf[c] \in Ids  BY DispatchAssumption
<1> QED
  BY <1>1, <1>2, <1>3, PathTypes
  DEF CallOK, RecordOf, RecordOK, LedgerInv, PathInv, DispatchTypes, RecordInv

-----------------------------------------------------------------------------
(* The steps of a call *)

\* Until its goal is sent, a call has no record.
LEMMA CallBeforeGoal ==
  ASSUME OwnIds, LedgerInv, NEW c \in Calls,
         Receive(c) \/ CheckId(c) \/ SelectMachine(c) \/ Connect(c)
  PROVE  RecordInv'
<1>1. DispatchTypes /\ RecordInv /\ RecordOf(c)
  BY PathTypes DEF LedgerInv, PathInv, RecordInv
<1>2. /\ UNCHANGED <<records, goal, feedback, onResult>>
      /\ call[c] \in {"idle", "checking", "selecting", "connecting"}
  BY DEF Receive, CheckId, SelectMachine, Connect, callbackVars
<1>3. goal[c] = "unsent" /\ records[IdOf[c]] = NoRecord  BY <1>2, BeforeGoal
<1>4. /\ \A d \in Calls \ {c} : call'[d] = call[d] /\ chosen'[d] = chosen[d]
      /\ call'[c] \in {"connecting", "sending"} => chosen'[c] \in Machines
  <2>1. CASE Receive(c) \/ CheckId(c)
    BY <1>1, <2>1 DEF Receive, CheckId, Proceed, Return, DispatchTypes
  <2>2. CASE SelectMachine(c)
    BY <1>1, <2>2 DEF SelectMachine, Proceed, Return, DispatchTypes
  <2>3. CASE Connect(c)
    BY <1>1, <2>3 DEF Connect, Proceed, Return, DispatchTypes, RecordOf, RecordOK
  <2> QED  BY <2>1, <2>2, <2>3
<1>5. OnlyCall(c)  BY <1>1, <1>2, <1>4 DEF OnlyCall, RecordInv
<1>6. RecordOf(c)'  BY <1>2, <1>3, <1>4 DEF RecordOf, RecordOK
<1> QED  BY <1>1, <1>5, <1>6, OneRecord DEF StepOf

\* The record is made and the goal leaves.
LEMMA CallSendsGoal ==
  ASSUME OwnIds, LedgerInv, NEW c \in Calls, SendGoal(c)
  PROVE  RecordInv'
<1> DEFINE r == [machine |-> chosen[c], state |-> "ASSIGNED", result |-> "none", error |-> ""]
<1>1. DispatchTypes /\ RecordInv /\ RecordOf(c)
  BY PathTypes DEF LedgerInv, PathInv, RecordInv
<1>2. call[c] = "sending" /\ UNCHANGED <<chosen, feedback, onResult>>
  BY DEF SendGoal, callbackVars
<1>3. chosen[c] \in Machines  BY <1>1, <1>2 DEF RecordOf, RecordOK
<1>4. r \in MissionRecords /\ r.machine = chosen[c]
  BY <1>3 DEF MissionRecords, RecordStates
<1>5. r # NoRecord  BY <1>4, RecordAssumption
<1>6. records' = [records EXCEPT ![IdOf[c]] = r]  BY DEF SendGoal
<1> HIDE DEF r
<1>7. onResult[c] = "none" /\ IdOf[c] \in Ids  BY <1>2, BeforeGoal
<1>8. /\ call'[c] = "waiting" /\ goal'[c] = "offered"
      /\ \A d \in Calls \ {c} : call'[d] = call[d] /\ goal'[d] = goal[d]
  BY <1>1 DEF SendGoal, Proceed, DispatchTypes
<1>9. /\ records' \in [Ids -> MaybeRecords] /\ records'[IdOf[c]] = r
      /\ \A i \in Ids \ {IdOf[c]} : records'[i] = records[i]
  BY <1>1, <1>4, <1>6, <1>7 DEF RecordInv, MaybeRecords
<1>10. OnlyCall(c)  BY <1>2, <1>8, <1>9 DEF OnlyCall
<1>11. RecordOf(c)'
  BY <1>2, <1>4, <1>5, <1>7, <1>8, <1>9 DEF RecordOf, RecordOK, Reported
<1> QED  BY <1>1, <1>10, <1>11, OneRecord DEF StepOf

\* The wait ends: a record that is marked as failed is the record of a goal whose
\* result is not in.
LEMMA CallReturnsAnswer ==
  ASSUME OwnIds, LedgerInv, NEW c \in Calls, CallReturns(c)
  PROVE  RecordInv'
<1> DEFINE r == records[IdOf[c]]
           Marked(s, code) == [r EXCEPT !.state = s, !.result = "EXCEPTION", !.error = code]
<1>1. DispatchTypes /\ RecordInv /\ RecordOf(c)
  BY PathTypes DEF LedgerInv, PathInv, RecordInv
<1>2. call[c] = "waiting" /\ UNCHANGED <<chosen, goal, feedback>>
  BY DEF CallReturns, GoalAccepted, GoalRefused, GiveUp, callbackVars
<1>3. onResult[c] = "none" /\ IdOf[c] \in Ids /\ r \in MaybeRecords  BY <1>2, BeforeGoal
<1>4. /\ call'[c] = "done" /\ \A d \in Calls \ {c} : call'[d] = call[d]
      /\ onResult'[c] \in {"none", "due"} /\ \A d \in Calls \ {c} : onResult'[d] = onResult[d]
  BY <1>1, <1>3 DEF CallReturns, GoalAccepted, GoalRefused, GiveUp, Return, callbackVars,
     DispatchTypes
<1>5. r = NoRecord => goal[c] = "unsent"
  BY <1>1, <1>2 DEF RecordOf, RecordOK
<1>6. \/ records' = records
      \/ \E s \in RecordStates, code \in {"GOAL_REJECTED", "DISPATCH_TIMEOUT"} :
           records' = [records EXCEPT ![IdOf[c]] = IF r = NoRecord THEN r ELSE Marked(s, code)]
  <2>1. CASE GoalAccepted(c)  BY <2>1 DEF GoalAccepted
  <2>2. CASE GoalRefused(c)
    BY <2>2 DEF GoalRefused, FailMission, RecordStates, RecordEnds
  <2>3. CASE GiveUp(c)
    BY <2>3 DEF GiveUp, FailMission, RecordStates, RecordEnds
  <2> QED  BY <2>1, <2>2, <2>3 DEF CallReturns
<1>7. /\ records' \in [Ids -> MaybeRecords]
      /\ \A i \in Ids \ {IdOf[c]} : records'[i] = records[i]
      /\ records'[IdOf[c]] # NoRecord =>
           r # NoRecord /\ records'[IdOf[c]].machine = r.machine
      /\ records'[IdOf[c]] = NoRecord => r = NoRecord
  <2>1. CASE records' = records  BY <1>1, <2>1 DEF RecordInv
  <2>2. ASSUME NEW s \in RecordStates, NEW code \in {"GOAL_REJECTED", "DISPATCH_TIMEOUT"},
               records' = [records EXCEPT ![IdOf[c]] =
                             IF r = NoRecord THEN r ELSE Marked(s, code)]
        PROVE  <1>7!:
    <3> DEFINE x == IF r = NoRecord THEN r ELSE Marked(s, code)
    <3>1. CASE r = NoRecord
      BY <1>1, <1>3, <2>2, <3>1 DEF RecordInv, MaybeRecords
    <3>2. CASE r # NoRecord
      <4>1. r \in MissionRecords  BY <1>3, <3>2 DEF MaybeRecords
      <4>2. Marked(s, code) \in MissionRecords /\ Marked(s, code).machine = r.machine
        BY <4>1 DEF MissionRecords
      <4>3. Marked(s, code) # NoRecord  BY <4>2, RecordAssumption
      <4>4. records' = [records EXCEPT ![IdOf[c]] = Marked(s, code)]  BY <2>2, <3>2
      <4> HIDE DEF Marked, r
      <4> QED
        BY <1>1, <1>3, <3>2, <4>2, <4>3, <4>4 DEF RecordInv, MaybeRecords
    <3> QED  BY <3>1, <3>2
  <2> QED  BY <1>6, <2>1, <2>2
<1>8. OnlyCall(c)  BY <1>2, <1>4, <1>7 DEF OnlyCall
<1>9. RecordOf(c)'
  BY <1>1, <1>2, <1>4, <1>5, <1>7 DEF RecordOf, RecordOK, Reported
<1> QED  BY <1>1, <1>8, <1>9, OneRecord DEF StepOf

-----------------------------------------------------------------------------
(* The steps of a machine and of the callbacks *)

LEMMA MachineActs ==
  ASSUME OwnIds, LedgerInv, NEW c \in Calls, MachineStep(c)
  PROVE  RecordInv'
<1>1. DispatchTypes /\ RecordInv /\ RecordOf(c)
  BY PathTypes DEF LedgerInv, PathInv, RecordInv
<1>2. /\ goal[c] \in {"offered", "accepted"} /\ goal'[c] # "unsent"
      /\ \A d \in Calls \ {c} : goal'[d] = goal[d]
      /\ UNCHANGED <<records, call, chosen, onResult>>
  BY <1>1 DEF MachineStep, MachineAccepts, MachineRefuses, MachineSendsFeedback, MachineEnds,
     callVars, callbackVars, DispatchTypes, GoalEnds
<1>3. /\ \A d \in Calls \ {c} : feedback'[d] = feedback[d]
      /\ \A n \in 1 .. MaxFeedback :
           feedback[c][n] = "done" => feedback'[c][n] = "done"
  BY <1>1 DEF MachineStep, MachineAccepts, MachineRefuses, MachineSendsFeedback, MachineEnds,
     callbackVars, DispatchTypes
<1>4. OnlyCall(c)  BY <1>1, <1>2, <1>3 DEF OnlyCall, RecordInv
<1>5. RecordOf(c)'  BY <1>1, <1>2, <1>3 DEF RecordOf, RecordOK, GoalEnds
<1> QED  BY <1>1, <1>4, <1>5, OneRecord DEF StepOf

\* Late feedback does not touch a record whose result is in.
LEMMA FeedbackArrives ==
  ASSUME OwnIds, LedgerInv, NEW c \in Calls, NEW n \in 1 .. MaxFeedback, FeedbackRecord(c, n)
  PROVE  RecordInv'
<1> DEFINE r == records[IdOf[c]]
           x == [r EXCEPT !.state = RunningAfter(r.state)]
<1>1. DispatchTypes /\ RecordInv /\ RecordOf(c)
  BY PathTypes DEF LedgerInv, PathInv, RecordInv
<1>2. /\ feedback[c][n] = "due" /\ UNCHANGED <<call, chosen, goal, onResult>>
      /\ \A d \in Calls \ {c} : feedback'[d] = feedback[d]
  BY <1>1 DEF FeedbackRecord, callVars, DispatchTypes
<1>3. goal[c] # "unsent"
  BY <1>2 DEF LedgerInv, PathInv, CallInv, CallOK, Dispatched, GoalEnds
<1>4. r # NoRecord  BY <1>1, <1>2, <1>3 DEF RecordOf, RecordOK
<1>5. IdOf[c] \in Ids /\ r \in MissionRecords  BY <1>4, BeforeGoal DEF MaybeRecords
<1>6. x \in MissionRecords /\ x.machine = r.machine /\ x.state = RunningAfter(r.state)
  BY <1>5 DEF MissionRecords, RunningAfter, RecordStates
<1>7. x # NoRecord  BY <1>6, RecordAssumption
<1>8. records' = [records EXCEPT ![IdOf[c]] = x]
  BY <1>1, <1>5 DEF FeedbackRecord, RecordInv
<1>9. \A e \in GoalEnds : r.state = Verdict(e) => x.state = Verdict(e)
  BY <1>6 DEF RunningAfter, GoalEnds, Verdict, ResultStateOf
<1> HIDE DEF x, r
<1>10. /\ records' \in [Ids -> MaybeRecords] /\ records'[IdOf[c]] = x
       /\ \A i \in Ids \ {IdOf[c]} : records'[i] = records[i]
  BY <1>1, <1>5, <1>6, <1>8 DEF RecordInv, MaybeRecords
<1>11. OnlyCall(c)  BY <1>2, <1>10 DEF OnlyCall
<1>12. RecordOf(c)'
  BY <1>1, <1>2, <1>4, <1>6, <1>7, <1>9, <1>10 DEF RecordOf, RecordOK, r
<1> QED  BY <1>1, <1>11, <1>12, OneRecord DEF StepOf

\* The result is put into the record.
LEMMA ResultArrives ==
  ASSUME OwnIds, LedgerInv, NEW c \in Calls, ResultRecord(c)
  PROVE  RecordInv'
<1> DEFINE r == records[IdOf[c]]
           x == [r EXCEPT !.state = Verdict(goal[c]), !.result = ResultStateOf(goal[c]),
                          !.error = ""]
<1>1. DispatchTypes /\ RecordInv /\ RecordOf(c)
  BY PathTypes DEF LedgerInv, PathInv, RecordInv
<1>2. /\ onResult[c] = "due" /\ goal[c] \in GoalEnds
      /\ UNCHANGED <<call, chosen, goal, feedback>>
      /\ \A d \in Calls \ {c} : onResult'[d] = onResult[d]
  BY <1>1 DEF ResultRecord, callVars, DispatchTypes
<1>3. r # NoRecord  BY <1>1, <1>2 DEF RecordOf, RecordOK, GoalEnds
<1>4. IdOf[c] \in Ids /\ r \in MissionRecords  BY <1>3, BeforeGoal DEF MaybeRecords
<1>5. Verdict(goal[c]) \in RecordStates /\ ResultStateOf(goal[c]) \in {"COMPLETED", "EXCEPTION"}
  BY <1>2 DEF GoalEnds, Verdict, ResultStateOf, RecordStates, RecordEnds
<1>6. x \in MissionRecords /\ x.machine = r.machine /\ x.state = Verdict(goal[c])
  BY <1>4, <1>5 DEF MissionRecords
<1>7. x # NoRecord  BY <1>6, RecordAssumption
<1>8. records' = [records EXCEPT ![IdOf[c]] = x]
  BY <1>1, <1>4 DEF ResultRecord, RecordInv
<1> HIDE DEF x, r
<1>9. /\ records' \in [Ids -> MaybeRecords] /\ records'[IdOf[c]] = x
      /\ \A i \in Ids \ {IdOf[c]} : records'[i] = records[i]
  BY <1>1, <1>4, <1>6, <1>8 DEF RecordInv, MaybeRecords
<1>10. OnlyCall(c)  BY <1>2, <1>9 DEF OnlyCall
<1>11. RecordOf(c)'
  BY <1>1, <1>2, <1>3, <1>6, <1>7, <1>9 DEF RecordOf, RecordOK, r, GoalEnds
<1> QED  BY <1>1, <1>10, <1>11, OneRecord DEF StepOf

\* What has been put into the record is reported.
LEMMA ReportLeaves ==
  ASSUME OwnIds, LedgerInv, NEW c \in Calls, ReportStep(c)
  PROVE  RecordInv'
<1>1. DispatchTypes /\ RecordInv /\ RecordOf(c)
  BY PathTypes DEF LedgerInv, PathInv, RecordInv
<1>2. UNCHANGED <<records, call, chosen, goal>>
  BY DEF ReportStep, FeedbackReport, ResultReport, callVars
<1>3. /\ \A d \in Calls \ {c} : feedback'[d] = feedback[d] /\ onResult'[d] = onResult[d]
      /\ Reported(onResult'[c]) => Reported(onResult[c])
      /\ onResult[c] = "done" => onResult'[c] = "done"
      /\ \A n \in 1 .. MaxFeedback : feedback[c][n] = "done" => feedback'[c][n] = "done"
  BY <1>1 DEF ReportStep, FeedbackReport, ResultReport, DispatchTypes, Reported
<1>4. OnlyCall(c)  BY <1>1, <1>2, <1>3 DEF OnlyCall, RecordInv
<1>5. RecordOf(c)'  BY <1>1, <1>2, <1>3 DEF RecordOf, RecordOK
<1> QED  BY <1>1, <1>4, <1>5, OneRecord DEF StepOf

-----------------------------------------------------------------------------
(* Restarts *)

\* A call that has not begun has sent no goal; what another sent is forgotten.
LEMMA RecordsForgotten ==
  ASSUME LedgerInv, AdapterRestarts
  PROVE  RecordInv'
<1>1. records' = [i \in Ids |-> NoRecord] /\ UNCHANGED <<chosen, goal>>
  BY DEF AdapterRestarts
<1>2. records' \in [Ids -> MaybeRecords]  BY <1>1 DEF MaybeRecords
<1>3. ASSUME NEW c \in Calls  PROVE RecordOf(c)'
  <2>1. records'[IdOf[c]] = NoRecord  BY <1>1, BeforeGoal
  <2>2. call'[c] \in {"idle", "done"}  BY DEF AdapterRestarts
  <2>3. CASE call[c] = "idle"
    <3>1. goal[c] = "unsent"  BY <2>3, BeforeGoal
    <3> QED  BY <1>1, <2>1, <2>2, <3>1 DEF RecordOf, RecordOK
  <2>4. CASE call[c] # "idle"
    <3>1. /\ call'[c] = "done" /\ onResult'[c] = "done"
          /\ \A n \in 1 .. MaxFeedback : feedback'[c][n] = "done"
      BY <2>4 DEF AdapterRestarts
    <3> QED  BY <1>1, <2>1, <3>1 DEF RecordOf, RecordOK
  <2> QED  BY <2>3, <2>4
<1> QED  BY <1>2, <1>3 DEF RecordInv

-----------------------------------------------------------------------------
(* The theorems *)

LEMMA RecordStepKeeps ==
  ASSUME OwnIds, LedgerInv, [PathNext]_pathVars
  PROVE  RecordInv'
<1>1. RecordInv  BY DEF LedgerInv
<1>2. CASE UNCHANGED pathVars
  <2>1. UNCHANGED dispatchVars  BY <1>2 DEF pathVars
  <2> QED  BY <1>1, <2>1, RecordsQuiet
<1>3. ASSUME NEW c \in Calls, AdapterStep(c) \/ PostMission(c) \/ PostDirectly(c)
      PROVE  RecordInv'
  <2>1. Receive(c) \/ CallStep(c) \/ MachineStep(c) \/ RecordStep(c) \/ ReportStep(c)
    BY <1>3 DEF AdapterStep, PostMission, PostDirectly
  <2>2. CASE Receive(c) \/ CallStep(c)
    BY <2>2, CallBeforeGoal, CallSendsGoal, CallReturnsAnswer DEF CallStep
  <2>3. CASE RecordStep(c)
    BY <2>3, FeedbackArrives, ResultArrives DEF RecordStep
  <2> QED  BY <2>1, <2>2, <2>3, MachineActs, ReportLeaves
<1>4. ASSUME NEW c \in Calls,
             CreateMission(c) \/ NotReached(c) \/ AnswerLost(c) \/ CreateStep(c)
      PROVE  RecordInv'
  <2>1. UNCHANGED dispatchVars
    BY <1>4 DEF CreateMission, NotReached, AnswerLost, CreateStep, MissionAnswered, EventLogged
  <2> QED  BY <1>1, <2>1, RecordsQuiet
<1>5. ASSUME NEW m \in Machines, Heartbeat(m)  PROVE RecordInv'
  <2>1. UNCHANGED dispatchVars  BY <1>5 DEF Heartbeat
  <2> QED  BY <1>1, <2>1, RecordsQuiet
<1>6. CASE Take \/ PushLost \/ OSRestarts
  <2>1. UNCHANGED dispatchVars  BY <1>6 DEF Take, PushLost, OSRestarts
  <2> QED  BY <1>1, <2>1, RecordsQuiet
<1>7. ASSUME NEW t \in Threads,
             Deliver(t) \/ AnswerPush(t) \/ HandleRequest(t) \/ OtherUse(t)
      PROVE  RecordInv'
  <2>1. UNCHANGED dispatchVars
    BY <1>7 DEF Deliver, AnswerPush, HandleRequest, OtherUse
  <2> QED  BY <1>1, <2>1, RecordsQuiet
<1>8. CASE AdapterRestarts  BY <1>8, RecordsForgotten
<1> QED
  BY <1>2, <1>3, <1>4, <1>5, <1>6, <1>7, <1>8 DEF PathNext

\* Rows, records and goals are in step in every reachable state.
THEOREM LedgerInvariance == ASSUME OwnIds PROVE PathSafeSpec => []LedgerInv
<1>1. PathInit => LedgerInv
  <2>1. PathInit => RecordInv
    BY DispatchAssumption
    DEF PathInit, Init, DispatchInit, RecordInv, MaybeRecords, RecordOf, RecordOK
  <2> QED  BY <2>1, PathInitially DEF LedgerInv
<1>2. LedgerInv /\ [PathNext]_pathVars => LedgerInv'
  BY PathStep, RecordStepKeeps DEF LedgerInv
<1> QED  BY <1>1, <1>2, PTL DEF PathSafeSpec

\* Of a mission that both know, the OS Core's row never contradicts the
\* adapter's record.
THEOREM LedgersNeverContradict == ASSUME OwnIds PROVE PathSafeSpec => []LedgersAgree
<1>1. LedgerInv => LedgersAgree
  <2> SUFFICES ASSUME LedgerInv, NEW c \in Calls,
                      rows[IdOf[c]] # NoRow, records[IdOf[c]] # NoRecord
               PROVE  LET row    == rows[IdOf[c]]
                          record == records[IdOf[c]]
                      IN  /\ "COMPLETED" \in {row.state, row.result_state}
                               => record.state = "COMPLETED"
                          /\ row.result_state = "EXCEPTION"
                               => record.state \in {"EXCEPTION", "CANCELED"}
                          /\ row.machine # NoMachine => record.machine = row.machine
    BY DEF LedgersAgree
  <2>1. RowOK(rows[IdOf[c]], heard[c], reply[c], chosen[c])
    BY DEF LedgerInv, PathInv, RowInv
  <2>2. RecordOf(c)  BY DEF LedgerInv, RecordInv
  <2>3. /\ records[IdOf[c]].machine = chosen[c]
        /\ Reported(onResult[c]) => records[IdOf[c]].state = Verdict(goal[c])
    BY <2>2 DEF RecordOf, RecordOK
  <2>4. heard[c] \in {"succeeded"} \cup FailedGoals
          => goal[c] = heard[c] /\ Reported(onResult[c])
    BY DEF heard, HeardOf, FailedGoals, GoalEnds
  <2>5. /\ Verdict("succeeded") = "COMPLETED"
        /\ \A e \in FailedGoals : Verdict(e) \in {"EXCEPTION", "CANCELED"}
    BY DEF Verdict, ResultStateOf, FailedGoals
  <2> QED  BY <2>1, <2>3, <2>4, <2>5 DEF RowOK, Truly
<1> QED  BY <1>1, LedgerInvariance, PTL
=============================================================================
