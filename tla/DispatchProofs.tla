--------------------------- MODULE DispatchProofs ---------------------------
(***************************************************************************)
(* Proofs about Dispatch, for any calls, machines and queue size, and any  *)
(* number of feedback messages.                                            *)
(***************************************************************************)
EXTENDS DispatchProperties, TLAPS

USE DispatchAssumption, QueueAssumption, RecordAssumption, MachinesAssumption
USE DEF DispatchAssumption, QueueAssumption, RecordAssumption, MachinesAssumption

-----------------------------------------------------------------------------
(* Facts about the helpers *)

\* What is put into a queue of requests leaves one, no longer than it may be.
LEMMA EnqueueType ==
  ASSUME NEW q \in Seq(OSRequests), Len(q) <= MaxQueued, NEW r \in OSRequests
  PROVE  Enqueued(q, r) \in Seq(OSRequests) /\ Len(Enqueued(q, r)) <= MaxQueued
<1>1. CASE Len(q) < MaxQueued
  BY <1>1 DEF Enqueued
<1>2. CASE ~(Len(q) < MaxQueued)
  BY <1>2 DEF Enqueued
<1> QED BY <1>1, <1>2

\* A report of a verdict uses the OS vocabulary.
LEMMA ReportType ==
  ASSUME NEW i \in Ids, NEW s \in {"RUNNING", "COMPLETED", "EXCEPTION"}
  PROVE  Report(i, s) \in OSRequests
BY DEF Report, OSRequests, Reports

\* Every ending of a goal has a verdict, and only success is COMPLETED.
LEMMA VerdictType ==
  ASSUME NEW e \in GoalEnds
  PROVE  /\ Verdict(e) \in RecordEnds
         /\ Verdict(e) # "REJECTED"
         /\ Verdict(e) = "COMPLETED" <=> e = "succeeded"
         /\ Verdict(e) = "CANCELED" <=> e = "canceled"
         /\ Verdict(e) = "EXCEPTION" <=> e \in {"aborted", "raised"}
         /\ ResultStateOf(e) \in {"COMPLETED", "EXCEPTION"}
<1>1. CASE e = "succeeded"
  BY <1>1 DEF Verdict, ResultStateOf, RecordEnds
<1>2. CASE e = "canceled"
  BY <1>2 DEF Verdict, ResultStateOf, RecordEnds
<1>3. CASE e \in {"aborted", "raised"}
  BY <1>3 DEF Verdict, ResultStateOf, RecordEnds
<1> QED BY <1>1, <1>2, <1>3 DEF GoalEnds

\* A record that is rewritten field by field is a record.
LEMMA RecordFieldsType ==
  ASSUME NEW r \in MissionRecords, NEW s \in RecordStates,
         NEW res \in {"none", "COMPLETED", "EXCEPTION"},
         NEW err \in {"", "GOAL_REJECTED", "DISPATCH_TIMEOUT"}
  PROVE  /\ [r EXCEPT !.state = s] \in MissionRecords
         /\ [r EXCEPT !.state = s, !.result = res, !.error = err] \in MissionRecords
BY DEF MissionRecords

\* Its fields are the ones that were written and the one that was not.
LEMMA RecordFields ==
  ASSUME NEW r \in MissionRecords, NEW s, NEW res, NEW err
  PROVE  LET x == [r EXCEPT !.state = s, !.result = res, !.error = err]
         IN  x.machine = r.machine /\ x.state = s /\ x.result = res /\ x.error = err
BY DEF MissionRecords

-----------------------------------------------------------------------------
(* What the steps do to the records *)

\* The call is over, badly: its record, if it has one, says why.
LEMMA FailMissionRecords ==
  ASSUME TypeOK, NEW i \in Ids, NEW s \in RecordStates,
         NEW code \in {"", "GOAL_REJECTED", "DISPATCH_TIMEOUT"},
         FailMission(i, s, code)
  PROVE  /\ records' \in [Ids -> {NoRecord} \cup MissionRecords]
         /\ \A j \in Ids \ {i} : records'[j] = records[j]
         /\ records[i] # NoRecord =>
              /\ records[i] \in MissionRecords
              /\ records'[i] \in MissionRecords
              /\ records'[i].machine = records[i].machine
              /\ records'[i].state = s
              /\ records'[i].error = code
         /\ records[i] = NoRecord => records'[i] = NoRecord
<1>1. CASE records[i] = NoRecord
  BY <1>1 DEF TypeOK, FailMission
<1>2. CASE records[i] # NoRecord
  <2>1. records[i] \in MissionRecords
    BY <1>2 DEF TypeOK
  <2> DEFINE r == [records[i] EXCEPT !.state = s, !.result = "EXCEPTION", !.error = code]
  <2>2. r.machine = records[i].machine /\ r.state = s /\ r.error = code
    BY <2>1 DEF MissionRecords
  <2>3. r \in MissionRecords
    BY <2>1, RecordFieldsType
  <2>4. records' = [records EXCEPT ![i] = r]
    BY <1>2 DEF FailMission, TypeOK
  <2> HIDE DEF r
  <2>5. records \in [Ids -> {NoRecord} \cup MissionRecords]
    BY DEF TypeOK
  <2>6. /\ records' \in [Ids -> {NoRecord} \cup MissionRecords]
        /\ \A j \in Ids \ {i} : records'[j] = records[j]
        /\ records'[i] = r
    BY <2>3, <2>4, <2>5
  <2> QED BY <1>2, <2>1, <2>2, <2>3, <2>6
<1> QED BY <1>1, <1>2

\* Feedback makes an ASSIGNED record RUNNING and leaves any other as it is.
LEMMA FeedbackRecordRecords ==
  ASSUME DispatchInv, NEW c \in Calls, NEW n \in 1 .. MaxFeedback, FeedbackRecord(c, n)
  PROVE  LET i == IdOf[c]
         IN  /\ records[i] \in MissionRecords
             /\ records' \in [Ids -> {NoRecord} \cup MissionRecords]
             /\ \A j \in Ids \ {i} : records'[j] = records[j]
             /\ records'[i] \in MissionRecords
             /\ records'[i].machine = records[i].machine
             /\ records'[i].error = records[i].error
             /\ records'[i].state = RunningAfter(records[i].state)
             /\ records[i].state # "ASSIGNED" => records'[i] = records[i]
<1> DEFINE i == IdOf[c]
<1>1. /\ i \in Ids
      /\ feedback[c][n] # "none"
  BY DEF FeedbackRecord
<1>2. records[i] \in MissionRecords
  <2>1. goal[c] \in HasAccepted
    BY <1>1 DEF DispatchInv, PhaseInv, PhaseOf
  <2>2. goal[c] # "unsent"
    BY <2>1 DEF HasAccepted, GoalEnds
  <2>3. records[i] # NoRecord
    BY <2>2 DEF DispatchInv, PhaseInv, PhaseOf
  <2> QED BY <1>1, <2>3 DEF DispatchInv, TypeOK
<1>3. records' = [records EXCEPT ![i] =
                    [records[i] EXCEPT !.state = RunningAfter(records[i].state)]]
  BY <1>1 DEF FeedbackRecord, DispatchInv, TypeOK
<1>4. RunningAfter(records[i].state) \in RecordStates
  <2>1. records[i].state \in RecordStates
    BY <1>2 DEF MissionRecords
  <2> QED BY <2>1 DEF RunningAfter, RecordStates
<1>5. /\ [records[i] EXCEPT !.state = RunningAfter(records[i].state)] \in MissionRecords
      /\ [records[i] EXCEPT !.state = RunningAfter(records[i].state)].machine
           = records[i].machine
      /\ [records[i] EXCEPT !.state = RunningAfter(records[i].state)].error
           = records[i].error
      /\ [records[i] EXCEPT !.state = RunningAfter(records[i].state)].state
           = RunningAfter(records[i].state)
  BY <1>2, <1>4, RecordFieldsType DEF MissionRecords
<1>6. records[i].state # "ASSIGNED" =>
        [records[i] EXCEPT !.state = RunningAfter(records[i].state)] = records[i]
  BY <1>2 DEF RunningAfter, MissionRecords
<1> HIDE DEF i
<1>7. records'[i] = [records[i] EXCEPT !.state = RunningAfter(records[i].state)]
  BY <1>1, <1>3 DEF DispatchInv, TypeOK
<1>8. /\ records' \in [Ids -> {NoRecord} \cup MissionRecords]
      /\ \A j \in Ids \ {i} : records'[j] = records[j]
  BY <1>1, <1>3, <1>5 DEF DispatchInv, TypeOK
<1> QED BY <1>2, <1>5, <1>6, <1>7, <1>8 DEF i

\* The result callback writes the verdict on the goal.
LEMMA ResultRecordRecords ==
  ASSUME DispatchInv, NEW c \in Calls, ResultRecord(c)
  PROVE  LET i == IdOf[c]
         IN  /\ records[i] \in MissionRecords
             /\ records' \in [Ids -> {NoRecord} \cup MissionRecords]
             /\ \A j \in Ids \ {i} : records'[j] = records[j]
             /\ records'[i] \in MissionRecords
             /\ records'[i].machine = records[i].machine
             /\ records'[i].state = Verdict(goal[c])
             /\ records'[i].error = ""
<1> DEFINE i == IdOf[c]
<1>1. i \in Ids /\ goal[c] \in GoalEnds
  BY DEF ResultRecord
<1>2. records[i] \in MissionRecords
  BY <1>1 DEF DispatchInv, TypeOK, PhaseInv, PhaseOf, GoalEnds
<1> DEFINE r == [records[i] EXCEPT !.state = Verdict(goal[c]),
                                   !.result = ResultStateOf(goal[c]), !.error = ""]
<1>3. records' = [records EXCEPT ![i] = r]
  BY <1>1 DEF ResultRecord, DispatchInv, TypeOK
<1>4. r \in MissionRecords
  BY <1>1, <1>2, VerdictType, RecordFieldsType DEF RecordStates
<1>5. r.machine = records[i].machine /\ r.state = Verdict(goal[c]) /\ r.error = ""
  BY <1>2, RecordFields
<1> HIDE DEF i, r
<1>6. /\ records' \in [Ids -> {NoRecord} \cup MissionRecords]
      /\ \A j \in Ids \ {i} : records'[j] = records[j]
      /\ records'[i] = r
  BY <1>1, <1>3, <1>4 DEF DispatchInv, TypeOK
<1> QED BY <1>2, <1>4, <1>5, <1>6 DEF i

-----------------------------------------------------------------------------
(* Every step keeps the calls, their goals and their callbacks in step *)

\* A step of call c leaves the other calls and the other records alone, and
\* takes no record away.
OthersKept(c) ==
  /\ \A d \in Calls \ {c} :
       /\ call'[d] = call[d]
       /\ chosen'[d] = chosen[d]
       /\ reply'[d] = reply[d]
       /\ goal'[d] = goal[d]
       /\ feedback'[d] = feedback[d]
       /\ onResult'[d] = onResult[d]
  /\ \A i \in Ids \ {IdOf[c]} : records'[i] = records[i]
  /\ records[IdOf[c]] # NoRecord => records'[IdOf[c]] # NoRecord

\* What a step of call c has to do to keep DispatchInv.
StaysInPhase(c) ==
  /\ TypeOK'
  /\ OthersKept(c)
  /\ PhaseOf(c)'

\* The other calls are then still in step, even if they share c's id.
LEMMA OthersStayInPhase ==
  ASSUME DispatchInv, NEW c \in Calls, StaysInPhase(c)
  PROVE  DispatchInv'
<1>1. ASSUME NEW d \in Calls \ {c} PROVE PhaseOf(d)'
  <2>1. PhaseOf(d) BY DEF DispatchInv, PhaseInv
  <2>2. records[IdOf[d]] # NoRecord => records'[IdOf[d]] # NoRecord
    BY DEF StaysInPhase, OthersKept
  <2>3. /\ call'[d] = call[d] /\ chosen'[d] = chosen[d] /\ reply'[d] = reply[d]
        /\ goal'[d] = goal[d] /\ feedback'[d] = feedback[d] /\ onResult'[d] = onResult[d]
    BY DEF StaysInPhase, OthersKept
  <2> QED BY <2>1, <2>2, <2>3 DEF PhaseOf, ResultHeard
<1> QED BY <1>1 DEF DispatchInv, PhaseInv, StaysInPhase

\* A call arrives.
LEMMA ReceiveInPhase ==
  ASSUME DispatchInv, NEW c \in Calls, Receive(c), UNCHANGED clientVars
  PROVE  StaysInPhase(c)
<1> USE DEF DispatchInv, Receive, Proceed, callVars, callbackVars, CallPcs, Before
<1>1. TypeOK'
  BY DEF TypeOK, clientVars
<1>2. OthersKept(c)
  BY DEF TypeOK, OthersKept
<1>3. PhaseOf(c)'
  BY DEF TypeOK, PhaseInv, PhaseOf, ResultHeard
<1> QED BY <1>1, <1>2, <1>3 DEF StaysInPhase

\* Its id is looked up.
LEMMA CheckIdInPhase ==
  ASSUME DispatchInv, NEW c \in Calls, CheckId(c), UNCHANGED clientVars
  PROVE  StaysInPhase(c)
<1> USE DEF DispatchInv, CheckId, Proceed, Return, IdUnused, callVars, callbackVars, CallPcs, Replies, Before, EarlyNo
<1>1. TypeOK'
  BY DEF TypeOK, clientVars
<1>2. OthersKept(c)
  BY DEF TypeOK, OthersKept
<1>3. PhaseOf(c)'
  BY DEF TypeOK, PhaseInv, PhaseOf, ResultHeard
<1> QED BY <1>1, <1>2, <1>3 DEF StaysInPhase

\* A machine is chosen, or none.
LEMMA SelectMachineInPhase ==
  ASSUME DispatchInv, NEW c \in Calls, SelectMachine(c), UNCHANGED clientVars
  PROVE  StaysInPhase(c)
<1> USE DEF DispatchInv, SelectMachine, Proceed, Return, callVars, callbackVars, CallPcs, Replies, Before, EarlyNo
<1>1. TypeOK'
  BY DEF TypeOK, clientVars
<1>2. OthersKept(c)
  BY DEF TypeOK, OthersKept
<1>3. PhaseOf(c)'
  BY DEF TypeOK, PhaseInv, PhaseOf, ResultHeard
<1> QED BY <1>1, <1>2, <1>3 DEF StaysInPhase

\* The machine's action server is waited for.
LEMMA ConnectInPhase ==
  ASSUME DispatchInv, NEW c \in Calls, Connect(c), UNCHANGED clientVars
  PROVE  StaysInPhase(c)
<1> USE DEF DispatchInv, Connect, Proceed, Return, callVars, callbackVars, CallPcs, Replies, Before, EarlyNo
<1>1. TypeOK'
  BY DEF TypeOK, clientVars
<1>2. OthersKept(c)
  BY DEF TypeOK, OthersKept
<1>3. PhaseOf(c)'
  BY DEF TypeOK, PhaseInv, PhaseOf, ResultHeard
<1> QED BY <1>1, <1>2, <1>3 DEF StaysInPhase

\* The record is made and the goal leaves.
LEMMA SendGoalInPhase ==
  ASSUME DispatchInv, NEW c \in Calls, SendGoal(c), UNCHANGED clientVars
  PROVE  StaysInPhase(c)
<1> DEFINE r == [machine |-> chosen[c], state |-> "ASSIGNED", result |-> "none", error |-> ""]
<1>1. r \in MissionRecords
  BY DEF DispatchInv, PhaseInv, PhaseOf, SendGoal, MissionRecords, RecordStates
<1>2. r # NoRecord
  BY <1>1
<1>3. records' = [records EXCEPT ![IdOf[c]] = r]
  BY DEF SendGoal
<1> HIDE DEF r
<1>4. records \in [Ids -> {NoRecord} \cup MissionRecords] /\ IdOf[c] \in Ids
  BY DEF DispatchInv, TypeOK
<1>5. /\ records' \in [Ids -> {NoRecord} \cup MissionRecords]
      /\ \A i \in Ids \ {IdOf[c]} : records'[i] = records[i]
      /\ records'[IdOf[c]] # NoRecord
  BY <1>1, <1>2, <1>3, <1>4
<1> USE DEF DispatchInv, SendGoal, Proceed, callVars, callbackVars, CallPcs, GoalStates
<1>6. TypeOK'
  BY <1>5 DEF TypeOK, clientVars
<1>7. OthersKept(c)
  <2>1. UNCHANGED <<chosen, reply, feedback, onResult>>
    OBVIOUS
  <2>2. \A d \in Calls \ {c} : call'[d] = call[d] /\ goal'[d] = goal[d]
    BY DEF TypeOK
  <2> QED BY <1>5, <2>1, <2>2 DEF OthersKept
<1>8. PhaseOf(c)'
  <2>1. PhaseOf(c) /\ call[c] = "sending"
    BY DEF PhaseInv
  <2>2. call'[c] = "waiting" /\ goal'[c] = "offered"
    BY DEF TypeOK
  <2>3. UNCHANGED <<chosen, reply, feedback, onResult>>
    OBVIOUS
  <2> QED
    BY <1>5, <2>1, <2>2, <2>3 DEF PhaseOf, ResultHeard, Before, EarlyNo, HasAccepted, GoalEnds
<1> QED BY <1>6, <1>7, <1>8 DEF StaysInPhase

\* The machine has accepted: its result will be called back.
LEMMA GoalAcceptedInPhase ==
  ASSUME DispatchInv, NEW c \in Calls, GoalAccepted(c), UNCHANGED clientVars
  PROVE  StaysInPhase(c)
<1> USE DEF DispatchInv, GoalAccepted, Return, callVars, callbackVars, CallPcs, CallbackPcs, Replies, Before, EarlyNo, HasAccepted, GoalEnds
<1>1. TypeOK'
  BY DEF TypeOK, clientVars
<1>2. OthersKept(c)
  BY DEF TypeOK, OthersKept
<1>3. PhaseOf(c)'
  BY DEF TypeOK, PhaseInv, PhaseOf, ResultHeard
<1> QED BY <1>1, <1>2, <1>3 DEF StaysInPhase

\* The machine has refused.
LEMMA GoalRefusedInPhase ==
  ASSUME DispatchInv, NEW c \in Calls, GoalRefused(c), UNCHANGED clientVars
  PROVE  StaysInPhase(c)
<1>1. IdOf[c] \in Ids /\ FailMission(IdOf[c], "REJECTED", "GOAL_REJECTED") /\ TypeOK
  BY DEF GoalRefused, DispatchInv
<1>2. /\ records' \in [Ids -> {NoRecord} \cup MissionRecords]
      /\ \A i \in Ids \ {IdOf[c]} : records'[i] = records[i]
      /\ records[IdOf[c]] # NoRecord => records'[IdOf[c]] # NoRecord
  <2>1. "REJECTED" \in RecordStates /\ "EXCEPTION" \in RecordStates
    BY DEF RecordStates, RecordEnds
  <2> QED BY <1>1, <2>1, FailMissionRecords
<1> USE DEF DispatchInv, GoalRefused, Return, callVars, callbackVars, CallPcs, Replies
<1>3. TypeOK'
  BY <1>2 DEF TypeOK, clientVars
<1>4. OthersKept(c)
  BY <1>2 DEF TypeOK, OthersKept
<1>5. PhaseOf(c)'
  <2>1. PhaseOf(c) /\ call[c] = "waiting" /\ goal[c] = "refused"
    BY DEF PhaseInv
  <2>2. call'[c] = "done" /\ reply'[c] = "409 machine_rejected_goal"
    BY DEF TypeOK
  <2>3. UNCHANGED <<chosen, goal, feedback, onResult>>
    OBVIOUS
  <2> QED BY <1>2, <2>1, <2>2, <2>3 DEF PhaseOf, ResultHeard, Before, EarlyNo
<1> QED BY <1>3, <1>4, <1>5 DEF StaysInPhase

\* The wait is over, whatever has become of the goal.
LEMMA GiveUpInPhase ==
  ASSUME DispatchInv, NEW c \in Calls, GiveUp(c), UNCHANGED clientVars
  PROVE  StaysInPhase(c)
<1>1. IdOf[c] \in Ids /\ FailMission(IdOf[c], "EXCEPTION", "DISPATCH_TIMEOUT") /\ TypeOK
  BY DEF GiveUp, DispatchInv
<1>2. /\ records' \in [Ids -> {NoRecord} \cup MissionRecords]
      /\ \A i \in Ids \ {IdOf[c]} : records'[i] = records[i]
      /\ records[IdOf[c]] # NoRecord => records'[IdOf[c]] # NoRecord
  <2>1. "REJECTED" \in RecordStates /\ "EXCEPTION" \in RecordStates
    BY DEF RecordStates, RecordEnds
  <2> QED BY <1>1, <2>1, FailMissionRecords
<1> USE DEF DispatchInv, GiveUp, Return, callVars, callbackVars, CallPcs, Replies
<1>3. TypeOK'
  BY <1>2 DEF TypeOK, clientVars
<1>4. OthersKept(c)
  BY <1>2 DEF TypeOK, OthersKept
<1>5. PhaseOf(c)'
  <2>1. PhaseOf(c) /\ call[c] = "waiting"
    BY DEF PhaseInv
  <2>2. call'[c] = "done" /\ reply'[c] = "504 goal_not_acknowledged"
    BY DEF TypeOK
  <2>3. UNCHANGED <<chosen, goal, feedback, onResult>>
    OBVIOUS
  <2> QED BY <1>2, <2>1, <2>2, <2>3 DEF PhaseOf, ResultHeard, Before, EarlyNo
<1> QED BY <1>3, <1>4, <1>5 DEF StaysInPhase

\* A machine accepts.
LEMMA MachineAcceptsInPhase ==
  ASSUME DispatchInv, NEW c \in Calls, MachineAccepts(c), UNCHANGED clientVars
  PROVE  StaysInPhase(c)
<1> USE DEF DispatchInv, MachineAccepts, callVars, callbackVars
<1>1. TypeOK'
  BY DEF TypeOK, clientVars, GoalStates
<1>2. OthersKept(c)
  BY DEF TypeOK, OthersKept
<1>3. PhaseOf(c)'
  <2>1. PhaseOf(c) /\ goal[c] = "offered"
    BY DEF PhaseInv
  <2>2. goal'[c] = "accepted"
    BY DEF TypeOK
  <2>3. UNCHANGED <<records, call, chosen, reply, feedback, onResult>>
    OBVIOUS
  <2> QED BY <2>1, <2>2, <2>3 DEF PhaseOf, ResultHeard, EarlyNo, Before, HasAccepted, GoalEnds
<1> QED BY <1>1, <1>2, <1>3 DEF StaysInPhase

\* A machine refuses.
LEMMA MachineRefusesInPhase ==
  ASSUME DispatchInv, NEW c \in Calls, MachineRefuses(c), UNCHANGED clientVars
  PROVE  StaysInPhase(c)
<1> USE DEF DispatchInv, MachineRefuses, callVars, callbackVars
<1>1. TypeOK'
  BY DEF TypeOK, clientVars, GoalStates
<1>2. OthersKept(c)
  BY DEF TypeOK, OthersKept
<1>3. PhaseOf(c)'
  <2>1. PhaseOf(c) /\ goal[c] = "offered"
    BY DEF PhaseInv
  <2>2. goal'[c] = "refused"
    BY DEF TypeOK
  <2>3. UNCHANGED <<records, call, chosen, reply, feedback, onResult>>
    OBVIOUS
  <2> QED BY <2>1, <2>2, <2>3 DEF PhaseOf, ResultHeard, EarlyNo, Before, HasAccepted, GoalEnds
<1> QED BY <1>1, <1>2, <1>3 DEF StaysInPhase

\* A machine ends a goal.
LEMMA MachineEndsInPhase ==
  ASSUME DispatchInv, NEW c \in Calls, MachineEnds(c), UNCHANGED clientVars
  PROVE  StaysInPhase(c)
<1> USE DEF DispatchInv, MachineEnds, callVars, callbackVars
<1>1. TypeOK'
  BY DEF TypeOK, clientVars, GoalStates
<1>2. OthersKept(c)
  BY DEF TypeOK, OthersKept
<1>3. PhaseOf(c)'
  <2>1. PhaseOf(c) /\ goal[c] = "accepted"
    BY DEF PhaseInv
  <2>2. goal'[c] \in GoalEnds
    BY DEF TypeOK
  <2>3. UNCHANGED <<records, call, chosen, reply, feedback, onResult>>
    OBVIOUS
  <2> QED BY <2>1, <2>2, <2>3 DEF PhaseOf, ResultHeard, EarlyNo, Before, HasAccepted, GoalEnds
<1> QED BY <1>1, <1>2, <1>3 DEF StaysInPhase

\* A machine at work sends feedback.
LEMMA MachineSendsFeedbackInPhase ==
  ASSUME DispatchInv, NEW c \in Calls, NEW n \in 1 .. MaxFeedback,
         MachineSendsFeedback(c, n), UNCHANGED clientVars
  PROVE  StaysInPhase(c)
<1> USE DEF DispatchInv, MachineSendsFeedback, callVars
<1>1. TypeOK'
  BY DEF TypeOK, clientVars, CallbackPcs
<1>2. OthersKept(c)
  BY DEF TypeOK, OthersKept
<1>3. PhaseOf(c)'
  <2>1. PhaseOf(c) /\ goal[c] \in HasAccepted
    BY DEF PhaseInv, HasAccepted
  <2>2. UNCHANGED <<records, call, chosen, reply, goal, onResult>>
    OBVIOUS
  <2> QED BY <2>1, <2>2 DEF PhaseOf, ResultHeard
<1> QED BY <1>1, <1>2, <1>3 DEF StaysInPhase

\* A feedback callback writes the record.
LEMMA FeedbackRecordInPhase ==
  ASSUME DispatchInv, NEW c \in Calls, NEW n \in 1 .. MaxFeedback,
         FeedbackRecord(c, n), UNCHANGED clientVars
  PROVE  StaysInPhase(c)
<1>1. /\ records' \in [Ids -> {NoRecord} \cup MissionRecords]
      /\ \A i \in Ids \ {IdOf[c]} : records'[i] = records[i]
      /\ records'[IdOf[c]] # NoRecord
  BY FeedbackRecordRecords
<1>2. /\ UNCHANGED <<call, chosen, reply, goal, onResult>>
      /\ feedback[c][n] = "due"
      /\ feedback' = [feedback EXCEPT ![c][n] = AfterLock]
  BY DEF FeedbackRecord, callVars
<1>3. TypeOK
  BY DEF DispatchInv
<1>4. TypeOK'
  BY <1>1, <1>2, <1>3 DEF TypeOK, clientVars, CallbackPcs, AfterLock
<1>5. OthersKept(c)
  BY <1>1, <1>2, <1>3 DEF TypeOK, OthersKept
<1>6. PhaseOf(c)'
  <2>1. PhaseOf(c) /\ goal[c] \in HasAccepted
    BY <1>2 DEF DispatchInv, PhaseInv, PhaseOf
  <2> QED BY <1>1, <1>2, <2>1 DEF PhaseOf, ResultHeard
<1> QED BY <1>4, <1>5, <1>6 DEF StaysInPhase

\* A feedback callback reports.
LEMMA FeedbackReportInPhase ==
  ASSUME DispatchInv, NEW c \in Calls, NEW n \in 1 .. MaxFeedback, FeedbackReport(c, n)
  PROVE  StaysInPhase(c)
<1>1. /\ UNCHANGED <<records, call, chosen, reply, goal, onResult>>
      /\ feedback[c][n] = "reporting"
      /\ feedback' = [feedback EXCEPT ![c][n] = "done"]
      /\ queue' = Enqueued(queue, Report(IdOf[c], "RUNNING"))
  BY DEF FeedbackReport, callVars, ReportMission, Enqueue
<1>2. TypeOK
  BY DEF DispatchInv
<1>3. queue' \in Seq(OSRequests) /\ Len(queue') <= MaxQueued
  BY <1>1, <1>2, EnqueueType, ReportType DEF TypeOK
<1>4. TypeOK'
  BY <1>1, <1>2, <1>3 DEF TypeOK, CallbackPcs
<1>5. OthersKept(c)
  BY <1>1, <1>2 DEF TypeOK, OthersKept
<1>6. PhaseOf(c)'
  <2>1. PhaseOf(c) /\ goal[c] \in HasAccepted
    BY <1>1 DEF DispatchInv, PhaseInv, PhaseOf
  <2> QED BY <1>1, <2>1 DEF PhaseOf, ResultHeard
<1> QED BY <1>4, <1>5, <1>6 DEF StaysInPhase

\* The result callback writes the record.
LEMMA ResultRecordInPhase ==
  ASSUME DispatchInv, NEW c \in Calls, ResultRecord(c), UNCHANGED clientVars
  PROVE  StaysInPhase(c)
<1>1. /\ records' \in [Ids -> {NoRecord} \cup MissionRecords]
      /\ \A i \in Ids \ {IdOf[c]} : records'[i] = records[i]
      /\ records'[IdOf[c]] # NoRecord
  BY ResultRecordRecords
<1>2. /\ UNCHANGED <<call, chosen, reply, goal, feedback>>
      /\ onResult[c] = "due"
      /\ goal[c] \in GoalEnds
      /\ onResult' = [onResult EXCEPT ![c] = AfterLock]
  BY DEF ResultRecord, callVars
<1>3. TypeOK
  BY DEF DispatchInv
<1>4. TypeOK'
  BY <1>1, <1>2, <1>3 DEF TypeOK, clientVars, CallbackPcs, AfterLock
<1>5. OthersKept(c)
  BY <1>1, <1>2, <1>3 DEF TypeOK, OthersKept
<1>6. PhaseOf(c)'
  <2>1. PhaseOf(c)
    BY DEF DispatchInv, PhaseInv
  <2>2. onResult'[c] # "none"
    BY <1>2, <1>3 DEF TypeOK, AfterLock
  <2> QED BY <1>1, <1>2, <2>1, <2>2 DEF PhaseOf
<1> QED BY <1>4, <1>5, <1>6 DEF StaysInPhase

\* The result callback reports.
LEMMA ResultReportInPhase ==
  ASSUME DispatchInv, NEW c \in Calls, ResultReport(c)
  PROVE  StaysInPhase(c)
<1> DEFINE verdict == IF Verdict(goal[c]) = "COMPLETED" THEN "COMPLETED" ELSE "EXCEPTION"
<1>1. /\ UNCHANGED <<records, call, chosen, reply, goal, feedback>>
      /\ onResult[c] = "reporting"
      /\ onResult' = [onResult EXCEPT ![c] = "done"]
      /\ queue' = Enqueued(queue, Report(IdOf[c], verdict))
  BY DEF ResultReport, callVars, ReportVerdict, ReportMission, Enqueue
<1>2. TypeOK
  BY DEF DispatchInv
<1>3. verdict \in {"RUNNING", "COMPLETED", "EXCEPTION"}
  OBVIOUS
<1> HIDE DEF verdict
<1>4. queue' \in Seq(OSRequests) /\ Len(queue') <= MaxQueued
  BY <1>1, <1>2, <1>3, EnqueueType, ReportType DEF TypeOK
<1>5. TypeOK'
  BY <1>1, <1>2, <1>4 DEF TypeOK, CallbackPcs
<1>6. OthersKept(c)
  BY <1>1, <1>2 DEF TypeOK, OthersKept
<1>7. PhaseOf(c)'
  <2>1. PhaseOf(c) /\ goal[c] \in GoalEnds
    BY <1>1 DEF DispatchInv, PhaseInv, PhaseOf, ResultHeard
  <2>2. onResult'[c] = "done"
    BY <1>1, <1>2 DEF TypeOK
  <2> QED BY <1>1, <2>1, <2>2 DEF PhaseOf
<1> QED BY <1>5, <1>6, <1>7 DEF StaysInPhase

\* Whatever step call c takes part in.
LEMMA StepOfCallInPhase ==
  ASSUME DispatchInv, NEW c \in Calls,
         \/ /\ Receive(c) \/ CallStep(c) \/ MachineStep(c) \/ RecordStep(c)
            /\ UNCHANGED clientVars
         \/ ReportStep(c)
  PROVE  StaysInPhase(c)
<1>1. CASE /\ Receive(c) \/ CallStep(c) \/ MachineStep(c) \/ RecordStep(c)
           /\ UNCHANGED clientVars
  BY <1>1, ReceiveInPhase, CheckIdInPhase, SelectMachineInPhase, ConnectInPhase,
     SendGoalInPhase, GoalAcceptedInPhase, GoalRefusedInPhase, GiveUpInPhase,
     MachineAcceptsInPhase, MachineRefusesInPhase, MachineSendsFeedbackInPhase,
     MachineEndsInPhase, FeedbackRecordInPhase, ResultRecordInPhase
     DEF CallStep, CallReturns, MachineStep, RecordStep
<1>2. CASE ReportStep(c)
  BY <1>2, FeedbackReportInPhase, ResultReportInPhase DEF ReportStep
<1> QED BY <1>1, <1>2

\* Every step of the system keeps the invariant.
LEMMA StepInPhase ==
  ASSUME DispatchInv, [Next]_vars
  PROVE  DispatchInv'
<1>1. CASE Next
  <2>1. PICK c \in Calls : StaysInPhase(c)
    BY <1>1, StepOfCallInPhase DEF Next
  <2> QED BY <2>1, OthersStayInPhase
<1>2. CASE UNCHANGED vars
  BY <1>2 DEF vars, dispatchVars, callVars, callbackVars, clientVars,
              DispatchInv, TypeOK, PhaseInv, PhaseOf, ResultHeard
<1> QED BY <1>1, <1>2

\* No call has begun.
LEMMA InitInPhase ==
  ASSUME Init
  PROVE  DispatchInv
<1> USE DEF Init, DispatchInit, ClientInit
<1>1. TypeOK
  BY DEF TypeOK, CallPcs, Replies, GoalStates, CallbackPcs
<1>2. PhaseInv
  BY DEF PhaseInv, PhaseOf, Before, EarlyNo, ResultHeard
<1> QED BY <1>1, <1>2 DEF DispatchInv

-----------------------------------------------------------------------------
(* The theorems that need no unique ids *)

\* A call, its goal and its callbacks are always in step with one another.
THEOREM DispatchInvariant == SafeSpec => []DispatchInv
<1>1. Init => DispatchInv
  BY InitInPhase
<1>2. DispatchInv /\ [Next]_vars => DispatchInv'
  BY StepInPhase
<1> QED BY <1>1, <1>2, PTL DEF SafeSpec

\* Every variable stays in its domain: no report leaves the OS vocabulary and
\* the queue never outgrows its limit.
THEOREM TypeCorrect == SafeSpec => []TypeOK
<1>1. DispatchInv => TypeOK
  BY DEF DispatchInv
<1> QED BY <1>1, DispatchInvariant, PTL

LEMMA RepliesInPhase == DispatchInv => RepliesAreTrue
<1> SUFFICES ASSUME DispatchInv, NEW c \in Calls
             PROVE  /\ reply[c] \in EarlyNo => goal[c] = "unsent"
                    /\ reply[c] = "409 machine_rejected_goal" =>
                         /\ goal[c] = "refused"
                         /\ \A n \in 1 .. MaxFeedback : feedback[c][n] = "none"
                    /\ reply[c] = "201" =>
                         /\ goal[c] \in HasAccepted
                         /\ onResult[c] # "none"
                         /\ records[IdOf[c]] # NoRecord
  BY DEF RepliesAreTrue, EarlyNo, HasAccepted
<1> QED BY DEF DispatchInv, PhaseInv, PhaseOf, EarlyNo, HasAccepted, GoalEnds

\* What a caller was told is so, whoever else uses its mission id.
THEOREM RepliesHold == SafeSpec => []RepliesAreTrue
BY RepliesInPhase, DispatchInvariant, PTL

-----------------------------------------------------------------------------
(* The record of a call that has its id to itself *)

\* The record under c's id, if there is one, is c's and tells what became of it.
TellsItsGoal(c) ==
  records[IdOf[c]] # NoRecord =>
    /\ goal[c] # "unsent"
    /\ FollowsGoal(c, records[IdOf[c]])

\* What a step of call c has to do to keep OwnIdsInv and OutcomeIsFinal.
KeepsItsRecord(c) ==
  /\ TellsItsGoal(c)'
  /\ RecordEnded(IdOf[c]) => records'[IdOf[c]] = records[IdOf[c]]

\* Where a call stands whose goal has not been answered for: its record, if it
\* is there, is ASSIGNED or RUNNING.
LEMMA OpenRecord ==
  ASSUME OwnIdsInv, NEW c \in Calls, reply[c] = "none" \/ onResult[c] = "due",
         records[IdOf[c]] # NoRecord
  PROVE  /\ ~RecordEnded(IdOf[c])
         /\ ~ResultHeard(c)
         /\ reply[c] \in {"none", "201"}
         /\ records[IdOf[c]].machine = chosen[c]
         /\ records[IdOf[c]].error # "DISPATCH_TIMEOUT"
<1>1. reply[c] \in {"none", "201"} /\ onResult[c] \in {"none", "due"}
  BY DEF OwnIdsInv, DispatchInv, PhaseInv, PhaseOf
<1>2. FollowsGoal(c, records[IdOf[c]])
  BY DEF OwnIdsInv, RecordFollowsGoal
<1> QED BY <1>1, <1>2 DEF FollowsGoal, ResultHeard, RecordEnded, RecordEnds

\* Before its goal leaves, there is no record under its id.
LEMMA BeforeItsRecord ==
  ASSUME OwnIdsInv, NEW c \in Calls, call[c] \in Before, UNCHANGED <<records, goal>>
  PROVE  KeepsItsRecord(c)
<1>1. records[IdOf[c]] = NoRecord
  BY DEF OwnIdsInv, DispatchInv, PhaseInv, PhaseOf, OwnRecordInv
<1> QED BY <1>1 DEF KeepsItsRecord, TellsItsGoal, RecordEnded

\* The goal moves on without being heard of.
LEMMA UnheardGoal ==
  ASSUME OwnIdsInv, NEW c \in Calls, goal'[c] # "unsent", onResult[c] \in {"none", "due"},
         onResult'[c] \in {"none", "due"},
         reply'[c] = reply[c] \/ (reply[c] = "none" /\ reply'[c] = "201"),
         UNCHANGED <<records, chosen>>
  PROVE  KeepsItsRecord(c)
<1>1. records[IdOf[c]] # NoRecord => FollowsGoal(c, records[IdOf[c]])
  BY DEF OwnIdsInv, RecordFollowsGoal
<1>2. records[IdOf[c]] # NoRecord => FollowsGoal(c, records[IdOf[c]])'
  BY <1>1 DEF FollowsGoal, ResultHeard
<1> QED BY <1>2 DEF KeepsItsRecord, TellsItsGoal

\* A step that is only about the queue or the order of feedback.
LEMMA NothingHeard ==
  ASSUME OwnIdsInv, NEW c \in Calls, ResultHeard(c)' <=> ResultHeard(c),
         UNCHANGED <<records, chosen, reply, goal>>
  PROVE  KeepsItsRecord(c)
<1>1. records[IdOf[c]] # NoRecord =>
        goal[c] # "unsent" /\ FollowsGoal(c, records[IdOf[c]])
  BY DEF OwnIdsInv, OwnRecordInv, RecordFollowsGoal
<1> QED BY <1>1 DEF KeepsItsRecord, TellsItsGoal, FollowsGoal

\* A new record is ASSIGNED, to the machine that was chosen.
LEMMA SendGoalRecord ==
  ASSUME OwnIdsInv, NEW c \in Calls, SendGoal(c)
  PROVE  KeepsItsRecord(c)
<1>1. TypeOK /\ PhaseOf(c) /\ call[c] = "sending"
  BY DEF OwnIdsInv, DispatchInv, PhaseInv, SendGoal
<1>2. records[IdOf[c]] = NoRecord /\ ~ResultHeard(c) /\ reply[c] = "none"
  BY <1>1 DEF OwnIdsInv, OwnRecordInv, PhaseOf, Before, GoalEnds
<1> DEFINE r == [machine |-> chosen[c], state |-> "ASSIGNED", result |-> "none", error |-> ""]
<1>3. r.machine = chosen[c] /\ r.state = "ASSIGNED" /\ r.error = ""
  OBVIOUS
<1>4. records' = [records EXCEPT ![IdOf[c]] = r]
  BY DEF SendGoal
<1> HIDE DEF r
<1>5. records'[IdOf[c]] = r
  BY <1>1, <1>4 DEF TypeOK
<1>6. goal'[c] = "offered" /\ UNCHANGED <<chosen, reply, onResult>>
  BY <1>1 DEF TypeOK, SendGoal, Proceed, callbackVars
<1>7. /\ records'[IdOf[c]].machine = chosen[c]
      /\ records'[IdOf[c]].state = "ASSIGNED"
      /\ records'[IdOf[c]].error = ""
  BY <1>5, <1>3
<1>8. FollowsGoal(c, records[IdOf[c]])'
  BY <1>2, <1>6, <1>7 DEF FollowsGoal, ResultHeard
<1> QED BY <1>2, <1>6, <1>8 DEF KeepsItsRecord, TellsItsGoal, RecordEnded

\* A refusal ends the record of a goal that has no result.
LEMMA GoalRefusedRecord ==
  ASSUME OwnIdsInv, NEW c \in Calls, GoalRefused(c)
  PROVE  KeepsItsRecord(c)
<1>1. TypeOK /\ PhaseOf(c) /\ call[c] = "waiting" /\ goal[c] = "refused"
  BY DEF OwnIdsInv, DispatchInv, PhaseInv, GoalRefused
<1>2. records[IdOf[c]] # NoRecord /\ reply[c] = "none"
  BY <1>1 DEF PhaseOf
<1>3. ~RecordEnded(IdOf[c]) /\ ~ResultHeard(c) /\ records[IdOf[c]].machine = chosen[c]
  BY <1>2, OpenRecord
<1>4. /\ records'[IdOf[c]].machine = chosen[c]
      /\ records'[IdOf[c]].state = "REJECTED"
      /\ records'[IdOf[c]].error = "GOAL_REJECTED"
  BY <1>1, <1>2, <1>3, FailMissionRecords DEF GoalRefused, RecordStates, RecordEnds, TypeOK
<1>5. reply'[c] = "409 machine_rejected_goal" /\ UNCHANGED <<chosen, goal, onResult>>
  BY <1>1 DEF TypeOK, GoalRefused, Return, callbackVars
<1>6. FollowsGoal(c, records[IdOf[c]])'
  BY <1>3, <1>4, <1>5 DEF FollowsGoal, ResultHeard
<1> QED BY <1>1, <1>3, <1>5, <1>6 DEF KeepsItsRecord, TellsItsGoal

\* So does the time limit, even if the machine has accepted by now.
LEMMA GiveUpRecord ==
  ASSUME OwnIdsInv, NEW c \in Calls, GiveUp(c)
  PROVE  KeepsItsRecord(c)
<1>1. TypeOK /\ PhaseOf(c) /\ call[c] = "waiting"
  BY DEF OwnIdsInv, DispatchInv, PhaseInv, GiveUp
<1>2. records[IdOf[c]] # NoRecord /\ reply[c] = "none" /\ goal[c] # "unsent"
  BY <1>1 DEF PhaseOf
<1>3. ~RecordEnded(IdOf[c]) /\ ~ResultHeard(c) /\ records[IdOf[c]].machine = chosen[c]
  BY <1>2, OpenRecord
<1>4. /\ records'[IdOf[c]].machine = chosen[c]
      /\ records'[IdOf[c]].state = "EXCEPTION"
      /\ records'[IdOf[c]].error = "DISPATCH_TIMEOUT"
  BY <1>1, <1>2, <1>3, FailMissionRecords DEF GiveUp, RecordStates, RecordEnds, TypeOK
<1>5. reply'[c] = "504 goal_not_acknowledged" /\ UNCHANGED <<chosen, goal, onResult>>
  BY <1>1 DEF TypeOK, GiveUp, Return, callbackVars
<1>6. FollowsGoal(c, records[IdOf[c]])'
  BY <1>3, <1>4, <1>5 DEF FollowsGoal, ResultHeard
<1> QED BY <1>2, <1>3, <1>5, <1>6 DEF KeepsItsRecord, TellsItsGoal

\* Late feedback does not reopen a record, since only ASSIGNED becomes RUNNING.
LEMMA FeedbackRecordRecord ==
  ASSUME OwnIdsInv, NEW c \in Calls, NEW n \in 1 .. MaxFeedback, FeedbackRecord(c, n)
  PROVE  KeepsItsRecord(c)
<1> DEFINE old == records[IdOf[c]]
           new == records'[IdOf[c]]
<1>1. /\ old \in MissionRecords
      /\ new.machine = old.machine
      /\ new.error = old.error
      /\ new.state = RunningAfter(old.state)
      /\ old.state # "ASSIGNED" => new = old
  BY FeedbackRecordRecords DEF OwnIdsInv
<1>2. goal[c] # "unsent" /\ FollowsGoal(c, old)
  BY <1>1 DEF OwnIdsInv, OwnRecordInv, RecordFollowsGoal
<1>3. UNCHANGED <<chosen, reply, goal, onResult>>
  BY DEF FeedbackRecord, callVars
<1> HIDE DEF old, new
<1>4. /\ new.state = "COMPLETED" <=> old.state = "COMPLETED"
      /\ new.state = "CANCELED" <=> old.state = "CANCELED"
      /\ new.state = "REJECTED" <=> old.state = "REJECTED"
      /\ new.state = "EXCEPTION" <=> old.state = "EXCEPTION"
  BY <1>1 DEF RunningAfter
<1>5. FollowsGoal(c, new) /\ UNCHANGED ResultHeard(c)
  BY <1>1, <1>2, <1>3, <1>4 DEF FollowsGoal, ResultHeard
<1>6. FollowsGoal(c, records[IdOf[c]])'
  BY <1>3, <1>5 DEF FollowsGoal, ResultHeard, new
<1>7. RecordEnded(IdOf[c]) => new = old
  BY <1>1 DEF RecordEnded, RecordEnds, old
<1> QED BY <1>2, <1>3, <1>6, <1>7 DEF KeepsItsRecord, TellsItsGoal, old, new

\* The result ends a record that had not ended: the call returned 201, so it
\* was neither refused nor given up on.
LEMMA ResultRecordRecord ==
  ASSUME OwnIdsInv, NEW c \in Calls, ResultRecord(c)
  PROVE  KeepsItsRecord(c)
<1>1. TypeOK /\ PhaseOf(c) /\ onResult[c] = "due" /\ goal[c] \in GoalEnds
  BY DEF OwnIdsInv, DispatchInv, PhaseInv, ResultRecord
<1>2. /\ records[IdOf[c]] \in MissionRecords
      /\ records'[IdOf[c]].machine = records[IdOf[c]].machine
      /\ records'[IdOf[c]].state = Verdict(goal[c])
      /\ records'[IdOf[c]].error = ""
  BY ResultRecordRecords DEF OwnIdsInv
<1>3. /\ ~RecordEnded(IdOf[c])
      /\ reply[c] \in {"none", "201"}
      /\ records[IdOf[c]].machine = chosen[c]
  BY <1>1, <1>2, OpenRecord
<1>4. UNCHANGED <<chosen, reply, goal>> /\ onResult'[c] \in {"reporting", "done"}
  BY <1>1 DEF TypeOK, ResultRecord, callVars, AfterLock
<1>5. LET s == records'[IdOf[c]].state
      IN  /\ s = "COMPLETED" <=> goal[c] = "succeeded"
          /\ s = "CANCELED"  <=> goal[c] = "canceled"
          /\ s = "EXCEPTION" <=> goal[c] \in {"aborted", "raised"}
          /\ s # "REJECTED"
  <2> DEFINE v == Verdict(goal[c])
  <2>1. /\ v = "COMPLETED" <=> goal[c] = "succeeded"
        /\ v = "CANCELED"  <=> goal[c] = "canceled"
        /\ v = "EXCEPTION" <=> goal[c] \in {"aborted", "raised"}
        /\ v # "REJECTED"
    BY <1>1, VerdictType
  <2> HIDE DEF v
  <2>2. records'[IdOf[c]].state = v
    BY <1>2 DEF v
  <2> QED BY <2>1, <2>2
<1>6. FollowsGoal(c, records[IdOf[c]])'
  BY <1>2, <1>3, <1>4, <1>5 DEF FollowsGoal, ResultHeard
<1> QED BY <1>1, <1>3, <1>4, <1>6 DEF KeepsItsRecord, TellsItsGoal, GoalEnds

\* Whatever step call c takes part in.
LEMMA StepKeepsRecord ==
  ASSUME OwnIdsInv, NEW c \in Calls,
         \/ Receive(c) \/ CallStep(c) \/ MachineStep(c) \/ RecordStep(c)
         \/ ReportStep(c)
  PROVE  KeepsItsRecord(c)
<1> USE DEF callVars, callbackVars
<1>1. CASE Receive(c) \/ CheckId(c) \/ SelectMachine(c) \/ Connect(c)
  BY <1>1, BeforeItsRecord DEF Receive, CheckId, SelectMachine, Connect, Before
<1>2. CASE SendGoal(c)
  BY <1>2, SendGoalRecord
<1>3. TypeOK /\ PhaseOf(c)
  BY DEF OwnIdsInv, DispatchInv, PhaseInv
<1>4. CASE GoalAccepted(c)
  <2>1. reply[c] = "none" /\ onResult[c] = "none"
    BY <1>3, <1>4 DEF GoalAccepted, PhaseOf, TypeOK
  <2>2. /\ goal'[c] # "unsent" /\ onResult'[c] = "due" /\ reply'[c] = "201"
        /\ UNCHANGED <<records, chosen>>
    BY <1>3, <1>4 DEF GoalAccepted, Return, TypeOK, GoalEnds
  <2> QED BY <2>1, <2>2, UnheardGoal
<1>5. CASE GoalRefused(c)
  BY <1>5, GoalRefusedRecord
<1>6. CASE GiveUp(c)
  BY <1>6, GiveUpRecord
<1>7. CASE MachineAccepts(c) \/ MachineRefuses(c) \/ MachineEnds(c)
  <2>1. goal[c] \in {"offered", "accepted"}
    BY <1>7 DEF MachineAccepts, MachineRefuses, MachineEnds
  <2>2. onResult[c] \in {"none", "due"}
    BY <1>3, <2>1 DEF PhaseOf, ResultHeard, TypeOK, CallbackPcs, GoalEnds
  <2>3. goal'[c] # "unsent" /\ UNCHANGED <<records, chosen, reply, onResult>>
    BY <1>3, <1>7 DEF MachineAccepts, MachineRefuses, MachineEnds, TypeOK, GoalEnds
  <2> QED BY <2>2, <2>3, UnheardGoal
<1>8. CASE \E n \in 1 .. MaxFeedback : MachineSendsFeedback(c, n) \/ FeedbackReport(c, n)
  BY <1>8, NothingHeard DEF MachineSendsFeedback, FeedbackReport, ResultHeard
<1>9. CASE \E n \in 1 .. MaxFeedback : FeedbackRecord(c, n)
  BY <1>9, FeedbackRecordRecord
<1>10. CASE ResultRecord(c)
  BY <1>10, ResultRecordRecord
<1>11. CASE ResultReport(c)
  <2>1. onResult[c] = "reporting" /\ onResult'[c] = "done"
    BY <1>3, <1>11 DEF ResultReport, TypeOK
  <2>2. UNCHANGED <<records, chosen, reply, goal>>
    BY <1>11 DEF ResultReport
  <2> QED BY <2>1, <2>2, NothingHeard DEF ResultHeard
<1> QED BY <1>1, <1>2, <1>4, <1>5, <1>6, <1>7, <1>8, <1>9, <1>10, <1>11
        DEF CallStep, CallReturns, MachineStep, RecordStep, ReportStep

\* The other records are other calls', so they are as they were.
LEMMA OtherRecordsKept ==
  ASSUME UniqueIds, OwnIdsInv, NEW c \in Calls, StaysInPhase(c), KeepsItsRecord(c)
  PROVE  /\ OwnIdsInv'
         /\ \A i \in Ids : RecordEnded(i) => records'[i] = records[i]
<1>1. DispatchInv'
  BY OthersStayInPhase DEF OwnIdsInv
<1>2. ASSUME NEW d \in Calls PROVE TellsItsGoal(d)'
  <2>1. CASE d = c
    BY <2>1 DEF KeepsItsRecord
  <2>2. CASE d # c
    <3>1. IdOf[d] \in Ids \ {IdOf[c]}
      BY <2>2 DEF UniqueIds
    <3>2. /\ records'[IdOf[d]] = records[IdOf[d]]
          /\ chosen'[d] = chosen[d] /\ reply'[d] = reply[d]
          /\ goal'[d] = goal[d] /\ onResult'[d] = onResult[d]
      BY <2>2, <3>1 DEF StaysInPhase, OthersKept
    <3>3. records[IdOf[d]] # NoRecord =>
            goal[d] # "unsent" /\ FollowsGoal(d, records[IdOf[d]])
      BY DEF OwnIdsInv, OwnRecordInv, RecordFollowsGoal
    <3> QED BY <3>2, <3>3 DEF TellsItsGoal, FollowsGoal, ResultHeard
  <2> QED BY <2>1, <2>2
<1>3. OwnIdsInv'
  BY <1>1, <1>2 DEF OwnIdsInv, OwnRecordInv, RecordFollowsGoal, TellsItsGoal
<1>4. \A i \in Ids : RecordEnded(i) => records'[i] = records[i]
  BY DEF StaysInPhase, OthersKept, KeepsItsRecord
<1> QED BY <1>3, <1>4

\* Every step of the system keeps the invariant and every outcome.
LEMMA OwnIdsStep ==
  ASSUME UniqueIds, OwnIdsInv, [Next]_vars
  PROVE  /\ OwnIdsInv'
         /\ \A i \in Ids : RecordEnded(i) => records'[i] = records[i]
<1>1. CASE Next
  <2>1. PICK c \in Calls :
          \/ /\ Receive(c) \/ CallStep(c) \/ MachineStep(c) \/ RecordStep(c)
             /\ UNCHANGED clientVars
          \/ ReportStep(c)
    BY <1>1 DEF Next
  <2>2. StaysInPhase(c)
    BY <2>1, StepOfCallInPhase DEF OwnIdsInv
  <2>3. KeepsItsRecord(c)
    BY <2>1, StepKeepsRecord
  <2> QED BY <2>2, <2>3, OtherRecordsKept
<1>2. CASE UNCHANGED vars
  <2>1. UNCHANGED <<records, chosen, reply, goal, onResult>>
    BY <1>2 DEF vars, dispatchVars, callVars, callbackVars
  <2>2. DispatchInv'
    BY <1>2, StepInPhase DEF OwnIdsInv
  <2> QED BY <2>1, <2>2 DEF OwnIdsInv, OwnRecordInv, RecordFollowsGoal,
                            FollowsGoal, ResultHeard
<1> QED BY <1>1, <1>2

-----------------------------------------------------------------------------
(* The theorems that need unique ids *)

LEMMA InitOwnIds == Init => OwnIdsInv
BY InitInPhase DEF OwnIdsInv, OwnRecordInv, RecordFollowsGoal, Init, DispatchInit

\* As long as no two calls share an id, every record belongs to the call that
\* made it and tells what became of its goal.
THEOREM OwnIdsInvariant ==
  ASSUME UniqueIds PROVE SafeSpec => []OwnIdsInv
<1>1. Init => OwnIdsInv  BY InitOwnIds
<1>2. OwnIdsInv /\ [Next]_vars => OwnIdsInv'
  BY OwnIdsStep
<1> QED BY <1>1, <1>2, PTL DEF SafeSpec

\* A mission's record tells what became of its goal.
THEOREM RecordsFollowGoals ==
  ASSUME UniqueIds PROVE SafeSpec => []RecordFollowsGoal
<1>1. OwnIdsInv => RecordFollowsGoal
  BY DEF OwnIdsInv
<1> QED BY <1>1, OwnIdsInvariant, PTL

\* The adapter never takes back an outcome.
THEOREM OutcomesAreFinal ==
  ASSUME UniqueIds PROVE SafeSpec => OutcomeIsFinal
<1>1. OwnIdsInv /\ [Next]_vars =>
        [\A i \in Ids : RecordEnded(i) => records'[i] = records[i]]_vars
  BY OwnIdsStep
<1> QED BY <1>1, OwnIdsInvariant, PTL DEF SafeSpec, OutcomeIsFinal

-----------------------------------------------------------------------------
(* The machines: Dispatch gives them what GoalContract allows, and no more *)

Unanswered == {"unsent", "offered"}
Seen(m, c) == IF chosen[c] = m /\ goal[c] \notin Unanswered THEN goal[c] ELSE "open"
Told(m, c) == IF chosen[c] = m /\ ResultHeard(c) THEN ResultStateOf(goal[c]) ELSE "none"

\* A step that leaves the goals machine m was sent, and what was heard of them, as
\* they are.
LEMMA ContractQuiet ==
  ASSUME NEW m \in Machines, DispatchInv, DispatchInv',
         \A c \in Calls :
           \/ goal[c] \in Unanswered /\ goal'[c] \in Unanswered
           \/ goal'[c] = goal[c] /\ chosen'[c] = chosen[c]
           \/ chosen[c] # m /\ chosen'[c] # m,
         \A c \in Calls : chosen[c] = m => (ResultHeard(c)' <=> ResultHeard(c))
  PROVE  UNCHANGED Contract(m)!vars
<1>1. \A c \in Calls : goal[c] \in Unanswered => ~ResultHeard(c)
  BY DEF DispatchInv, PhaseInv, PhaseOf, GoalEnds, Unanswered
<1>2. \A c \in Calls : goal'[c] \in Unanswered => ~ResultHeard(c)'
  BY DEF DispatchInv, PhaseInv, PhaseOf, GoalEnds, Unanswered
<1>3. \A c \in Calls : Seen(m, c)' = Seen(m, c) /\ Told(m, c)' = Told(m, c)
  BY <1>1, <1>2 DEF Seen, Told
<1> QED  BY <1>3 DEF Contract!vars, Seen, Told, Unanswered

\* The adapter's own steps before a goal is answered, and all but the result's.
LEMMA CallsKeepContract ==
  ASSUME NEW m \in Machines, DispatchInv, DispatchInv', NEW c \in Calls,
         \/ Receive(c) \/ CallStep(c) \/ ReportStep(c)
         \/ \E n \in 1 .. MaxFeedback : FeedbackRecord(c, n) \/ MachineSendsFeedback(c, n)
  PROVE  UNCHANGED Contract(m)!vars
<1>1. TypeOK /\ PhaseOf(c) /\ PhaseOf(c)'  BY DEF DispatchInv, PhaseInv
<1>2. CASE Receive(c) \/ CheckId(c) \/ SelectMachine(c) \/ Connect(c) \/ SendGoal(c)
  <2>1. goal[c] = "unsent" /\ UNCHANGED onResult
    BY <1>1, <1>2 DEF PhaseOf, Before, Receive, CheckId, SelectMachine, Connect, SendGoal,
       callbackVars
  <2>2. /\ goal'[c] \in Unanswered
        /\ \A d \in Calls \ {c} : goal'[d] = goal[d] /\ chosen'[d] = chosen[d]
    BY <1>1, <1>2, <2>1 DEF TypeOK, Unanswered, Receive, CheckId, SelectMachine, Connect,
       SendGoal
  <2> QED  BY <2>1, <2>2, ContractQuiet DEF ResultHeard, Unanswered
<1>3. CASE CallReturns(c) \/ ReportStep(c)
           \/ \E n \in 1 .. MaxFeedback : FeedbackRecord(c, n) \/ MachineSendsFeedback(c, n)
  <2>1. UNCHANGED <<goal, chosen>>
    BY <1>3 DEF CallReturns, GoalAccepted, GoalRefused, GiveUp, ReportStep, FeedbackReport,
       ResultReport, FeedbackRecord, MachineSendsFeedback, callVars
  <2>2. \A d \in Calls : ResultHeard(d)' <=> ResultHeard(d)
    <3>1. CASE GoalAccepted(c)
      <4>1. onResult[c] = "none"  BY <1>1, <3>1 DEF GoalAccepted, PhaseOf
      <4> QED  BY <1>1, <3>1, <4>1 DEF GoalAccepted, TypeOK, ResultHeard
    <3>2. CASE ResultReport(c)
      BY <1>1, <3>2 DEF ResultReport, TypeOK, ResultHeard
    <3>3. CASE \/ GoalRefused(c) \/ GiveUp(c)
               \/ \E n \in 1 .. MaxFeedback :
                    FeedbackReport(c, n) \/ FeedbackRecord(c, n) \/ MachineSendsFeedback(c, n)
      <4>1. UNCHANGED onResult
        BY <3>3 DEF GoalRefused, GiveUp, FeedbackReport, FeedbackRecord, MachineSendsFeedback,
           callbackVars
      <4> QED  BY <4>1 DEF ResultHeard
    <3> QED  BY <1>3, <3>1, <3>2, <3>3 DEF CallReturns, ReportStep
  <2> QED  BY <2>1, <2>2, ContractQuiet
<1> QED  BY <1>2, <1>3 DEF CallStep

\* The machine's steps, as the machine that was chosen sees them.
LEMMA MachineKeepsContract ==
  ASSUME NEW m \in Machines, DispatchInv, DispatchInv', NEW c \in Calls,
         MachineAccepts(c) \/ MachineRefuses(c) \/ MachineEnds(c) \/ ResultRecord(c)
  PROVE  [Contract(m)!Next]_(Contract(m)!vars)
<1> DEFINE seen == [d \in Calls |-> IF chosen[d] = m /\ goal[d] \notin {"unsent", "offered"}
                                      THEN goal[d] ELSE "open"]
           told == [d \in Calls |-> IF chosen[d] = m /\ ResultHeard(d)
                                      THEN ResultStateOf(goal[d]) ELSE "none"]
<1>1. TypeOK /\ PhaseOf(c) /\ PhaseOf(c)'  BY DEF DispatchInv, PhaseInv
<1>2. UNCHANGED chosen
  BY DEF MachineAccepts, MachineRefuses, MachineEnds, ResultRecord, callVars
<1>3. \A d \in Calls \ {c} : goal'[d] = goal[d] /\ onResult'[d] = onResult[d]
  BY <1>1 DEF MachineAccepts, MachineRefuses, MachineEnds, ResultRecord, TypeOK, callbackVars
<1>4. CASE chosen[c] # m
  <2>1. \A d \in Calls : chosen[d] = m => (ResultHeard(d)' <=> ResultHeard(d))
    BY <1>3, <1>4 DEF ResultHeard
  <2> QED  BY <1>2, <1>3, <1>4, <2>1, ContractQuiet
<1>5. CASE chosen[c] = m /\ ResultRecord(c)
  <2>1. /\ UNCHANGED goal /\ goal[c] \in GoalEnds
        /\ ~ResultHeard(c) /\ onResult'[c] \in {"reporting", "done"}
    BY <1>1, <1>5 DEF ResultRecord, AfterLock, TypeOK, ResultHeard
  <2>2. UNCHANGED seen  BY <1>2, <2>1
  <2>3. seen[c] = goal[c] /\ told[c] = "none"  BY <1>5, <2>1 DEF GoalEnds
  <2>4. ResultStateOf(goal[c]) = Contract(m)!ResultFor(goal[c])
    BY DEF ResultStateOf, Contract!ResultFor
  <2>5. told' = [told EXCEPT ![c] = Contract(m)!ResultFor(goal[c])]
    BY <1>2, <1>3, <1>5, <2>1, <2>4 DEF ResultHeard
  <2>6. Contract(m)!Answer(c)
    BY <2>1, <2>2, <2>3, <2>5 DEF Contract!Answer, Contract!Ends, GoalEnds
  <2> QED  BY <2>6 DEF Contract!Next
<1>6. CASE chosen[c] = m /\ ~ResultRecord(c)
  <2>1. /\ UNCHANGED onResult /\ goal'[c] \notin Unanswered
        /\ goal[c] \notin GoalEnds
    BY <1>1, <1>6 DEF MachineAccepts, MachineRefuses, MachineEnds, TypeOK, callbackVars,
       Unanswered, GoalEnds
  <2>2. UNCHANGED told
    <3>1. \A d \in Calls : ResultHeard(d)' <=> ResultHeard(d)  BY <2>1 DEF ResultHeard
    <3>2. ~ResultHeard(c)  BY <1>1, <2>1 DEF PhaseOf
    <3>3. \A d \in Calls : (IF chosen[d] = m /\ ResultHeard(d)
                              THEN ResultStateOf(goal[d]) ELSE "none")'
                           = IF chosen[d] = m /\ ResultHeard(d)
                               THEN ResultStateOf(goal[d]) ELSE "none"
      BY <1>2, <1>3, <3>1, <3>2
    <3> QED  BY <3>3
  <2>3. seen' = [seen EXCEPT ![c] = goal'[c]]
    BY <1>2, <1>3, <1>6, <2>1 DEF Unanswered
  <2>4. CASE MachineAccepts(c)
    <3>1. /\ seen[c] = "open" /\ goal'[c] = "accepted"
          /\ \A d \in Calls : seen[d] # "accepted"
      BY <1>1, <1>6, <2>4 DEF MachineAccepts, TypeOK
    <3>2. Contract(m)!Accept(c)  BY <2>2, <2>3, <3>1 DEF Contract!Accept
    <3> QED  BY <3>2 DEF Contract!Next
  <2>5. CASE MachineRefuses(c)
    <3>1. seen[c] = "open" /\ goal'[c] = "refused"
      BY <1>1, <1>6, <2>5 DEF MachineRefuses, TypeOK
    <3>2. Contract(m)!Refuse(c)  BY <2>2, <2>3, <3>1 DEF Contract!Refuse
    <3> QED  BY <3>2 DEF Contract!Next
  <2>6. CASE MachineEnds(c)
    <3>1. seen[c] = "accepted" /\ goal'[c] \in Contract(m)!Ends
      BY <1>1, <1>6, <2>6 DEF MachineEnds, TypeOK, Contract!Ends, GoalEnds
    <3>2. Contract(m)!End(c)  BY <2>2, <2>3, <3>1 DEF Contract!End
    <3> QED  BY <3>2 DEF Contract!Next
  <2> QED  BY <1>6, <2>4, <2>5, <2>6
<1> QED  BY <1>4, <1>5, <1>6

LEMMA ContractInit == ASSUME NEW m \in Machines  PROVE Init => Contract(m)!Init
BY DEF Init, DispatchInit, Contract!Init, ResultHeard

LEMMA ContractStep ==
  ASSUME NEW m \in Machines, DispatchInv, [Next]_vars
  PROVE  [Contract(m)!Next]_(Contract(m)!vars)
<1>1. DispatchInv'  BY StepInPhase
<1>2. CASE UNCHANGED vars
  <2>1. UNCHANGED <<goal, chosen, onResult>>
    BY <1>2 DEF vars, dispatchVars, callVars, callbackVars
  <2> QED  BY <1>1, <2>1, ContractQuiet DEF ResultHeard
<1>3. ASSUME NEW c \in Calls,
             Receive(c) \/ CallStep(c) \/ MachineStep(c) \/ RecordStep(c) \/ ReportStep(c)
      PROVE  [Contract(m)!Next]_(Contract(m)!vars)
  BY <1>1, <1>3, CallsKeepContract, MachineKeepsContract DEF MachineStep, RecordStep
<1> QED  BY <1>2, <1>3 DEF Next

\* Dispatch gives a machine no more than the contract: none of its behaviours,
\* and so none of what is proved of them, needs a machine to do what the contract
\* rules out.
THEOREM MachinesKeepContract ==
  ASSUME NEW m \in Machines  PROVE SafeSpec => Contract(m)!SafeSpec
BY ContractInit, ContractStep, DispatchInvariant, PTL DEF SafeSpec, Contract!SafeSpec

\* And no less: whatever the contract lets a machine do with a goal it was sent,
\* a step of Dispatch does, with everything else as it is.  What is proved of
\* Dispatch is so for every machine that keeps the contract.
THEOREM DispatchAllowsContract ==
  ASSUME NEW m \in Machines, DispatchInv, NEW c \in Calls,
         chosen[c] = m, goal[c] # "unsent",
         NEW s \in GoalStates \ Unanswered, goal' = [goal EXCEPT ![c] = s],
         UNCHANGED <<records, callVars, callbackVars>>,
         Contract(m)!Next
  PROVE  MachineStep(c)
<1> DEFINE seen == [d \in Calls |-> IF chosen[d] = m /\ goal[d] \notin {"unsent", "offered"}
                                      THEN goal[d] ELSE "open"]
           told == [d \in Calls |-> IF chosen[d] = m /\ ResultHeard(d)
                                      THEN ResultStateOf(goal[d]) ELSE "none"]
<1>1. TypeOK  BY DEF DispatchInv
<1>2. UNCHANGED <<chosen, onResult>>  BY DEF callVars, callbackVars
<1>3. goal'[c] = s /\ \A d \in Calls \ {c} : goal'[d] = goal[d]
  BY <1>1 DEF TypeOK
<1>4. seen'[c] = s /\ \A d \in Calls \ {c} : seen'[d] = seen[d]
  BY <1>2, <1>3 DEF Unanswered
<1>5. seen[c] = "open" => goal[c] = "offered"
  BY <1>1 DEF TypeOK, GoalStates, GoalEnds
<1>6. \A d \in Calls : chosen[d] = m /\ goal[d] = "accepted" => seen[d] = "accepted"
  OBVIOUS
<1>7. ASSUME NEW d \in Calls, Contract(m)!Refuse(d)  PROVE MachineStep(c)
  <2>1. seen[d] = "open" /\ seen' = [seen EXCEPT ![d] = "refused"]
    BY <1>7 DEF Contract!Refuse
  <2>2. seen'[d] = "refused"  BY <2>1
  <2>3. d = c  BY <1>4, <2>1, <2>2
  <2> HIDE DEF seen
  <2>4. goal[c] = "offered" /\ s = "refused"  BY <1>4, <1>5, <2>1, <2>2, <2>3
  <2> QED  BY <2>4 DEF MachineRefuses, MachineStep
<1>8. ASSUME NEW d \in Calls, Contract(m)!Accept(d)  PROVE MachineStep(c)
  <2>1. /\ seen[d] = "open" /\ seen' = [seen EXCEPT ![d] = "accepted"]
        /\ \A e \in Calls : seen[e] # "accepted"
    BY <1>8 DEF Contract!Accept
  <2>2. seen'[d] = "accepted"  BY <2>1
  <2>3. d = c  BY <1>4, <2>1, <2>2
  <2> HIDE DEF seen
  <2>4. goal[c] = "offered" /\ s = "accepted"  BY <1>4, <1>5, <2>1, <2>2, <2>3
  <2>5. \A e \in Calls : chosen[e] = m => goal[e] # "accepted"  BY <1>6, <2>1
  <2> QED  BY <2>4, <2>5 DEF MachineAccepts, MachineStep
<1>9. ASSUME NEW d \in Calls, Contract(m)!End(d)  PROVE MachineStep(c)
  <2>1. PICK e \in Contract(m)!Ends :
          seen[d] = "accepted" /\ seen' = [seen EXCEPT ![d] = e]
    BY <1>9 DEF Contract!End
  <2>2. seen'[d] = e /\ e # "accepted" /\ e \in GoalEnds
    BY <2>1 DEF Contract!Ends, GoalEnds
  <2>3. d = c  BY <1>4, <2>1, <2>2
  <2>4. goal[c] = "accepted"  BY <2>1, <2>3
  <2>5. s = e  BY <1>4, <2>2, <2>3
  <2> QED  BY <2>2, <2>4, <2>5 DEF MachineEnds, MachineStep
<1>10. ASSUME NEW d \in Calls, Contract(m)!Answer(d)  PROVE FALSE
  <2>1. told[d] = "none" /\ told' = [told EXCEPT ![d] = Contract(m)!ResultFor(seen[d])]
    BY <1>10 DEF Contract!Answer
  <2>2. told'[d] # "none"  BY <2>1 DEF Contract!ResultFor
  <2>3. ~(chosen[d] = m /\ ResultHeard(d))  BY <2>1 DEF ResultStateOf
  <2>4. told'[d] = "none"  BY <1>2, <2>3 DEF ResultHeard
  <2> QED  BY <2>2, <2>4
<1> QED  BY <1>7, <1>8, <1>9, <1>10 DEF Contract!Next
=============================================================================
