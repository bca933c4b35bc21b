------------------------------ MODULE Dispatch ------------------------------
(***************************************************************************)
(* The adapter's mission side (adapter_node.py, class AdapterNode):        *)
(* dispatch_mission, run by one HTTP thread per call, and the feedback and *)
(* result callbacks, run by the executor's threads in a reentrant group.   *)
(* They share _missions under one lock; an action is one critical section  *)
(* of it, or one wait.                                                     *)
(*                                                                         *)
(* The machines and rclpy between them are external: a machine accepts or  *)
(* refuses a goal, sends feedback and ends it as MissionLifecycle allows,  *)
(* and its answers arrive in any order.  Abstracted: which machine         *)
(* _select_machine prefers (any machine may be chosen, or none), progress  *)
(* figures, messages and wording, and result_json.                         *)
(***************************************************************************)
EXTENDS OSClient

CONSTANTS
  Calls,       \* the calls of dispatch_mission
  IdOf,        \* [Calls -> Ids]: the id supplied, or generated by uuid4
  NoRecord,    \* _missions has no such key
  MaxFeedback, \* how many feedback messages a mission sends at most
  PushesToOS   \* whether --os-url was given

ASSUME DispatchAssumption ==
  /\ IdOf \in [Calls -> Ids]
  /\ MaxFeedback \in Nat
  /\ PushesToOS \in BOOLEAN

VARIABLES
  records,   \* _missions
  call,      \* [Calls -> CallPcs]: where the call stands
  chosen,    \* [Calls -> Machines \cup {NoMachine}]: its local machine_id
  reply,     \* [Calls -> Replies]: what it returned
  goal,      \* [Calls -> GoalStates]: the goal at the machine
  feedback,  \* [Calls -> [1..MaxFeedback -> CallbackPcs]]: the _on_feedback calls
  onResult   \* [Calls -> CallbackPcs]: the _on_result call

callVars     == <<call, chosen, reply>>
callbackVars == <<feedback, onResult>>
dispatchVars == <<records, callVars, goal, callbackVars>>
vars         == <<dispatchVars, clientVars>>

CallPcs     == {"idle", "checking", "selecting", "connecting", "sending", "waiting", "done"}
CallbackPcs == {"none", "due", "reporting", "done"}

\* The (status, reason) pairs dispatch_mission returns.
Replies == {"none", "201", "409 mission_id_already_used", "409 no_machine",
            "503 not_ready", "504 goal_not_acknowledged", "409 machine_rejected_goal"}

\* A goal that was accepted ends in one of four ways; "raised" is the empty
\* Result of a callback that raised.
GoalEnds   == {"succeeded", "aborted", "canceled", "raised"}
GoalStates == {"unsent", "offered", "accepted", "refused"} \cup GoalEnds

RecordEnds   == {"COMPLETED", "EXCEPTION", "REJECTED", "CANCELED"}
RecordStates == {"ASSIGNED", "RUNNING"} \cup RecordEnds
MissionRecords ==
  [machine : Machines, state : RecordStates,
   result  : {"none", "COMPLETED", "EXCEPTION"},
   error   : {"", "GOAL_REJECTED", "DISPATCH_TIMEOUT"}]

ASSUME RecordAssumption == NoRecord \notin MissionRecords

DispatchInit ==
  /\ records = [i \in Ids |-> NoRecord]
  /\ call = [c \in Calls |-> "idle"]
  /\ chosen = [c \in Calls |-> NoMachine]
  /\ reply = [c \in Calls |-> "none"]
  /\ goal = [c \in Calls |-> "unsent"]
  /\ feedback = [c \in Calls |-> [n \in 1 .. MaxFeedback |-> "none"]]
  /\ onResult = [c \in Calls |-> "none"]

-----------------------------------------------------------------------------
(* dispatch_mission *)

Return(c, r) ==
  /\ call' = [call EXCEPT ![c] = "done"]
  /\ reply' = [reply EXCEPT ![c] = r]

Proceed(c, pc) ==
  /\ call' = [call EXCEPT ![c] = pc]
  /\ UNCHANGED reply

Receive(c) ==
  /\ call[c] = "idle"
  /\ Proceed(c, "checking")
  /\ UNCHANGED <<records, chosen, goal, callbackVars>>

IdUnused(i) == records[i] = NoRecord

\* A generated id is one no other call has, so it passes like any fresh id.
CheckId(c) ==
  /\ call[c] = "checking"
  /\ IF IdUnused(IdOf[c])
       THEN Proceed(c, "selecting")
       ELSE Return(c, "409 mission_id_already_used")
  /\ UNCHANGED <<records, chosen, goal, callbackVars>>

\* The choice is made on what the machines said last; it may be out of date.
SelectMachine(c) ==
  /\ call[c] = "selecting"
  /\ \/ /\ \E m \in Machines : chosen' = [chosen EXCEPT ![c] = m]
        /\ Proceed(c, "connecting")
     \/ /\ Return(c, "409 no_machine")
        /\ UNCHANGED chosen
  /\ UNCHANGED <<records, goal, callbackVars>>

\* No client yet for a machine that was heard, or wait_for_server gives up.
Connect(c) ==
  /\ call[c] = "connecting"
  /\ \/ Proceed(c, "sending")
     \/ Return(c, "503 not_ready")
  /\ UNCHANGED <<records, chosen, goal, callbackVars>>

\* The record is made before the goal leaves; the id is not looked up again.
SendGoal(c) ==
  /\ call[c] = "sending"
  /\ records' = [records EXCEPT ![IdOf[c]] =
       [machine |-> chosen[c], state |-> "ASSIGNED", result |-> "none", error |-> ""]]
  /\ goal' = [goal EXCEPT ![c] = "offered"]
  /\ Proceed(c, "waiting")
  /\ UNCHANGED <<chosen, callbackVars>>

\* _fail_mission: the record is found by its id, and nothing goes to the OS.
FailMission(i, s, code) ==
  records' = [records EXCEPT ![i] =
    IF @ = NoRecord THEN @
    ELSE [@ EXCEPT !.state = s, !.result = "EXCEPTION", !.error = code]]

\* Slip: a goal that is over by now is not asked for its result.
GoalAcceptedIfActive(c) ==
  /\ call[c] = "waiting"
  /\ goal[c] \in {"accepted"} \cup GoalEnds
  /\ onResult' = [onResult EXCEPT ![c] = IF goal[c] = "accepted" THEN "due" ELSE @]
  /\ Return(c, "201")
  /\ UNCHANGED <<records, chosen, goal, feedback>>

GoalAccepted(c) ==
  /\ call[c] = "waiting"
  /\ goal[c] \in {"accepted"} \cup GoalEnds
  /\ onResult' = [onResult EXCEPT ![c] = "due"]
  /\ Return(c, "201")
  /\ UNCHANGED <<records, chosen, goal, feedback>>

GoalRefused(c) ==
  /\ call[c] = "waiting"
  /\ goal[c] = "refused"
  /\ FailMission(IdOf[c], "REJECTED", "GOAL_REJECTED")
  /\ Return(c, "409 machine_rejected_goal")
  /\ UNCHANGED <<chosen, goal, callbackVars>>

\* Slips: a goal without an answer counts as refused; the wait has no limit.
GiveUpAsRefused(c) ==
  /\ call[c] = "waiting"
  /\ FailMission(IdOf[c], "REJECTED", "GOAL_REJECTED")
  /\ Return(c, "409 machine_rejected_goal")
  /\ UNCHANGED <<chosen, goal, callbackVars>>
NeverGiveUp(c) ==
  /\ call[c] = "waiting"
  /\ FALSE
  /\ UNCHANGED vars

\* The wait is over, whatever the machine made of the goal or still will.  A
\* mission given up on has no result callback; its feedback callback stays.
GiveUp(c) ==
  /\ call[c] = "waiting"
  /\ FailMission(IdOf[c], "EXCEPTION", "DISPATCH_TIMEOUT")
  /\ Return(c, "504 goal_not_acknowledged")
  /\ UNCHANGED <<chosen, goal, callbackVars>>

-----------------------------------------------------------------------------
(* The machines *)

\* A machine is chosen for a goal and executes one at a time.
MachineAccepts(c) ==
  /\ goal[c] = "offered"
  /\ \A d \in Calls : chosen[d] = chosen[c] => goal[d] # "accepted"
  /\ goal' = [goal EXCEPT ![c] = "accepted"]
  /\ UNCHANGED <<records, callVars, callbackVars>>

MachineRefuses(c) ==
  /\ goal[c] = "offered"
  /\ goal' = [goal EXCEPT ![c] = "refused"]
  /\ UNCHANGED <<records, callVars, callbackVars>>

\* Feedback is handed to a thread in the order it was sent.
MachineSendsFeedback(c, n) ==
  /\ goal[c] = "accepted"
  /\ feedback[c][n] = "none"
  /\ \A k \in 1 .. (n - 1) : feedback[c][k] # "none"
  /\ feedback' = [feedback EXCEPT ![c][n] = "due"]
  /\ UNCHANGED <<records, callVars, goal, onResult>>

MachineEnds(c) ==
  /\ goal[c] = "accepted"
  /\ \E e \in GoalEnds : goal' = [goal EXCEPT ![c] = e]
  /\ UNCHANGED <<records, callVars, callbackVars>>

-----------------------------------------------------------------------------
(* The callbacks: the record under the lock, the report after it.  A record
   is made before a callback can run and is never removed. *)

\* Slip: any feedback makes the mission RUNNING.
RunningAnyway(state) == "RUNNING"

RunningAfter(state) == IF state = "ASSIGNED" THEN "RUNNING" ELSE state

AfterLock == IF PushesToOS THEN "reporting" ELSE "done"

FeedbackRecord(c, n) ==
  /\ feedback[c][n] = "due"
  /\ records' = [records EXCEPT ![IdOf[c]].state = RunningAfter(@)]
  /\ feedback' = [feedback EXCEPT ![c][n] = AfterLock]
  /\ UNCHANGED <<callVars, goal, onResult>>

FeedbackReport(c, n) ==
  /\ feedback[c][n] = "reporting"
  /\ ReportMission(IdOf[c], "RUNNING")
  /\ feedback' = [feedback EXCEPT ![c][n] = "done"]
  /\ UNCHANGED <<records, callVars, goal, onResult>>

\* result_state as the machine filled it in.
ResultStateOf(e) == IF e \in {"succeeded", "raised"} THEN "COMPLETED" ELSE "EXCEPTION"

\* Slip: the result field is trusted whatever the status of the goal.
VerdictByResult(e) ==
  CASE e = "canceled"                   -> "CANCELED"
    [] ResultStateOf(e) = "COMPLETED"   -> "COMPLETED"
    [] OTHER                            -> "EXCEPTION"

\* A mission is COMPLETED when the status and the result both say so.
Verdict(e) ==
  CASE e = "canceled"  -> "CANCELED"
    [] e = "succeeded" /\ ResultStateOf(e) = "COMPLETED" -> "COMPLETED"
    [] OTHER           -> "EXCEPTION"

\* Slip: only a mission that was seen RUNNING can end.
ResultRecordIfRunning(c) ==
  /\ onResult[c] = "due"
  /\ goal[c] \in GoalEnds
  /\ records' = [records EXCEPT ![IdOf[c]] =
       IF @.state # "RUNNING" THEN @
       ELSE [@ EXCEPT !.state = Verdict(goal[c]), !.result = ResultStateOf(goal[c]), !.error = ""]]
  /\ onResult' = [onResult EXCEPT ![c] = AfterLock]
  /\ UNCHANGED <<callVars, goal, feedback>>

ResultRecord(c) ==
  /\ onResult[c] = "due"
  /\ goal[c] \in GoalEnds
  /\ records' = [records EXCEPT ![IdOf[c]] =
       [@ EXCEPT !.state  = Verdict(goal[c]),
                 !.result = ResultStateOf(goal[c]),
                 !.error  = ""]]
  /\ onResult' = [onResult EXCEPT ![c] = AfterLock]
  /\ UNCHANGED <<callVars, goal, feedback>>

\* Slips: the OS is told CANCELED; a failed mission is not worth a report.
ReportVerdictAsIs(c) == ReportMission(IdOf[c], Verdict(goal[c]))
ReportIfCompleted(c) ==
  IF Verdict(goal[c]) = "COMPLETED"
    THEN ReportMission(IdOf[c], "COMPLETED")
    ELSE UNCHANGED clientVars

\* The OS knows no CANCELED: it is told EXCEPTION.
ReportVerdict(c) ==
  ReportMission(IdOf[c], IF Verdict(goal[c]) = "COMPLETED" THEN "COMPLETED" ELSE "EXCEPTION")

ResultReport(c) ==
  /\ onResult[c] = "reporting"
  /\ ReportVerdict(c)
  /\ onResult' = [onResult EXCEPT ![c] = "done"]
  /\ UNCHANGED <<records, callVars, goal, feedback>>

-----------------------------------------------------------------------------
CallReturns(c) == GoalAccepted(c) \/ GoalRefused(c) \/ GiveUp(c)

CallStep(c) ==
  \/ CheckId(c)
  \/ SelectMachine(c)
  \/ Connect(c)
  \/ SendGoal(c)
  \/ CallReturns(c)

MachineStep(c) ==
  \/ MachineAccepts(c)
  \/ MachineRefuses(c)
  \/ \E n \in 1 .. MaxFeedback : MachineSendsFeedback(c, n)
  \/ MachineEnds(c)

RecordStep(c) ==
  \/ \E n \in 1 .. MaxFeedback : FeedbackRecord(c, n)
  \/ ResultRecord(c)

ReportStep(c) ==
  \/ \E n \in 1 .. MaxFeedback : FeedbackReport(c, n)
  \/ ResultReport(c)

\* The worker is left out: what the callbacks report stays in the queue.
Init == DispatchInit /\ ClientInit

Next ==
  \E c \in Calls :
    \/ /\ Receive(c) \/ CallStep(c) \/ MachineStep(c) \/ RecordStep(c)
       /\ UNCHANGED clientVars
    \/ ReportStep(c)

SafeSpec == Init /\ [][Next]_vars

\* HTTP threads, executor threads and the time limit of a wait go on; so does a
\* machine that accepted a goal (Machine: CarriesMissionsToTheEnd).
Fairness ==
  \A c \in Calls :
    /\ WF_vars(CallStep(c) /\ UNCHANGED clientVars)
    /\ WF_vars(MachineEnds(c) /\ UNCHANGED clientVars)
    /\ WF_vars(RecordStep(c) /\ UNCHANGED clientVars)
    /\ WF_vars(ReportStep(c))

Spec == SafeSpec /\ Fairness
=============================================================================
