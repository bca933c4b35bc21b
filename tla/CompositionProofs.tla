------------------------- MODULE CompositionProofs -------------------------
(***************************************************************************)
(* What DispatchProofs shows of the adapter alone holds of the adapter     *)
(* inside MissionPath, where the worker drains the queue, heartbeats fill  *)
(* it, missions come from the OS Core, answers get lost and the OS Core is *)
(* restarted, as long as the adapter is not: each step of the path is a    *)
(* step of Dispatch, or is about the queue and the OS Core only.           *)
(***************************************************************************)
EXTENDS DispatchProofs, MissionPathProperties

\* A restart empties the adapter's memory; LedgerProofs and RelayProofs say what
\* holds all the same.
AdapterStaysUp == [][~AdapterRestarts]_pathVars

\* A step that leaves the calls, goals, callbacks and records alone.
QueueStep ==
  /\ UNCHANGED dispatchVars
  /\ \/ queue' = queue
     \/ queue # <<>> /\ queue' = Tail(queue)
     \/ \E r \in OSRequests : queue' = Enqueued(queue, r)

LEMMA PathStepsAreAdapterSteps ==
  ASSUME [PathNext]_pathVars, [~AdapterRestarts]_pathVars
  PROVE  Next \/ QueueStep
<1>1. CASE UNCHANGED pathVars
  BY <1>1 DEF pathVars, clientVars, QueueStep
<1>2. ASSUME NEW c \in Calls, PostMission(c) \/ PostDirectly(c) \/ AdapterStep(c)
      PROVE  Next
  BY <1>2 DEF PostMission, PostDirectly, AdapterStep, Next
<1>3. ASSUME NEW c \in Calls,
             CreateMission(c) \/ NotReached(c) \/ AnswerLost(c) \/ CreateStep(c)
      PROVE  QueueStep
  BY <1>3 DEF CreateMission, NotReached, AnswerLost, CreateStep, MissionAnswered,
              EventLogged, clientVars, QueueStep
<1>4. ASSUME NEW m \in Machines, Heartbeat(m)  PROVE QueueStep
  <2>1. Push("patch", m) \in OSRequests /\ Push("register", m) \in OSRequests
    BY DEF Push, OSRequests, MachinePush
  <2> QED
    BY <1>4, <2>1 DEF Heartbeat, PatchStatus, PushStatus, Enqueue, QueueStep
<1>5. CASE Take
  BY <1>5 DEF Take, TakeRequest, QueueStep
<1>6. CASE PushLost \/ OSRestarts
  BY <1>6 DEF PushLost, OSRestarts, SendFailed, SendRaises, clientVars, QueueStep
<1>7. ASSUME NEW t \in Threads,
             Deliver(t) \/ AnswerPush(t) \/ HandleRequest(t) \/ OtherUse(t)
      PROVE  QueueStep
  BY <1>7 DEF Deliver, AnswerPush, HandleRequest, OtherUse, SendAnswered, SendFailed,
              clientVars, QueueStep
<1> QED  BY <1>1, <1>2, <1>3, <1>4, <1>5, <1>6, <1>7 DEF PathNext

LEMMA QueueStepKeeps ==
  ASSUME QueueStep
  PROVE  /\ DispatchInv => DispatchInv'
         /\ OwnIdsInv => OwnIdsInv'
<1>1. UNCHANGED <<records, call, chosen, reply, goal, feedback, onResult>>
  BY DEF QueueStep, dispatchVars, callVars, callbackVars
<1>2. ASSUME TypeOK  PROVE queue' \in Seq(OSRequests) /\ Len(queue') <= MaxQueued
  <2>1. queue \in Seq(OSRequests) /\ Len(queue) <= MaxQueued  BY <1>2 DEF TypeOK
  <2>2. CASE queue # <<>> /\ queue' = Tail(queue)
    BY <2>1, <2>2, QueueAssumption
  <2>3. ASSUME NEW r \in OSRequests, queue' = Enqueued(queue, r)
        PROVE  queue' \in Seq(OSRequests) /\ Len(queue') <= MaxQueued
    BY <2>1, <2>3, EnqueueType
  <2> QED  BY <2>1, <2>2, <2>3 DEF QueueStep
<1>3. DispatchInv => DispatchInv'
  BY <1>1, <1>2 DEF DispatchInv, TypeOK, PhaseInv, PhaseOf, ResultHeard
<1>4. OwnRecordInv /\ RecordFollowsGoal => (OwnRecordInv /\ RecordFollowsGoal)'
  BY <1>1 DEF OwnRecordInv, RecordFollowsGoal, FollowsGoal, ResultHeard
<1> QED  BY <1>3, <1>4 DEF OwnIdsInv

\* Whoever else uses its mission id, and whatever is lost on the way: a call, its
\* reply, its goal, its callbacks and its record stay in step.
THEOREM AdapterInvariantOnPath ==
  PathSafeSpec /\ AdapterStaysUp => []DispatchInv
<1>1. PathInit => DispatchInv  BY InitInPhase DEF PathInit
<1>2. DispatchInv /\ [PathNext]_pathVars /\ [~AdapterRestarts]_pathVars => DispatchInv'
  BY PathStepsAreAdapterSteps, QueueStepKeeps, StepInPhase
<1> QED  BY <1>1, <1>2, PTL DEF PathSafeSpec, AdapterStaysUp

\* What the adapter told the OS Core, or who else asked it, of a mission is so.
THEOREM RepliesHoldOnPath ==
  PathSafeSpec /\ AdapterStaysUp => []RepliesAreTrue
<1> QED  BY RepliesInPhase, AdapterInvariantOnPath, PTL

\* On the whole path too, each machine keeps the goal contract for the goals it is
\* sent.
THEOREM MachinesKeepContractOnPath ==
  ASSUME NEW m \in Machines
  PROVE  PathSafeSpec /\ AdapterStaysUp => Contract(m)!SafeSpec
<1>1. PathInit => Contract(m)!Init  BY ContractInit DEF PathInit
<1>2. ASSUME DispatchInv, [PathNext]_pathVars, [~AdapterRestarts]_pathVars
      PROVE  [Contract(m)!Next]_(Contract(m)!vars)
  <2>1. CASE Next  BY <1>2, <2>1, ContractStep
  <2>2. CASE QueueStep
    <3>1. DispatchInv'  BY <1>2, <2>2, QueueStepKeeps
    <3>2. UNCHANGED <<goal, chosen, onResult>>
      BY <2>2 DEF QueueStep, dispatchVars, callVars, callbackVars
    <3> QED  BY <1>2, <3>1, <3>2, ContractQuiet DEF ResultHeard
  <2> QED  BY <1>2, <2>1, <2>2, PathStepsAreAdapterSteps
<1> QED
  BY <1>1, <1>2, AdapterInvariantOnPath, PTL DEF PathSafeSpec, AdapterStaysUp, Contract!SafeSpec

-----------------------------------------------------------------------------
(* With ids of their own *)

LEMMA OwnIdsOnPath ==
  ASSUME UniqueIds, OwnIdsInv, [PathNext]_pathVars, [~AdapterRestarts]_pathVars
  PROVE  /\ OwnIdsInv'
         /\ \A i \in Ids : RecordEnded(i) => records'[i] = records[i]
<1>1. CASE Next  BY <1>1, OwnIdsStep
<1>2. CASE QueueStep
  BY <1>2, QueueStepKeeps DEF QueueStep, dispatchVars
<1> QED  BY <1>1, <1>2, PathStepsAreAdapterSteps

THEOREM OwnIdsInvariantOnPath ==
  ASSUME UniqueIds  PROVE PathSafeSpec /\ AdapterStaysUp => []OwnIdsInv
<1>1. PathInit => OwnIdsInv
  BY InitOwnIds DEF PathInit
<1>2. OwnIdsInv /\ [PathNext]_pathVars /\ [~AdapterRestarts]_pathVars => OwnIdsInv'  BY OwnIdsOnPath
<1> QED  BY <1>1, <1>2, PTL DEF PathSafeSpec, AdapterStaysUp

\* A mission's record tells what became of its goal, lost pushes, locked
\* databases and restarts of the OS Core notwithstanding.
THEOREM RecordsFollowGoalsOnPath ==
  ASSUME UniqueIds  PROVE PathSafeSpec /\ AdapterStaysUp => []RecordFollowsGoal
<1>1. OwnIdsInv => RecordFollowsGoal  BY DEF OwnIdsInv
<1> QED  BY <1>1, OwnIdsInvariantOnPath, PTL

\* Nothing that happens on the path takes back an outcome of the adapter.
THEOREM OutcomesAreFinalOnPath ==
  ASSUME UniqueIds  PROVE PathSafeSpec /\ AdapterStaysUp => OutcomeIsFinal
<1>1. OwnIdsInv /\ [PathNext]_pathVars /\ [~AdapterRestarts]_pathVars =>
        [\A i \in Ids : RecordEnded(i) => records'[i] = records[i]]_vars
  BY OwnIdsOnPath
<1> QED  BY <1>1, OwnIdsInvariantOnPath, PTL DEF PathSafeSpec, AdapterStaysUp, OutcomeIsFinal
=============================================================================
