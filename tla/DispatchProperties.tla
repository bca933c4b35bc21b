------------------------- MODULE DispatchProperties -------------------------
(***************************************************************************)
(* What the adapter's mission side must do, stated over Dispatch.          *)
(***************************************************************************)
EXTENDS Dispatch

\* No two calls have one id: it was generated, or its caller issued it once.
UniqueIds == \A c, d \in Calls : IdOf[c] = IdOf[d] => c = d

\* Every variable stays in its domain; a report uses the OS vocabulary.
TypeOK ==
  /\ records \in [Ids -> {NoRecord} \cup MissionRecords]
  /\ call \in [Calls -> CallPcs]
  /\ chosen \in [Calls -> Machines \cup {NoMachine}]
  /\ reply \in [Calls -> Replies]
  /\ goal \in [Calls -> GoalStates]
  /\ feedback \in [Calls -> [1 .. MaxFeedback -> CallbackPcs]]
  /\ onResult \in [Calls -> CallbackPcs]
  /\ queue \in Seq(OSRequests)
  /\ Len(queue) <= MaxQueued

-----------------------------------------------------------------------------
(* Safety *)

\* _on_result has written the record.
ResultHeard(c) == onResult[c] \in {"reporting", "done"}

\* Record r tells what became of the goal of call c.
FollowsGoal(c, r) ==
  /\ r.machine = chosen[c]
  /\ r.state = "COMPLETED" <=> ResultHeard(c) /\ goal[c] = "succeeded"
  /\ r.state = "CANCELED"  <=> ResultHeard(c) /\ goal[c] = "canceled"
  /\ r.state = "REJECTED"  <=> reply[c] = "409 machine_rejected_goal"
  /\ r.state = "EXCEPTION" <=>
       \/ ResultHeard(c) /\ goal[c] \in {"aborted", "raised"}
       \/ reply[c] = "504 goal_not_acknowledged"
  /\ r.error = "DISPATCH_TIMEOUT" <=> reply[c] = "504 goal_not_acknowledged"

\* A mission's record tells what became of its goal, in whatever order the
\* answer, the feedback, the result and the time limit reach the adapter:
\* COMPLETED if and only if the machine says it succeeded, REJECTED if and only
\* if the caller was told so, EXCEPTION for a failure that was heard of or a goal
\* that was given up on, and nothing else.
RecordFollowsGoal ==
  \A c \in Calls : records[IdOf[c]] # NoRecord => FollowsGoal(c, records[IdOf[c]])

\* What a caller was told is so: a mission that was refused, by the adapter or by
\* the machine, never runs; one that was dispatched was accepted and its result
\* will be heard.  Only a 504 leaves it open.
RepliesAreTrue ==
  \A c \in Calls :
    /\ reply[c] \in {"409 mission_id_already_used", "409 no_machine", "503 not_ready"} =>
         goal[c] = "unsent"
    /\ reply[c] = "409 machine_rejected_goal" =>
         /\ goal[c] = "refused"
         /\ \A n \in 1 .. MaxFeedback : feedback[c][n] = "none"
    /\ reply[c] = "201" =>
         /\ goal[c] \in {"accepted"} \cup GoalEnds
         /\ onResult[c] # "none"
         /\ records[IdOf[c]] # NoRecord

-----------------------------------------------------------------------------
(* Action properties *)

RecordEnded(i) ==
  /\ records[i] # NoRecord
  /\ records[i].state \in RecordEnds

\* The adapter never takes back an outcome: late feedback, a late answer or a
\* late result leave a record that has ended as it is.
OutcomeIsFinal ==
  [][\A i \in Ids : RecordEnded(i) => records'[i] = records[i]]_vars

-----------------------------------------------------------------------------
(* Refinement *)

\* The goals sent to machine m, as its clients see them.
Contract(m) ==
  INSTANCE GoalContract WITH
    Goals  <- Calls,
    goal   <- [c \in Calls |-> IF chosen[c] = m /\ goal[c] \notin {"unsent", "offered"}
                                 THEN goal[c] ELSE "open"],
    answer <- [c \in Calls |-> IF chosen[c] = m /\ ResultHeard(c)
                                 THEN ResultStateOf(goal[c]) ELSE "none"]

-----------------------------------------------------------------------------
(* Liveness *)

\* No caller waits for ever, even for a machine that does not answer.
EveryCallReturns == \A c \in Calls : (call[c] # "idle") ~> (call[c] = "done")

\* A mission that was dispatched gets its outcome recorded.
EveryDispatchEnds ==
  \A c \in Calls :
    (reply[c] = "201") ~> RecordEnded(IdOf[c])

-----------------------------------------------------------------------------
(* What the documents say and the code does not do *)

\* machine-layer/README.md: "A mission_id that has already been used returns 409
\* [...] rather than silently overwriting the earlier mission."  Two goals are
\* never sent under one id.
OneGoalPerId ==
  \A c, d \in Calls :
    (/\ c # d
     /\ IdOf[c] = IdOf[d]) => goal[c] = "unsent" \/ goal[d] = "unsent"

-----------------------------------------------------------------------------
(* The inductive invariant behind the safety properties *)

Before      == {"idle", "checking", "selecting", "connecting", "sending"}
EarlyNo     == {"409 mission_id_already_used", "409 no_machine", "503 not_ready"}
HasAccepted == {"accepted"} \cup GoalEnds

\* A call, its goal and its callbacks are in step with one another.
PhaseOf(c) ==
  /\ call[c] \in Before => goal[c] = "unsent" /\ reply[c] = "none"
  /\ call[c] \in {"connecting", "sending"} => chosen[c] \in Machines
  /\ call[c] = "waiting" => goal[c] # "unsent" /\ reply[c] = "none"
  /\ call[c] = "done" => reply[c] # "none"
  /\ reply[c] \in EarlyNo => goal[c] = "unsent"
  /\ reply[c] = "409 machine_rejected_goal" => goal[c] = "refused"
  /\ reply[c] = "504 goal_not_acknowledged" => goal[c] # "unsent"
  /\ reply[c] = "201" => goal[c] \in HasAccepted
  /\ reply[c] = "201" <=> onResult[c] # "none"
  /\ ResultHeard(c) => goal[c] \in GoalEnds
  /\ \A n \in 1 .. MaxFeedback : feedback[c][n] # "none" => goal[c] \in HasAccepted
  /\ goal[c] # "unsent" => records[IdOf[c]] # NoRecord

PhaseInv == \A c \in Calls : PhaseOf(c)

\* With an id of its own, a call finds the record it made and no other.
OwnRecordInv ==
  \A c \in Calls : records[IdOf[c]] # NoRecord => goal[c] # "unsent"

DispatchInv == TypeOK /\ PhaseInv
OwnIdsInv   == DispatchInv /\ OwnRecordInv /\ RecordFollowsGoal
=============================================================================
