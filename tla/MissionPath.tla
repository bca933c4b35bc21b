----------------------------- MODULE MissionPath -----------------------------
(***************************************************************************)
(* A mission's way through the system: create_mission in the OS Core asks  *)
(* the adapter, the adapter dispatches it to a machine, and the adapter's  *)
(* callbacks report back through the outbound queue to the OS Core's rows. *)
(*                                                                         *)
(* Dispatch and OSCore joined by HTTP in both directions.  A request may   *)
(* fail to arrive, or its answer may: then the sender goes on while the    *)
(* handler still runs.                                                     *)
(***************************************************************************)
EXTENDS Dispatch, OSCore

CONSTANTS
  ViaOS,             \* the calls that may come from the OS Core
  Direct,            \* the calls that may reach the adapter without it
  Losses,            \* whether requests and answers get lost
  RegisteredFirst,   \* whether missions are created after the registrations
  Restarts,          \* whether the adapter and the OS Core may be restarted
  HeartbeatRoom,     \* heartbeats are put while the queue is shorter than this
  NoThread           \* no pool thread has the worker's request

ASSUME PathAssumption ==
  /\ ViaOS \cup Direct \subseteq Calls
  /\ {Losses, RegisteredFirst, Restarts} \subseteq BOOLEAN
  /\ Restarts => Losses
  /\ HeartbeatRoom \in Nat
  /\ NoThread \notin Threads

VARIABLE servedBy  \* the pool thread the worker waits for, or NoThread

pathVars == <<dispatchVars, clientVars, osVars, servedBy>>

PathInit == Init /\ OSInit /\ servedBy = NoThread

-----------------------------------------------------------------------------
(* From the OS Core to the adapter *)

\* The id is issued here, and no other call has it.
CreateMission(c) ==
  /\ c \in ViaOS
  /\ call[c] = "idle"
  /\ RegisteredFirst => \A m \in Machines : machineRows[m] # "none"
  /\ InsertPending(IdOf[c])
  /\ UNCHANGED <<dispatchVars, clientVars, servedBy>>

PostMission(c) ==
  /\ create[IdOf[c]] = "posting"
  /\ Receive(c)
  /\ UNCHANGED <<clientVars, osVars, servedBy>>

\* A mission the adapter is given without the OS Core.
PostDirectly(c) ==
  /\ c \in Direct
  /\ create[IdOf[c]] = "none"
  /\ Receive(c)
  /\ UNCHANGED <<clientVars, osVars, servedBy>>

NotReached(c) ==
  /\ Losses
  /\ call[c] = "idle"
  /\ AdapterUnreachable(IdOf[c])
  /\ UNCHANGED <<dispatchVars, clientVars, servedBy>>

AnswerLost(c) ==
  /\ Losses
  /\ PostRaises(IdOf[c])
  /\ UNCHANGED <<dispatchVars, clientVars, servedBy>>

\* Slip: the status of the answer is not looked at.
MissionAnsweredUnchecked(c) ==
  /\ call[c] = "done"
  /\ reply[c] # "none"
  /\ IF chosen[c] # NoMachine THEN Assign(IdOf[c], chosen[c]) ELSE Refuse(IdOf[c])
  /\ UNCHANGED <<dispatchVars, clientVars, servedBy>>

MissionAnswered(c) ==
  /\ call[c] = "done"
  /\ reply[c] # "none"
  /\ IF reply[c] = "201" THEN Assign(IdOf[c], chosen[c]) ELSE Refuse(IdOf[c])
  /\ UNCHANGED <<dispatchVars, clientVars, servedBy>>

EventLogged(c) ==
  /\ LogCreated(IdOf[c]) \/ LogAnswer(IdOf[c])
  /\ UNCHANGED <<dispatchVars, clientVars, servedBy>>

CreateStep(c) == MissionAnswered(c) \/ EventLogged(c)

-----------------------------------------------------------------------------
(* From the adapter to the OS Core *)

Heartbeat(m) ==
  /\ PushesToOS
  /\ Len(queue) < HeartbeatRoom
  /\ PatchStatus(m)
  /\ UNCHANGED <<dispatchVars, osVars, servedBy>>

Take ==
  /\ TakeRequest
  /\ UNCHANGED <<dispatchVars, osVars, servedBy>>

Deliver(t) ==
  /\ sending # Idle
  /\ servedBy = NoThread
  /\ Accept(t, sending)
  /\ servedBy' = t
  /\ UNCHANGED <<dispatchVars, clientVars>>

\* The answer reaches the worker, if it still waits for this one.
AnswerPush(t) ==
  /\ At(t, "answering")
  /\ thread' = [thread EXCEPT ![t] = Free]
  /\ IF servedBy # t
       THEN UNCHANGED <<clientVars, servedBy>>
       ELSE /\ servedBy' = NoThread
            /\ IF thread[t].ok THEN SendAnswered ELSE SendFailed
  /\ UNCHANGED <<dispatchVars, tableVars, conn, create>>

\* Refused, timed out or broken: before the OS Core has it, or while it works.
PushLost ==
  /\ Losses
  /\ SendFailed \/ SendRaises
  /\ servedBy' = NoThread
  /\ UNCHANGED <<dispatchVars, osVars>>

HandleRequest(t) ==
  /\ HandlerStep(t)
  /\ UNCHANGED <<dispatchVars, clientVars, servedBy>>

OtherUse(t) ==
  /\ ServeRead(t) \/ PruneThread(t)
  /\ UNCHANGED <<dispatchVars, clientVars, servedBy>>

-----------------------------------------------------------------------------
(* Restarts *)

\* A new adapter knows of no mission, and the goals it had sent are nobody's:
\* their callbacks never run.  Calls under way get no answer.
AdapterRestarts ==
  /\ Restarts
  /\ records' = [i \in Ids |-> NoRecord]
  /\ call' = [c \in Calls |-> IF call[c] = "idle" THEN "idle" ELSE "done"]
  /\ feedback' = [c \in Calls |->
       IF call[c] = "idle" THEN feedback[c] ELSE [n \in 1 .. MaxFeedback |-> "done"]]
  /\ onResult' = [c \in Calls |-> IF call[c] = "idle" THEN onResult[c] ELSE "done"]
  /\ queue' = <<>>
  /\ sending' = Idle
  /\ registered' = {}
  /\ workerAlive' = TRUE
  /\ servedBy' = NoThread
  /\ UNCHANGED <<chosen, reply, goal, osVars>>

\* What was committed stays; open transactions and handlers are gone.
OSRestarts ==
  /\ Restarts
  /\ conn' = [k \in Connections |-> "idle"]
  /\ create' = [i \in Ids |-> IF create[i] = "none" THEN "none" ELSE "done"]
  /\ thread' = [t \in Threads |-> Free]
  /\ servedBy' = NoThread
  /\ IF servedBy = NoThread THEN UNCHANGED clientVars ELSE SendFailed
  /\ UNCHANGED <<dispatchVars, tableVars>>

-----------------------------------------------------------------------------
AdapterStep(c) ==
  \/ /\ CallStep(c) \/ MachineStep(c) \/ RecordStep(c)
     /\ UNCHANGED <<clientVars, osVars, servedBy>>
  \/ ReportStep(c) /\ UNCHANGED <<osVars, servedBy>>

PathNext ==
  \/ \E c \in Calls :
       \/ CreateMission(c)
       \/ PostMission(c)
       \/ PostDirectly(c)
       \/ NotReached(c)
       \/ AnswerLost(c)
       \/ CreateStep(c)
       \/ AdapterStep(c)
  \/ \E m \in Machines : Heartbeat(m)
  \/ Take
  \/ PushLost
  \/ AdapterRestarts
  \/ OSRestarts
  \/ \E t \in Threads : Deliver(t) \/ AnswerPush(t) \/ HandleRequest(t) \/ OtherUse(t)

PathSafeSpec == PathInit /\ [][PathNext]_pathVars

\* Threads, handlers and requests under way go on.  Nothing else need happen:
\* no mission is created, no machine sends a heartbeat, no thread is pruned.
PathFairness ==
  /\ \A c \in Calls :
       /\ WF_pathVars(PostMission(c))
       /\ WF_pathVars(CreateStep(c))
       /\ WF_pathVars(CallStep(c) /\ UNCHANGED <<clientVars, osVars, servedBy>>)
       /\ WF_pathVars(MachineEnds(c) /\ UNCHANGED <<clientVars, osVars, servedBy>>)
       /\ WF_pathVars(RecordStep(c) /\ UNCHANGED <<clientVars, osVars, servedBy>>)
       /\ WF_pathVars(ReportStep(c) /\ UNCHANGED <<osVars, servedBy>>)
  /\ WF_pathVars(Take)
  /\ WF_pathVars(\E t \in Threads : Deliver(t))
  /\ \A t \in Threads :
       /\ WF_pathVars(AnswerPush(t))
       /\ WF_pathVars(HandleRequest(t))

PathSpec == PathSafeSpec /\ PathFairness
=============================================================================
