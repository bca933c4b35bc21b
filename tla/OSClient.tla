------------------------------ MODULE OSClient ------------------------------
(***************************************************************************)
(* The adapter's outbound client (os_client.py, class OSClient): a bounded *)
(* queue that any thread may put into, drained by one worker thread that   *)
(* sends one request at a time and never sends one twice.                  *)
(*                                                                         *)
(* A module that EXTENDS this one says what becomes of the request that is *)
(* being sent.  Abstracted: the counters (sent, failed, dropped), detail,  *)
(* timestamp and progress of a report, and what a descriptor says.         *)
(***************************************************************************)
EXTENDS OSContract

CONSTANTS
  MaxQueued,  \* MAX_QUEUED
  Idle        \* the worker has nothing to send

ASSUME QueueAssumption == MaxQueued \in Nat \ {0}

VARIABLES
  queue,       \* _queue
  sending,     \* the request the worker is in urlopen with, or Idle
  registered,  \* _registered
  workerAlive  \* the worker thread exists

clientVars == <<queue, sending, registered, workerAlive>>

ClientInit ==
  /\ queue = <<>>
  /\ sending = Idle
  /\ registered = {}
  /\ workerAlive = TRUE

\* Slip: the queue has no limit.
EnqueuedAlways(q, request) == Append(q, request)

\* put_nowait: a full queue drops what is being put.
Enqueued(q, request) == IF Len(q) < MaxQueued THEN Append(q, request) ELSE q

Enqueue(request) ==
  /\ queue' = Enqueued(queue, request)
  /\ UNCHANGED <<sending, registered, workerAlive>>

ReportMission(i, s) == Enqueue(Report(i, s))

\* Slip: a registration counts as done when it is put into the queue.
PushStatusOptimistic(m, patch, registration) ==
  /\ queue' = Enqueued(queue, IF m \in registered THEN patch ELSE registration)
  /\ registered' = registered \cup {m}
  /\ UNCHANGED <<sending, workerAlive>>

\* A heartbeat patches the machine's row, or registers the machine as long as
\* no registration is known to have succeeded.
PushStatus(m, patch, registration) ==
  Enqueue(IF m \in registered THEN patch ELSE registration)

PatchStatus(m) == PushStatus(m, Push("patch", m), Push("register", m))

-----------------------------------------------------------------------------
(* The worker thread *)

TakeRequest ==
  /\ workerAlive
  /\ sending = Idle
  /\ queue # <<>>
  /\ sending' = Head(queue)
  /\ queue' = Tail(queue)
  /\ UNCHANGED <<registered, workerAlive>>

\* A 2xx answer was read.
SendAnswered ==
  /\ sending # Idle
  /\ registered' = registered \cup
       (IF sending.kind = "register" THEN {sending.machine} ELSE {})
  /\ sending' = Idle
  /\ UNCHANGED <<queue, workerAlive>>

\* HTTPError, URLError, OSError, TimeoutError: logged, and the request is gone.
SendFailed ==
  /\ sending # Idle
  /\ sending' = Idle
  /\ UNCHANGED <<queue, registered, workerAlive>>

\* What _send does not catch ends the thread: an http.client.HTTPException (a
\* bad status line, a body cut short), or an error while the body of an error
\* answer is read.
SendRaises ==
  /\ sending # Idle
  /\ sending' = Idle
  /\ workerAlive' = FALSE
  /\ UNCHANGED <<queue, registered>>
=============================================================================
