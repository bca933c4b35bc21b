# SunnyboticsOS V0 in TLA+

This directory models SunnyboticsOS V0: the simulated machines, the adapter that
dispatches missions to them, and the OS Core that issues missions and stores
what became of them. Every definition is translated from the code; `PROJECT.json` says which
lines each one stands for (`map`). TLC checks the models on small instances,
TLAPS proves the theorems for every value of the constants.

## The system

```
 operator/dashboard --POST /missions--> OS Core --POST /missions--> adapter --goal--> machine
                                        (SQLite) <--report, PATCH,-- (queue) <-feedback-
                                                    register                 <-result---
                                                                             <-heartbeat-
```

| Part | State it keeps | Operations | Hard because |
|---|---|---|---|
| Machine node, `machine_node.py` | state, current mission, mission errors, battery and its latches, reset timer, link and battery parameters | goal and cancel callbacks, the mission thread (`_execute_mission`, `_finish`), timer threads, the 1 Hz `_tick` | four kinds of thread share one lock, and act between its critical sections |
| Mission contract, `Mission.action`, `MachineState.msg` | | accept or refuse, run, end in one outcome | whoever implements it |
| Adapter: dispatch, `adapter_node.py` 84-129, 406-629 | `_missions` under `_lock` | `dispatch_mission` (one HTTP thread per call), `_on_feedback`, `_on_result`, `_fail_mission` | callbacks are reentrant, checks and inserts are apart, waits have a limit |
| Adapter: selection, 335-404 | reads `_machines` | `_select_machine` | its data are up to five seconds old |
| Adapter: fleet, 181-310 | `_machines`, subscriptions, action clients | discovery, heartbeats, stale reports, GET snapshots | one reentrant group: sweeps and heartbeats overlap; a machine has two ids |
| Adapter: outbound client, `os_client.py` | bounded queue, registrations, worker thread | enqueue, send | drops, losses, no retry, a worker that can die |
| Adapter: translation and HTTP, `translate.py`, `rest_api.py` | | message formats, endpoints | |
| OS Core, `os_core/main.py` | | `create_mission` on the event loop; register, PATCH and report handlers on pool threads; read endpoints | an await between two writes of one row; no ordering between handlers |
| Database, `os_core/database.py` | three tables, one connection per thread | insert, update, upsert, each with its own commit | nothing rolls back |
| Dashboard, demo, stub, launch files | | clients and start-up | not modelled, see below |

### What makes each part correct

- **Machine.** At most one mission at a time; one verdict per goal; status, Result
  and published state agree; a terminal state is always ended by its own timer;
  a flat battery has the last word; health is explained by its error codes.
- **Dispatch.** What a caller was told is so; a record says what became of its
  goal; outcomes are final; every call returns and every dispatched mission ends.
- **Selection and fleet.** The best fit machine, if there is one; a silence is reported
  once, and who is marked or shown as silent gets no mission; a machine that transmits is shown as
  it is in the end, one that is silent for good as OFFLINE, unless its one report was lost or undone.
- **Client and OS Core.** No outcome the machine did not have; a mission that was
  refused stays refused; what was answered with success is stored; a recorded
  result is never overwritten; registrations agree; rows never contradict the adapter's
  records; every outcome arrives when
  nothing is lost.

The places where these are hard to keep, line by line, are the `hazards` of
`PROJECT.json`.

## Modules

| Module | What it is | The code |
|---|---|---|
| `MissionLifecycle` | the abstract specification of one machine's missions | `Mission.action`, header of `machine_node.py` |
| `GoalContract` | the abstract specification of what a client of a machine may rely on: `Machine` keeps it, `Dispatch` takes no more for granted | `Mission.action`, `machine_node.py`, `adapter_node.py` 406-629 |
| `Machine` | one machine; an action is a critical section of `self._lock` with the unlocked code after it | `machine_node.py` |
| `MachineProperties`, `MCMachine`, `MachineProofs` | properties, TLC instances, proofs | |
| `OSContract` | the push requests | `os_client.py`, `main.py` |
| `OSClient` | queue, worker, registrations; how a request can end | `os_client.py` |
| `Selection`, `SelectionProofs` | filters and preference over the machine records; lemmas | `adapter_node.py` 335-448 |
| `Fleet` | discovery, heartbeats, stale reports, and the machine's row; EXTENDS `OSClient`, `Selection` | `adapter_node.py` 135-310, `translate.py`, `main.py` 140-198 |
| `FleetProperties`, `MCFleet`, `FleetProofs` | properties, TLC instance, proofs | |
| `Dispatch` | calls, goals, callbacks, records; EXTENDS `OSClient` | `adapter_node.py` |
| `DispatchProperties`, `MCDispatch`, `DispatchProofs` | properties, TLC instances, proofs | |
| `OSCore` | rows, events, machine rows, SQLite connections, the handlers | `os_core/` |
| `MissionPath` | `Dispatch` and `OSCore` joined by HTTP both ways | all of these |
| `OutcomeRelay` | the abstract specification of `MissionPath`: how an outcome may travel, whoever carries it | `README.md` 132, and the path in `adapter_node.py`, `os_client.py`, `main.py` |
| `MissionPathProperties`, `MCMissionPath`, `PathProofs`, `LedgerProofs`, `RelayProofs`, `CompositionProofs` | properties, TLC instances, proofs | |

**Machine.** `state`, `currentMission`, `battery`, ... are the attributes of
`SimulatedMachine`; `pc[g]` says where goal g's callbacks stand, `timer[g]` what
its reset timer does, `heartbeat` is a message between `_tick`'s lock and its
publish. Goals, which of them the machine can do and which fail half way, and
whether their target is a finite number are parameters. Abstracted: positions,
metrics, wording; battery figures are small integers with the code's order of
thresholds.

**Dispatch.** `call[c]` is where a call of `dispatch_mission` stands, `chosen` its
local `machine_id`, `reply` what it returned, `records` is `_missions`. A machine
is external here: it accepts or refuses, sends feedback and ends a goal, and
nothing says when the adapter hears of it: `feedback[c][n]` and `onResult[c]` are
callbacks that wait for a thread, hold the lock, or are about to report. Any
machine may be selected, so every out-of-date choice is included. `GoalEnds`
contains "raised", the empty Result of a callback that raised.

**Selection.** A fleet is a function from machines to the last message, whether
`stale_after_sec` have passed since, and `reported_stale`. The sort of the candidates
is a strict order (`Precedes`): mains power, then battery, then the id.

**Fleet.** `task[t]` is the callback a thread of the executor is in: a heartbeat
between its critical section and its PATCH, or a sweep between its mark, its reports and
its discovery. `air` is what each topic says now, `records`, `subscribed` and `clients` are the
adapter's dictionaries, `machineRows` the OS Core's table. A record is kept under the id in the message and
an action client under the id of the topic, as in the code; `Unnamed` is an empty `machine_id`. Time
is one bit per record, `lapsed`, for the present; a sweep and a GET read the clock before they have the lock
(`adapter_node.py` 231, 295, 305), so `MarkStale` takes any subset of those that have lapsed as the ones it finds
silent, and `MayJudge` lets a GET find a lapsed machine still in time. `fate` is history: what became of the report of the
present silence. A push handler of the OS Core is one step here (its statements, and what locks
do to them, are in `OSCore`); but it may be a late one: a request the worker has given up on is handled, is not,
or is `held` by a thread of the OS Core's `Pool`, and `HandleLate` handles it at any time after, behind requests
that were sent after it. Of a machine's row only state, stale fault and type are here: the other columns are abstracted.

**OSClient and OSCore.** A request is answered, fails, or ends the worker's thread.
A push handler is a sequence of statements on a pool thread's connection; each
write is a `Commit`, a `ConstraintFails` (IntegrityError) or a `DatabaseLocked`
(OperationalError). `conn` is the state of each connection: a failed statement leaves it
"open" or "writing", a SELECT then gives it a snapshot ("reading"), which the
next commit of anybody else makes "stale". `create[i]` is where the
`create_mission` that issued id i stands; between two awaits the loop runs no other.

**MissionPath.** A mission comes from the OS Core or directly to the adapter; requests
and answers can be lost at any point (`Losses`), in which case the sender goes
on while the handler still runs. With `Restarts` the adapter may be restarted at any point, which
empties its records, queue, registrations and callbacks, and so may the OS Core, which keeps what was
committed and loses handlers and open transactions.

Some definitions marked "Slip" are not used by the specifications: each is a
plausible mistake in the definition it stands before, and `mutants` in `PROJECT.json`
pairs it with the property that notices it.

## Runs

| Run | Instance | What it shows |
|---|---|---|
| `machine_safety` | two goals, one with an infinite target; battery 4 units, drains 2 and 1; fault blips; the link online or broken; has_battery toggled | the machine's safety, and `Machine` implements `MissionLifecycle` and `GoalContract` |
| `machine_live` | two goals, one that fails half way, finite targets | every accepted mission is started, decided, shown and cleared; every client is answered (an infinite target is `machine_wedged`) |
| `machine_wedged` | as `machine_safety` | **violation**: an infinite target leaves the machine RUNNING for ever |
| `machine_last_heartbeat` | as `machine_safety` | **violation**: the last heartbeat can say RUNNING |
| `dispatch` | two calls with ids of their own, one machine, two feedback messages, queue of two | the adapter's safety and liveness |
| `dispatch_duplicate` | two calls with one id | **violation**: two goals are sent under one mission_id |
| `fleet` | one machine, idle or at work or silent, two executor threads, queue of one, losses, restarts, one request at a time handled late | a silence is reported once and heeded; the row is right in the end |
| `path_safety` | one mission, directly or via the OS Core, losses, heartbeats, two pool threads, restarts of the adapter and the OS Core | COMPLETED and `result_state` in the OS Core are the machine's, and its rows not at odds with the adapter; `MissionPath` implements `OutcomeRelay` |
| `path_locked` | one mission via the OS Core and one unknown to it, losses | the same with the database locked by a failed insert |
| `path_live` | registered machines, no losses, queue of four, two feedback messages | every outcome is recorded, every caller answered |
| `path_stuck` | an unregistered machine | **violation**: the mission stays PENDING |
| `path_reopened` | registered machines, no losses | **violation**: a COMPLETED mission goes back |

**Bounds.** Two goals, or calls, are enough for every race between missions of one
machine: the code relates a mission to one earlier or later one (the id it
finds, the timer it cancels, the machine it shares). The battery of four units
passes every threshold. The link setting "offline" is in `machine_live` and, like any other, in the proofs; `machine_safety` has
"connection_broken", the one that changes what is transmitted, and with all three would take twice as long. A queue of two is full while reports are still due, so
drops happen; in `path_live` all that one mission can enqueue fits into four
places, which is the condition of the property.
In `fleet` two threads are enough for what can be overtaken: a heartbeat by a sweep, a sweep by
a sweep, a heartbeat by a heartbeat; with a queue of one every second push is dropped while the worker
is sending, so drops, losses and overtaking meet. One request held by the OS Core is enough to undo a report, or to repeat one; more would come in the same way. The machine says
AVAILABLE or RUNNING, two messages that differ in the row. One machine on one topic is enough for liveness since
no step of one machine's heartbeat reads another's record; that safety holds for machines that speak
under a foreign or an empty id, and for fleets of any size, is proved. Two pool threads allow a handler that the worker has given up on to run beside the
next one. `MaxFeedback` bounds the feedback of a mission, `HeartbeatRoom` keeps
heartbeats from filling the queue of an instance; `path_locked` has none, as two
missions and losses already fill it. `ThreadSymmetry` is used for safety only.

**Deadlock.** The runs of `Machine` and `fleet` check it. In `Dispatch` and `MissionPath` calls are
finite in number, and the system stops when all are done.

**Fairness.** Weak fairness of what threads do by themselves: HTTP threads, executor
callbacks, the time limit of a wait, the worker's next request, pool threads,
timers. For machines in `Dispatch`, `MachineEnds` is fair because `Machine` is shown to carry every accepted mission
with a finite target to its end (`CarriesMissionsToTheEnd`); acceptance itself is not assumed,
since `GiveUp` covers its absence. In `Fleet` strong fairness of `Hear` and `SweepSees` says that rclpy's executor hands a free thread to every
ready callback in turn, however busy the others keep it, and that of the sweeps again and again one does not have the machine lapse just between its reading of the clock and the lock
(a machine lapses once in a silence, and the next sweep's reading is later); `HandleLate` is not fair: the OS Core may never get to a held request. Time passes (`Lapse`), but not while a callback of the
same machine is under way: that a callback takes less than `stale_after_sec` is an assumption about
timing. `SteadyIsShown` further assumes what its statement says: the machine goes on being heard, and losses, drops
and restarts end. `Fleet` has the adapter with `--os-url`. Elsewhere heartbeats, new missions, operator settings and thread pruning are
never assumed. Liveness on the path assumes no losses, registered machines and room in the queue, all
three visible in `path_live.cfg`: the code retries nothing.

## Where the code and its documents differ

The five violations are findings, each with its document quoted in
`PROJECT.json`:

1. `machine_wedged`: `round()` of a distance that is not finite raises after the
   state is RUNNING; `_finish` never runs.
2. `machine_last_heartbeat`: the heartbeat is built before the mission thread has noticed
   the flat battery.
3. `dispatch_duplicate`: the id is looked up and inserted in separate critical sections.
4. `path_stuck`: the foreign key on `assigned_machine_id` fails for a machine that
   is not registered. The row stays PENDING, and since nothing rolls back,
   the loop's connection keeps the write lock until its next commit.
5. `path_reopened`: the adapter enqueues a RUNNING report after releasing its lock, and
   the OS Core writes any state over any other. `result_state` is not affected
   (`OutcomeRecordedOnce`), so the outcome can still be found there.

Four more disagreements were met that have no run of their own:

- `machine-layer/README.md:729` and `:774` promise that a silent machine becomes OFFLINE. A machine is marked
  (`adapter_node.py:239`) before its report is put into the queue, and never reported again: if that
  one report is dropped or gets no answer, the OS Core shows the last state for ever; and so it does if the report is stored but a heartbeat
  that the worker had given up on (`os_client.py:181`) is handled behind it. `SilenceIsShown`
  holds with these two exceptions (fates "lost" and "undone"), and is violated without either.
- `machine-layer/README.md:531` and the comment at `adapter_node.py:452-453` say that 503 `action_client_not_ready` is met while
  discovery is mid-flight, the former that one should retry immediately. Subscription and client are made in one critical section, and only
  who was heard is selected, so it is never met then, but for a machine that was heard on the topic of another id
  (`MissingClientSpokeElsewhere`), where retrying does not help.
- `os_client.py:44-46` says that a full queue drops the oldest telemetry. `_enqueue` (136-145) drops the newest message, whatever it is:
  a stale report or an outcome among them.
- `SunnyboticsOS_V0_Architecture_Report.md` lists `operating_mode == AUTOMATIC` among the conditions
  of a dispatch; `_select_machine` does not look at it. The machines of this repository are always AUTOMATIC.

## Proofs

**`MachineProofs`**, from the named assumptions on the constants in `Machine` only:
`TypeOK`; the inductive invariant `IInv` = type, thread, holder, timer, result and
death parts; from it `OneMissionAtATime`, `ResetTimerBelongsToMission`,
`ResultAgreesWithStatus`, `ShownStateAgreesWithMission`, `FlatBatteryHasLastWord`,
`HeartbeatExplainsHealth`, and that `Machine` implements `MissionLifecycle` (safety part) and
`GoalContract` (`MachineKeepsGoalContract`).
None of these is inductive alone: that one mission is executed at a time needs
`HolderInv` (whoever is live holds the machine, and a machine that is held is not
AVAILABLE), the timer's ownership needs the states of the threads, and the last
word of the battery needs that a message under way knows whether it is the last. That the two tables
of thresholds agree (`TablesAgree`) needs no order among the thresholds, but that the mission's codes
do not say BATTERY_DEPLETED yet, which `DeathInv` gives for every message that will be sent.

**`DispatchProofs`**, for any calls, machines, queue size and number of feedback
messages. `DispatchInv` = `TypeOK` and `PhaseInv` (a call, its reply, its goal, its
callbacks and its record are in step) is inductive even when calls share ids: a
step of one call leaves the others' state alone (`OthersKept`) and never removes a
record. It gives `TypeOK` and `RepliesAreTrue`. `RecordFollowsGoal` and
`OutcomeIsFinal` are proved under `UniqueIds`, and are false without it
(`dispatch_duplicate`): `OwnIdsInv` adds that the record under a call's id is its
own. The heart of it is `OpenRecord`: a call without an answer, or with a result
still due, has a record that has not ended, so neither the refusal, the time limit nor
the result overwrites an outcome, and feedback only turns ASSIGNED into RUNNING.

**Machine and adapter together.** The machines in `Dispatch` are external, a few nondeterministic actions, so what is
proved of the adapter is worth as much as those actions are true of `Machine`. `GoalContract` is the
link, and it is used in both directions:

- `MachineKeepsGoalContract`: what the clients of a `Machine` see is a behaviour of the contract. That a second goal is never accepted
  while one is live is `HolderInv` again; that the Result goes with the verdict needs `ThreadInv`, and the goal whose callback raised counts as
  ended "raised" when its empty Result is out.
- `DispatchAllowsContract`: every step of the contract on a goal that machine was sent is a step of `Dispatch`, so no
  behaviour of a `Machine` was left out when the adapter was proved.
- `MachinesKeepContract`: the other way about, each machine as `Dispatch` has it keeps the contract for the goals it was sent, where
  the Result counts as given when the adapter hears it. So `Dispatch` gives the machines no freedom
  beyond it either.

Two things are not part of the contract: feedback, which `Dispatch` lets come at any time and any number of times up to `MaxFeedback`,
and the goals other clients send to the same machine; to the adapter these only look like refusals.

**`SelectionProofs`**, for any fleet: `Precedes` is a strict total order on records that differ in
id, a non-empty finite set of candidates has a first one, so the CHOOSE in `SelectMachine` is the head of
the code's sorted list, `SelectionIsFit` says what that means in terms of what the machines said: who is chosen is in touch, ONLINE, AVAILABLE, capable and charged, and each of the two
reasons of a refusal is given exactly when it is true.

**`FleetProofs`**, for any machines, topics, threads, queue size and any messages, those with a foreign or no id
included: `FleetInv` adds to `FleetTypeOK` that a mark implies a lapse (`SilenceInv`); that a machine in one
sweep's list is in no other's, and is still marked and unreported or was heard since (`PendingInv`); that whoever was heard was
heard on a topic with its client (`VoiceInv`); and that a queued PATCH finds a row (`RowInv`). From it the four safety properties of the run: that a GET which reads the clock early may
still show ONLINE for a marked machine is left open by `SilenceIsHeeded`, as by the code. A request held by the OS Core is part of `RowInv`: it finds its row whenever it is handled.
`MissingClientSpokeElsewhere` follows from `VoiceInv`.

**`PathProofs`**, from `OwnIds` (calls have ids of their own; without it `dispatch_duplicate` is a
counterexample already) and for any missions, machines, pool threads, connections and queue size, with
losses and restarts: `PathInv` says that whatever the queue, the worker and each handler carry is
true, that is that a report of an outcome is its goal's, and of a goal whose result the adapter has in its
record (`heard`), and a PATCH is for a registered machine
(`RequestInv`); that calls, goals and callbacks are in step (`CallInv`); that a handler
has done what it must have done to stand where it stands (`HandlerInv`); and that a row agrees with its goal and with
what the caller was told (`RowInv`). None of the safety properties is inductive without it, as a report passes through four
hands before it is a row. The proof has a lemma per component whose step it is, each saying what
that component leaves alone (`CreateKept`, `EventsQuiet`, `LogGrows`), and from it come
`PathTypeOK`, `NoFalseOutcome`, `RefusedStaysRefused`, `RegistrationsAgree`,
`DeliveredReportsAreStored` and `OutcomeRecordedOnce`.

**`LedgerProofs`**, from the same assumption: `LedgersAgree`, which needs both ends of the path.
`PathInv` says what a row may be, given the goal and what of it was heard; `RecordInv` says that a record whose
result is in has the verdict of its goal and names the machine the goal was sent to. `OwnIdsInv` of
`DispatchProofs` would say more, but a restart of the adapter breaks it: here a goal may be without a record,
if nothing of it is heard any more, which is what keeps the callbacks of a forgotten mission from
writing to a record that is not there.

**`RelayProofs`**, from the same assumption: `MissionPath` implements `OutcomeRelay`, which says more than the invariants and action
properties do: an outcome in a row was taken from a report, that report from the adapter's record, and the record from the
goal's end, in this order and each unchanged. A step of the path, a restart of the adapter aside, changes at most one of the four
stations, and the proof goes station by station. A goal ends only once, at its machine (`MachineStep`). A record's outcome is
noted by the result callback and by nothing else: `RecordInv` (the record of a result that is in has its goal's verdict) is what forbids the
late answer, the time limit or feedback to touch it. A report of an outcome enters the queue only after its outcome was noted
(`RequestInv`), and then moves between the queue, the worker and a handler, or is dropped, lost or given up, which the relay
calls `Lose`; several copies are one report there. A row's result comes from the handler's own request. The
two restarts are `Forget` and `Lose`.

**`CompositionProofs`**: what is proved of `Dispatch` alone is true inside `MissionPath`. `Dispatch` has a queue that nobody drains and calls that come
from nowhere, so this is not for granted; but a step of the path is a step of `Dispatch`, or touches nothing but the queue and
the OS Core (`PathStepsAreAdapterSteps`). `RepliesAreTrue` and the goal contract of each machine hold there for any ids, `RecordFollowsGoal` and `OutcomeIsFinal`
for unique ones, in every behaviour in which the adapter is not restarted (`AdapterStaysUp`; the OS Core may be, and pushes
may be lost). They end with a restart, which empties the records; what holds all the same is in `LedgerProofs` and `RelayProofs`.

**Only model-checked.** Liveness: fairness and ENABLED are out of the prover's reach, so of `CarriesMissionsToTheEnd`,
`EveryGoalIsAnswered`, `EveryCallReturns`, `EveryDispatchEnds`, `EveryOutcomeIsRecorded`, `EveryCreateIsAnswered`, `SteadyIsShown` and
`SilenceIsShown` nothing is proved. Every safety property of a passing run is proved, those of the records and of the path for calls
with ids of their own. `MachinesKeepContract` and `DispatchAllowsContract` have no run: the first is a refinement with a
parameter (one contract per machine), the second a statement about all steps rather than about behaviours.

## Not modelled

The dashboard, demo and stub are HTTP clients or doubles without state of their own; launch files,
`run.sh`, `rover_*.py` and packaging only start processes with constants. Argument parsing and the orderly
shutdown of the adapter (`main.py`) keep no state; what a restart forgets is modelled. Texts, timestamps, positions,
metrics and progress figures are not in the models, so neither are the divergences in them (the reason
recorded as "unknown", the faults written with `str()`); they are listed as hazards with a
note. A machine that stops and starts again is a machine that falls silent and is heard again in
`Fleet`; `Machine` models one run of its node.

## Plan

Done: `Machine`, `Dispatch`, `Selection`, `Fleet` and `MissionPath`, each with proofs. Left for whoever continues:

1. The connections of `OSCore` as theorems: one writer at a time, and a call answered with success leaves its connection without an open
   transaction.
2. A composition of `Fleet` with `Dispatch`, in which the selected machine is the one the
   records say rather than any (`Dispatch` allows more than the code).
3. Several machines in the liveness of `Fleet`, once a larger instance is affordable.
