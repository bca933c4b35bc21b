--------------------------- MODULE FleetProperties ---------------------------
(***************************************************************************)
(* What the adapter and the OS Core make of what the machines say, and of  *)
(* their silence, stated over Fleet.                                       *)
(***************************************************************************)
EXTENDS Fleet

\* Every variable stays in its domain, and the queue within its bound.
FleetTypeOK ==
  /\ air \in [Topics -> Messages \cup {Silence}]
  /\ \A topic \in Topics : air[topic] \in Says[topic] \cup {Silence}
  /\ records \in [Machines -> MachineRecords \cup {NoRecord}]
  /\ subscribed \subseteq Topics
  /\ clients \subseteq Topics
  /\ task \in [Executors -> Tasks]
  /\ fate \in [Machines -> Fates]
  /\ held \in [Pool -> Requests \cup {Idle}]
  /\ machineRows \in [RowIds -> Rows \cup {NoRow}]
  /\ queue \in Seq(Requests)
  /\ Len(queue) <= MaxQueued
  /\ sending \in Requests \cup {Idle}
  /\ registered \subseteq RowIds
  /\ workerAlive \in BOOLEAN

\* No topic but its own speaks for m.
OwnVoice(m) ==
  m \in Topics /\ \A c \in Topics \ {m} : \A msg \in Says[c] : KeyOf(c, msg) # m

-----------------------------------------------------------------------------
(* Safety *)

\* A machine that falls silent is reported once, however the sweeps and the
\* heartbeats of the executor's threads are interleaved.
OneReportPerSilence == \A m \in Machines : fate[m] # "repeated"

\* Some reader of GET /machines may be told so.
MayShowBroken(m) ==
  \E silent \in MayJudge(records[m]) :
    ShownConnection(records[m], silent) = "CONNECTION_BROKEN"

\* A machine's silence is judged in three places by three readings of the
\* clock, two of them taken before the lock.  Whoever was marked, and whoever any
\* GET /machines may show CONNECTION_BROKEN, is given no mission; a GET that reads
\* the clock after the mark shows it so; and a report is only out for a machine
\* that is marked still.  (A GET that read the clock before the machine lapsed
\* may show ONLINE for one that is marked by now.)
SilenceIsHeeded ==
  \A m \in Machines :
    /\ m \in Heard(records) =>
         /\ records[m].reported_stale =>
              ShownConnection(records[m], records[m].lapsed) = "CONNECTION_BROKEN"
         /\ records[m].reported_stale \/ MayShowBroken(m) =>
              \A wanted \in Capabilities : SelectMachine(records, wanted) # m
    /\ fate[m] # "none" => m \in Heard(records) /\ records[m].reported_stale

\* What the client holds to be registered has a row with the type and the
\* capabilities the machine sent; no row is made up by a PATCH.
RowsAreRegistered ==
  \A m \in RowIds :
    /\ m \in registered => machineRows[m] # NoRow
    /\ machineRows[m] # NoRow => machineRows[m].known

-----------------------------------------------------------------------------
(* Liveness *)

RowShows(m, msg) ==
  /\ machineRows[m] # NoRow
  /\ machineRows[m].state = DescribedState(msg, FALSE)
  /\ ~machineRows[m].stale

SteadilyHeard(m, msg) ==
  air[m] = msg /\ m \in Heard(records) /\ ~records[m].lapsed /\ workerAlive

Drops == Dropped /\ \E t \in Executors : PushHeartbeat(t) \/ ReportStale(t)
Trouble == Drops \/ Unanswered \/ AdapterRestarts

\* A machine that goes on saying the same, and is heard in time, is shown so in
\* the end, whatever was lost or overtaken before: an OFFLINE that came in
\* behind a live heartbeat, heartbeats handled in the reverse order, a restart.
SteadyIsShown ==
  \A m \in Machines : \A msg \in UNION {Says[c] : c \in Topics} :
    OwnVoice(m) /\ msg \in Says[m] /\ msg.id = m =>
      (<>[]SteadilyHeard(m, msg) /\ <>[][~Trouble]_vars => <>[]RowShows(m, msg))

ShownOffline(m) == machineRows[m] # NoRow /\ machineRows[m].state = "OFFLINE"
SilentForGood(m) ==
  air[m] = Silence /\ m \in Heard(records) /\ records[m].msg.id = m /\ workerAlive

\* A machine that was heard and falls silent for good is OFFLINE in the end,
\* but for two cases: the one report of its silence was dropped or got no answer
\* (it is marked before it is reported, and never reported again), or a heartbeat
\* that the client had given up on was handled behind the report.
SilenceIsShown ==
  \A m \in Machines : OwnVoice(m) =>
    (<>[](SilentForGood(m) /\ fate[m] \notin {"lost", "undone"}) => <>[]ShownOffline(m))

=============================================================================
