---------------------------- MODULE VacuumGauge ----------------------------
(***************************************************************************)
(* vacuum_gauge.py with its instrument: the poll thread caches the         *)
(* pressure, pushes change events and takes the device in and out of       *)
(* FAULT; the pump is switched by the PumpOn and PumpOff commands and by   *)
(* writes of PumpStatus, whose last value a restart restores.              *)
(*                                                                         *)
(* The parts of Tango that the device relies on are modelled from that     *)
(* use: a write of a memorized attribute and its restore after             *)
(* init_device(), and the State attribute, whose read moves the device     *)
(* between ON and ALARM.                                                   *)
(***************************************************************************)
EXTENDS ModbusPoller, GaugeRegisters

CONSTANTS
    ALARM_LEVEL,        \* VacuumPressure above it is past its alarm level
    ClientRequests      \* the pump requests that clients make: kind and value

ASSUME LevelAssumption == ALARM_LEVEL \in Nat

ASSUME RequestsAssumption ==
    ClientRequests \subseteq
        [kind : {"command", "attribute", "read"}, value : BOOLEAN]

ASSUME ReadingAssumption == None \notin Pressures

VARIABLES
    pressure,   \* self._pressure
    lastPushed, \* self._last_pushed_pressure
    answer,     \* the local variable `pressure` of the poll loop
    age,        \* failed polls since self._pressure was read
    cmd,        \* the pump request in progress: its kind and value
    write,      \* its register write: "none", "sent", "done"
    late,       \* values of writes given up that the instrument still holds
    db,         \* the "__value" property of PumpStatus in the database
    memFailed,  \* Tango remembers that the restore failed
    acked       \* the last pump request, if its caller was told it succeeded

serveVars == <<pressure, lastPushed, answer, age>>
pumpVars == <<cmd, write, late, db, memFailed, acked>>
deviceVars == <<serveVars, pumpVars>>
vars == <<pollerVars, gaugeVars, deviceVars>>

NoCmd == [kind |-> "none", value |-> FALSE]
Kinds == {"none", "command", "attribute", "restore", "read"}

TypeOK ==
    /\ PollerTypeOK
    /\ GaugeTypeOK
    /\ pressure \in Pressures \cup {None}
    /\ lastPushed \in Pressures \cup {None}
    /\ answer \in Pressures \cup {None}
    /\ age \in 0..(POLL_FAILURE_THRESHOLD + 1)
    /\ cmd \in [kind : Kinds, value : BOOLEAN]
    /\ write \in {"none", "sent", "done"}
    /\ late \in SUBSET BOOLEAN
    /\ db \in BOOLEAN \cup {None}
    /\ memFailed \in BOOLEAN
    /\ acked \in BOOLEAN \cup {None}

Init ==
    /\ PollerInit
    /\ GaugeInit
    /\ pressure = None /\ lastPushed = None /\ answer = None /\ age = 0
    /\ cmd = NoCmd /\ write = "none" /\ late = {}
    /\ db = None /\ memFailed = FALSE /\ acked = None

Distance(a, b) == IF a > b THEN a - b ELSE b - a

-----------------------------------------------------------------------------
(* The poll thread *)

PollAnswered(t) ==
    /\ PollReturns(t)
    /\ answer' = level
    /\ UNCHANGED <<gaugeVars, pressure, lastPushed, age, pumpVars>>

PollUnanswered(t) ==
    /\ PollRaises(t)
    /\ age' = IF age <= POLL_FAILURE_THRESHOLD THEN age + 1 ELSE age
    /\ UNCHANGED <<gaugeVars, pressure, lastPushed, answer, pumpVars>>

\* if self._stop_event.is_set(): return
PollGot(t) ==
    /\ pc[t] = "got"
    /\ Goto(t, IF stop THEN "dead" ELSE "recover")
    /\ UNCHANGED <<peer, sock, suspect, lock, stop, thread, state, failures,
                   callLeft, joinLeft, gaugeVars, deviceVars>>

\* A failure streak, or a failed first read, is over.
PollRecover(t) ==
    /\ pc[t] = "recover"
    /\ failures' = 0
    /\ state' = IF failures > 0 \/ state = "FAULT" THEN "ON" ELSE state
    /\ Goto(t, "store")
    /\ UNCHANGED <<peer, sock, suspect, lock, stop, thread, callLeft, joinLeft,
                   gaugeVars, deviceVars>>

PollStore(t) ==
    /\ pc[t] = "store"
    /\ pressure' = answer
    /\ age' = 0
    /\ Goto(t, "push")
    /\ UNCHANGED <<peer, sock, suspect, lock, stop, thread, state, failures,
                   callLeft, joinLeft, gaugeVars, lastPushed, answer, pumpVars>>

\* The comparison without abs(): a falling pressure is never pushed.
PollPushRisesOnly(t) ==
    /\ pc[t] = "push"
    /\ lastPushed' \in IF lastPushed = None THEN {answer}
                       ELSE IF answer - lastPushed > 1 THEN {answer}
                       ELSE {answer, lastPushed}
    /\ answer' = None
    /\ Goto(t, "wait")
    /\ UNCHANGED <<peer, sock, suspect, lock, stop, thread, state, failures,
                   callLeft, joinLeft, gaugeVars, pressure, age, pumpVars>>

\* PRESSURE_CHANGE_THRESHOLD is one register unit, compared in floating point:
\* 0.043 - 0.042 is just below 0.001, so that a change of one unit may or may not
\* be pushed; a larger one always is.
PollPush(t) ==
    /\ pc[t] = "push"
    /\ lastPushed' \in IF lastPushed = None THEN {answer}
                       ELSE IF Distance(answer, lastPushed) > 1 THEN {answer}
                       ELSE {answer, lastPushed}
    /\ answer' = None
    /\ Goto(t, "wait")
    /\ UNCHANGED <<peer, sock, suspect, lock, stop, thread, state, failures,
                   callLeft, joinLeft, gaugeVars, pressure, age, pumpVars>>

PollStep(t) ==
    \/ PollWait(t) /\ UNCHANGED <<gaugeVars, deviceVars>>
    \/ PollBegin(t) /\ UNCHANGED <<gaugeVars, deviceVars>>
    \/ PollAnswered(t)
    \/ PollUnanswered(t)
    \/ PollFailed(t) /\ UNCHANGED <<gaugeVars, deviceVars>>
    \/ PollDrop(t) /\ UNCHANGED <<gaugeVars, deviceVars>>
    \/ PollCount(t) /\ UNCHANGED <<gaugeVars, deviceVars>>
    \/ PollFault(t) /\ UNCHANGED <<gaugeVars, deviceVars>>
    \/ PollGot(t)
    \/ PollRecover(t)
    \/ PollStore(t)
    \/ PollPush(t)

-----------------------------------------------------------------------------
(* PumpOn, PumpOff, and writes and reads of PumpStatus *)

RequestPump(request) ==
    /\ pc[Req] = "idle" /\ Operational
    /\ cmd' = request
    /\ acked' = IF request.kind = "read" THEN acked ELSE None
    /\ Goto(Req, "pumpLock")
    /\ UNCHANGED <<peer, sock, suspect, lock, stop, thread, state, failures,
                   callLeft, joinLeft, gaugeVars, serveVars, write, late, db,
                   memFailed>>

PumpBegin ==
    /\ pc[Req] = "pumpLock"
    /\ BeginCall(Req, "pump")
    /\ write' = IF sock' = "open" /\ cmd.kind # "read" THEN "sent" ELSE "none"
    /\ UNCHANGED <<gaugeVars, serveVars, cmd, late, db, memFailed, acked>>

\* The commands as they were before Ch32: the result is not memorized.
AfterCallAttributeOnly ==
    IF cmd.kind = "attribute" THEN "memorize" ELSE "reply"

\* A command memorizes its value itself; Tango does it for an attribute write.
AfterCall == IF cmd.kind \in {"command", "attribute"} THEN "memorize" ELSE "reply"

PumpReturns ==
    /\ pc[Req] = "pump"
    /\ IF cmd.kind = "read" THEN peer = "up" ELSE write = "done"
    /\ CallReturns(Req, AfterCall)
    /\ UNCHANGED <<gaugeVars, serveVars, pumpVars>>

\* _call() returns a Modbus exception response like any other answer, and no
\* caller looks at isError(): a write goes on as if it had been executed.  A read
\* ends with an AttributeError that drops no connection; what a read answers,
\* error or value, is told apart nowhere, and Reply stands for both.
PumpRefused ==
    /\ pc[Req] = "pump" /\ write # "done"
    /\ CallRefused(Req, AfterCall)
    /\ write' = "none"
    /\ UNCHANGED <<gaugeVars, serveVars, cmd, late, db, memFailed, acked>>

PumpRaises ==
    /\ pc[Req] = "pump"
    /\ CallRaises(Req, "pumpFailed")
    /\ late' = IF write = "sent" THEN late \cup {cmd.value} ELSE late
    /\ write' = "none"
    /\ UNCHANGED <<gaugeVars, serveVars, cmd, db, memFailed, acked>>

\* The exception goes to the caller, or, for a restore, into Tango's memory of it.
PumpDrop ==
    /\ pc[Req] = "pumpFailed"
    /\ DropConnection(Req, "idle")
    /\ memFailed' = (memFailed \/ cmd.kind = "restore")
    /\ cmd' = NoCmd
    /\ UNCHANGED <<state, gaugeVars, serveVars, write, late, db, acked>>

\* _memorize_pump_status()
Memorize ==
    /\ pc[Req] = "memorize"
    /\ db' = cmd.value
    /\ Goto(Req, "reply")
    /\ UNCHANGED <<peer, sock, suspect, lock, stop, thread, state, failures,
                   callLeft, joinLeft, gaugeVars, serveVars, cmd, write, late,
                   memFailed, acked>>

\* The database does not take it: the caller gets PumpStatusNotMemorized.
MemorizeFails ==
    /\ pc[Req] = "memorize"
    /\ Goto(Req, "idle")
    /\ cmd' = NoCmd /\ write' = "none"
    /\ UNCHANGED <<peer, sock, suspect, lock, stop, thread, state, failures,
                   callLeft, joinLeft, gaugeVars, serveVars, late, db, memFailed,
                   acked>>

\* The caller is told that the request succeeded.  A successful attribute write
\* or restore ends Tango's memory of a failed restore; a command does not.
Reply ==
    /\ pc[Req] = "reply"
    /\ acked' = IF cmd.kind \in {"command", "attribute"} THEN cmd.value ELSE acked
    /\ memFailed' = (memFailed /\ cmd.kind \notin {"attribute", "restore"})
    /\ cmd' = NoCmd /\ write' = "none"
    /\ Goto(Req, "idle")
    /\ UNCHANGED <<peer, sock, suspect, lock, stop, thread, state, failures,
                   callLeft, joinLeft, gaugeVars, serveVars, late, db>>

PumpStep == \/ PumpBegin \/ PumpReturns \/ PumpRefused \/ PumpRaises
            \/ PumpDrop \/ Memorize \/ MemorizeFails \/ Reply

-----------------------------------------------------------------------------
(* init_device(), delete_device(), and the restore Tango makes after it *)

ClearReadings ==
    /\ pressure' = None /\ lastPushed' = None /\ answer' = None /\ age' = 0
    /\ UNCHANGED <<gaugeVars, pumpVars>>

InitAnswered ==
    /\ InitReturns
    /\ answer' = level
    /\ UNCHANGED <<gaugeVars, pressure, lastPushed, age, pumpVars>>

InitOk(t) ==
    /\ InitRead(t, "ON", "restore")
    /\ pressure' = answer
    /\ answer' = None
    /\ UNCHANGED <<gaugeVars, lastPushed, age, pumpVars>>

InitFailed(t) ==
    /\ InitReadFailed(t, "restore")
    /\ UNCHANGED <<gaugeVars, deviceVars>>

\* hw_memorized: the stored value is written like an attribute write, so that
\* is_PumpStatus_allowed() decides first.
Restore ==
    /\ pc[Req] = "restore" /\ db # None /\ Operational
    /\ cmd' = [kind |-> "restore", value |-> db]
    /\ Goto(Req, "pumpLock")
    /\ UNCHANGED <<peer, sock, suspect, lock, stop, thread, state, failures,
                   callLeft, joinLeft, gaugeVars, serveVars, write, late, db,
                   memFailed, acked>>

NoRestore ==
    /\ pc[Req] = "restore" /\ (db = None \/ ~Operational)
    /\ memFailed' = (memFailed \/ db # None)
    /\ Goto(Req, "idle")
    /\ UNCHANGED <<peer, sock, suspect, lock, stop, thread, state, failures,
                   callLeft, joinLeft, gaugeVars, serveVars, cmd, write, late,
                   db, acked>>

InitStep ==
    \/ DeleteDevice /\ UNCHANGED <<gaugeVars, deviceVars>>
    \/ Join /\ UNCHANGED <<gaugeVars, deviceVars>>
    \/ CloseClient /\ UNCHANGED <<gaugeVars, deviceVars>>
    \/ InitRefused("restore") /\ ClearReadings
    \/ InitClient /\ ClearReadings
    \/ InitBegin /\ UNCHANGED <<gaugeVars, deviceVars>>
    \/ InitAnswered
    \/ InitRaises /\ UNCHANGED <<gaugeVars, deviceVars>>
    \/ \E t \in Threads : InitOk(t) \/ InitFailed(t)
    \/ Restore
    \/ NoRestore

ReqStep == PumpStep \/ InitStep

\* A client reads State: Tango moves an operational device to ALARM if an attribute
\* is past its level or its restore has failed, and back to ON otherwise.
ReadState ==
    /\ pc[Req] = "idle" /\ Operational
    /\ state' = IF memFailed \/ (pressure # None /\ pressure > ALARM_LEVEL)
                THEN "ALARM" ELSE "ON"
    /\ UNCHANGED <<peer, sock, suspect, lock, pc, stop, thread, failures, callLeft,
                   joinLeft, gaugeVars, deviceVars>>

Requests ==
    \/ \E request \in ClientRequests : RequestPump(request)
    \/ RequestInit /\ UNCHANGED <<gaugeVars, deviceVars>>
    \/ ReadState

-----------------------------------------------------------------------------
(* The instrument, and kills of the server *)

InstrumentExecutes ==
    /\ peer = "up" /\ write = "sent"
    /\ WritePump(cmd.value)
    /\ write' = "done"
    /\ UNCHANGED <<pollerVars, serveVars, cmd, late, db, memFailed, acked>>

InstrumentExecutesLate(v) ==
    /\ peer = "up" /\ v \in late
    /\ WritePump(v)
    /\ late' = late \ {v}
    /\ UNCHANGED <<pollerVars, serveVars, cmd, write, db, memFailed, acked>>

InstrumentPumps ==
    /\ peer # "down"
    /\ PressureFalls
    /\ UNCHANGED <<pollerVars, deviceVars>>

InstrumentChanges(p) ==
    /\ PeerChanges(p)
    /\ late' = IF p = "down" THEN {} ELSE late
    /\ write' = IF p = "down" /\ write = "sent" THEN "none" ELSE write
    /\ IF peer = "down" THEN GaugeRestarts ELSE UNCHANGED gaugeVars
    /\ UNCHANGED <<serveVars, cmd, db, memFailed, acked>>

Crash ==
    /\ ServerRestarts
    /\ pressure' = None /\ lastPushed' = None /\ answer' = None /\ age' = 0
    /\ late' = IF write = "sent" THEN late \cup {cmd.value} ELSE late
    /\ cmd' = NoCmd /\ write' = "none" /\ memFailed' = FALSE
    /\ UNCHANGED <<gaugeVars, db, acked>>

Environment ==
    \/ \E v \in BOOLEAN : InstrumentExecutesLate(v)
    \/ InstrumentPumps
    \/ \E p \in Peers : InstrumentChanges(p)
    \/ Crash

Next ==
    \/ \E t \in Threads : PollStep(t)
    \/ ReqStep
    \/ Tick /\ UNCHANGED <<gaugeVars, deviceVars>>
    \/ InstrumentExecutes
    \/ Requests
    \/ Environment

Spec == Init /\ [][Next]_vars

-----------------------------------------------------------------------------
(* Properties *)

\* "a stale pressure presented as current is worse than no reading at all"
\* (vacuum_gauge.py, lines 241-243): what is served was read from the instrument,
\* and no more than POLL_FAILURE_THRESHOLD polls have failed since.
ServedIsRecent ==
    Served => pressure # None /\ age <= POLL_FAILURE_THRESHOLD

\* ServedIsRecent as far as it holds: while the poll thread sleeps between two
\* polls, whatever outages, recoveries and Inits went before.
ServedBetweenPolls ==
    (Served /\ thread # None /\ pc[thread] = "wait") =>
        pressure # None /\ age < POLL_FAILURE_THRESHOLD

\* Subscribers of the change event are never more than one register unit behind
\* the reading that is served, once there has been an event (lines 57-61 and
\* 217-225): not through a slow drift, an outage or an Init.
EventsFollowPressure ==
    (thread # None /\ pc[thread] = "wait" /\ lastPushed # None) =>
        pressure # None /\ Distance(pressure, lastPushed) <= 1

\* "a restart restores the last command, however it was given" (lines 43-45): if
\* the last pump request was acknowledged, the database holds its value, through
\* kills, Inits and failures of the database, and a restore writes that value.
RestartKeepsCommand ==
    acked # None =>
        /\ db = acked
        /\ cmd.kind = "restore" => cmd.value = acked

\* "Called after the register write" (line 287): a request that is reported as
\* successful was executed by the instrument.
AckedCommandTookEffect ==
    pc[Req] = "reply" /\ cmd.kind # "read" => write = "done"

=============================================================================
