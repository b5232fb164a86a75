-------------------------- MODULE InterlockMonitor --------------------------
(***************************************************************************)
(* interlock_monitor.py with the PLC it watches: the poll thread copies    *)
(* the PLC's coils into self._cache and derives the device state from      *)
(* them, clients are served from the cache, and the Reset command is the   *)
(* one write the device makes.                                             *)
(*                                                                         *)
(* A client's read of an attribute changes nothing: it checks              *)
(* is_X_allowed() and returns the cached bit in the same request, so what  *)
(* it may see in a state is what Served says of that state.                *)
(***************************************************************************)
EXTENDS ModbusPoller, InterlockPlc

CONSTANT MaxLate        \* bound: reset writes the PLC has yet to execute

ASSUME MaxLateAssumption == MaxLate \in Nat \ {0}

VARIABLES
    cache,      \* self._cache: the coils at the last good read, or None
    answer,     \* the local variable `cache`: what the last read returned
    age,        \* failed polls since self._cache was read (never reset by them)
    write,      \* the reset write of the Reset in progress or last made:
                \* "none", "sent" to the PLC, or "done", executed by it
    late,       \* reset writes given up by Reset that the PLC still holds
    outcome     \* what the last Reset told its caller

deviceVars == <<cache, answer, age, write, late, outcome>>
vars == <<pollerVars, plcVars, deviceVars>>

Coils == [inputs |-> inputs, permit |-> permit, fault |-> fault]
Snapshots == [inputs : [Inputs -> BOOLEAN], permit : BOOLEAN, fault : BOOLEAN]

ASSUME SnapshotAssumption == None \notin Snapshots

TypeOK ==
    /\ PollerTypeOK
    /\ PlcTypeOK
    /\ cache \in Snapshots \cup {None}
    /\ answer \in Snapshots \cup {None}
    /\ age \in 0..(POLL_FAILURE_THRESHOLD + 1)
    /\ write \in {"none", "sent", "done"}
    /\ late \in 0..MaxLate
    /\ outcome \in {"none", "requested", "refused", "notDelivered"}

Init ==
    /\ PollerInit
    /\ PlcInit
    /\ cache = None /\ answer = None /\ age = 0
    /\ write = "none" /\ late = 0 /\ outcome = "none"

\* _apply_state_from_cache()
StateOf(snapshot) == IF snapshot.permit THEN "ON" ELSE "ALARM"

-----------------------------------------------------------------------------
(* The poll thread *)

\* A good read clears the failure streak and replaces the cache.
PollStore(t) ==
    /\ pc[t] = "store"
    /\ failures' = 0
    /\ cache' = answer
    /\ age' = 0
    /\ Goto(t, "apply")
    /\ UNCHANGED <<peer, sock, suspect, lock, stop, thread, state, callLeft,
                   joinLeft, plcVars, answer, write, late, outcome>>

\* Only a device that was FAULT is given a new state.
PollApplyOnRecovery(t) ==
    /\ pc[t] = "apply" /\ cache # None
    /\ state' = IF state = "FAULT" THEN StateOf(cache) ELSE state
    /\ Goto(t, "wait")
    /\ UNCHANGED <<peer, sock, suspect, lock, stop, thread, failures, callLeft,
                   joinLeft, plcVars, deviceVars>>

PollApply(t) ==
    /\ pc[t] = "apply" /\ cache # None
    /\ state' = StateOf(cache)
    /\ Goto(t, "wait")
    /\ UNCHANGED <<peer, sock, suspect, lock, stop, thread, failures, callLeft,
                   joinLeft, plcVars, deviceVars>>

\* if self._stop_event.is_set(): return
PollGot(t) ==
    /\ pc[t] = "got"
    /\ Goto(t, IF stop THEN "dead" ELSE "store")
    /\ UNCHANGED <<peer, sock, suspect, lock, stop, thread, state, failures,
                   callLeft, joinLeft, plcVars, deviceVars>>

PollAnswered(t) ==
    /\ PollReturns(t)
    /\ answer' = Coils
    /\ UNCHANGED <<plcVars, cache, age, write, late, outcome>>

PollUnanswered(t) ==
    /\ PollRaises(t)
    /\ age' = IF age <= POLL_FAILURE_THRESHOLD THEN age + 1 ELSE age
    /\ UNCHANGED <<plcVars, cache, answer, write, late, outcome>>

PollStep(t) ==
    \/ PollWait(t) /\ UNCHANGED <<plcVars, deviceVars>>
    \/ PollBegin(t) /\ UNCHANGED <<plcVars, deviceVars>>
    \/ PollAnswered(t)
    \/ PollUnanswered(t)
    \/ PollFailed(t) /\ UNCHANGED <<plcVars, deviceVars>>
    \/ PollDrop(t) /\ UNCHANGED <<plcVars, deviceVars>>
    \/ PollCount(t) /\ UNCHANGED <<plcVars, deviceVars>>
    \/ PollFault(t) /\ UNCHANGED <<plcVars, deviceVars>>
    \/ PollGot(t)
    \/ PollStore(t)
    \/ PollApply(t)

-----------------------------------------------------------------------------
(* The Reset command *)

RequestReset ==
    /\ pc[Req] = "idle" /\ Operational
    /\ late < MaxLate
    /\ outcome' = "none" /\ write' = "none"
    /\ Goto(Req, "resetLock")
    /\ UNCHANGED <<peer, sock, suspect, lock, stop, thread, state, failures,
                   callLeft, joinLeft, plcVars, cache, answer, age, late>>

ResetBegin ==
    /\ pc[Req] = "resetLock"
    /\ BeginCall(Req, "reset")
    /\ write' = IF sock' = "open" THEN "sent" ELSE "none"
    /\ UNCHANGED <<plcVars, cache, answer, age, late, outcome>>

\* "Reset requested"
ResetReturns ==
    /\ pc[Req] = "reset" /\ write = "done"
    /\ CallReturns(Req, "idle")
    /\ outcome' = "requested"
    /\ UNCHANGED <<plcVars, cache, answer, age, write, late>>

\* result.isError() not looked at.
ResetRefusedUnnoticed ==
    /\ pc[Req] = "reset" /\ write = "sent"
    /\ CallRefused(Req, "idle")
    /\ outcome' = "requested" /\ write' = "none"
    /\ UNCHANGED <<plcVars, cache, answer, age, late>>

\* InterlockMonitor_ResetRefused
ResetRefused ==
    /\ pc[Req] = "reset" /\ write = "sent"
    /\ CallRefused(Req, "idle")
    /\ outcome' = "refused" /\ write' = "none"
    /\ UNCHANGED <<plcVars, cache, answer, age, late>>

\* The write was not answered: the PLC may have executed it, may hold it
\* still, or may never have seen it.
ResetRaises ==
    /\ pc[Req] = "reset"
    /\ CallRaises(Req, "resetFailed")
    /\ late' = IF write = "sent" THEN late + 1 ELSE late
    /\ write' = IF write = "sent" THEN "none" ELSE write
    /\ UNCHANGED <<plcVars, cache, answer, age, outcome>>

\* InterlockMonitor_ResetNotDelivered
ResetDrop ==
    /\ pc[Req] = "resetFailed"
    /\ DropConnection(Req, "idle")
    /\ outcome' = "notDelivered"
    /\ UNCHANGED <<state, plcVars, cache, answer, age, write, late>>

ResetStep == \/ ResetBegin \/ ResetReturns \/ ResetRefused \/ ResetRaises
             \/ ResetDrop

-----------------------------------------------------------------------------
(* init_device() and delete_device() *)

ClearCache ==
    /\ cache' = None /\ answer' = None /\ age' = 0
    /\ UNCHANGED <<plcVars, write, late, outcome>>

InitAnswered ==
    /\ InitReturns
    /\ answer' = Coils
    /\ UNCHANGED <<plcVars, cache, age, write, late, outcome>>

InitOk(t) ==
    /\ pc[Req] = "got"
    /\ InitRead(t, StateOf(answer), "idle")
    /\ cache' = answer
    /\ UNCHANGED <<plcVars, answer, age, write, late, outcome>>

InitFailed(t) ==
    /\ InitReadFailed(t, "idle")
    /\ UNCHANGED <<plcVars, deviceVars>>

InitStep ==
    \/ DeleteDevice /\ UNCHANGED <<plcVars, deviceVars>>
    \/ Join /\ UNCHANGED <<plcVars, deviceVars>>
    \/ CloseClient /\ UNCHANGED <<plcVars, deviceVars>>
    \/ InitRefused("idle") /\ ClearCache
    \/ InitClient /\ ClearCache
    \/ InitBegin /\ UNCHANGED <<plcVars, deviceVars>>
    \/ InitAnswered
    \/ InitRaises /\ UNCHANGED <<plcVars, deviceVars>>
    \/ \E t \in Threads : InitOk(t) \/ InitFailed(t)

ReqStep == ResetStep \/ InitStep

-----------------------------------------------------------------------------
(* The PLC and its surroundings *)

PlcExecutes ==
    /\ peer = "up" /\ write = "sent"
    /\ WriteReset
    /\ write' = "done"
    /\ UNCHANGED <<pollerVars, cache, answer, age, late, outcome>>

PlcExecutesLate ==
    /\ peer = "up" /\ late > 0
    /\ WriteReset
    /\ late' = late - 1
    /\ UNCHANGED <<pollerVars, cache, answer, age, write, outcome>>

PlantChanges(w) ==
    /\ peer # "down"
    /\ WriteInputs(w)
    /\ UNCHANGED <<pollerVars, deviceVars>>

\* Writes that a PLC holds when it goes down are lost with it, and it comes
\* back with its initial coils.
PlcChanges(p) ==
    /\ PeerChanges(p)
    /\ late' = IF p = "down" THEN 0 ELSE late
    /\ write' = IF p = "down" /\ write = "sent" THEN "none" ELSE write
    /\ IF peer = "down" THEN PlcRestarts ELSE UNCHANGED plcVars
    /\ UNCHANGED <<cache, answer, age, outcome>>

Environment ==
    \/ PlcExecutesLate
    \/ \E w \in [Inputs -> BOOLEAN] : PlantChanges(w)
    \/ \E p \in Peers : PlcChanges(p)

Requests == \/ RequestReset
            \/ RequestInit /\ UNCHANGED <<plcVars, deviceVars>>

Next ==
    \/ \E t \in Threads : PollStep(t)
    \/ ReqStep
    \/ Tick /\ UNCHANGED <<plcVars, deviceVars>>
    \/ PlcExecutes
    \/ Requests
    \/ Environment

Spec == Init /\ [][Next]_vars

\* The device's own threads keep running, and a thread waiting for the lock gets
\* it when it is free again and again: its holder lets go within CallTime and
\* the poll thread then sleeps for POLL_INTERVAL_S.  A PLC that is up executes
\* what it has received.  Nothing else is promised: neither requests, nor the
\* plant, nor the state of the PLC.
FairSpec ==
    /\ Spec
    /\ \A t \in Threads : SF_vars(PollStep(t))
    /\ SF_vars(ReqStep)
    /\ WF_vars(PlcExecutes)

-----------------------------------------------------------------------------
(* Properties *)

\* "refuses to serve stale attribute values" (interlock_monitor.py, lines 21-24):
\* whatever is served was read from the PLC, and no more than
\* POLL_FAILURE_THRESHOLD polls have failed since, fewer once the poll that
\* failed has been counted.  It takes a run of failures, an Init in the middle
\* or a recovery in the wrong order to break.
ServedIsRecent ==
    Served =>
        /\ cache # None
        /\ age <= POLL_FAILURE_THRESHOLD
        /\ (thread # None /\ pc[thread] = "wait") => age < POLL_FAILURE_THRESHOLD

\* ON and ALARM say what the cached permit says, except while the poll thread is
\* between its two assignments (lines 195-196): after an Init or an outage too.
StateMatchesCache ==
    (Served /\ thread # None /\ pc[thread] # "apply") => state = StateOf(cache)

\* "Reset requested" means that the PLC executed the write, and "refused" that
\* it did not (lines 238-262).
ResetAnswersAreTrue ==
    /\ outcome = "requested" => write = "done"
    /\ outcome = "refused" => write = "none"

\* A latched fault is cleared, and a lost permit given again, only by a reset the
\* device sent, executed while every input is safe, or by a restart of the PLC:
\* never by the inputs recovering, and never by the device connecting, failing or
\* being Init-ed (fake_modbus_plc.py, lines 40-44; interlock_monitor.py, lines 238-262).
LatchHolds ==
    [][((fault /\ ~fault') \/ (~permit /\ permit')) =>
            \/ peer = "down"
            \/ /\ InputsOk(inputs) /\ InputsOk(inputs')
               /\ (write = "sent" /\ write' = "done") \/ late' < late]_vars

\* "returns to ON or ALARM by itself once the PLC answers again -- also when it
\* was started or Init-ed while the PLC was down" (lines 22-24): if from some
\* time on the PLC answers and its permit stays b, and the device does not sit
\* on an invalid Port, its state settles on what b means.
EventuallyShowsPermit ==
    \A b \in BOOLEAN :
        <>[](peer = "up" /\ permit = b /\ (pc[Req] = "idle" => thread # None))
            => <>[](pc[Req] = "idle" => state = StateOf([permit |-> b]))

=============================================================================
