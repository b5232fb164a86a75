------------------------- MODULE MagnetPowerSupply -------------------------
(***************************************************************************)
(* magnet_power_supply.py: an asyncio device that ramps the current of a   *)
(* magnet supply over a serial line.  A ramp is an asyncio task that hands *)
(* each blocking serial write to a worker thread and awaits it; a new      *)
(* setpoint, a Reset or an Init cancels it.  fake_magnet_psu.py is the     *)
(* supply: it keeps what CURR sets, also while its line is lost.           *)
(*                                                                         *)
(* The event loop runs one coroutine at a time, from one await to the      *)
(* next: that is the grain of the actions.  Asyncio devices serve requests *)
(* without serialising them, so that a write, a Reset and an Init run in   *)
(* each other's awaits; bound: one of each is in progress at a time.       *)
(*                                                                         *)
(* Tango (external) decides is_X_allowed() before it queues the setter,    *)
(* memorizes a written setpoint after the setter has returned, restores it *)
(* after init_device(), and exports the device only after the first Init.  *)
(***************************************************************************)
EXTENDS Integers, FiniteSets

CONSTANTS
    Tasks,          \* ramp tasks; bound: as many are alive at a time
    None,
    STEP,           \* ramp_rate * 0.2: what one tick may change, in A
    MAX_SETPOINT,   \* the upper limit of setpoint
    WARNING,        \* current above it reads as a warning
    Setpoints,      \* what clients write
    LinkFails,      \* the serial line may be lost
    MAX_LATE        \* bound: writes of cancelled ramps still to be made

Currents == 0..MAX_SETPOINT

ASSUME MagnetAssumption ==
    /\ None \notin Tasks /\ None \notin Currents
    /\ STEP \in Nat \ {0} /\ MAX_SETPOINT \in Nat /\ WARNING \in Nat
    /\ Setpoints \subseteq Currents
    /\ LinkFails \in BOOLEAN /\ MAX_LATE \in Nat

VARIABLES
    state,      \* the Tango device state
    setpoint,   \* self._setpoint
    current,    \* self._current
    rampTask,   \* self._ramp_task
    ramp,       \* each task: where it is, its target, what its worker thread is
                \* to write; "free" is none, or over, "failed" over by an exception
    late,       \* writes of cancelled ramps whose worker threads still run
    ser,        \* self._ser: "none", "open", or "dead" (its line was lost)
    link,       \* the serial line is there
    supply,     \* the supply's output current
    init,       \* where Init is
    exported,   \* Tango serves requests
    writer,     \* the setpoint write in progress
    resetter,   \* the Reset in progress
    db,         \* the "__value" property of setpoint in the database
    acked,      \* what the last write or Reset asked for, if it was acknowledged and
                \* no other had come between its setter and its memorizing
    strayed     \* auxiliary: a ramp may be about that was created in an Init, after
                \* delete_device() had cancelled the one it knew

device == <<state, setpoint, current>>
ramps == <<rampTask, ramp, late>>
line == <<ser, link, supply>>
inits == <<init, exported>>
requests == <<writer, resetter, db, acked>>
vars == <<device, ramps, line, inits, requests, strayed>>

OPERATOR_STATES == {"ON", "MOVING", "ALARM"}
Over == [pc |-> "free", target |-> 0, sending |-> 0]
NoWriter == [pc |-> "idle", value |-> 0]

TypeOK ==
    /\ state \in OPERATOR_STATES \cup {"UNKNOWN", "FAULT"}
    /\ setpoint \in Currents /\ current \in Currents /\ supply \in Currents
    /\ rampTask \in Tasks \cup {None}
    /\ ramp \in [Tasks -> [pc : {"free", "new", "write", "sleep", "failed"},
                           target : Currents, sending : Currents]]
    /\ late \in SUBSET Currents
    /\ ser \in {"none", "open", "dead"} /\ link \in BOOLEAN
    /\ init \in {"idle", "delete", "awaiting", "init", "query", "restore"}
    /\ exported \in BOOLEAN
    /\ writer \in [pc : {"idle", "allowed", "memorize"}, value : Currents]
    /\ resetter \in {"idle", "allowed"}
    /\ db \in Currents \cup {None} /\ acked \in Currents \cup {None}
    /\ strayed \in BOOLEAN

Init ==
    /\ state = "UNKNOWN" /\ setpoint = 0 /\ current = 0
    /\ rampTask = None /\ ramp = [t \in Tasks |-> Over] /\ late = {}
    /\ ser = "none" /\ link = TRUE /\ supply = 0
    /\ init = "init" /\ exported = FALSE
    /\ writer = NoWriter /\ resetter = "idle"
    /\ db = None /\ acked = None
    /\ strayed = FALSE

Live(t) == ramp[t].pc \in {"new", "write", "sleep"}

\* No request and no Init is in progress.
Quiet == init = "idle" /\ writer.pc = "idle" /\ resetter = "idle"

\* delete_device() has cancelled the ramp, and init_device() is not over.
PastCancel == init \in {"awaiting", "init", "query"}

-----------------------------------------------------------------------------
(* Ramps *)

\* A cancelled task runs no further, but a worker thread that has started its
\* write cannot be stopped.
LateAfterCancel(t) ==
    {late} \cup {l \in {late \cup {ramp[u].sending} :
                            u \in {v \in Tasks : v = t /\ ramp[v].pc = "write"}} :
                    Cardinality(l) <= MAX_LATE}

\* setpoint's setter before it cancelled the ramp there is.
StartRampBesideOld(v) ==
    \E t \in Tasks :
        /\ ramp[t].pc = "free"
        /\ setpoint' = v
        /\ ramp' = [ramp EXCEPT ![t] = [pc |-> "new", target |-> v, sending |-> 0]]
        /\ rampTask' = t
        /\ UNCHANGED <<late, strayed>>

\* setpoint's setter and Reset: cancel the ramp there is and create one to v.
StartRamp(v) ==
    \E t \in Tasks :
        /\ ramp[t].pc = "free"
        /\ setpoint' = v
        /\ late' \in LateAfterCancel(rampTask)
        /\ ramp' = [u \in Tasks |->
                      IF u = t THEN [pc |-> "new", target |-> v, sending |-> 0]
                      ELSE IF u = rampTask THEN Over ELSE ramp[u]]
        /\ rampTask' = t
        /\ strayed' = \/ PastCancel
                      \/ strayed /\ \E u \in Tasks \ {rampTask} : ramp[u].pc # "free"

\* The step without its min() and max(): the last one overshoots.
TowardsUnclipped(c, v) == IF c < v THEN c + STEP ELSE c - STEP

Towards(c, v) ==
    IF c < v THEN IF c + STEP < v THEN c + STEP ELSE v
             ELSE IF c - STEP > v THEN c - STEP ELSE v

RampBegins(t) == state' = IF ramp[t].pc = "new" THEN "MOVING" ELSE state

\* A task that is over without a last set_state().
RampArrivesMoving(t) ==
    /\ current = ramp[t].target
    /\ RampBegins(t)
    /\ ramp' = [ramp EXCEPT ![t] = Over]
    /\ UNCHANGED current

RampArrives(t) ==
    /\ current = ramp[t].target
    /\ state' = "ON"
    /\ ramp' = [ramp EXCEPT ![t] = Over]
    /\ UNCHANGED current

RampMoves(t) ==
    /\ current # ramp[t].target
    /\ RampBegins(t)
    /\ current' = Towards(current, ramp[t].target)
    /\ ramp' = [ramp EXCEPT ![t].pc = "write", ![t].sending = current']

\* _ramp_loop() up to its next await.
RampTicks(t) ==
    /\ ramp[t].pc \in {"new", "sleep"}
    /\ RampArrives(t) \/ RampMoves(t)
    /\ UNCHANGED <<setpoint, rampTask, late, line, inits, requests, strayed>>

\* The supply's CURR command: it puts out what it is told, and says nothing.
Curr(v) == supply' = v

\* The worker thread writes, and the task goes on to its sleep.
RampWrites(t) ==
    /\ ramp[t].pc = "write"
    /\ ser = "open" /\ link
    /\ Curr(ramp[t].sending)
    /\ ramp' = [ramp EXCEPT ![t] = [@ EXCEPT !.pc = "sleep", !.sending = 0]]
    /\ UNCHANGED <<device, rampTask, late, ser, link, inits, requests, strayed>>

\* The port is closed or its line lost: the exception ends the task, and nobody
\* is there to catch it.
RampFails(t) ==
    /\ ramp[t].pc = "write"
    /\ ser # "open" \/ ~link
    /\ ramp' = [ramp EXCEPT ![t] = [Over EXCEPT !.pc = "failed"]]
    /\ UNCHANGED <<device, rampTask, late, line, inits, requests, strayed>>

\* The worker thread of a cancelled ramp writes after all.
LateWrite(v) ==
    /\ v \in late
    /\ late' = late \ {v}
    /\ IF ser = "open" /\ link THEN Curr(v) ELSE UNCHANGED supply
    /\ UNCHANGED <<device, rampTask, ramp, ser, link, inits, requests, strayed>>

RampStep(t) == RampTicks(t) \/ RampWrites(t) \/ RampFails(t)

-----------------------------------------------------------------------------
(* Writes of setpoint, Reset, reads of State *)

\* is_setpoint_allowed(), in Tango's thread, before the setter is queued.
WriteAllowed(v) ==
    /\ writer.pc = "idle" /\ exported
    /\ state \in OPERATOR_STATES
    /\ writer' = [pc |-> "allowed", value |-> v]
    /\ acked' = None
    /\ UNCHANGED <<device, ramps, line, inits, resetter, db, strayed>>

WriteSetpoint ==
    /\ writer.pc = "allowed"
    /\ StartRamp(writer.value)
    /\ writer' = [writer EXCEPT !.pc = "memorize"]
    /\ UNCHANGED <<state, current, line, inits, resetter, db, acked>>

WriteMemorized ==
    /\ writer.pc = "memorize"
    /\ db' = writer.value
    /\ acked' = IF setpoint = writer.value THEN writer.value ELSE None
    /\ writer' = NoWriter
    /\ UNCHANGED <<device, ramps, line, inits, resetter, strayed>>

ResetAllowed ==
    /\ resetter = "idle" /\ exported
    /\ state \in OPERATOR_STATES
    /\ resetter' = "allowed"
    /\ acked' = None
    /\ UNCHANGED <<device, ramps, line, inits, writer, db, strayed>>

\* Reset as it was before it memorized its target.
ResetUnmemorized ==
    /\ resetter = "allowed"
    /\ StartRamp(0)
    /\ acked' = 0
    /\ resetter' = "idle"
    /\ UNCHANGED <<state, current, line, inits, writer, db>>

\* Reset() has no await: the ramp to 0 A is created and 0 A memorized in one go,
\* or the caller is told that it was not memorized.
Reset ==
    /\ resetter = "allowed"
    /\ StartRamp(0)
    /\ \/ db' = 0 /\ acked' = 0
       \/ acked' = None /\ UNCHANGED db
    /\ resetter' = "idle"
    /\ UNCHANGED <<state, current, line, inits, writer>>

\* A client reads State: Tango takes an ON device to ALARM while current is past
\* its warning level.
ReadState ==
    /\ exported /\ state \in {"ON", "ALARM"}
    /\ state' = IF current > WARNING THEN "ALARM" ELSE "ON"
    /\ UNCHANGED <<setpoint, current, ramps, line, inits, requests, strayed>>

-----------------------------------------------------------------------------
(* Init: delete_device(), init_device(), and the restore of setpoint *)

RequestInit ==
    /\ init = "idle" /\ exported
    /\ init' = "delete"
    /\ UNCHANGED <<device, ramps, line, exported, requests, strayed>>

\* delete_device() that leaves the ramp alone.
DeleteKeepsRamp ==
    /\ init = "delete" /\ rampTask # None /\ Live(rampTask)
    /\ init' = "awaiting"
    /\ UNCHANGED <<device, ramps, line, exported, requests, strayed>>

\* self._ramp_task.cancel(), and await it.
DeleteCancels ==
    /\ init = "delete" /\ rampTask # None /\ Live(rampTask)
    /\ late' \in LateAfterCancel(rampTask)
    /\ ramp' = [ramp EXCEPT ![rampTask] = Over]
    /\ init' = "awaiting"
    /\ UNCHANGED <<device, rampTask, line, exported, requests, strayed>>

\* Awaiting a task that a serial error has ended raises that error: the Init
\* command fails, before the port is closed.
DeleteRaises ==
    /\ init = "delete" /\ rampTask # None /\ ramp[rampTask].pc = "failed"
    /\ init' = "idle"
    /\ UNCHANGED <<device, ramps, line, exported, requests, strayed>>

\* The await is over, or there was nothing to await. A late write that has taken
\* hold of the port that is closed here fails.
DeleteFrees ==
    /\ \/ init = "awaiting"
       \/ init = "delete" /\ \A t \in Tasks \cap {rampTask} : ramp[t].pc = "free"
    /\ rampTask' = None
    /\ late' \in SUBSET late
    /\ ser' = "none"
    /\ init' = "init"
    /\ UNCHANGED <<device, ramp, link, supply, exported, requests, strayed>>

\* What init_device() resets before anything else. A task that has failed is
\* forgotten; one that is alive is not stopped by this.
ResetFields ==
    /\ init = "init"
    /\ setpoint' = 0 /\ current' = 0 /\ rampTask' = None
    /\ ramp' = [t \in Tasks |-> IF Live(t) THEN ramp[t] ELSE Over]
    /\ strayed' = (strayed /\ \E t \in Tasks : Live(t))
    /\ UNCHANGED <<late, link, supply, exported, requests>>

\* ramp_rate is not positive, or the port cannot be opened.
InitRefused ==
    /\ ResetFields
    /\ ser' = "none" /\ state' = "FAULT"
    /\ init' = "restore"

InitOpens ==
    /\ ResetFields
    /\ link
    /\ ser' = "open"
    /\ init' = "query"
    /\ UNCHANGED state

\* self._current = await self._query_current()
InitQueries ==
    /\ init = "query" /\ link /\ ser = "open"
    /\ current' = supply /\ setpoint' = supply
    /\ state' = "ON"
    /\ init' = "restore"
    /\ UNCHANGED <<ramps, line, exported, requests, strayed>>

InitQueryFails ==
    /\ init = "query" /\ (~link \/ ser # "open")
    /\ state' = "FAULT"
    /\ init' = "restore"
    /\ UNCHANGED <<setpoint, current, ramps, line, exported, requests, strayed>>

\* hw_memorized: the stored setpoint is written back, if is_setpoint_allowed().
Restore ==
    /\ init = "restore"
    /\ db # None /\ state \in OPERATOR_STATES
    /\ StartRamp(db)
    /\ init' = "idle" /\ exported' = TRUE
    /\ UNCHANGED <<state, current, line, requests>>

NoRestore ==
    /\ init = "restore"
    /\ db = None \/ state \notin OPERATOR_STATES
    /\ init' = "idle" /\ exported' = TRUE
    /\ UNCHANGED <<device, ramps, line, requests, strayed>>

InitStep == \/ DeleteCancels \/ DeleteRaises \/ DeleteFrees \/ InitRefused \/ InitOpens
            \/ InitQueries \/ InitQueryFails \/ Restore \/ NoRestore

-----------------------------------------------------------------------------
(* The serial line, and kills of the server *)

LinkChanges ==
    /\ LinkFails
    /\ link' = ~link
    /\ ser' = IF link /\ ser = "open" THEN "dead" ELSE ser
    /\ UNCHANGED <<device, ramps, supply, inits, requests, strayed>>

Crash ==
    /\ state' = "UNKNOWN" /\ setpoint' = 0 /\ current' = 0
    /\ rampTask' = None /\ ramp' = [t \in Tasks |-> Over] /\ late' = {}
    /\ ser' = "none"
    /\ init' = "init" /\ exported' = FALSE
    /\ writer' = NoWriter /\ resetter' = "idle" /\ strayed' = FALSE
    /\ UNCHANGED <<link, supply, db, acked>>

RequestStep == WriteSetpoint \/ WriteMemorized \/ Reset

Next ==
    \/ \E t \in Tasks : RampStep(t)
    \/ \E v \in Currents : LateWrite(v)
    \/ \E v \in Setpoints : WriteAllowed(v)
    \/ ResetAllowed
    \/ RequestStep
    \/ ReadState
    \/ RequestInit
    \/ InitStep
    \/ LinkChanges
    \/ Crash

Spec == Init /\ [][Next]_vars

\* The event loop and the worker threads keep running, and a request that has
\* begun is carried through; nothing obliges a client to begin one.
FairSpec ==
    /\ Spec
    /\ \A t \in Tasks : WF_vars(RampStep(t))
    /\ WF_vars(RequestStep)
    /\ WF_vars(InitStep)

-----------------------------------------------------------------------------
(* Properties *)

Stopped == \A t \in Tasks : ~Live(t)
NoneFailed == \A t \in Tasks : ramp[t].pc # "failed"

\* "a truthful MOVING state" (lines 5-6): a device that says MOVING is ramping.
MovingIsTruthful == init = "idle" /\ state = "MOVING" => ~Stopped

\* What is left of it: a device that says MOVING is ramping, or a serial error has ended
\* a ramp; and from its first step to its arrival a ramp shows as MOVING, unless a ramp
\* was created while an Init was under way, and two share the state.
MovingUntilArrival ==
    init = "idle" =>
        /\ state = "MOVING" => ~(Stopped /\ NoneFailed)
        /\ (\E t \in Tasks : ramp[t].pc \in {"write", "sleep"}) =>
              strayed \/ state = "MOVING"

\* "Cancellation (a new setpoint, Reset, Init) ends the loop at an await" (line
\* 106): there is never a second ramp, and the one there is is self._ramp_task, however
\* a write, a Reset and an Init overlap; but for a write or Reset that runs in an await
\* of Init after the cancellation: its ramp is forgotten by lines 84 and 53.
OneRamp == \A t \in Tasks : Live(t) => t = rampTask \/ strayed

\* "delete_device() still cancels the ramp, so that a leftover task can't write to
\* the closed serial port" (tests/magnet/test_magnet_power_supply.py, lines
\* 251-252): when delete_device() has closed the port, no ramp is left, if none was
\* created after the cancellation.
DeleteStopsRamps == init \in {"init", "query"} => Stopped \/ strayed

\* "setpoint is memorized and restored after every (re)start ... a restart after a
\* Reset stays at 0 A" (lines 18-20): with no request in progress, what the last
\* write or Reset asked for, if it was acknowledged and was not overtaken, is what the
\* database holds and what the device ramps to, after kills and Inits too.
RestartKeepsSetpoint ==
    (Quiet /\ acked # None /\ state \in OPERATOR_STATES /\ ~strayed) =>
        db = acked /\ setpoint = acked

\* Once clients leave it alone and no serial error ends a ramp, the device comes to
\* rest at its setpoint and says so, unless it is FAULT, or Init has left a ramp behind.
EventuallySettles ==
    <>[](Quiet /\ NoneFailed /\ ~strayed) =>
        <>[](state = "FAULT" \/ (state \in {"ON", "ALARM"} /\ current = setpoint))

=============================================================================
