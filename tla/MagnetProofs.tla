---------------------------- MODULE MagnetProofs ----------------------------
(***************************************************************************)
(* Theorems about MagnetPowerSupply and MagnetScan, with writes, Resets    *)
(* and Inits that run in each other's awaits: types, the one ramp, what    *)
(* MOVING says, what a restart restores, and where a scan's points are.    *)
(* None of them assumes anything of the clients.                           *)
(***************************************************************************)
EXTENDS MagnetScan, TLAPS

\* A step of the ramp stays between the current and the target.
LEMMA TowardsInRange ==
    ASSUME NEW c \in Currents, NEW v \in Currents
    PROVE  Towards(c, v) \in Currents
BY MagnetAssumption DEF Towards, Currents

\* A new ramp keeps the types of what setpoint's setter assigns.
LEMMA StartRampTypes ==
    ASSUME TypeOK, NEW v \in Currents, StartRamp(v)
    PROVE  /\ setpoint' \in Currents /\ rampTask' \in Tasks \cup {None}
           /\ ramp' \in [Tasks -> [pc : {"free", "new", "write", "sleep", "failed"},
                                   target : Currents, sending : Currents]]
           /\ late' \in SUBSET Currents /\ strayed' \in BOOLEAN
<1>1. PICK t \in Tasks :
        /\ setpoint' = v
        /\ late' \in LateAfterCancel(rampTask)
        /\ ramp' = [u \in Tasks |->
                      IF u = t THEN [pc |-> "new", target |-> v, sending |-> 0]
                      ELSE IF u = rampTask THEN Over ELSE ramp[u]]
        /\ rampTask' = t
  BY DEF StartRamp
<1>2. 0 \in Currents
  BY MagnetAssumption DEF Currents
<1>3. late' \in SUBSET Currents
  BY <1>1 DEF LateAfterCancel, TypeOK
<1>4. strayed' \in BOOLEAN
  BY Zenon DEF StartRamp
<1> QED
  BY <1>1, <1>2, <1>3, <1>4 DEF TypeOK, Over

-----------------------------------------------------------------------------
(* Types *)

\* What a new process starts with has its type.
LEMMA FreshTypes ==
    /\ 0 \in Currents
    /\ NoWriter \in [pc : {"idle", "allowed", "memorize"}, value : Currents]
    /\ [t \in Tasks |-> Over] \in [Tasks -> [pc : {"free", "new", "write", "sleep", "failed"},
                                             target : Currents, sending : Currents]]
<1>1. 0 \in Currents
  BY MagnetAssumption DEF Currents
<1> QED
  BY <1>1 DEF NoWriter, Over

LEMMA InitTypes == Init => TypeOK
BY FreshTypes DEF Init, TypeOK

\* A step of a ramp task keeps the types.
LEMMA RampTypes ==
    ASSUME TypeOK, NEW t \in Tasks, RampStep(t)
    PROVE  TypeOK'
<1> USE DEF TypeOK, ramps, line, inits, requests, device
<1>1. CASE RampTicks(t)
  <2>1. CASE RampArrives(t)
    BY <1>1, <2>1, MagnetAssumption DEF RampTicks, RampArrives, Over, Currents, OPERATOR_STATES
  <2>2. CASE RampMoves(t)
    <3>1. current' \in Currents
      BY <2>2, TowardsInRange DEF RampMoves
    <3>2. ramp' \in [Tasks -> [pc : {"free", "new", "write", "sleep", "failed"},
                               target : Currents, sending : Currents]]
      BY <2>2, <3>1 DEF RampMoves
    <3>3. state' \in OPERATOR_STATES \cup {"UNKNOWN", "FAULT"}
      BY <2>2 DEF RampMoves, RampBegins, OPERATOR_STATES
    <3> QED
      BY <1>1, <3>1, <3>2, <3>3 DEF RampTicks
  <2> QED
    BY <1>1, <2>1, <2>2 DEF RampTicks
<1>2. CASE RampWrites(t)
  <2>1. supply' \in Currents
    BY <1>2 DEF RampWrites, Curr
  <2>2. [ramp[t] EXCEPT !.pc = "sleep", !.sending = 0]
          \in [pc : {"free", "new", "write", "sleep", "failed"},
               target : Currents, sending : Currents]
    BY FreshTypes
  <2>3. ramp' \in [Tasks -> [pc : {"free", "new", "write", "sleep", "failed"},
                             target : Currents, sending : Currents]]
    BY <1>2, <2>2 DEF RampWrites
  <2> QED
    BY <1>2, <2>1, <2>3 DEF RampWrites
<1>3. CASE RampFails(t)
  BY <1>3, MagnetAssumption DEF RampFails, Over, Currents
<1> QED
  BY <1>1, <1>2, <1>3 DEF RampStep

\* A step of a write, a Reset or a State read keeps the types.
LEMMA RequestTypes ==
    ASSUME TypeOK,
           RequestStep \/ ResetAllowed \/ ReadState \/ \E v \in Setpoints : WriteAllowed(v)
    PROVE  TypeOK'
<1> USE DEF TypeOK, ramps, line, inits, requests, device
<1>0. 0 \in Currents
  BY MagnetAssumption DEF Currents
<1>1. CASE WriteSetpoint
  BY <1>1, StartRampTypes DEF WriteSetpoint
<1>2. CASE WriteMemorized
  BY <1>0, <1>2 DEF WriteMemorized, NoWriter
<1>3. CASE Reset
  BY <1>0, <1>3, StartRampTypes DEF Reset
<1>4. CASE ResetAllowed
  BY <1>4 DEF ResetAllowed
<1>5. CASE ReadState
  BY <1>5 DEF ReadState, OPERATOR_STATES
<1>6. CASE \E v \in Setpoints : WriteAllowed(v)
  BY <1>6, MagnetAssumption DEF WriteAllowed
<1> QED
  BY <1>1, <1>2, <1>3, <1>4, <1>5, <1>6 DEF RequestStep

\* A step of Init keeps the types.
LEMMA InitStepTypes ==
    ASSUME TypeOK, InitStep
    PROVE  TypeOK'
<1> USE DEF TypeOK, ramps, line, inits, requests, device
<1>0. 0 \in Currents
  BY MagnetAssumption DEF Currents
<1>1. CASE DeleteCancels
  <2>1. late' \in SUBSET Currents
    BY <1>1 DEF DeleteCancels, LateAfterCancel
  <2> QED
    BY <1>0, <1>1, <2>1 DEF DeleteCancels, Over
<1>2. CASE DeleteRaises
  BY <1>2 DEF DeleteRaises
<1>3. CASE DeleteFrees
  BY <1>3 DEF DeleteFrees
<1>4. ASSUME ResetFields
      PROVE  /\ setpoint' \in Currents /\ current' \in Currents
             /\ rampTask' \in Tasks \cup {None}
             /\ ramp' \in [Tasks -> [pc : {"free", "new", "write", "sleep", "failed"},
                                     target : Currents, sending : Currents]]
             /\ strayed' \in BOOLEAN
  <2>1. strayed' \in BOOLEAN
    BY <1>4, Zenon DEF ResetFields
  <2> QED
    BY <1>0, <1>4, <2>1 DEF ResetFields, Over
<1>5. CASE InitRefused
  BY <1>4, <1>5 DEF InitRefused, ResetFields
<1>6. CASE InitOpens
  BY <1>4, <1>6 DEF InitOpens, ResetFields
<1>7. CASE InitQueries
  BY <1>7 DEF InitQueries, OPERATOR_STATES
<1>8. CASE InitQueryFails
  BY <1>8 DEF InitQueryFails
<1>9. CASE Restore
  BY <1>9, StartRampTypes DEF Restore
<1>10. CASE NoRestore
  BY <1>10 DEF NoRestore
<1> QED
  BY <1>1, <1>2, <1>3, <1>5, <1>6, <1>7, <1>8, <1>9, <1>10 DEF InitStep

LEMMA NextTypes ==
    ASSUME TypeOK, [Next]_vars
    PROVE  TypeOK'
<1> USE DEF TypeOK, ramps, line, inits, requests, device
<1>1. CASE \E t \in Tasks : RampStep(t)
  BY <1>1, RampTypes
<1>2. CASE \E v \in Currents : LateWrite(v)
  BY <1>2 DEF LateWrite, Curr
<1>3. CASE RequestStep \/ ResetAllowed \/ ReadState \/ \E v \in Setpoints : WriteAllowed(v)
  BY <1>3, RequestTypes
<1>4. CASE RequestInit
  BY <1>4 DEF RequestInit
<1>5. CASE InitStep
  BY <1>5, InitStepTypes
<1>6. CASE LinkChanges
  BY <1>6 DEF LinkChanges
<1>7. CASE Crash
  BY <1>7, FreshTypes DEF Crash
<1>8. CASE UNCHANGED vars
  BY <1>8 DEF vars
<1> QED
  BY <1>1, <1>2, <1>3, <1>4, <1>5, <1>6, <1>7, <1>8 DEF Next

\* The device, its tasks and requests keep their types, whatever the clients, the
\* serial line and kills do.
THEOREM MagnetTypeCorrect == Spec => []TypeOK
BY InitTypes, NextTypes, PTL DEF Spec

-----------------------------------------------------------------------------
(* One ramp *)

\* Unless a ramp was created after delete_device() had cancelled the one it knew, none is
\* alive until init_device() is through.
InitTidy == PastCancel => strayed \/ \A t \in Tasks : ~Live(t)

RampInv == TypeOK /\ OneRamp /\ InitTidy

\* The cancelled ramp is replaced by the new one, which has not begun and goes to v;
\* there is no other one, unless it has strayed.
LEMMA StartRampAnew ==
    ASSUME RampInv, NEW v, StartRamp(v)
    PROVE  /\ PastCancel => strayed'
           /\ \E t \in Tasks : Live(t)'
           /\ ~strayed' =>
                 /\ \A t \in Tasks : Live(t)' => t = rampTask'
                 /\ \A t \in Tasks : Live(t)' => ramp'[t].pc = "new" /\ ramp'[t].target = v
                 /\ \A t \in Tasks : ramp'[t].pc \notin {"write", "sleep"}
<1>1. PICK t \in Tasks :
        /\ ramp' = [u \in Tasks |->
                      IF u = t THEN [pc |-> "new", target |-> v, sending |-> 0]
                      ELSE IF u = rampTask THEN Over ELSE ramp[u]]
        /\ rampTask' = t
        /\ strayed' = \/ PastCancel
                      \/ strayed /\ \E u \in Tasks \ {rampTask} : ramp[u].pc # "free"
  BY DEF StartRamp
<1>2. ramp'[t].pc = "new" /\ ramp'[t].target = v
  BY <1>1
<1>3. \A u \in Tasks : u # t /\ u = rampTask => ramp'[u].pc = "free"
  BY <1>1 DEF Over
<1>4. \A u \in Tasks : u # t /\ u # rampTask => ramp'[u] = ramp[u]
  BY <1>1
<1>5. ASSUME ~strayed', NEW u \in Tasks, u # t PROVE ramp'[u].pc \notin {"new", "write", "sleep"}
  <2>1. CASE strayed
    <3>1. u # rampTask => ramp[u].pc = "free"
      BY <1>1, <1>5, <2>1
    <3> QED
      BY <1>3, <1>4, <1>5, <3>1
  <2>2. CASE ~strayed
    BY <1>3, <1>4, <1>5, <2>2 DEF RampInv, OneRamp, Live
  <2> QED
    BY <2>1, <2>2
<1> QED
  BY <1>1, <1>2, <1>5 DEF Live

LEMMA RampInvariant ==
    ASSUME RampInv, TypeOK', [Next]_vars
    PROVE  RampInv'
<1> USE DEF RampInv, InitTidy, PastCancel, OneRamp, Live, ramps, line, inits, requests, device
<1>1. ASSUME NEW t \in Tasks, RampStep(t)
      PROVE  OneRamp' /\ InitTidy'
  <2>1. Live(t) /\ (\A u \in Tasks : Live(u)' => Live(u))
    <3>1. CASE RampTicks(t)
      BY <3>1 DEF RampTicks, RampArrives, RampMoves, Over, TypeOK
    <3>2. CASE RampWrites(t)
      BY <3>2 DEF RampWrites, TypeOK
    <3>3. CASE RampFails(t)
      BY <3>3 DEF RampFails, Over, TypeOK
    <3> QED
      BY <1>1, <3>1, <3>2, <3>3 DEF RampStep
  <2>2. UNCHANGED <<rampTask, init, strayed>>
    BY <1>1 DEF RampStep, RampTicks, RampWrites, RampFails
  <2> QED
    BY <2>1, <2>2
<1>2. CASE UNCHANGED <<rampTask, ramp, init, strayed>>
  BY <1>2
<1>3. CASE WriteSetpoint \/ Reset \/ Restore
  <2>1. PICK v : StartRamp(v)
    BY <1>3 DEF WriteSetpoint, Reset, Restore
  <2>2. UNCHANGED init \/ init' = "idle"
    BY <1>3 DEF WriteSetpoint, Reset, Restore
  <2>3. /\ PastCancel => strayed'
        /\ ~strayed' => \A t \in Tasks : Live(t)' => t = rampTask'
    BY <2>1, StartRampAnew
  <2>4. OneRamp'
    BY <2>3
  <2>5. InitTidy'
    BY <2>2, <2>3
  <2>6. RampInv'
    BY <2>4, <2>5
  <2> QED
    BY <2>6
<1>4. CASE RequestInit
  BY <1>4 DEF RequestInit
<1>5. CASE InitStep
  <2>1. CASE DeleteCancels
    BY <2>1 DEF DeleteCancels, TypeOK, Over
  <2>2. CASE DeleteRaises
    BY <2>2 DEF DeleteRaises
  <2>3. CASE DeleteFrees
    BY <2>3 DEF DeleteFrees
  <2>4. CASE InitRefused \/ InitOpens
    <3>1. init = "init" /\ ResetFields
      BY <2>4 DEF InitRefused, InitOpens, ResetFields
    <3>2. strayed' = (strayed /\ \E t \in Tasks : Live(t))
          /\ \A t \in Tasks : Live(t)' => Live(t)
      BY <3>1 DEF ResetFields, Over
    <3> QED
      BY <3>1, <3>2
  <2>5. CASE InitQueries \/ InitQueryFails
    BY <2>5 DEF InitQueries, InitQueryFails
  <2>6. CASE NoRestore
    BY <2>6 DEF NoRestore
  <2> QED
    BY <1>3, <1>5, <2>1, <2>2, <2>3, <2>4, <2>5, <2>6 DEF InitStep
<1>6. CASE Crash
  BY <1>6 DEF Crash, Over
<1>7. CASE \/ \E v \in Currents : LateWrite(v)
           \/ ResetAllowed \/ WriteMemorized \/ ReadState \/ LinkChanges
           \/ \E v \in Setpoints : WriteAllowed(v)
           \/ UNCHANGED vars
  <2>1. UNCHANGED <<rampTask, ramp, init, strayed>>
    BY <1>7 DEF LateWrite, WriteAllowed, WriteMemorized, ResetAllowed, ReadState, LinkChanges,
       vars
  <2> QED
    BY <1>2, <2>1
<1> QED
  BY <1>1, <1>3, <1>4, <1>5, <1>6, <1>7 DEF Next, RequestStep

LEMMA InitRampInv == Init => RampInv
BY InitTypes DEF Init, RampInv, OneRamp, InitTidy, PastCancel, Live, Over

LEMMA RampInvHolds == Spec => []RampInv
<1>1. RampInv /\ TypeOK' /\ [Next]_vars => RampInv'
  BY RampInvariant
<1> QED
  BY <1>1, InitRampInv, MagnetTypeCorrect, PTL DEF Spec

\* "Cancellation (a new setpoint, Reset, Init) ends the loop": the one ramp alive is
\* self._ramp_task, however writes, Resets, Inits, kills and serial errors come, unless
\* one was created in an Init's awaits, after the cancellation.
THEOREM MagnetHasOneRamp == Spec => []OneRamp
<1>1. RampInv => OneRamp
  BY DEF RampInv
<1> QED
  BY <1>1, RampInvHolds, PTL

\* No ramp is left when delete_device() has closed the port, if none was created after
\* the cancellation.
THEOREM MagnetDeleteStopsRamps == Spec => []DeleteStopsRamps
<1>1. RampInv => DeleteStopsRamps
  BY DEF RampInv, InitTidy, PastCancel, DeleteStopsRamps, Stopped
<1> QED
  BY <1>1, RampInvHolds, PTL

-----------------------------------------------------------------------------
(* MOVING *)

\* While no Init has gone past the cancellation, a device that says MOVING has a ramp,
\* or one that failed; and it says so from a ramp's first step until it is over.  The
\* restore finds a device of which this holds too.
Settled == init \in {"idle", "delete", "restore"}

MovingInv ==
    Settled =>
        /\ state = "MOVING" => ~(Stopped /\ NoneFailed)
        /\ (\E t \in Tasks : ramp[t].pc \in {"write", "sleep"}) => strayed \/ state = "MOVING"

LEMMA MovingInvariant ==
    ASSUME RampInv, MovingInv, [Next]_vars
    PROVE  MovingInv'
<1> USE DEF MovingInv, Settled, Stopped, NoneFailed, ramps, line, inits, requests, device
<1>0. Stopped /\ NoneFailed <=> \A t \in Tasks : ~Live(t) /\ ramp[t].pc # "failed"
  OBVIOUS
<1>1. ASSUME NEW t \in Tasks, RampStep(t) PROVE MovingInv'
  <2>1. /\ Live(t) /\ UNCHANGED <<init, strayed>>
        /\ \A u \in Tasks : u # t => ramp'[u] = ramp[u]
        /\ ~strayed => \A u \in Tasks : u # t => ~Live(u)
    <3>1. UNCHANGED <<init, strayed>> /\ Live(t)
      BY <1>1 DEF RampStep, RampTicks, RampWrites, RampFails, Live
    <3>2. \A u \in Tasks : u # t => ramp'[u] = ramp[u]
      BY <1>1
      DEF RampStep, RampTicks, RampArrives, RampMoves, RampWrites, RampFails, RampInv, TypeOK
    <3> QED
      BY <3>1, <3>2 DEF RampInv, OneRamp
  <2>2. ramp \in [Tasks -> [pc : {"free", "new", "write", "sleep", "failed"},
                            target : Currents, sending : Currents]]
    BY DEF RampInv, TypeOK
  <2>3. CASE RampTicks(t) /\ RampArrives(t)
    <3>1. state' = "ON" /\ ramp'[t].pc = "free"
      BY <2>2, <2>3 DEF RampTicks, RampArrives, Over
    <3> QED
      BY <2>1, <3>1 DEF Live
  <2>4. CASE RampTicks(t) /\ RampMoves(t)
    <3>1. ramp'[t].pc = "write" /\ ramp[t].pc \in {"new", "sleep"}
          /\ state' = IF ramp[t].pc = "new" THEN "MOVING" ELSE state
      BY <2>2, <2>4 DEF RampTicks, RampMoves, RampBegins
    <3> QED
      BY <2>1, <3>1 DEF Live
  <2>5. CASE RampWrites(t)
    <3>1. ramp'[t].pc = "sleep" /\ ramp[t].pc = "write" /\ UNCHANGED state
      BY <2>2, <2>5 DEF RampWrites
    <3> QED
      BY <2>1, <3>1 DEF Live
  <2>6. CASE RampFails(t)
    <3>1. ramp'[t].pc = "failed" /\ UNCHANGED state
      BY <2>2, <2>6 DEF RampFails, Over
    <3> QED
      BY <2>1, <3>1 DEF Live
  <2> QED
    BY <1>1, <2>3, <2>4, <2>5, <2>6 DEF RampStep, RampTicks
<1>2. CASE UNCHANGED <<state, ramp, init, strayed>>
  BY <1>2 DEF Live
<1>3. CASE WriteSetpoint \/ Reset \/ Restore
  <2>1. PICK v : StartRamp(v)
    BY <1>3 DEF WriteSetpoint, Reset, Restore
  <2>2. /\ \E t \in Tasks : Live(t)'
        /\ ~strayed' => \A t \in Tasks : ramp'[t].pc \notin {"write", "sleep"}
    BY <2>1, StartRampAnew
  <2> QED
    BY <2>2
<1>4. CASE ReadState
  <2>1. /\ UNCHANGED <<ramp, init, strayed>>
        /\ state \in {"ON", "ALARM"} /\ state' \in {"ON", "ALARM"}
    BY <1>4 DEF ReadState
  <2> QED
    BY <2>1 DEF Live
<1>5. CASE RequestInit \/ DeleteRaises \/ NoRestore
  BY <1>5 DEF RequestInit, DeleteRaises, NoRestore, Live
<1>6. CASE DeleteCancels \/ DeleteFrees \/ InitOpens \/ Crash
  BY <1>6 DEF DeleteCancels, DeleteFrees, InitOpens, Crash
<1>7. CASE InitRefused
  <2>1. state' = "FAULT" /\ PastCancel
        /\ strayed' = (strayed /\ \E t \in Tasks : Live(t))
        /\ \A t \in Tasks : Live(t)' => Live(t)
    BY <1>7 DEF InitRefused, ResetFields, Live, Over, PastCancel
  <2>2. strayed' \/ \A t \in Tasks : ~Live(t)'
    BY <2>1 DEF RampInv, InitTidy
  <2> QED
    BY <2>1, <2>2 DEF Live
<1>8. CASE InitQueries \/ InitQueryFails
  <2>1. state' # "MOVING" /\ PastCancel /\ UNCHANGED <<ramp, strayed>>
    BY <1>8 DEF InitQueries, InitQueryFails, PastCancel
  <2>2. strayed \/ \A t \in Tasks : ~Live(t)
    BY <2>1 DEF RampInv, InitTidy
  <2> QED
    BY <2>1, <2>2 DEF Live
<1> QED
  BY <1>1, <1>2, <1>3, <1>4, <1>5, <1>6, <1>7, <1>8
  DEF Next, RequestStep, InitStep, LateWrite, WriteAllowed, ResetAllowed, WriteMemorized,
      LinkChanges, vars

LEMMA InitMovingInv == Init => MovingInv
BY DEF Init, MovingInv, Settled

\* "a truthful MOVING state" (lines 5-6): a device that says MOVING is ramping, or a serial
\* error ended its ramp, whatever overlaps; and it says so until the ramp is over, unless
\* one was created in an Init's awaits.
THEOREM MagnetMovingUntilArrival == Spec => []MovingUntilArrival
<1>1. RampInv /\ MovingInv /\ [Next]_vars => MovingInv'
  BY MovingInvariant
<1>2. MovingInv => MovingUntilArrival
  BY DEF MovingInv, Settled, MovingUntilArrival
<1> QED
  BY <1>1, <1>2, InitMovingInv, RampInvHolds, PTL DEF Spec

-----------------------------------------------------------------------------
(* The memorized setpoint *)

\* What was acknowledged is in the database; and it is where a ramp goes, and the setpoint
\* of an operational device that no Init is restarting, as soon as a write that changed it
\* is memorized.
KeepInv ==
    /\ acked # None => db = acked
    /\ (acked # None /\ writer.pc # "memorize" /\ ~strayed) =>
          /\ (Settled /\ \E t \in Tasks : Live(t)) => setpoint = acked
          /\ (init \in {"idle", "delete"} /\ state \in OPERATOR_STATES) => setpoint = acked

LEMMA KeepInvariant ==
    ASSUME RampInv, KeepInv, [Next]_vars
    PROVE  KeepInv'
<1> USE DEF KeepInv, Settled, ramps, line, inits, requests, device
<1>1. ASSUME NEW t \in Tasks, RampStep(t) PROVE KeepInv'
  <2>1. UNCHANGED <<setpoint, inits, requests, strayed>> /\ Live(t)
    BY <1>1 DEF RampStep, RampTicks, RampWrites, RampFails, Live
  <2> QED
    BY <2>1
<1>2. CASE LinkChanges \/ ReadState \/ UNCHANGED vars \/ \E v \in Currents : LateWrite(v)
  BY <1>2 DEF LinkChanges, ReadState, vars, LateWrite, Live, OPERATOR_STATES
<1>3. CASE ResetAllowed \/ \E v \in Setpoints : WriteAllowed(v)
  BY <1>3 DEF ResetAllowed, WriteAllowed
<1>4. CASE WriteSetpoint
  <2>1. writer' = [writer EXCEPT !.pc = "memorize"] /\ UNCHANGED <<db, acked>>
    BY <1>4 DEF WriteSetpoint
  <2>2. writer'.pc = "memorize"
    BY <2>1 DEF RampInv, TypeOK
  <2> QED
    BY <2>1, <2>2
<1>5. CASE WriteMemorized
  BY <1>5 DEF WriteMemorized, Live
<1>6. CASE Reset
  <2>1. setpoint' = 0
    BY <1>6 DEF Reset, StartRamp
  <2> QED
    BY <1>6, <2>1 DEF Reset
<1>7. CASE RequestInit \/ DeleteRaises
  BY <1>7 DEF RequestInit, DeleteRaises, Live
<1>8. CASE DeleteCancels \/ DeleteFrees \/ InitOpens
  BY <1>8 DEF DeleteCancels, DeleteFrees, InitOpens, ResetFields
<1>9. CASE InitRefused
  <2>1. init' = "restore" /\ PastCancel /\ UNCHANGED requests
        /\ strayed' = (strayed /\ \E t \in Tasks : Live(t))
        /\ \A t \in Tasks : Live(t)' => Live(t)
    BY <1>9 DEF InitRefused, ResetFields, Live, Over, PastCancel
  <2>2. strayed' \/ \A t \in Tasks : ~Live(t)'
    BY <2>1 DEF RampInv, InitTidy
  <2> QED
    BY <2>1, <2>2
<1>10. CASE InitQueries \/ InitQueryFails
  <2>1. init' = "restore" /\ PastCancel /\ UNCHANGED <<ramp, strayed, requests>>
    BY <1>10 DEF InitQueries, InitQueryFails, PastCancel
  <2>2. strayed \/ \A t \in Tasks : ~Live(t)
    BY <2>1 DEF RampInv, InitTidy
  <2> QED
    BY <2>1, <2>2 DEF Live
<1>11. CASE Restore
  <2>1. setpoint' = db
    BY <1>11 DEF Restore, StartRamp
  <2> QED
    BY <1>11, <2>1 DEF Restore
<1>12. CASE NoRestore
  BY <1>12, MagnetAssumption DEF NoRestore, Live
<1>13. CASE Crash
  BY <1>13 DEF Crash
<1> QED
  BY <1>1, <1>2, <1>3, <1>4, <1>5, <1>6, <1>7, <1>8, <1>9, <1>10, <1>11, <1>12, <1>13
  DEF Next, RequestStep, InitStep

LEMMA InitKeepInv == Init => KeepInv
BY DEF Init, KeepInv

\* "a restart after a Reset stays at 0 A" (lines 18-20): an operational device at rest ramps
\* to what was last acknowledged and not overtaken, in whatever order writes, Resets and
\* Inits run in each other's awaits, after any number of kills and lost lines.
THEOREM MagnetRestartKeepsSetpoint == Spec => []RestartKeepsSetpoint
<1>1. RampInv /\ KeepInv /\ [Next]_vars => KeepInv'
  BY KeepInvariant
<1>2. KeepInv => RestartKeepsSetpoint
  BY DEF KeepInv, RestartKeepsSetpoint, Quiet
<1> QED
  BY <1>1, <1>2, InitKeepInv, RampInvHolds, PTL DEF Spec

-----------------------------------------------------------------------------
(***************************************************************************)
(* MagnetScan.  A scan and the clients around it are clients of the magnet *)
(* like any other, so that what is proved of the magnet holds under a      *)
(* scan; and the points of a motion that nobody interferes with are where  *)
(* they say they are.                                                      *)
(***************************************************************************)

\* Every step of the composition is one of the magnet, or leaves it alone.
LEMMA ScanStepIsMagnetStep ==
    ASSUME TypeOK, ScanNext
    PROVE  [Next]_vars
<1>1. CASE StateOne
  <2>1. CASE state \in {"ON", "ALARM"}
    BY <1>1, <2>1 DEF StateOne, StateRead, ReadState, Next
  <2>2. CASE state \notin {"ON", "ALARM"}
    BY <1>1, <2>2 DEF StateOne, StateRead, vars, device
  <2> QED
    BY <2>1, <2>2
<1>2. CASE StateOneUnreachable \/ ReadOne
  BY <1>2 DEF StateOneUnreachable, ReadOne
<1>3. CASE Undisturbing
  BY <1>3 DEF Undisturbing, Next, RequestStep
<1>4. CASE Disturbing
  BY <1>4 DEF Disturbing, Next, RequestStep
<1>5. CASE StartOneReturns \/ ServerCrash \/ \E v \in Setpoints : StartOne(v)
  BY <1>5 DEF StartOneReturns, ServerCrash, StartOne, Next, RequestStep
<1> QED
  BY <1>1, <1>2, <1>3, <1>4, <1>5 DEF ScanNext

\* The magnet under a scan behaves as a magnet: nothing that holds of it with any
\* clients is lost by the controller.
THEOREM ScanImplementsMagnet == ScanSpec => Spec
<1>1. ScanInit => Init /\ TypeOK
  BY InitTypes DEF ScanInit
<1>2. TypeOK /\ [ScanNext]_scanVars => [Next]_vars
  BY ScanStepIsMagnetStep DEF scanVars
<1>3. TypeOK /\ [Next]_vars => TypeOK'
  BY NextTypes
<1> QED
  BY <1>1, <1>2, <1>3, PTL DEF ScanSpec, Spec

-----------------------------------------------------------------------------
(* A motion *)

InMotion == scan.pc \in {"starting", "moving", "arrived"}

\* The write of the setpoint is the only request, and what it memorizes is restored;
\* a device that serves requests has a state, and ramps in an operational one only.
StartInv ==
    /\ resetter = "idle" /\ init \notin {"delete", "awaiting"}
    /\ init \in {"idle", "restore"} => state # "UNKNOWN"
    /\ writer.pc = "allowed" \/ ~strayed
    /\ init = "restore" => \A t \in Tasks : ~Live(t)
    /\ (init = "idle" /\ (writer.pc = "allowed" \/ \E t \in Tasks : Live(t))) =>
          state \in OPERATOR_STATES
    /\ IF scan.pc = "starting"
       THEN writer.pc # "idle" /\ writer.value = scan.target /\ init = "idle"
       ELSE writer.pc = "idle" /\ db = scan.target

\* The supply is where the ramp left it: no cancelled write is on its way, and only
\* the write under way is missing.
FollowInv ==
    /\ late = {}
    /\ writer.pc = "allowed" => supply = current /\ \A t \in Tasks : ramp[t].pc = "free"
    /\ \A t \in Tasks :
          /\ Live(t) => ramp[t].target = scan.target
          /\ ramp[t].pc \in {"new", "sleep"} => supply = current
          /\ ramp[t].pc = "write" => ramp[t].sending = current
    /\ init = "restore" /\ state \in OPERATOR_STATES => supply = current

\* An operational device is on its way to the target, stuck, or there; a motion that
\* has arrived stays there.
ArriveInv ==
    /\ (init = "idle" /\ state \in OPERATOR_STATES /\ writer.pc # "allowed") =>
           \/ \E t \in Tasks : Live(t)
           \/ state = "MOVING"
           \/ current = scan.target /\ supply = scan.target
    /\ scan.pc = "arrived" =>
           /\ supply = scan.target
           /\ \A t \in Tasks : Live(t) => ramp[t].pc = "new"
           /\ init = "idle" /\ state \in OPERATOR_STATES => current = scan.target

MotionInv == InMotion => StartInv /\ FollowInv /\ ArriveInv

ScanInv == ScanTypeOK /\ MotionInv

\* A cancellation that finds no write under way leaves none.
LEMMA NothingLate ==
    ASSUME late = {}, \A t \in Tasks : ramp[t].pc # "write", NEW v, StartRamp(v)
    PROVE  late' = {}
BY DEF StartRamp, LateAfterCancel

\* A step of the ramp, in a motion.
LEMMA RampMotion ==
    ASSUME RampInv, MovingInv, StartInv, FollowInv, ArriveInv,
           NEW t \in Tasks, RampStep(t), UNCHANGED scan
    PROVE  StartInv' /\ FollowInv' /\ ArriveInv'
<1> USE DEF ramps, line, inits, requests, device
<1>1. /\ Live(t) /\ \A u \in Tasks : u # t => ~Live(u)
      /\ \A u \in Tasks : u # t => ramp'[u] = ramp[u]
      /\ writer.pc # "allowed" /\ ~strayed
  <2>1. Live(t) /\ writer.pc # "allowed" /\ ~strayed
    BY DEF RampStep, RampTicks, RampWrites, RampFails, Live, FollowInv, StartInv
  <2>2. \A u \in Tasks : u # t => ramp'[u] = ramp[u]
    BY
    DEF RampStep, RampTicks, RampArrives, RampMoves, RampWrites, RampFails, RampInv, TypeOK
  <2> QED
    BY <2>1, <2>2 DEF RampInv, OneRamp
<1>2. /\ UNCHANGED <<rampTask, late, inits, requests, strayed>>
      /\ ramp \in [Tasks -> [pc : {"free", "new", "write", "sleep", "failed"},
                             target : Currents, sending : Currents]]
  BY DEF RampStep, RampTicks, RampWrites, RampFails, RampInv, TypeOK
<1>3. /\ init = "idle" /\ writer.pc # "allowed" /\ state \in OPERATOR_STATES
  <2>1. init \in {"idle", "delete", "awaiting", "init", "query", "restore"}
    BY DEF RampInv, TypeOK
  <2>2. init = "idle"
    BY <1>1, <2>1 DEF RampInv, InitTidy, PastCancel, StartInv
  <2> QED
    BY <1>1, <2>2 DEF StartInv
<1>4. StartInv'
  <2>1. state' # "UNKNOWN" /\ state' \in OPERATOR_STATES
    BY <1>3
    DEF RampStep, RampTicks, RampArrives, RampMoves, RampBegins, RampWrites, RampFails,
        OPERATOR_STATES
  <2> QED
    BY <1>1, <1>2, <1>3, <2>1 DEF StartInv
<1>5. CASE RampTicks(t) /\ RampArrives(t)
  <2>1. /\ ramp'[t].pc = "free" /\ state' = "ON"
        /\ current = ramp[t].target /\ UNCHANGED <<current, supply>>
        /\ ramp[t].pc \in {"new", "sleep"}
    BY <1>2, <1>5 DEF RampTicks, RampArrives, Over
  <2>2. current' = scan'.target /\ supply' = scan'.target
    BY <1>1, <2>1 DEF FollowInv
  <2>3. \A u \in Tasks : ~Live(u)' /\ ramp'[u].pc \notin {"new", "sleep", "write"}
    BY <1>1, <2>1 DEF Live
  <2> QED
    BY <1>2, <1>3, <1>4, <2>2, <2>3 DEF FollowInv, ArriveInv
<1>6. CASE RampTicks(t) /\ RampMoves(t)
  <2>1. /\ ramp'[t].pc = "write" /\ ramp'[t].target = ramp[t].target
        /\ ramp'[t].sending = current' /\ current # ramp[t].target
        /\ UNCHANGED supply
    BY <1>2, <1>6 DEF RampTicks, RampMoves
  <2>2. scan.pc # "arrived"
    BY <1>1, <1>3, <2>1 DEF FollowInv, ArriveInv
  <2>3. FollowInv'
    BY <1>1, <1>2, <1>3, <2>1 DEF FollowInv, Live
  <2>4. ArriveInv'
    BY <2>1, <2>2 DEF ArriveInv, Live
  <2> QED
    BY <1>4, <2>3, <2>4
<1>7. CASE RampWrites(t)
  <2>1. /\ ramp[t].pc = "write" /\ ramp'[t].pc = "sleep"
        /\ ramp'[t].target = ramp[t].target
        /\ supply' = ramp[t].sending /\ UNCHANGED <<state, current>>
    BY <1>2, <1>7 DEF RampWrites, Curr
  <2>2. scan.pc # "arrived" /\ supply' = current'
    BY <1>1, <2>1 DEF ArriveInv, FollowInv
  <2>3. FollowInv'
    BY <1>1, <1>2, <1>3, <2>1, <2>2 DEF FollowInv, Live
  <2>4. ArriveInv'
    BY <2>1, <2>2 DEF ArriveInv, Live
  <2> QED
    BY <1>4, <2>3, <2>4
<1>8. CASE RampFails(t)
  <2>1. /\ ramp[t].pc = "write" /\ ramp'[t].pc = "failed"
        /\ UNCHANGED <<state, current, supply>>
    BY <1>2, <1>8 DEF RampFails, Over
  <2>2. scan.pc # "arrived" /\ state = "MOVING"
    BY <1>1, <1>3, <2>1 DEF ArriveInv, MovingInv, Settled
  <2>3. FollowInv'
    BY <1>1, <1>2, <1>3, <2>1 DEF FollowInv, Live
  <2>4. ArriveInv'
    BY <2>1, <2>2 DEF ArriveInv
  <2> QED
    BY <1>4, <2>3, <2>4
<1> QED
  BY <1>5, <1>6, <1>7, <1>8 DEF RampStep, RampTicks

\* Steps that keep what the invariant looks at.
LEMMA MotionStutters ==
    ASSUME MotionInv, UNCHANGED <<current, supply, ramp, late, init, writer, resetter, db, strayed,
                                  scan>>,
           \/ UNCHANGED state
           \/ state \in {"ON", "ALARM"} /\ state' \in {"ON", "ALARM"}
    PROVE  MotionInv'
BY DEF MotionInv, InMotion, StartInv, FollowInv, ArriveInv, Live, OPERATOR_STATES

\* The steps of a restart of the server, in a motion.
LEMMA InitMotion ==
    ASSUME ScanTypeOK, RampInv, StartInv, FollowInv, ArriveInv, InitStep, UNCHANGED scan
    PROVE  StartInv' /\ FollowInv' /\ ArriveInv'
<1> USE DEF ramps, line, inits, requests, device
<1>1. init \in {"init", "query", "restore"}
  BY DEF InitStep, DeleteCancels, DeleteRaises, DeleteFrees, InitRefused, InitOpens,
         ResetFields, InitQueries, InitQueryFails, Restore, NoRestore, StartInv
<1>2. scan.pc # "starting" /\ writer.pc = "idle" /\ db = scan.target /\ ~strayed
  BY <1>1 DEF StartInv
<1>7. \A t \in Tasks : ~Live(t)
  BY <1>1, <1>2 DEF StartInv, RampInv, InitTidy, PastCancel
<1>3. CASE InitRefused \/ InitOpens
  <2>1. /\ init' \in {"restore", "query"} /\ (init' = "restore" => state' = "FAULT")
        /\ \A t \in Tasks : ramp'[t] = Over
        /\ UNCHANGED <<supply, late, db, writer, resetter>> /\ ~strayed'
    BY <1>1, <1>2, <1>7, <1>3 DEF InitRefused, InitOpens, ResetFields, StartInv
  <2>2. \A t \in Tasks : ~Live(t)' /\ ramp'[t].pc = "free"
    BY <2>1 DEF Over, Live
  <2>3. StartInv'
    BY <1>2, <2>1, <2>2 DEF StartInv
  <2>4. FollowInv'
    BY <1>2, <2>1, <2>2 DEF FollowInv, OPERATOR_STATES
  <2>5. ArriveInv'
    BY <1>2, <2>1, <2>2 DEF ArriveInv
  <2> QED
    BY <2>3, <2>4, <2>5
<1>4. CASE InitQueries \/ InitQueryFails
  <2>1. /\ init' = "restore" /\ state' # "UNKNOWN"
        /\ state' \in OPERATOR_STATES => supply' = current'
        /\ UNCHANGED <<supply, late, ramp, db, writer, resetter, strayed>>
    BY <1>4 DEF InitQueries, InitQueryFails, OPERATOR_STATES
  <2>2. \A t \in Tasks : ~Live(t)'
    BY <1>7, <2>1 DEF Live
  <2>3. StartInv'
    BY <1>2, <2>1, <2>2 DEF StartInv
  <2>4. FollowInv'
    BY <1>2, <2>1, <2>2 DEF FollowInv, Live
  <2>5. ArriveInv'
    BY <1>2, <2>1, <2>2 DEF ArriveInv
  <2> QED
    BY <2>3, <2>4, <2>5
<1>5. CASE Restore
  <2>1. /\ StartRamp(db) /\ state \in OPERATOR_STATES /\ init' = "idle"
        /\ init = "restore" /\ supply = current
        /\ UNCHANGED <<state, current, supply, db, writer, resetter>>
    BY <1>5 DEF Restore, FollowInv
  <2>2. late' = {}
    BY <1>7, <2>1, NothingLate DEF FollowInv, Live
  <2>8. ~strayed'
    BY <1>2, <2>1 DEF StartRamp, PastCancel
  <2>3. /\ \E t \in Tasks : Live(t)'
        /\ \A t \in Tasks : Live(t)' => ramp'[t].pc = "new" /\ ramp'[t].target = db
        /\ \A t \in Tasks : ramp'[t].pc \notin {"write", "sleep"}
    BY <2>1, <2>8, StartRampAnew
  <2>4. StartInv'
    BY <1>2, <2>1, <2>8 DEF StartInv
  <2>5. FollowInv'
    BY <1>2, <2>1, <2>2, <2>3 DEF FollowInv, Live
  <2>6. scan.pc = "arrived" => supply = scan.target
    BY DEF ArriveInv
  <2>7. ArriveInv'
    BY <1>2, <2>1, <2>3, <2>6 DEF ArriveInv
  <2> QED
    BY <2>4, <2>5, <2>7
<1>6. CASE NoRestore
  <2>1. db # None
    BY <1>2, MagnetAssumption DEF ScanTypeOK
  <2>2. /\ state' \notin OPERATOR_STATES /\ init' = "idle" /\ init = "restore"
        /\ UNCHANGED <<state, current, supply, late, ramp, db, writer, resetter, strayed>>
    BY <1>6, <2>1 DEF NoRestore
  <2>3. \A t \in Tasks : ~Live(t)'
    BY <1>7, <2>2 DEF Live
  <2>4. StartInv'
    BY <1>2, <2>2, <2>3 DEF StartInv
  <2>5. FollowInv'
    BY <1>2, <2>2, <2>3 DEF FollowInv, Live
  <2>6. ArriveInv'
    BY <1>2, <2>2, <2>3 DEF ArriveInv
  <2> QED
    BY <2>4, <2>5, <2>6
<1> QED
  BY <1>1, <1>3, <1>4, <1>5, <1>6
  DEF InitStep, DeleteCancels, DeleteRaises, DeleteFrees

LEMMA ScanInvariant ==
    ASSUME RampInv, MovingInv, ScanInv, [ScanNext]_scanVars
    PROVE  ScanInv'
<1> USE DEF ramps, line, inits, requests, device
<1>0. /\ NoScan \in [pc : {"idle", "starting", "moving", "arrived", "failed"},
                     target : Currents]
      /\ [NoScan EXCEPT !.pc = "failed"]
           \in [pc : {"idle", "starting", "moving", "arrived", "failed"}, target : Currents]
  BY MagnetAssumption DEF NoScan, Currents
<1>1. ASSUME scan' = NoScan \/ scan' = [NoScan EXCEPT !.pc = "failed"]
      PROVE  ScanInv'
  <2>1. scan'.pc \in {"idle", "failed"}
    BY <1>1 DEF NoScan
  <2> QED
    BY <1>0, <1>1, <2>1 DEF ScanInv, ScanTypeOK, MotionInv, InMotion
<1>2. ASSUME UNCHANGED scan, MotionInv' PROVE ScanInv'
  BY <1>2 DEF ScanInv, ScanTypeOK
<1>3. scan \in [pc : {"idle", "starting", "moving", "arrived", "failed"},
                target : Currents]
  BY DEF ScanInv, ScanTypeOK
<1>4. ASSUME NEW v \in Setpoints, StartOne(v) PROVE ScanInv'
  <2>1. /\ scan' = [pc |-> "starting", target |-> v]
        /\ writer' = [pc |-> "allowed", value |-> v]
        /\ init = "idle" /\ resetter = "idle" /\ state \in OPERATOR_STATES
        /\ UNCHANGED <<device, ramps, line, inits, resetter>>
        /\ late = {} /\ supply = current /\ \A t \in Tasks : ramp[t].pc = "free"
    BY <1>4 DEF StartOne, WriteAllowed, Quiet, AtRest
  <2>2. ScanTypeOK'
    BY <2>1, MagnetAssumption DEF ScanTypeOK
  <2>3. StartInv' /\ FollowInv' /\ ArriveInv'
    BY <2>1 DEF StartInv, FollowInv, ArriveInv, Live, OPERATOR_STATES
  <2> QED
    BY <2>2, <2>3 DEF ScanInv, MotionInv
<1>5. CASE StartOneReturns
  <2>1. /\ scan.pc = "starting" /\ scan'.pc = "moving" /\ scan'.target = scan.target
        /\ ScanTypeOK'
    BY <1>3, <1>5 DEF StartOneReturns, ScanTypeOK
  <2>2. /\ writer.pc = "memorize" /\ writer'.pc = "idle" /\ db' = writer.value
        /\ UNCHANGED <<device, ramps, line, inits, resetter, strayed>>
    BY <1>5 DEF StartOneReturns, WriteMemorized, NoWriter
  <2>3. StartInv /\ FollowInv /\ ArriveInv
    BY <2>1 DEF ScanInv, MotionInv, InMotion
  <2>4. StartInv' /\ FollowInv' /\ ArriveInv'
    BY <2>1, <2>2, <2>3 DEF StartInv, FollowInv, ArriveInv, Live
  <2> QED
    BY <2>1, <2>4 DEF ScanInv, MotionInv
<1>6. CASE StateOne
  <2>1. /\ scan.pc = "moving" /\ init = "idle" /\ writer.pc = "idle"
        /\ \A t \in Tasks : ramp[t].pc # "new"
        /\ state' = StateRead
        /\ UNCHANGED <<setpoint, current, ramps, line, inits, requests, strayed>>
    BY <1>6 DEF StateOne, Quiet
  <2>2. StartInv /\ FollowInv /\ ArriveInv
    BY <2>1 DEF ScanInv, MotionInv, InMotion
  <2>3. UNCHANGED state \/ (state \in {"ON", "ALARM"} /\ state' \in {"ON", "ALARM"})
    BY <2>1 DEF StateRead
  <2>4. CASE scan' = scan
    BY <1>2, <2>1, <2>3, <2>4, MotionStutters DEF ScanInv
  <2>5. CASE StateRead = "ON"
    <3>1. scan'.pc = "arrived" /\ scan'.target = scan.target /\ ScanTypeOK'
      BY <1>3, <1>6, <2>5 DEF StateOne, Report, STATE_MAP, ScanTypeOK
    <3>2. state # "MOVING" /\ state \in OPERATOR_STATES
      BY <2>5 DEF StateRead, OPERATOR_STATES
    <3>3. \A t \in Tasks : ~Live(t)
      BY <2>1, <2>2, <3>2 DEF MovingInv, Settled, StartInv, Live
    <3>4. current = scan.target /\ supply = scan.target
      BY <2>1, <2>2, <3>2, <3>3 DEF ArriveInv
    <3>5. StartInv' /\ FollowInv' /\ ArriveInv'
      BY <2>1, <2>2, <2>3, <3>1, <3>3, <3>4
      DEF StartInv, FollowInv, ArriveInv, Live, OPERATOR_STATES
    <3> QED
      BY <3>1, <3>5 DEF ScanInv, MotionInv
  <2>6. CASE StateRead # "ON" /\ scan' # scan
    BY <1>1, <1>6, <2>6 DEF StateOne, Report, STATE_MAP
  <2> QED
    BY <2>4, <2>5, <2>6
<1>7. CASE StateOneUnreachable
  BY <1>1, <1>7 DEF StateOneUnreachable, Report
<1>8. CASE ReadOne \/ Disturbing
  BY <1>1, <1>8 DEF ReadOne, Disturbing
<1>9. CASE ServerCrash
  <2>1. CASE scan.pc = "starting"
    BY <1>1, <1>9, <2>1 DEF ServerCrash
  <2>2. CASE scan.pc # "starting"
    <3>1. /\ UNCHANGED <<scan, supply, db>> /\ late' = {} /\ init' = "init"
          /\ \A t \in Tasks : ramp'[t] = Over
          /\ writer'.pc = "idle" /\ resetter' = "idle" /\ ~strayed'
      BY <1>9, <2>2 DEF ServerCrash, Crash, NoWriter
    <3>2. InMotion => StartInv' /\ FollowInv' /\ ArriveInv'
      BY <2>2, <3>1
      DEF ScanInv, MotionInv, InMotion, StartInv, FollowInv, ArriveInv, Over, Live
    <3> QED
      BY <1>2, <3>1, <3>2 DEF MotionInv, InMotion
  <2> QED
    BY <2>1, <2>2
<1>10. CASE Undisturbing
  <2>1. UNCHANGED scan
    BY <1>10 DEF Undisturbing
  <2>2. CASE ~InMotion
    BY <1>2, <2>1, <2>2 DEF MotionInv, InMotion
  <2>3. CASE InMotion
    <3>1. StartInv /\ FollowInv /\ ArriveInv
      BY <2>3 DEF ScanInv, MotionInv
    <3>2. CASE \E t \in Tasks : RampStep(t)
      BY <1>2, <2>1, <3>1, <3>2, RampMotion DEF MotionInv
    <3>3. CASE InitStep
      BY <1>2, <2>1, <3>1, <3>3, InitMotion DEF ScanInv, MotionInv
    <3>4. CASE WriteSetpoint
      <4>1. /\ scan.pc = "starting" /\ init = "idle" /\ writer.pc = "allowed"
            /\ writer.value = scan.target /\ StartRamp(writer.value)
            /\ writer'.pc = "memorize" /\ writer'.value = writer.value
            /\ UNCHANGED <<state, current, line, inits, resetter, db>>
        BY <3>1, <3>4 DEF StartInv, WriteSetpoint, RampInv, TypeOK
      <4>2. late' = {} /\ supply' = current'
        BY <3>1, <4>1, NothingLate DEF FollowInv
      <4>5. ~strayed'
        BY <3>1, <4>1 DEF StartRamp, PastCancel, FollowInv
      <4>3. /\ \E t \in Tasks : Live(t)'
            /\ \A t \in Tasks : Live(t)' => ramp'[t].pc = "new"
                                            /\ ramp'[t].target = writer.value
            /\ \A t \in Tasks : ramp'[t].pc \notin {"write", "sleep"}
        BY <4>1, <4>5, StartRampAnew
      <4>4. StartInv' /\ FollowInv' /\ ArriveInv'
        BY <2>1, <3>1, <4>1, <4>2, <4>3, <4>5 DEF StartInv, FollowInv, ArriveInv
      <4> QED
        BY <1>2, <2>1, <4>4 DEF MotionInv
    <3>5. CASE ReadState
      <4>1. /\ UNCHANGED <<current, supply, ramp, late, init, writer, resetter, db, strayed,
                           scan>>
            /\ state \in {"ON", "ALARM"} /\ state' \in {"ON", "ALARM"}
        BY <2>1, <3>5 DEF ReadState
      <4> QED
        BY <1>2, <4>1, MotionStutters DEF ScanInv, OPERATOR_STATES
    <3>6. CASE LinkChanges
      BY <1>2, <2>1, <3>6, MotionStutters DEF ScanInv, LinkChanges
    <3>7. ~(\E v \in Currents : LateWrite(v)) /\ ~(scan.pc # "starting" /\ WriteMemorized)
      BY <3>1 DEF FollowInv, StartInv, LateWrite, WriteMemorized
    <3> QED
      BY <1>10, <3>2, <3>3, <3>4, <3>5, <3>6, <3>7 DEF Undisturbing
  <2> QED
    BY <2>2, <2>3
<1>11. CASE UNCHANGED scanVars
  BY <1>2, <1>11, MotionStutters DEF ScanInv, scanVars, vars
<1> QED
  BY <1>4, <1>5, <1>6, <1>7, <1>8, <1>9, <1>10, <1>11 DEF ScanNext

\* "StateOne reflects hardware truth" (lines 12-14): a motion that nobody interfered
\* with and that the controller reports as over is at its target, supply included,
\* whatever clients did before it, for every step width, any loss of the line and any
\* number of kills.
THEOREM ScanPointsAreAtPosition == ScanSpec => []PointsAreAtPosition
<1>1. Init => TypeOK /\ RampInv /\ MovingInv
  BY InitTypes, InitRampInv, InitMovingInv
<1>2. ScanInit => ScanInv
  BY MagnetAssumption
  DEF ScanInit, ScanInv, ScanTypeOK, MotionInv, InMotion, NoScan, Currents
<1>3. TypeOK /\ [ScanNext]_scanVars => [Next]_vars
  BY ScanStepIsMagnetStep DEF scanVars
<1> DEFINE Inv == TypeOK /\ RampInv /\ MovingInv /\ ScanInv
<1>4. Inv /\ [ScanNext]_scanVars => Inv'
  BY <1>3, NextTypes, RampInvariant, MovingInvariant, ScanInvariant
<1>5. ASSUME Inv PROVE PointsAreAtPosition
  <2>1. ASSUME scan.pc = "arrived", Quiet, state # "FAULT", exported
        PROVE  current = scan.target /\ supply = scan.target
    <3>1. ArriveInv /\ init = "idle" /\ state # "UNKNOWN"
      BY <1>5, <2>1 DEF ScanInv, MotionInv, InMotion, StartInv, Quiet
    <3>2. CASE state \in OPERATOR_STATES
      BY <2>1, <3>1, <3>2 DEF ArriveInv
    <3>3. state \in OPERATOR_STATES
      BY <1>5, <2>1, <3>1 DEF TypeOK
    <3> QED
      BY <3>2, <3>3
  <2> QED
    BY <2>1 DEF PointsAreAtPosition
<1>6. ScanInit => Inv
  BY <1>1, <1>2 DEF ScanInit
<1> QED
  BY <1>4, <1>5, <1>6, PTL DEF ScanSpec

=============================================================================
