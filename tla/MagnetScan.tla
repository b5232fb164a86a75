----------------------------- MODULE MagnetScan -----------------------------
(***************************************************************************)
(* magnet_motor_ctrl.py, the Sardana motor on top of the magnet: a scan    *)
(* writes the setpoint, polls the state until it is not Moving, and        *)
(* records the point.  The pool that calls the controller (external) is    *)
(* modelled from the order of these calls.                                 *)
(*                                                                         *)
(* Other clients write, Reset and Init the magnet as they like, in each    *)
(* other's awaits too.  A motion is followed from a magnet at rest until   *)
(* somebody else interferes; a kill and restart of the magnet's server     *)
(* does not end it.                                                        *)
(***************************************************************************)
EXTENDS MagnetPowerSupply

VARIABLE scan       \* the motion: where the pool is, and the position it asked for

NoScan == [pc |-> "idle", target |-> 0]

ScanTypeOK ==
    scan \in [pc : {"idle", "starting", "moving", "arrived", "failed"}, target : Currents]

ScanInit == Init /\ scan = NoScan

\* No write is on its way, and the last one was not lost in a cancellation, which
\* leaves current ahead of the supply.
AtRest == late = {} /\ supply = current /\ \A t \in Tasks : ramp[t].pc = "free"

\* StartOne(): the write of the setpoint, refused in FAULT.
StartOne(v) ==
    /\ scan.pc \in {"idle", "failed"} /\ Quiet /\ AtRest
    /\ WriteAllowed(v)
    /\ scan' = [pc |-> "starting", target |-> v]

StartOneReturns ==
    /\ scan.pc = "starting"
    /\ WriteMemorized
    /\ scan' = [scan EXCEPT !.pc = "moving"]

Report(answer) ==
    scan' = IF answer = "Moving" THEN scan
            ELSE IF answer = "On" THEN [scan EXCEPT !.pc = "arrived"]
            ELSE [NoScan EXCEPT !.pc = "failed"]

\* STATE_MAP; any other state is Fault.
STATE_MAP(s) == CASE s = "ON" -> "On" [] s = "MOVING" -> "Moving" [] OTHER -> "Fault"

\* The state that a client reads: Tango looks at the levels of current first.
StateRead ==
    IF state \in {"ON", "ALARM"} THEN IF current > WARNING THEN "ALARM" ELSE "ON"
                                 ELSE state

\* StateOne() of a proxy that reads Tango's polling buffer, up to a second old.
StateOneBuffered ==
    /\ scan.pc = "moving" /\ Quiet /\ exported
    /\ \E s \in {state, "ON"} : Report(STATE_MAP(s))
    /\ UNCHANGED vars

\* StateOne(): set_source(DEV) makes it read the device itself.  A ramp that the setter
\* has created is in asyncio's queue, first in, first out, before a request that is sent
\* after the setter's answer: it takes its first step before.
StateOne ==
    /\ scan.pc = "moving" /\ Quiet /\ exported
    /\ \A t \in Tasks : ramp[t].pc # "new"
    /\ Report(STATE_MAP(StateRead))
    /\ state' = StateRead
    /\ UNCHANGED <<setpoint, current, ramps, line, inits, requests, strayed>>

\* The device is being started: DevFailed is a Fault.
StateOneUnreachable ==
    /\ scan.pc = "moving" /\ ~exported
    /\ Report("Fault")
    /\ UNCHANGED vars

\* ReadOne(): the point is recorded.
ReadOne ==
    /\ scan.pc = "arrived" /\ Quiet /\ exported
    /\ scan' = NoScan
    /\ UNCHANGED vars

\* What the magnet does by itself, and what does not touch its setpoint.
Undisturbing ==
    /\ \/ \E t \in Tasks : RampStep(t)
       \/ \E v \in Currents : LateWrite(v)
       \/ WriteSetpoint
       \/ scan.pc # "starting" /\ WriteMemorized
       \/ InitStep
       \/ ReadState
       \/ LinkChanges
    /\ UNCHANGED scan

\* Requests of other clients.
Disturbing ==
    /\ \/ \E v \in Setpoints : WriteAllowed(v)
       \/ ResetAllowed \/ Reset
       \/ RequestInit
    /\ scan' = NoScan

\* A StartOne() that has not returned fails; the server starts again, restores the
\* setpoint, and a motion under way goes on.
ServerCrash ==
    /\ Crash
    /\ scan' = IF scan.pc = "starting" THEN [NoScan EXCEPT !.pc = "failed"] ELSE scan

ScanNext ==
    \/ \E v \in Setpoints : StartOne(v)
    \/ StartOneReturns \/ StateOne \/ StateOneUnreachable \/ ReadOne
    \/ Undisturbing \/ Disturbing \/ ServerCrash

scanVars == <<vars, scan>>

ScanSpec == ScanInit /\ [][ScanNext]_scanVars

\* As FairSpec; the pool is a client, and nothing obliges it to go on.
ScanFairness ==
    /\ \A t \in Tasks : WF_scanVars(RampStep(t) /\ UNCHANGED scan)
    /\ WF_scanVars(\/ StartOneReturns
                   \/ scan.pc # "starting" /\ WriteMemorized /\ UNCHANGED scan
                   \/ (WriteSetpoint \/ InitStep) /\ UNCHANGED scan
                   \/ Reset /\ scan' = NoScan)

FairScanSpec == ScanSpec /\ ScanFairness

-----------------------------------------------------------------------------
(* Properties *)

\* "StateOne reflects hardware truth" (lines 12-14): a motion that nobody interfered
\* with and that the controller reports as over has brought the magnet to the
\* position: the current that will be recorded is the one asked for, and it is what
\* the supply puts out, also when the server was killed and restarted on the way.  A
\* server that comes back to FAULT reads 0 A, and current is readable in FAULT too.
PointsAreAtPosition ==
    (scan.pc = "arrived" /\ Quiet /\ exported /\ state # "FAULT") =>
        current = scan.target /\ supply = scan.target

\* "passes through the magnet's own real DevState truthfully" (lines 10-11), so that
\* a motion fails only if the magnet is in FAULT or out of reach.  It does not hold:
\* ALARM, a magnet past its warning level, is Fault for a scan.
FaultIsTruthful ==
    [][(scan.pc = "moving" /\ scan'.pc = "failed") => (state = "FAULT" \/ ~exported)
      ]_scanVars

=============================================================================
