-------------------------- MODULE MCVacuumGauge --------------------------
(***************************************************************************)
(* VacuumGauge on small sets, for TLC.                                     *)
(*                                                                         *)
(* A pressure that falls and commands that differ multiply: a behaviour of *)
(* MCSpec has one of them, the other is left as it is.                     *)
(***************************************************************************)
EXTENDS VacuumGauge, TLC

\* Poll threads are interchangeable: none of the safety properties names one.
ThreadSymmetry == Permutations(Threads)

\* Everything a client can ask of the pump.
AllRequests == [kind : {"command", "attribute"}, value : BOOLEAN]
                 \cup {[kind |-> "read", value |-> FALSE]}

\* One request of each kind that switches the pump, and to different ends.
PumpOn == [kind |-> "command", value |-> TRUE]
WriteOff == [kind |-> "attribute", value |-> FALSE]
SwitchRequests == {PumpOn, WriteOff}

VARIABLE focus      \* what a behaviour is about: "pressure" or "pump"

MCInit == Init /\ focus \in {"pressure", "pump"}

\* The pump is switched on where it is off, and the pressure falls; or the pump is
\* switched on and off, by the command and by the write, and the pressure stays.
InFocus ==
    IF focus = "pressure"
    THEN /\ cmd' # WriteOff
         /\ pump /\ cmd = NoCmd => cmd' # PumpOn
    ELSE level' = level

MCNext == Next /\ InFocus /\ UNCHANGED focus

MCSpec == MCInit /\ [][MCNext]_<<vars, focus>>

===========================================================================
