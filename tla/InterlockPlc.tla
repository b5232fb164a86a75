---------------------------- MODULE InterlockPlc ----------------------------
(***************************************************************************)
(* The safety logic of the fake PLC, fake_modbus_plc.py: a fault latches   *)
(* the moment an input goes unsafe, and only a reset while every input is  *)
(* safe clears it.  Writes across the read-only permit and fault coils are *)
(* rejected by pymodbus, so one write reaches either inputs or the reset   *)
(* coil; action() itself, and WriteCoils with it, treats any write.        *)
(***************************************************************************)

CONSTANTS Inputs       \* the input coils: door_closed, vacuum_ok, water_flow_ok

VARIABLES
    inputs,            \* the value of each input coil, TRUE = safe
    permit,            \* the beam_permit coil
    fault              \* the fault_latched coil

plcVars == <<inputs, permit, fault>>

InputsOk(c) == \A i \in Inputs : c[i]

PlcTypeOK ==
    /\ inputs \in [Inputs -> BOOLEAN]
    /\ permit \in BOOLEAN
    /\ fault \in BOOLEAN

\* The values the coils are created with: a restart of the PLC returns to them.
PlcInit ==
    /\ inputs = [i \in Inputs |-> TRUE]
    /\ permit = TRUE
    /\ fault = FALSE

PlcRestarts ==
    /\ inputs' = [i \in Inputs |-> TRUE]
    /\ permit' = TRUE
    /\ fault' = FALSE

\* A plain AND gate: the fault bit follows the inputs instead of latching.
WriteCoilsUnlatched(w, reset) ==
    /\ inputs' = [i \in Inputs |-> IF i \in DOMAIN w THEN w[i] ELSE inputs[i]]
    /\ fault' = ~InputsOk(inputs')
    /\ permit' = (InputsOk(inputs') /\ ~fault')

\* action(): write the coils in w, then treat a reset, then recompute the
\* latch and the permit.  The reset coil is momentary: it always reads FALSE
\* afterwards and is no state.
WriteCoils(w, reset) ==
    /\ inputs' = [i \in Inputs |-> IF i \in DOMAIN w THEN w[i] ELSE inputs[i]]
    /\ fault' = \/ fault /\ ~(reset /\ InputsOk(inputs'))
                \/ ~InputsOk(inputs')
    /\ permit' = (InputsOk(inputs') /\ ~fault')

\* The plant: an input (or several at once) changes.
WriteInputs(w) == WriteCoils(w, FALSE)

\* A write of TRUE to the reset coil.
WriteReset == WriteCoils([i \in {} |-> TRUE], TRUE)

=============================================================================
