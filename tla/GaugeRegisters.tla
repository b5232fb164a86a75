--------------------------- MODULE GaugeRegisters ---------------------------
(***************************************************************************)
(* What a Modbus vacuum gauge promises its device server: two holding      *)
(* registers.  While the pump is on the pressure only falls, while it is   *)
(* off it stays; a restart of the instrument brings both back to their     *)
(* initial values.  FakeModbusVacuum implements this, VacuumGauge relies   *)
(* on it.                                                                  *)
(***************************************************************************)
EXTENDS Integers

CONSTANTS
    LowestPressure,     \* the lowest pressure the pump reaches
    StartPressure       \* the pressure after a start, in register units

ASSUME PressureAssumption ==
    /\ LowestPressure \in Nat /\ StartPressure \in Nat
    /\ LowestPressure <= StartPressure

VARIABLES
    level,              \* register 0: the pressure, in thousandths of a mbar
    pump                \* register 1: PumpStatus

gaugeVars == <<level, pump>>

Pressures == LowestPressure..StartPressure

GaugeTypeOK == level \in Pressures /\ pump \in BOOLEAN

GaugeInit == level = StartPressure /\ pump = FALSE

WritePump(v) == pump' = v /\ UNCHANGED level

PressureFalls ==
    /\ pump
    /\ level' \in {l \in Pressures : l < level}
    /\ UNCHANGED pump

GaugeRestarts == level' = StartPressure /\ pump' = FALSE

GaugeNext ==
    \/ \E v \in BOOLEAN : WritePump(v)
    \/ PressureFalls
    \/ GaugeRestarts

GaugeSpec == GaugeInit /\ [][GaugeNext]_gaugeVars

=============================================================================
