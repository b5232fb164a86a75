-------------------------- MODULE FakeModbusVacuum --------------------------
(***************************************************************************)
(* fake_modbus_vacuum.py: the pressure register is computed when it is     *)
(* read, from the pressure captured when the pump was switched on and the  *)
(* time since then.                                                        *)
(***************************************************************************)
EXTENDS Integers

CONSTANTS
    Unset,              \* in place of a time or a pressure
    MIN_PRESSURE,       \* 10 in the code
    INITIAL_PRESSURE,   \* 1000
    DECAY_RATE,         \* 50 register units per second
    MaxElapsed          \* bound: seconds the clock counts after a pump start

ASSUME InstrumentAssumption ==
    /\ MIN_PRESSURE \in Nat /\ INITIAL_PRESSURE \in Nat
    /\ MIN_PRESSURE <= INITIAL_PRESSURE
    /\ DECAY_RATE \in Nat /\ MaxElapsed \in Nat
    /\ Unset \notin Nat

VARIABLES
    register,           \* current_registers[0]
    pump_on,            \* state["pump_on"], and register 1
    elapsed,            \* time.time() - state["pump_started_at"], Unset if that is
    pressure_at_pump_on \* state["pressure_at_pump_on"]

fakeVars == <<register, pump_on, elapsed, pressure_at_pump_on>>

FakeTypeOK ==
    /\ register \in MIN_PRESSURE..INITIAL_PRESSURE
    /\ pump_on \in BOOLEAN
    /\ elapsed \in 0..MaxElapsed \cup {Unset}
    /\ pressure_at_pump_on \in MIN_PRESSURE..INITIAL_PRESSURE \cup {Unset}

FakeInit ==
    /\ register = INITIAL_PRESSURE
    /\ pump_on = FALSE /\ elapsed = Unset /\ pressure_at_pump_on = Unset

\* The clock restarted by every write of 1, the start pressure captured only by
\* the first.
WritePumpAnyEdge(v) ==
    /\ pressure_at_pump_on' = IF v /\ ~pump_on THEN register ELSE pressure_at_pump_on
    /\ elapsed' = IF v THEN 0 ELSE Unset
    /\ pump_on' = v
    /\ UNCHANGED register

\* Function code 6, address 1.  Only a rising edge captures the pressure and
\* starts the clock.
WritePumpRegister(v) ==
    /\ pressure_at_pump_on' = IF v /\ ~pump_on THEN register ELSE pressure_at_pump_on
    /\ elapsed' = CASE v /\ ~pump_on -> 0
                    [] v /\ pump_on  -> elapsed
                    [] ~v            -> Unset
    /\ pump_on' = v
    /\ UNCHANGED register

\* Function code 3, address 0: max(10, int(start_pressure - elapsed * 50)).
ReadPressure ==
    /\ pump_on /\ elapsed # Unset
    /\ LET decayed == pressure_at_pump_on - elapsed * DECAY_RATE
       IN  register' = IF decayed < MIN_PRESSURE THEN MIN_PRESSURE ELSE decayed
    /\ UNCHANGED <<pump_on, elapsed, pressure_at_pump_on>>

ClockTicks ==
    /\ elapsed # Unset /\ elapsed < MaxElapsed
    /\ elapsed' = elapsed + 1
    /\ UNCHANGED <<register, pump_on, pressure_at_pump_on>>

Restart ==
    /\ register' = INITIAL_PRESSURE
    /\ pump_on' = FALSE /\ elapsed' = Unset /\ pressure_at_pump_on' = Unset

FakeNext ==
    \/ \E v \in BOOLEAN : WritePumpRegister(v)
    \/ ReadPressure
    \/ ClockTicks
    \/ Restart

FakeSpec == FakeInit /\ [][FakeNext]_fakeVars

-----------------------------------------------------------------------------
Registers == INSTANCE GaugeRegisters
               WITH LowestPressure <- MIN_PRESSURE, StartPressure <- INITIAL_PRESSURE,
                    level <- register, pump <- pump_on

\* A pump "should only ever pull pressure further down from wherever it currently
\* is" (lines 24-33): through any sequence of pump writes, reads and seconds the
\* registers do what GaugeRegisters says.  The first version of the script broke
\* this by starting each decay from a constant.
ImplementsGauge == Registers!GaugeSpec

=============================================================================
