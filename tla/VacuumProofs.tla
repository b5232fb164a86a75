---------------------------- MODULE VacuumProofs ----------------------------
(***************************************************************************)
(* Theorems about VacuumGauge, for any pressures, any number of poll       *)
(* threads, any requests and any number of kills: its types, one poller,   *)
(* what is served and pushed between two polls, and that a restart knows   *)
(* the last acknowledged pump request.                                     *)
(*                                                                         *)
(* The instrument is a GaugeRegisters throughout, and FakeModbusVacuum     *)
(* implements GaugeRegisters for any pressures and any decay rate: what is *)
(* proved of the device holds with the simulator in the instrument's place.*)
(***************************************************************************)
EXTENDS VacuumGauge, FakeModbusVacuum, ModbusPollerProofs

-----------------------------------------------------------------------------
(* The poll thread's life cycle and the lock *)

LEMMA PollStepPoller ==
    ASSUME PollerInv, NEW t \in Threads, PollStep(t)
    PROVE  PollerInv'
<1>1. CASE SharedPoll(t)
  BY <1>1, SharedPollInv
<1>2. CASE PollGot(t)
  <2> DEFINE label == IF stop THEN "dead" ELSE "recover"
  <2>1. label \in ThreadLabels
    BY DEF ThreadLabels
  <2> QED
    BY <1>2, <2>1, ThreadMoves DEF PollGot, PollerInv, PollerTypeOK
<1>3. CASE PollRecover(t)
  <2>1. "store" \in ThreadLabels /\ 0 \in 0..POLL_FAILURE_THRESHOLD
    BY TimingAssumption DEF ThreadLabels
  <2>2. state' \in States
    BY <1>3 DEF PollRecover, PollerInv, PollerTypeOK, States
  <2> QED
    BY <1>3, <2>1, <2>2, ThreadMoves DEF PollRecover, PollerInv, PollerTypeOK
<1>4. CASE PollStore(t)
  <2>1. "push" \in ThreadLabels
    BY DEF ThreadLabels
  <2> QED
    BY <1>4, <2>1, ThreadMoves DEF PollStore, PollerInv, PollerTypeOK
<1>5. CASE PollPush(t)
  <2>1. "wait" \in ThreadLabels
    BY DEF ThreadLabels
  <2> QED
    BY <1>5, <2>1, ThreadMoves DEF PollPush, PollerInv, PollerTypeOK
<1> QED
  BY <1>1, <1>2, <1>3, <1>4, <1>5 DEF PollStep, PollAnswered, PollUnanswered, SharedPoll

LEMMA PumpStepPoller ==
    ASSUME PollerInv, PumpStep \/ \E request \in ClientRequests : RequestPump(request)
    PROVE  PollerInv'
<1> USE DEF PollerInv, PollerTypeOK, Running
<1>1. Req \in Procs
  BY DEF Procs
<1>2. CASE \E request \in ClientRequests : RequestPump(request)
  BY <1>2, ReqMoves DEF RequestPump
<1>3. CASE PumpBegin
  BY <1>1, <1>3, CallBegins DEF PumpBegin, CallLabels
<1>4. CASE PumpReturns \/ PumpRefused
  <2>1. pc[Req] = "pump" /\ Release(Req, AfterCall) /\ UNCHANGED suspect
    BY <1>4 DEF PumpReturns, PumpRefused, CallReturns, CallRefused
  <2>2. AfterCall \in {"memorize", "reply"}
    BY DEF AfterCall
  <2> QED
    BY <1>1, <2>1, <2>2, CallEnds
<1>5. CASE PumpRaises
  <2>1. pc[Req] = "pump" /\ Release(Req, "pumpFailed")
        /\ suspect' = (sock \in {"open", "dead"})
    BY <1>5 DEF PumpRaises, CallRaises
  <2>2. suspect' \in BOOLEAN
    <3>1. CASE sock \in {"open", "dead"}
      BY <2>1, <3>1
    <3>2. CASE sock \notin {"open", "dead"}
      BY <2>1, <3>2
    <3> QED
      BY <3>1, <3>2
  <2> QED
    BY <1>1, <2>1, <2>2, CallEnds
<1>6. CASE PumpDrop
  BY <1>6, ReqMoves DEF PumpDrop, DropConnection
<1>7. CASE Memorize \/ MemorizeFails \/ Reply
  BY <1>7, ReqMoves DEF Memorize, MemorizeFails, Reply
<1> QED
  BY <1>2, <1>3, <1>4, <1>5, <1>6, <1>7 DEF PumpStep

LEMMA InitStepPoller ==
    ASSUME PollerInv, InitStep
    PROVE  PollerInv'
<1>1. CASE SharedInit
  BY <1>1, SharedInitInv
<1>2. CASE InitRefused("restore")
  BY <1>2, InitRefusedInv DEF Running
<1>3. ASSUME NEW t \in Threads, InitOk(t) PROVE PollerInv'
  BY <1>3, InitReadInv DEF InitOk, Running, States
<1>4. ASSUME NEW t \in Threads, InitFailed(t) PROVE PollerInv'
  BY <1>4, InitReadFailedInv DEF InitFailed, Running
<1>5. CASE Restore \/ NoRestore
  BY <1>5, ReqMoves DEF Restore, NoRestore, Running, PollerInv, PollerTypeOK
<1> QED
  BY <1>1, <1>2, <1>3, <1>4, <1>5 DEF InitStep, InitAnswered, SharedInit

LEMMA NextPoller ==
    ASSUME PollerInv, [Next]_vars
    PROVE  PollerInv'
<1>1. CASE UNCHANGED pollerVars
  BY <1>1, PollerStutters
<1>2. CASE SharedInit
  BY <1>2, SharedInitInv
<1>3. ASSUME NEW p \in Peers, InstrumentChanges(p) PROVE PollerInv'
  BY <1>3, PeerChangesInv DEF InstrumentChanges
<1>4. CASE Crash
  BY <1>4, ServerRestartsInv DEF Crash
<1>5. CASE ReadState
  <2>1. state' \in States
    BY <1>5 DEF ReadState, States
  <2> QED
    BY <1>5, <2>1, OthersMove DEF ReadState, PollerInv, PollerTypeOK
<1> QED
  BY <1>1, <1>2, <1>3, <1>4, <1>5, PollStepPoller, PumpStepPoller, InitStepPoller
  DEF Next, ReqStep, Requests, Environment, InstrumentExecutes, InstrumentExecutesLate,
      InstrumentPumps, SharedInit, vars

-----------------------------------------------------------------------------
(* The instrument and the types *)

PumpTypeOK ==
    /\ cmd \in [kind : Kinds, value : BOOLEAN]
    /\ write \in {"none", "sent", "done"}
    /\ late \in SUBSET BOOLEAN
    /\ db \in BOOLEAN \cup {None}
    /\ memFailed \in BOOLEAN
    /\ acked \in BOOLEAN \cup {None}

LEMMA GaugeSteps ==
    ASSUME PumpTypeOK, [Next]_vars
    PROVE  [GaugeNext]_gaugeVars
<1>1. CASE InstrumentExecutes
  <2>1. cmd.value \in BOOLEAN
    BY DEF PumpTypeOK
  <2> QED
    BY <1>1, <2>1 DEF InstrumentExecutes, GaugeNext
<1>2. CASE \E v \in BOOLEAN : InstrumentExecutesLate(v)
  BY <1>2 DEF InstrumentExecutesLate, GaugeNext
<1>3. CASE InstrumentPumps
  BY <1>3 DEF InstrumentPumps, GaugeNext
<1>4. CASE GaugeRestarts
  BY <1>4 DEF GaugeNext
<1>5. \/ UNCHANGED gaugeVars \/ InstrumentExecutes \/ InstrumentPumps \/ GaugeRestarts
      \/ \E v \in BOOLEAN : InstrumentExecutesLate(v)
  BY DEF Next, PollStep, ReqStep, PumpStep, InitStep, Requests, Environment, vars,
         PollAnswered, PollUnanswered, PollGot, PollRecover, PollStore, PollPush,
         RequestPump, ReadState, PumpBegin, PumpReturns, PumpRefused, PumpRaises, PumpDrop,
         Memorize, MemorizeFails, Reply, ClearReadings, InitAnswered, InitOk, InitFailed,
         Restore, NoRestore, InstrumentChanges, Crash
<1> QED
  BY <1>1, <1>2, <1>3, <1>4, <1>5

LEMMA GaugeTyped ==
    ASSUME GaugeTypeOK, PumpTypeOK, [Next]_vars
    PROVE  GaugeTypeOK'
<1>1. [GaugeNext]_gaugeVars
  BY GaugeSteps
<1>2. StartPressure \in Pressures
  BY PressureAssumption DEF Pressures
<1> QED
  BY <1>1, <1>2
  DEF gaugeVars, GaugeNext, GaugeTypeOK, WritePump, PressureFalls, GaugeRestarts

\* Steps that leave the pump request alone.
LEMMA PumpUntouched ==
    ASSUME PumpTypeOK, UNCHANGED pumpVars
    PROVE  PumpTypeOK'
BY DEF PumpTypeOK, pumpVars

\* A flag that another condition may set, or clear, stays a Boolean.
LEMMA FlagTyped ==
    ASSUME memFailed \in BOOLEAN, NEW b,
           memFailed' = (memFailed \/ b) \/ memFailed' = (memFailed /\ b)
    PROVE  memFailed' \in BOOLEAN
<1>1. CASE memFailed'
  BY <1>1
<1>2. CASE ~memFailed'
  BY <1>2
<1> QED
  BY <1>1, <1>2

LEMMA PumpStepTyped ==
    ASSUME PumpTypeOK, PumpStep
    PROVE  PumpTypeOK'
<1> USE DEF PumpTypeOK, pumpVars
<1>0. NoCmd \in [kind : Kinds, value : BOOLEAN] /\ cmd.value \in BOOLEAN
  BY DEF NoCmd, Kinds
<1>1. CASE PumpBegin
  BY <1>1 DEF PumpBegin
<1>2. CASE PumpReturns
  BY <1>2 DEF PumpReturns
<1>3. CASE PumpRefused
  BY <1>3 DEF PumpRefused
<1>4. CASE PumpRaises
  BY <1>0, <1>4 DEF PumpRaises
<1>5. CASE PumpDrop
  <2>1. memFailed' \in BOOLEAN
    BY <1>5, FlagTyped DEF PumpDrop
  <2> QED
    BY <1>0, <1>5, <2>1 DEF PumpDrop
<1>6. CASE Memorize
  BY <1>0, <1>6 DEF Memorize
<1>7. CASE MemorizeFails
  BY <1>0, <1>7 DEF MemorizeFails
<1>8. CASE Reply
  <2>1. memFailed' \in BOOLEAN
    BY <1>8, FlagTyped DEF Reply
  <2>2. acked' \in BOOLEAN \cup {None}
    BY <1>0, <1>8 DEF Reply
  <2> QED
    BY <1>0, <1>8, <2>1, <2>2 DEF Reply
<1> QED
  BY <1>1, <1>2, <1>3, <1>4, <1>5, <1>6, <1>7, <1>8 DEF PumpStep

LEMMA InitStepTyped ==
    ASSUME PumpTypeOK, InitStep
    PROVE  PumpTypeOK'
<1> USE DEF PumpTypeOK, pumpVars
<1>1. CASE Restore
  <2>1. db \in BOOLEAN
    BY <1>1 DEF Restore
  <2>2. cmd' \in [kind : Kinds, value : BOOLEAN]
    BY <1>1, <2>1 DEF Restore, Kinds
  <2> QED
    BY <1>1, <2>2 DEF Restore
<1>2. CASE NoRestore
  <2>1. memFailed' \in BOOLEAN
    BY <1>2, FlagTyped DEF NoRestore
  <2> QED
    BY <1>2, <2>1 DEF NoRestore
<1>3. CASE UNCHANGED pumpVars
  BY <1>3, PumpUntouched
<1> QED
  BY <1>1, <1>2, <1>3
  DEF InitStep, ClearReadings, InitAnswered, InitOk, InitFailed, deviceVars

LEMMA PumpTyped ==
    ASSUME PumpTypeOK, [Next]_vars
    PROVE  PumpTypeOK'
<1>1. ASSUME NEW request \in ClientRequests, RequestPump(request) PROVE PumpTypeOK'
  <2>1. request \in [kind : Kinds, value : BOOLEAN]
    BY RequestsAssumption DEF Kinds
  <2> QED
    BY <1>1, <2>1 DEF RequestPump, PumpTypeOK
<1>2. CASE InstrumentExecutes
  BY <1>2 DEF InstrumentExecutes, PumpTypeOK
<1>3. ASSUME NEW v \in BOOLEAN, InstrumentExecutesLate(v) PROVE PumpTypeOK'
  BY <1>3 DEF InstrumentExecutesLate, PumpTypeOK
<1>4. ASSUME NEW p \in Peers, InstrumentChanges(p) PROVE PumpTypeOK'
  BY <1>4 DEF InstrumentChanges, PumpTypeOK
<1>5. CASE Crash
  <2>1. NoCmd \in [kind : Kinds, value : BOOLEAN] /\ cmd.value \in BOOLEAN
    BY DEF NoCmd, Kinds, PumpTypeOK
  <2> QED
    BY <1>5, <2>1 DEF Crash, PumpTypeOK
<1>6. CASE UNCHANGED pumpVars
  BY <1>6, PumpUntouched
<1>7. ASSUME NEW t \in Threads, PollStep(t) PROVE PumpTypeOK'
  <2>1. UNCHANGED pumpVars
    BY <1>7
    DEF PollStep, PollAnswered, PollUnanswered, PollGot, PollRecover, PollStore, PollPush,
        deviceVars
  <2> QED
    BY <2>1, PumpUntouched
<1> QED
  BY <1>1, <1>2, <1>3, <1>4, <1>5, <1>6, <1>7, PumpStepTyped, InitStepTyped
  DEF Next, ReqStep, Requests, Environment, ReadState, InstrumentPumps, deviceVars, vars

-----------------------------------------------------------------------------
(* What a restart restores *)

\* The database holds what was last acknowledged; while a request or a restore is
\* under way, it is known to be the one that has not been acknowledged yet, or to
\* write what the database holds.
MemorizedInv ==
    /\ acked # None => db = acked
    /\ cmd.kind = "restore" => cmd.value = db
    /\ cmd.kind \in {"command", "attribute"} => acked = None
    /\ pc[Req] = "memorize" => cmd.kind \in {"command", "attribute"}
    /\ pc[Req] = "reply" /\ cmd.kind \in {"command", "attribute"} => db = cmd.value

\* No step of a poll thread moves the request thread.
LEMMA PollKeepsReq ==
    ASSUME PollerInv, NEW t \in Threads, PollStep(t)
    PROVE  pc'[Req] = pc[Req]
<1>1. Req # t /\ Req \in Procs /\ pc \in [Procs -> ThreadLabels \cup ReqLabels]
  BY ProcessAssumption DEF Procs, PollerInv, PollerTypeOK
<1>2. \A label : Goto(t, label) => pc'[Req] = pc[Req]
  BY <1>1 DEF Goto
<1> QED
  BY <1>2
  DEF PollStep, PollWait, PollBegin, PollAnswered, PollReturns, PollUnanswered,
      PollRaises, PollFailed, PollDrop, PollCount, PollFault, PollGot, PollRecover,
      PollStore, PollPush, BeginCall, CallReturns, CallRefused, CallRaises, Release,
      DropConnection

LEMMA NextMemorized ==
    ASSUME PollerInv, PumpTypeOK, MemorizedInv, [Next]_vars
    PROVE  MemorizedInv'
<1> USE DEF MemorizedInv
<1>1. /\ Req \in Procs /\ Req \notin Threads
      /\ pc \in [Procs -> ThreadLabels \cup ReqLabels]
  BY ProcessAssumption DEF Procs, PollerInv, PollerTypeOK
<1>2. \A label : Goto(Req, label) => pc'[Req] = label
  BY <1>1 DEF Goto
<1>3. ASSUME pc'[Req] \in {pc[Req]} \cup (ReqLabels \ {"memorize", "reply"}),
             UNCHANGED <<cmd, db, acked>>
      PROVE  MemorizedInv'
  BY <1>3
<1>4. ASSUME NEW t \in Threads, PollStep(t) PROVE MemorizedInv'
  <2>1. UNCHANGED <<cmd, db, acked>>
    BY <1>4
    DEF PollStep, PollAnswered, PollUnanswered, PollGot, PollRecover, PollStore, PollPush,
        deviceVars, pumpVars
  <2> QED
    BY <1>3, <1>4, <2>1, PollKeepsReq
<1>5. ASSUME NEW request \in ClientRequests, RequestPump(request) PROVE MemorizedInv'
  <2>1. request.kind \in {"command", "attribute", "read"}
    BY RequestsAssumption
  <2>2. pc'[Req] = "pumpLock" /\ cmd' = request /\ db' = db
    BY <1>2, <1>5 DEF RequestPump
  <2> QED
    BY <1>5, <2>1, <2>2 DEF RequestPump
<1>6. CASE PumpBegin
  <2>1. pc'[Req] = "pump" /\ UNCHANGED <<cmd, db, acked>>
    BY <1>2, <1>6 DEF PumpBegin, BeginCall
  <2> QED
    BY <2>1
<1>7. CASE PumpReturns \/ PumpRefused
  <2>1. pc[Req] = "pump" /\ pc'[Req] = AfterCall /\ UNCHANGED <<cmd, db, acked>>
    BY <1>2, <1>7 DEF PumpReturns, PumpRefused, CallReturns, CallRefused, Release, pumpVars
  <2> QED
    BY <2>1 DEF AfterCall
<1>8. CASE PumpRaises
  <2>1. pc'[Req] = "pumpFailed" /\ UNCHANGED <<cmd, db, acked>>
    BY <1>2, <1>8 DEF PumpRaises, CallRaises, Release
  <2> QED
    BY <2>1
<1>9. CASE PumpDrop \/ MemorizeFails
  <2>1. pc'[Req] = "idle" /\ cmd' = NoCmd /\ UNCHANGED <<db, acked>>
    BY <1>2, <1>9 DEF PumpDrop, DropConnection, MemorizeFails
  <2> QED
    BY <2>1 DEF NoCmd
<1>10. CASE Memorize
  <2>1. pc[Req] = "memorize" /\ pc'[Req] = "reply" /\ db' = cmd.value
        /\ UNCHANGED <<cmd, acked>>
    BY <1>2, <1>10 DEF Memorize
  <2> QED
    BY <2>1
<1>11. CASE Reply
  <2>1. /\ pc[Req] = "reply" /\ pc'[Req] = "idle" /\ cmd' = NoCmd /\ db' = db
        /\ acked' = IF cmd.kind \in {"command", "attribute"} THEN cmd.value ELSE acked
    BY <1>2, <1>11 DEF Reply
  <2> QED
    BY <2>1 DEF NoCmd
<1>12. CASE Restore
  <2>1. /\ pc'[Req] = "pumpLock" /\ UNCHANGED <<db, acked>>
        /\ cmd' = [kind |-> "restore", value |-> db]
    BY <1>2, <1>12 DEF Restore
  <2> QED
    BY <2>1
<1>13. CASE NoRestore
  <2>1. pc'[Req] = "idle" /\ UNCHANGED <<cmd, db, acked>>
    BY <1>2, <1>13 DEF NoRestore
  <2> QED
    BY <2>1
<1>14. CASE InitStep /\ ~Restore /\ ~NoRestore
  <2>1. UNCHANGED <<cmd, db, acked>>
    BY <1>14 DEF InitStep, ClearReadings, InitAnswered, InitOk, InitFailed, deviceVars, pumpVars
  <2>2. \A t \in Threads : StartThread(t, "restore") => pc'[Req] = "restore"
    BY <1>1 DEF StartThread
  <2>3. pc'[Req] \notin {"memorize", "reply"}
    BY <1>2, <1>14, <2>2
    DEF InitStep, DeleteDevice, Join, CloseClient, InitRefused, InitClient, ResetFields,
        InitBegin, BeginCall, InitAnswered, InitReturns, InitRaises, CallReturns,
        CallRefused, CallRaises, Release, InitOk, InitFailed, InitRead, InitReadFailed
  <2> QED
    BY <2>1, <2>3
<1>15. CASE RequestInit /\ UNCHANGED <<gaugeVars, deviceVars>>
  <2>1. pc'[Req] = "delete" /\ UNCHANGED <<cmd, db, acked>>
    BY <1>2, <1>15 DEF RequestInit, deviceVars, pumpVars
  <2> QED
    BY <2>1
<1>16. CASE UNCHANGED <<pc, cmd, db, acked>>
  BY <1>16
<1>17. CASE Crash
  <2>1. pc'[Req] = "init" /\ cmd' = NoCmd /\ UNCHANGED <<db, acked>>
    BY <1>1, <1>17 DEF Crash, ServerRestarts
  <2> QED
    BY <2>1 DEF NoCmd
<1> QED
  BY <1>4, <1>5, <1>6, <1>7, <1>8, <1>9, <1>10, <1>11, <1>12, <1>13, <1>14, <1>15, <1>16,
     <1>17
  DEF Next, ReqStep, PumpStep, Requests, Environment, ReadState, Tick, InstrumentExecutes,
      InstrumentExecutesLate, InstrumentPumps, InstrumentChanges, PeerChanges, pollerVars,
      deviceVars, pumpVars, vars

-----------------------------------------------------------------------------
(* What clients and subscribers are served *)

ServeTypeOK ==
    /\ pressure \in Pressures \cup {None}
    /\ lastPushed \in Pressures \cup {None}
    /\ answer \in Pressures \cup {None}
    /\ age \in 0..(POLL_FAILURE_THRESHOLD + 1)

\* An answer that is about to be used is there, and what is about to be pushed is
\* what is served.
AnswerInv ==
    /\ \A p \in Procs : pc[p] \in {"got", "recover", "store", "push"} => answer # None
    /\ \A t \in Threads : pc[t] = "push" => pressure = answer

\* From Init on an operational device has a reading, except between the recovery
\* of the state and the store of the reading that brought it.
PressureInv ==
    (thread # None /\ Operational /\ pc[thread] # "store") => pressure # None

\* The age of the reading is the length of the failure streak, one more while the
\* last failure has not been counted; a streak at the threshold means FAULT.
AgeInv ==
    /\ pc[Req] \in {"lock", "call", "got", "failed"} => failures = 0 /\ age = 0
    /\ \A t \in Threads : pc[t] \in {"store", "push"} => failures = 0
    /\ \A t \in Threads : pc[t] = "push" => age = 0
    /\ (thread # None /\ Alive(thread) /\ Operational /\ pc[thread] # "store") =>
           /\ age <= failures + 1
           /\ pc[thread] \notin {"failed", "drop", "count"} => age <= failures
           /\ failures = POLL_FAILURE_THRESHOLD => pc[thread] = "fault"

\* Subscribers have, to one register unit, the reading that is served, except
\* between its store and its push.
EventsInv ==
    /\ pc[Req] \in {"lock", "call", "got", "failed"} => lastPushed = None
    /\ (thread # None /\ lastPushed # None /\ pc[thread] # "push") =>
           pressure # None /\ Distance(pressure, lastPushed) <= 1

ServeInv == ServeTypeOK /\ AnswerInv /\ PressureInv /\ AgeInv /\ EventsInv

\* A step that moves no thread, touches nothing that is served and leaves an
\* operational device operational.
LEMMA ServeUnchanged ==
    ASSUME ServeInv, UNCHANGED <<pc, thread, failures, serveVars>>,
           Operational' <=> Operational
    PROVE  ServeInv'
BY DEF ServeInv, ServeTypeOK, AnswerInv, PressureInv, AgeInv, EventsInv, Alive, Distance,
       serveVars

\* A step of the request thread that brings no answer, inside Init or outside it.
LEMMA ServeReqMoves ==
    ASSUME PollerInv, ServeInv, NEW label, Goto(Req, label),
           label \notin {"got", "recover", "store", "push"},
           label \in {"lock", "call", "failed"} => pc[Req] \in {"lock", "call"},
           thread' \in {thread, None},
           UNCHANGED <<state, failures, serveVars>>
    PROVE  ServeInv'
<1>1. Req \in Procs /\ Req \notin Threads /\ None \notin Threads
      /\ pc \in [Procs -> ThreadLabels \cup ReqLabels] /\ thread \in Threads \cup {None}
  BY ProcessAssumption DEF Procs, PollerInv, PollerTypeOK
<1>2. pc'[Req] = label /\ \A p \in Procs : p # Req => pc'[p] = pc[p]
  BY <1>1 DEF Goto
<1>3. \A t \in Threads : t \in Procs /\ pc'[t] = pc[t]
  BY <1>1, <1>2 DEF Procs
<1>4. thread' # None => thread' = thread /\ thread \in Threads
  BY <1>1
<1>5. ServeTypeOK' /\ AnswerInv'
  BY <1>2, <1>3 DEF ServeInv, ServeTypeOK, AnswerInv, serveVars
<1>6. PressureInv' /\ EventsInv'
  BY <1>2, <1>3, <1>4
  DEF ServeInv, PressureInv, EventsInv, Operational, Distance, serveVars
<1>7. AgeInv'
  BY <1>2, <1>3, <1>4 DEF ServeInv, AgeInv, Operational, Alive, serveVars
<1> QED
  BY <1>5, <1>6, <1>7 DEF ServeInv

\* What holds whenever a poll thread moves: it is the only one, and no Init is
\* under way behind its back.
LEMMA PollAlone ==
    ASSUME PollerInv, NEW t \in Threads, pc[t] # "dead"
    PROVE  /\ t = thread
           /\ pc[Req] \notin {"init", "lock", "call", "got", "failed"}
           /\ \A u \in Threads : u # t => pc[u] = "dead"
BY ProcessAssumption
DEF PollerInv, PollerTypeOK, Lifecycle, OnePoller, Alive, Starting

\* Where everyone is when the poll thread t has gone to label.
Moved(t, label) ==
    /\ t = thread /\ t # None /\ t \in Procs
    /\ pc'[t] = label /\ pc'[Req] = pc[Req] /\ Req \notin Threads
    /\ pc[Req] \notin {"lock", "call", "got", "failed"}
    /\ pc[Req] \notin {"recover", "store", "push"}
    /\ \A p \in Procs : p # t => pc'[p] = pc[p]
    /\ \A u \in Threads : u \in Procs /\ (u # t => pc'[u] = "dead")

LEMMA PollMoves ==
    ASSUME PollerInv, NEW t \in Threads, NEW label, Goto(t, label), pc[t] # "dead"
    PROVE  Moved(t, label)
BY PollAlone, ProcessAssumption
DEF Moved, Goto, Procs, PollerInv, PollerTypeOK, ReqLabels

\* A step of the poll thread that neither counts, nor stores, nor pushes, nor sets
\* the state.
LEMMA ServePollMoves ==
    ASSUME PollerInv, ServeInv, NEW t \in Threads, NEW label, Goto(t, label),
           pc[t] \notin {"dead", "store", "push", "fault", "count", "recover"},
           label \notin {"store", "push", "fault", "failed"},
           pc[t] \in {"failed", "drop"} => label \in {"drop", "count", "dead"},
           label \in {"got", "recover"} => answer' # None,
           answer' \in Pressures \cup {None},
           UNCHANGED <<thread, state, failures, pressure, lastPushed, age>>
    PROVE  ServeInv'
<1>1. Moved(t, label)
  BY PollMoves
<1>2. failures \in Nat /\ age \in Nat
  BY TimingAssumption DEF PollerInv, PollerTypeOK, ServeInv, ServeTypeOK
<1>3. ServeTypeOK' /\ AnswerInv'
  BY <1>1 DEF ServeInv, ServeTypeOK, AnswerInv, Moved, Procs
<1>4. PressureInv' /\ EventsInv'
  BY <1>1 DEF ServeInv, PressureInv, EventsInv, Operational, Distance, Moved
<1>5. AgeInv'
  BY <1>1, <1>2 DEF ServeInv, AgeInv, Operational, Alive, Moved
<1> QED
  BY <1>3, <1>4, <1>5 DEF ServeInv

LEMMA PollStepServe ==
    ASSUME PollerInv, GaugeTypeOK, ServeInv, NEW t \in Threads, PollStep(t)
    PROVE  ServeInv'
<1> USE DEF ServeInv, ServeTypeOK
<1>1. /\ failures \in 0..POLL_FAILURE_THRESHOLD
      /\ POLL_FAILURE_THRESHOLD \in Nat \ {0}
      /\ t \in Procs
  BY TimingAssumption DEF PollerInv, PollerTypeOK, Procs
<1>2. CASE PollWait(t) /\ UNCHANGED <<gaugeVars, deviceVars>>
  BY <1>2, ServePollMoves DEF PollWait, deviceVars, serveVars
<1>3. CASE PollBegin(t) /\ UNCHANGED <<gaugeVars, deviceVars>>
  BY <1>3, ServePollMoves DEF PollBegin, BeginCall, deviceVars, serveVars
<1>4. CASE PollAnswered(t)
  <2>1. answer' \in Pressures /\ answer' # None
    BY <1>4, ReadingAssumption DEF PollAnswered, GaugeTypeOK
  <2> QED
    BY <1>4, <2>1, ServePollMoves DEF PollAnswered, PollReturns, CallReturns, Release
<1>5. CASE PollFailed(t) /\ UNCHANGED <<gaugeVars, deviceVars>>
  BY <1>5, ServePollMoves DEF PollFailed, deviceVars, serveVars
<1>6. CASE PollDrop(t) /\ UNCHANGED <<gaugeVars, deviceVars>>
  BY <1>6, ServePollMoves DEF PollDrop, DropConnection, deviceVars, serveVars
<1>7. CASE PollGot(t)
  BY <1>1, <1>7, ServePollMoves DEF PollGot, AnswerInv, deviceVars, serveVars
<1>8. CASE PollUnanswered(t)
  <2>1. /\ pc[t] = "call" /\ Moved(t, "failed")
        /\ age' = IF age <= POLL_FAILURE_THRESHOLD THEN age + 1 ELSE age
        /\ UNCHANGED <<thread, state, failures, pressure, lastPushed, answer>>
    BY <1>8, PollMoves DEF PollUnanswered, PollRaises, CallRefused, CallRaises, Release
  <2>2. ServeTypeOK' /\ AnswerInv'
    BY <1>1, <2>1 DEF AnswerInv, Moved
  <2>3. PressureInv' /\ EventsInv'
    BY <2>1 DEF PressureInv, EventsInv, Operational, Distance, Moved
  <2>4. Operational => age <= failures /\ failures # POLL_FAILURE_THRESHOLD
    BY <2>1 DEF AgeInv, Alive, Moved
  <2>5. Operational' => age' <= failures' + 1 /\ failures' # POLL_FAILURE_THRESHOLD
    BY <1>1, <2>1, <2>4 DEF Operational
  <2>6. AgeInv'
    BY <2>1, <2>5 DEF AgeInv, Moved
  <2> QED
    BY <2>2, <2>3, <2>6
<1>9. CASE PollCount(t) /\ UNCHANGED <<gaugeVars, deviceVars>>
  <2> DEFINE label == IF failures' >= POLL_FAILURE_THRESHOLD THEN "fault" ELSE "wait"
  <2>1. /\ pc[t] = "count" /\ Moved(t, label)
        /\ failures' = IF failures < POLL_FAILURE_THRESHOLD
                       THEN failures + 1 ELSE failures
        /\ UNCHANGED <<thread, state, pressure, lastPushed, answer, age>>
    BY <1>9, PollMoves DEF PollCount, deviceVars, serveVars
  <2>2. ServeTypeOK' /\ AnswerInv'
    BY <1>1, <2>1 DEF AnswerInv, Moved
  <2>3. PressureInv' /\ EventsInv'
    BY <2>1 DEF PressureInv, EventsInv, Operational, Distance, Moved
  <2>4. Operational => age <= failures + 1 /\ failures < POLL_FAILURE_THRESHOLD
    BY <1>1, <2>1 DEF AgeInv, Alive, Moved
  <2>5. Operational' => age' <= failures' /\ age' <= failures' + 1
    BY <1>1, <2>1, <2>4 DEF Operational
  <2>6. failures' = POLL_FAILURE_THRESHOLD => pc'[t] = "fault"
    BY <1>1, <2>1 DEF Moved
  <2>7. AgeInv'
    BY <2>1, <2>5, <2>6 DEF AgeInv, Moved
  <2> QED
    BY <2>2, <2>3, <2>7
<1>10. CASE PollFault(t) /\ UNCHANGED <<gaugeVars, deviceVars>>
  <2>1. /\ pc[t] = "fault" /\ Moved(t, "wait") /\ state' = "FAULT"
        /\ UNCHANGED <<thread, failures, pressure, lastPushed, answer, age>>
    BY <1>10, PollMoves DEF PollFault, deviceVars, serveVars
  <2>2. ServeTypeOK' /\ AnswerInv'
    BY <2>1 DEF AnswerInv, Moved
  <2>3. PressureInv' /\ EventsInv' /\ AgeInv'
    BY <2>1 DEF PressureInv, EventsInv, AgeInv, Operational, Distance, Moved
  <2> QED
    BY <2>2, <2>3
<1>11. CASE PollRecover(t)
  <2>1. /\ pc[t] = "recover" /\ Moved(t, "store") /\ failures' = 0
        /\ UNCHANGED <<thread, pressure, lastPushed, answer, age>>
    BY <1>11, PollMoves DEF PollRecover, deviceVars, serveVars
  <2>2. ServeTypeOK' /\ AnswerInv'
    BY <1>1, <2>1 DEF AnswerInv, Moved
  <2>3. PressureInv' /\ EventsInv' /\ AgeInv'
    BY <2>1 DEF PressureInv, EventsInv, AgeInv, Distance, Moved
  <2> QED
    BY <2>2, <2>3
<1>12. CASE PollStore(t)
  <2>1. /\ pc[t] = "store" /\ Moved(t, "push") /\ pressure' = answer /\ age' = 0
        /\ UNCHANGED <<thread, state, failures, lastPushed, answer>>
    BY <1>12, PollMoves DEF PollStore
  <2>2. answer # None /\ failures = 0
    BY <1>1, <2>1 DEF AnswerInv, AgeInv
  <2>3. ServeTypeOK' /\ AnswerInv'
    BY <1>1, <2>1, <2>2 DEF AnswerInv, Moved
  <2>4. PressureInv' /\ EventsInv' /\ AgeInv'
    BY <1>1, <2>1, <2>2 DEF PressureInv, EventsInv, AgeInv, Moved
  <2> QED
    BY <2>3, <2>4
<1>13. CASE PollPush(t)
  <2>1. /\ pc[t] = "push" /\ Moved(t, "wait") /\ answer' = None
        /\ UNCHANGED <<thread, state, failures, pressure, age>>
        /\ lastPushed' \in IF lastPushed = None THEN {answer}
                           ELSE IF Distance(answer, lastPushed) > 1 THEN {answer}
                           ELSE {answer, lastPushed}
    BY <1>13, PollMoves DEF PollPush
  <2>2. /\ answer \in Pressures /\ pressure = answer /\ failures = 0 /\ age = 0
    BY <1>1, <2>1 DEF AnswerInv, AgeInv
  <2>3. \/ lastPushed' = answer
        \/ /\ lastPushed' = lastPushed /\ lastPushed \in Pressures
           /\ ~(Distance(answer, lastPushed) > 1)
    BY <2>1
  <2>4. lastPushed' \in Pressures /\ Distance(answer, lastPushed') <= 1
    BY <2>2, <2>3, PressureAssumption DEF Distance, Pressures
  <2>5. ServeTypeOK' /\ AnswerInv'
    BY <2>1, <2>2, <2>4 DEF AnswerInv, Moved, Procs
  <2>6. pressure' # None /\ Distance(pressure', lastPushed') <= 1
    BY <2>1, <2>2, <2>4, ReadingAssumption
  <2>7. PressureInv' /\ EventsInv'
    BY <2>1, <2>6 DEF PressureInv, EventsInv, Distance, Moved
  <2>8. AgeInv'
    BY <1>1, <2>1, <2>2 DEF AgeInv, Moved
  <2> QED
    BY <2>5, <2>7, <2>8
<1> QED
  BY <1>2, <1>3, <1>4, <1>5, <1>6, <1>7, <1>8, <1>9, <1>10, <1>11, <1>12, <1>13
  DEF PollStep

\* While Init has no poll thread, only what the request thread does matters.
LEMMA NoThread ==
    ASSUME PollerInv, pc[Req] \in Starting
    PROVE  thread = None /\ \A u \in Threads : pc[u] = "dead"
BY ProcessAssumption DEF PollerInv, Lifecycle, OnePoller, Alive

\* A device without readings and without a poll thread.
LEMMA ServeStarts ==
    ASSUME pressure' = None, lastPushed' = None, answer' = None, age' = 0,
           thread' = None, failures' = 0,
           \A p \in Procs : pc'[p] \notin {"got", "recover", "store", "push"}
    PROVE  ServeInv'
<1>1. Threads \subseteq Procs /\ 0 \in 0..(POLL_FAILURE_THRESHOLD + 1)
  BY TimingAssumption DEF Procs
<1> QED
  BY <1>1
  DEF ServeInv, ServeTypeOK, AnswerInv, PressureInv, AgeInv, EventsInv

LEMMA InitStepServe ==
    ASSUME PollerInv, GaugeTypeOK, ServeInv, InitStep
    PROVE  ServeInv'
<1> USE DEF ServeInv, ServeTypeOK
<1>1. /\ Req \in Procs /\ Req \notin Threads /\ Threads \subseteq Procs
      /\ None \notin Threads
      /\ pc \in [Procs -> ThreadLabels \cup ReqLabels]
      /\ failures \in 0..POLL_FAILURE_THRESHOLD
      /\ POLL_FAILURE_THRESHOLD \in Nat \ {0}
  BY ProcessAssumption, TimingAssumption DEF Procs, PollerInv, PollerTypeOK
<1> DEFINE Went(label) == pc'[Req] = label /\ \A u \in Threads : pc'[u] = pc[u]
<1>2. \A label : Goto(Req, label) => Went(label)
  BY <1>1 DEF Goto
<1>3. CASE (DeleteDevice \/ Join \/ CloseClient) /\ UNCHANGED <<gaugeVars, deviceVars>>
  BY <1>3, ServeReqMoves DEF DeleteDevice, Join, CloseClient, deviceVars
<1>4. CASE (InitRefused("restore") \/ InitClient) /\ ClearReadings
  <2>1. /\ failures' = 0 /\ thread' = None
        /\ pressure' = None /\ lastPushed' = None /\ answer' = None /\ age' = 0
        /\ Went("restore") \/ Went("lock")
    BY <1>2, <1>4 DEF InitRefused, InitClient, ResetFields, ClearReadings
  <2>2. pc[Req] \in Starting
    BY <1>4 DEF InitRefused, InitClient, ResetFields, Starting
  <2>3. \A p \in Procs : pc'[p] \notin {"got", "recover", "store", "push"}
    BY <2>1, <2>2, NoThread DEF Procs
  <2> QED
    BY <2>1, <2>3, ServeStarts
<1>5. CASE (InitBegin \/ InitRaises) /\ UNCHANGED <<gaugeVars, deviceVars>>
  BY <1>5, ServeReqMoves
  DEF InitBegin, BeginCall, InitRaises, CallRefused, CallRaises, Release, deviceVars
<1>6. CASE InitAnswered
  <2>1. /\ pc[Req] = "call" /\ Went("got") /\ answer' = level
        /\ UNCHANGED <<thread, state, failures, pressure, lastPushed, age>>
    BY <1>2, <1>6 DEF InitAnswered, InitReturns, CallReturns, Release
  <2>2. thread = None /\ \A u \in Threads : pc'[u] = "dead"
    BY <2>1, NoThread DEF Starting
  <2>3. answer' \in Pressures /\ answer' # None
    BY <2>1, ReadingAssumption DEF GaugeTypeOK
  <2>4. ServeTypeOK' /\ AnswerInv'
    BY <1>1, <2>1, <2>2, <2>3 DEF AnswerInv, Procs
  <2>5. PressureInv' /\ AgeInv' /\ EventsInv'
    BY <1>1, <2>1, <2>2 DEF PressureInv, AgeInv, EventsInv
  <2> QED
    BY <2>4, <2>5
<1> DEFINE Started(t) == /\ thread' = t /\ pc'[Req] = "restore" /\ pc'[t] = "wait"
                         /\ \A u \in Threads : u # t => pc'[u] = "dead"
<1>7. ASSUME NEW t \in Threads, StartThread(t, "restore"), pc[Req] \in Starting
      PROVE  Started(t)
  BY <1>1, <1>7, NoThread DEF StartThread
<1>8. ASSUME NEW t \in Threads, InitOk(t) PROVE ServeInv'
  <2>1. /\ pc[Req] = "got" /\ Started(t)
        /\ pressure' = answer /\ answer' = None
        /\ UNCHANGED <<failures, lastPushed, age>>
    BY <1>7, <1>8 DEF InitOk, InitRead, Starting
  <2>2. /\ answer # None /\ failures = 0 /\ age = 0 /\ lastPushed = None
    BY <1>1, <2>1 DEF AnswerInv, AgeInv, EventsInv
  <2>3. ServeTypeOK' /\ AnswerInv'
    BY <1>1, <2>1, <2>2 DEF AnswerInv, Procs
  <2>4. PressureInv' /\ AgeInv' /\ EventsInv'
    BY <1>1, <2>1, <2>2 DEF PressureInv, AgeInv, EventsInv
  <2> QED
    BY <2>3, <2>4
<1>9. ASSUME NEW t \in Threads, InitFailed(t) PROVE ServeInv'
  <2>1. /\ pc[Req] = "failed" /\ Started(t) /\ state' = "FAULT"
        /\ UNCHANGED <<failures, pressure, lastPushed, answer, age>>
    BY <1>7, <1>9 DEF InitFailed, InitReadFailed, Starting, deviceVars, serveVars
  <2>2. lastPushed = None
    BY <2>1 DEF EventsInv
  <2>3. ServeTypeOK' /\ AnswerInv'
    BY <1>1, <2>1 DEF AnswerInv, Procs
  <2>4. PressureInv' /\ AgeInv' /\ EventsInv'
    BY <1>1, <2>1, <2>2 DEF PressureInv, AgeInv, EventsInv, Operational
  <2> QED
    BY <2>3, <2>4
<1>10. CASE Restore \/ NoRestore
  BY <1>10, ServeReqMoves DEF Restore, NoRestore
<1> QED
  BY <1>3, <1>4, <1>5, <1>6, <1>8, <1>9, <1>10 DEF InitStep

LEMMA NextServe ==
    ASSUME PollerInv, GaugeTypeOK, ServeInv, [Next]_vars
    PROVE  ServeInv'
<1>1. CASE UNCHANGED <<pc, thread, state, failures, serveVars>>
  BY <1>1, ServeUnchanged DEF Operational
<1>2. CASE ReadState
  <2>1. Operational' <=> Operational
    BY <1>2 DEF ReadState, Operational
  <2> QED
    BY <1>2, <2>1, ServeUnchanged DEF ReadState, deviceVars
<1>3. ASSUME NEW request \in ClientRequests, RequestPump(request) PROVE ServeInv'
  BY <1>3, ServeReqMoves DEF RequestPump
<1>4. CASE RequestInit /\ UNCHANGED <<gaugeVars, deviceVars>>
  BY <1>4, ServeReqMoves DEF RequestInit, deviceVars
<1>5. CASE PumpStep
  BY <1>5, ServeReqMoves
  DEF PumpStep, PumpBegin, PumpReturns, PumpRefused, PumpRaises, PumpDrop, Memorize,
      MemorizeFails, Reply, AfterCall, BeginCall, CallReturns, CallRefused, CallRaises,
      Release, DropConnection
<1>6. CASE Crash
  <2>1. \A p \in Procs : pc'[p] \in {"init", "dead"}
    BY <1>6 DEF Crash, ServerRestarts
  <2> QED
    BY <1>6, <2>1, ServeStarts DEF Crash, ServerRestarts
<1> QED
  BY <1>1, <1>2, <1>3, <1>4, <1>5, <1>6, PollStepServe, InitStepServe
  DEF Next, ReqStep, Requests, Environment, InstrumentExecutes, InstrumentExecutesLate,
      InstrumentPumps, InstrumentChanges, PeerChanges, Tick, vars, pollerVars, deviceVars

-----------------------------------------------------------------------------
(* Connections on which a call has failed *)

LEMMA NextDropped ==
    ASSUME PollerInv, FailedConnectionIsDropped, [Next]_vars
    PROVE  FailedConnectionIsDropped'
<1>1. Req \in Procs /\ Threads \subseteq Procs
  BY DEF Procs
<1>2. CASE UNCHANGED <<suspect, stop, pc>>
  BY <1>2, DroppedStutters
<1>3. ASSUME NEW t \in Threads, PollGot(t) \/ PollRecover(t) \/ PollStore(t) \/ PollPush(t)
      PROVE  FailedConnectionIsDropped'
  BY <1>1, <1>3, DroppedMoves DEF PollGot, PollRecover, PollStore, PollPush, Dropping
<1>4. CASE PumpDrop
  BY <1>4 DEF PumpDrop, DropConnection, FailedConnectionIsDropped
<1>5. CASE PumpRaises
  BY <1>1, <1>5, DroppedMoves DEF PumpRaises, CallRaises, Release, Dropping
<1>6. CASE PumpBegin \/ PumpReturns \/ PumpRefused \/ Memorize \/ MemorizeFails \/ Reply
  BY <1>1, <1>6, DroppedMoves
  DEF PumpBegin, PumpReturns, PumpRefused, Memorize, MemorizeFails, Reply, BeginCall,
      CallReturns, CallRefused, Release, Dropping
<1>7. CASE Restore \/ NoRestore \/ \E request \in ClientRequests : RequestPump(request)
  BY <1>1, <1>7, DroppedMoves DEF Restore, NoRestore, RequestPump, Dropping
<1>8. CASE SharedInit
  BY <1>8, SharedInitDropped
<1>9. ASSUME NEW t \in Threads, SharedPoll(t) PROVE FailedConnectionIsDropped'
  BY <1>9, SharedPollDropped
<1>10. CASE \/ InitRefused("restore") \/ Crash
            \/ \E t \in Threads : InitOk(t) \/ InitFailed(t)
  BY <1>10, InitDropped DEF InitOk, InitFailed, Crash
<1> QED
  BY <1>2, <1>3, <1>4, <1>5, <1>6, <1>7, <1>8, <1>9, <1>10
  DEF Next, PollStep, PollAnswered, PollUnanswered, ReqStep, PumpStep, InitStep,
      InitAnswered, Requests, Environment, ReadState, InstrumentExecutes,
      InstrumentExecutesLate, InstrumentPumps, InstrumentChanges, PeerChanges, SharedPoll,
      SharedInit, vars, pollerVars

-----------------------------------------------------------------------------
(* The theorems *)

VacuumInv ==
    /\ PollerInv
    /\ GaugeTypeOK
    /\ PumpTypeOK
    /\ MemorizedInv
    /\ ServeInv

LEMMA InitVacuumInv == Init => VacuumInv
<1> SUFFICES ASSUME Init PROVE VacuumInv
  OBVIOUS
<1>1. PollerInv
  BY PollerInitInv DEF Init
<1>2. GaugeTypeOK
  <2>1. StartPressure \in LowestPressure..StartPressure
    BY PressureAssumption
  <2>2. level = StartPressure /\ pump = FALSE
    BY DEF Init, GaugeInit
  <2> QED
    BY <2>1, <2>2 DEF GaugeTypeOK, Pressures
<1>3. PumpTypeOK
  <2>1. NoCmd \in [kind : Kinds, value : BOOLEAN]
    BY DEF NoCmd, Kinds
  <2> QED
    BY <2>1 DEF Init, PumpTypeOK
<1>4. Req \notin Threads /\ Req \in Procs /\ Threads \subseteq Procs
  BY ProcessAssumption DEF Procs
<1>5. /\ pc[Req] = "init" /\ thread = None
      /\ \A p \in Procs : pc[p] \in {"init", "dead"}
  BY <1>4 DEF Init, PollerInit
<1>6. MemorizedInv
  BY <1>5 DEF Init, MemorizedInv, NoCmd
<1>7. ServeInv
  BY <1>4, <1>5, TimingAssumption
  DEF Init, ServeInv, ServeTypeOK, AnswerInv, PressureInv, AgeInv, EventsInv
<1> QED
  BY <1>1, <1>2, <1>3, <1>6, <1>7 DEF VacuumInv

LEMMA NextVacuumInv == VacuumInv /\ [Next]_vars => VacuumInv'
BY NextPoller, GaugeTyped, PumpTyped, NextMemorized, NextServe DEF VacuumInv

\* The inductive invariant holds: poll thread, instrument, pump request and
\* readings are always consistent in the way the code relies on.
THEOREM VacuumIsConsistent == Spec => []VacuumInv
BY InitVacuumInv, NextVacuumInv, PTL DEF Spec

\* Every variable keeps its type: the device only ever shows the four states it
\* names, and the two threads never run each other's code.
THEOREM VacuumTypeCorrect == Spec => []TypeOK
<1>1. VacuumInv => TypeOK
  BY DEF VacuumInv, TypeOK, PollerInv, PumpTypeOK, ServeInv, ServeTypeOK
<1> QED
  BY <1>1, VacuumIsConsistent, PTL

\* Init leaves exactly one poll thread, and so does the restore that follows it
\* (vacuum_gauge.py, lines 30-32).
THEOREM VacuumHasOnePoller == Spec => []OnePoller
<1>1. VacuumInv => OnePoller
  BY DEF VacuumInv, PollerInv, Lifecycle
<1> QED
  BY <1>1, VacuumIsConsistent, PTL

\* At most one thread is inside the pymodbus client, and it holds the lock
\* (lines 15-20 and 96).
THEOREM VacuumCallsOneAtATime == Spec => []OneCallAtATime
<1>1. VacuumInv => OneCallAtATime
  BY DEF VacuumInv, PollerInv
<1> QED
  BY <1>1, VacuumIsConsistent, PTL

\* While the poll thread sleeps, an operational device has a reading that fewer
\* than POLL_FAILURE_THRESHOLD failed polls have outdated (lines 241-243).
THEOREM VacuumServedBetweenPolls == Spec => []ServedBetweenPolls
<1>1. ASSUME VacuumInv, Served, thread # None, pc[thread] = "wait"
      PROVE  pressure # None /\ age < POLL_FAILURE_THRESHOLD
  <2>1. Operational /\ Alive(thread)
    BY <1>1 DEF Served, Alive
  <2>2. /\ failures \in 0..POLL_FAILURE_THRESHOLD
        /\ POLL_FAILURE_THRESHOLD \in Nat /\ age \in Nat
    BY <1>1, TimingAssumption DEF VacuumInv, PollerInv, PollerTypeOK, ServeInv, ServeTypeOK
  <2>3. age <= failures /\ failures # POLL_FAILURE_THRESHOLD
    BY <1>1, <2>1 DEF VacuumInv, ServeInv, AgeInv
  <2>4. pressure # None
    BY <1>1, <2>1 DEF VacuumInv, ServeInv, PressureInv
  <2> QED
    BY <2>2, <2>3, <2>4
<1>2. VacuumInv => ServedBetweenPolls
  BY <1>1 DEF ServedBetweenPolls
<1> QED
  BY <1>2, VacuumIsConsistent, PTL

\* Between two polls a subscriber is at most one register unit behind what is
\* served (lines 57-61 and 217-225), for any register width and any drift.
THEOREM VacuumEventsFollowPressure == Spec => []EventsFollowPressure
<1>1. VacuumInv => EventsFollowPressure
  BY DEF VacuumInv, ServeInv, EventsInv, EventsFollowPressure
<1> QED
  BY <1>1, VacuumIsConsistent, PTL

\* A restart restores the last acknowledged pump request, whatever was killed,
\* failed or Init-ed on the way (lines 43-45).
THEOREM VacuumRestartKeepsCommand == Spec => []RestartKeepsCommand
<1>1. VacuumInv => RestartKeepsCommand
  BY DEF VacuumInv, MemorizedInv, RestartKeepsCommand
<1> QED
  BY <1>1, VacuumIsConsistent, PTL

\* A connection on which a call has failed is on its way to being closed, whichever
\* thread saw it fail and whatever Init does meanwhile (vacuum_gauge.py, lines 146-154).
THEOREM VacuumDropsFailedConnection == Spec => []FailedConnectionIsDropped
<1>1. Init => FailedConnectionIsDropped
  BY DEF Init, PollerInit, FailedConnectionIsDropped
<1>2. /\ VacuumInv /\ FailedConnectionIsDropped /\ [Next]_vars
      => FailedConnectionIsDropped'
  BY NextDropped DEF VacuumInv
<1> QED
  BY <1>1, <1>2, VacuumIsConsistent, PTL DEF Spec

-----------------------------------------------------------------------------
(* The instrument *)

\* Whatever the device calls, gives up or closes (_call() and _drop_connection()), and
\* whoever is killed, the instrument it talks to does no more than GaugeRegisters allows:
\* with FakeVacuumImplementsGauge below, the simulator may stand in its place.
THEOREM VacuumKeepsGauge == Spec => GaugeSpec
<1>1. Init => GaugeInit
  BY DEF Init
<1>2. VacuumInv /\ [Next]_vars => [GaugeNext]_gaugeVars
  BY GaugeSteps DEF VacuumInv
<1> QED
  BY <1>1, <1>2, VacuumIsConsistent, PTL DEF Spec, GaugeSpec

-----------------------------------------------------------------------------
(* The simulator *)

\* What the decay has taken off the pressure since the pump was switched on.
Decayed == pressure_at_pump_on - elapsed * DECAY_RATE

\* The clock runs while the pump does, and the register, last computed some time
\* ago, is not below what a read would compute now: this is what makes the next
\* read a fall.
DecayInv ==
    /\ FakeTypeOK
    /\ pump_on <=> elapsed # Unset
    /\ pump_on => pressure_at_pump_on # Unset /\ Decayed <= register

LEMMA DecayGrows ==
    ASSUME NEW e \in Nat, NEW d \in Nat
    PROVE  e * d \in Nat /\ e * d <= (e + 1) * d /\ 0 * d = 0
<1>1. (e + 1) * d = e * d + d
  OBVIOUS
<1>2. e * d \in Nat /\ 0 * d = 0
  OBVIOUS
<1> QED
  BY <1>1, <1>2

LEMMA PressuresAreNat == MIN_PRESSURE..INITIAL_PRESSURE \subseteq Nat
BY InstrumentAssumption

LEMMA InitDecayInv == FakeInit => DecayInv
<1> SUFFICES ASSUME FakeInit PROVE DecayInv
  OBVIOUS
<1>1. INITIAL_PRESSURE \in MIN_PRESSURE..INITIAL_PRESSURE
  BY InstrumentAssumption
<1>2. register = INITIAL_PRESSURE /\ ~pump_on /\ pump_on \in BOOLEAN
      /\ elapsed = Unset /\ pressure_at_pump_on = Unset
  BY DEF FakeInit
<1>3. FakeTypeOK
  BY <1>1, <1>2 DEF FakeTypeOK
<1> QED
  BY <1>2, <1>3 DEF DecayInv

LEMMA NextDecayInv == DecayInv /\ [FakeNext]_fakeVars => DecayInv'
<1> SUFFICES ASSUME DecayInv, [FakeNext]_fakeVars PROVE DecayInv'
  OBVIOUS
<1> USE InstrumentAssumption
<1>1. /\ register \in Nat /\ MIN_PRESSURE <= register /\ register <= INITIAL_PRESSURE
      /\ pump_on \in BOOLEAN
      /\ pump_on => elapsed \in 0..MaxElapsed /\ pressure_at_pump_on \in Nat
      /\ Unset \notin Nat /\ DECAY_RATE \in Nat
  BY DEF DecayInv, FakeTypeOK
<1>2. ASSUME NEW v \in BOOLEAN, WritePumpRegister(v) PROVE DecayInv'
  <2>1. CASE v /\ ~pump_on
    <3>1. /\ register' = register /\ pump_on' = TRUE /\ elapsed' = 0
          /\ pressure_at_pump_on' = register
      BY <1>1, <1>2, <2>1 DEF WritePumpRegister
    <3>2. Decayed' = register
      BY <1>1, <3>1, DecayGrows DEF Decayed
    <3> QED
      BY <1>1, <3>1, <3>2 DEF DecayInv, FakeTypeOK
  <2>2. CASE v /\ pump_on
    <3>1. /\ register' = register /\ pump_on' = TRUE /\ elapsed' = elapsed
          /\ pressure_at_pump_on' = pressure_at_pump_on
      BY <1>1, <1>2, <2>2 DEF WritePumpRegister
    <3> QED
      BY <2>2, <3>1 DEF DecayInv, FakeTypeOK, Decayed
  <2>3. CASE ~v
    <3>1. /\ register' = register /\ pump_on' = FALSE /\ elapsed' = Unset
          /\ pressure_at_pump_on' = pressure_at_pump_on
      BY <1>2, <2>3 DEF WritePumpRegister
    <3> QED
      BY <3>1 DEF DecayInv, FakeTypeOK
  <2> QED
    BY <2>1, <2>2, <2>3
<1>3. CASE ReadPressure
  <2>1. /\ pump_on /\ UNCHANGED <<pump_on, elapsed, pressure_at_pump_on>>
        /\ register' = IF Decayed < MIN_PRESSURE THEN MIN_PRESSURE ELSE Decayed
    BY <1>3 DEF ReadPressure, Decayed
  <2>2. Decayed' = Decayed /\ Decayed \in Int /\ Decayed <= register
    BY <1>1, <2>1, DecayGrows DEF Decayed, DecayInv
  <2>3. register' \in MIN_PRESSURE..INITIAL_PRESSURE /\ Decayed' <= register'
    BY <1>1, <2>1, <2>2
  <2> QED
    BY <2>1, <2>3 DEF DecayInv, FakeTypeOK
<1>4. CASE ClockTicks
  <2>1. /\ elapsed # Unset /\ elapsed < MaxElapsed /\ elapsed' = elapsed + 1
        /\ UNCHANGED <<register, pump_on, pressure_at_pump_on>>
    BY <1>4 DEF ClockTicks
  <2>2. pump_on /\ elapsed \in Nat /\ elapsed' \in 0..MaxElapsed
    BY <1>1, <2>1 DEF DecayInv
  <2>3. Decayed' <= Decayed /\ Decayed <= register /\ Decayed \in Int /\ Decayed' \in Int
    BY <1>1, <2>1, <2>2, DecayGrows DEF Decayed, DecayInv
  <2> QED
    BY <1>1, <2>1, <2>2, <2>3 DEF DecayInv, FakeTypeOK
<1>5. CASE Restart
  <2>1. INITIAL_PRESSURE \in MIN_PRESSURE..INITIAL_PRESSURE
    OBVIOUS
  <2>2. register' = INITIAL_PRESSURE /\ ~pump_on' /\ pump_on' \in BOOLEAN
        /\ elapsed' = Unset /\ pressure_at_pump_on' = Unset
    BY <1>5 DEF Restart
  <2>3. FakeTypeOK'
    BY <2>1, <2>2 DEF FakeTypeOK
  <2> QED
    BY <2>2, <2>3 DEF DecayInv
<1>6. CASE UNCHANGED fakeVars
  BY <1>6 DEF fakeVars, DecayInv, FakeTypeOK, Decayed
<1> QED
  BY <1>2, <1>3, <1>4, <1>5, <1>6 DEF FakeNext

\* The pressure register stays between its floor and its initial value, through
\* any sequence of pump writes, reads and restarts.
THEOREM FakeVacuumTypeCorrect == FakeSpec => []FakeTypeOK
<1>1. DecayInv => FakeTypeOK
  BY DEF DecayInv
<1> QED
  BY <1>1, InitDecayInv, NextDecayInv, PTL DEF FakeSpec

LEMMA StepsAreGaugeSteps ==
    DecayInv /\ [FakeNext]_fakeVars => [Registers!GaugeNext]_(Registers!gaugeVars)
<1> SUFFICES ASSUME DecayInv, [FakeNext]_fakeVars
             PROVE  [Registers!GaugeNext]_(Registers!gaugeVars)
  OBVIOUS
<1> USE DEF Registers!gaugeVars
<1>1. ASSUME NEW v \in BOOLEAN, WritePumpRegister(v) PROVE Registers!GaugeNext
  BY <1>1 DEF WritePumpRegister, Registers!WritePump, Registers!GaugeNext
<1>2. CASE ReadPressure
  <2>1. /\ pump_on /\ UNCHANGED pump_on
        /\ register' = IF Decayed < MIN_PRESSURE THEN MIN_PRESSURE ELSE Decayed
    BY <1>2 DEF ReadPressure, Decayed
  <2>2. Decayed <= register /\ Decayed \in Int /\ register \in MIN_PRESSURE..INITIAL_PRESSURE
    <3>1. elapsed \in Nat /\ pressure_at_pump_on \in Nat /\ DECAY_RATE \in Nat
      BY <2>1, InstrumentAssumption DEF DecayInv, FakeTypeOK
    <3> QED
      BY <2>1, <3>1, DecayGrows DEF Decayed, DecayInv, FakeTypeOK
  <2>3. register' \in MIN_PRESSURE..INITIAL_PRESSURE /\ register' <= register
    BY <2>1, <2>2, InstrumentAssumption
  <2>4. CASE register' = register
    BY <2>1, <2>4
  <2>5. CASE register' < register
    BY <2>1, <2>3, <2>5
    DEF Registers!GaugeNext, Registers!PressureFalls, Registers!Pressures
  <2> QED
    BY <2>2, <2>3, <2>4, <2>5, InstrumentAssumption
<1>3. CASE ClockTicks
  BY <1>3 DEF ClockTicks
<1>4. CASE Restart
  BY <1>4 DEF Restart, Registers!GaugeRestarts, Registers!GaugeNext
<1>5. CASE UNCHANGED fakeVars
  BY <1>5 DEF fakeVars
<1> QED
  BY <1>1, <1>2, <1>3, <1>4, <1>5 DEF FakeNext

\* The simulator is a vacuum gauge: a pump "should only ever pull pressure further
\* down from wherever it currently is" (lines 24-33), for any decay rate.
THEOREM FakeVacuumImplementsGauge == FakeSpec => ImplementsGauge
<1>1. FakeInit => Registers!GaugeInit
  BY DEF FakeInit, Registers!GaugeInit
<1> QED
  BY <1>1, InitDecayInv, NextDecayInv, StepsAreGaugeSteps, PTL
  DEF FakeSpec, ImplementsGauge, Registers!GaugeSpec

=============================================================================
