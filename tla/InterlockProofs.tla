--------------------------- MODULE InterlockProofs ---------------------------
(***************************************************************************)
(* Theorems about InterlockMonitor, for any inputs, any number of poll     *)
(* threads, any threshold and any timeouts that satisfy TimingAssumption.  *)
(***************************************************************************)
EXTENDS InterlockMonitor, ModbusPollerProofs

\* No Init is between its new fields and the end of its first read.
Settled == {"idle", "delete", "join", "close", "resetLock", "reset", "resetFailed"}

\* The Reset command: at most MaxLate writes are given up, and what it will say is
\* not said before it has ended.
ResetInv ==
    /\ pc[Req] \in {"resetLock", "reset"} => late < MaxLate
    /\ write = "sent" => pc[Req] = "reset"
    /\ pc[Req] \in {"resetLock", "reset", "resetFailed"} => outcome = "none"
    /\ ResetAnswersAreTrue

\* An answer that is about to be used is there.
AnswerInv == \A p \in Procs : pc[p] \in {"got", "store"} => answer # None

\* Between Inits an operational device has a cache and a thread that refreshes it,
\* and its state says what the cache says.
CacheInv ==
    pc[Req] \in Settled /\ Operational =>
        /\ cache # None
        /\ pc[Req] \notin {"join", "close"} => thread # None
        /\ (thread # None /\ pc[thread] # "apply") => state = StateOf(cache)

\* The age of the cache is the length of the failure streak, one more while the
\* last failure has not been counted; a streak at the threshold means FAULT.
AgeInv ==
    /\ pc[Req] \in {"lock", "call", "got", "failed"} => failures = 0 /\ age = 0
    /\ \A t \in Threads : pc[t] = "apply" => failures = 0 /\ age = 0 /\ cache # None
    /\ (thread # None /\ Alive(thread) /\ Operational) =>
           /\ age <= failures + 1
           /\ pc[thread] \notin {"failed", "drop", "count"} => age <= failures
           /\ failures = POLL_FAILURE_THRESHOLD => pc[thread] = "fault"

\* The PLC's permit is the opposite of its latch, which is set while an input is
\* unsafe.
CoilsAgree == (permit <=> ~fault) /\ (~fault => InputsOk(inputs))

InterlockInv ==
    /\ PollerInv
    /\ TypeOK
    /\ ResetInv
    /\ AnswerInv
    /\ CacheInv
    /\ AgeInv
    /\ CoilsAgree

-----------------------------------------------------------------------------
(* The PLC *)

LEMMA WriteCoilsTyped ==
    ASSUME PlcTypeOK, NEW w, NEW reset \in BOOLEAN,
           \A i \in Inputs : i \in DOMAIN w => w[i] \in BOOLEAN,
           WriteCoils(w, reset)
    PROVE  PlcTypeOK' /\ CoilsAgree'
<1>1. inputs' \in [Inputs -> BOOLEAN]
  BY DEF PlcTypeOK, WriteCoils
<1>2. fault' \in BOOLEAN
  <2>1. CASE (fault /\ ~(reset /\ InputsOk(inputs'))) \/ ~InputsOk(inputs')
    BY <2>1 DEF WriteCoils
  <2>2. CASE ~((fault /\ ~(reset /\ InputsOk(inputs'))) \/ ~InputsOk(inputs'))
    BY <2>2 DEF WriteCoils
  <2> QED
    BY <2>1, <2>2
<1>3. permit' \in BOOLEAN
  <2>1. CASE InputsOk(inputs') /\ ~fault'
    BY <2>1 DEF WriteCoils
  <2>2. CASE ~(InputsOk(inputs') /\ ~fault')
    BY <2>2 DEF WriteCoils
  <2> QED
    BY <2>1, <2>2
<1>4. CoilsAgree'
  BY DEF WriteCoils, CoilsAgree
<1> QED
  BY <1>1, <1>2, <1>3, <1>4 DEF PlcTypeOK

LEMMA PlcStepTyped ==
    ASSUME PlcTypeOK, CoilsAgree, Next
    PROVE  PlcTypeOK' /\ CoilsAgree'
<1>1. CASE UNCHANGED plcVars
  BY <1>1 DEF plcVars, PlcTypeOK, CoilsAgree, InputsOk
<1>2. CASE PlcExecutes \/ PlcExecutesLate
  BY <1>2, WriteCoilsTyped DEF PlcExecutes, PlcExecutesLate, WriteReset
<1>3. ASSUME NEW w \in [Inputs -> BOOLEAN], PlantChanges(w)
      PROVE  PlcTypeOK' /\ CoilsAgree'
  BY <1>3, WriteCoilsTyped DEF PlantChanges, WriteInputs
<1>4. CASE PlcRestarts
  <2>1. inputs' = [i \in Inputs |-> TRUE] /\ permit' = TRUE /\ fault' = FALSE
    BY <1>4 DEF PlcRestarts
  <2>2. InputsOk(inputs')
    BY <2>1 DEF InputsOk
  <2> QED
    BY <2>1, <2>2 DEF PlcTypeOK, CoilsAgree
<1>5. \/ UNCHANGED plcVars \/ PlcExecutes \/ PlcExecutesLate \/ PlcRestarts
      \/ \E w \in [Inputs -> BOOLEAN] : PlantChanges(w)
  BY DEF Next, PollStep, ReqStep, ResetStep, InitStep, Requests, Environment,
         PollAnswered, PollUnanswered, PollGot, PollStore, PollApply,
         RequestReset, ResetBegin, ResetReturns, ResetRefused, ResetRaises, ResetDrop,
         ClearCache, InitAnswered, InitOk, InitFailed, PlcChanges
<1> QED
  BY <1>1, <1>2, <1>3, <1>4, <1>5

-----------------------------------------------------------------------------
(* The poll thread's life cycle and the lock *)

LEMMA PollStepPoller ==
    ASSUME PollerInv, NEW t \in Threads, PollStep(t)
    PROVE  PollerInv'
<1>1. CASE SharedPoll(t)
  BY <1>1, SharedPollInv
<1>2. CASE PollGot(t)
  <2> DEFINE label == IF stop THEN "dead" ELSE "store"
  <2>1. label \in ThreadLabels
    BY DEF ThreadLabels
  <2> QED
    BY <1>2, <2>1, ThreadMoves DEF PollGot, PollerInv, PollerTypeOK
<1>3. CASE PollStore(t)
  <2>1. "apply" \in ThreadLabels /\ 0 \in 0..POLL_FAILURE_THRESHOLD
    BY TimingAssumption DEF ThreadLabels
  <2> QED
    BY <1>3, <2>1, ThreadMoves DEF PollStore, PollerInv, PollerTypeOK
<1>4. CASE PollApply(t)
  <2>1. "wait" \in ThreadLabels /\ StateOf(cache) \in States
    BY DEF ThreadLabels, StateOf, States
  <2> QED
    BY <1>4, <2>1, ThreadMoves DEF PollApply, PollerInv, PollerTypeOK
<1> QED
  BY <1>1, <1>2, <1>3, <1>4 DEF PollStep, PollAnswered, PollUnanswered, SharedPoll

LEMMA ResetStepPoller ==
    ASSUME PollerInv, ResetStep \/ RequestReset
    PROVE  PollerInv'
<1>1. Req \in Procs
  BY DEF Procs
<1>2. CASE RequestReset
  BY <1>2, ReqMoves DEF RequestReset, Running, PollerInv, PollerTypeOK
<1>3. CASE ResetBegin
  BY <1>1, <1>3, CallBegins DEF ResetBegin, CallLabels
<1>4. CASE ResetReturns \/ ResetRefused
  <2>1. pc[Req] = "reset" /\ Release(Req, "idle") /\ UNCHANGED suspect
    BY <1>4 DEF ResetReturns, ResetRefused, CallReturns, CallRefused
  <2> QED
    BY <1>1, <2>1, CallEnds DEF Running, PollerInv, PollerTypeOK
<1>5. CASE ResetRaises
  <2>1. pc[Req] = "reset" /\ Release(Req, "resetFailed")
    BY <1>5 DEF ResetRaises, CallRaises
  <2>2. suspect' = (sock \in {"open", "dead"})
    BY <1>5 DEF ResetRaises, CallRaises
  <2>3. suspect' \in BOOLEAN
    <3>1. CASE sock \in {"open", "dead"}
      BY <2>2, <3>1
    <3>2. CASE sock \notin {"open", "dead"}
      BY <2>2, <3>2
    <3> QED
      BY <3>1, <3>2
  <2> QED
    BY <1>1, <2>1, <2>3, CallEnds DEF Running
<1>6. CASE ResetDrop
  BY <1>6, ReqMoves DEF ResetDrop, DropConnection, Running, PollerInv, PollerTypeOK
<1> QED
  BY <1>2, <1>3, <1>4, <1>5, <1>6 DEF ResetStep

LEMMA InitStepPoller ==
    ASSUME PollerInv, InitStep
    PROVE  PollerInv'
<1>1. CASE SharedInit
  BY <1>1, SharedInitInv
<1>2. CASE InitRefused("idle")
  BY <1>2, InitRefusedInv DEF Running
<1>3. ASSUME NEW t \in Threads, InitOk(t) PROVE PollerInv'
  BY <1>3, InitReadInv DEF InitOk, Running, StateOf, States
<1>4. ASSUME NEW t \in Threads, InitFailed(t) PROVE PollerInv'
  BY <1>4, InitReadFailedInv DEF InitFailed, Running
<1> QED
  BY <1>1, <1>2, <1>3, <1>4 DEF InitStep, InitAnswered, SharedInit

LEMMA NextPoller ==
    ASSUME PollerInv, [Next]_vars
    PROVE  PollerInv'
<1>1. CASE UNCHANGED pollerVars
  BY <1>1, PollerStutters
<1>2. CASE SharedInit
  BY <1>2, SharedInitInv
<1>3. ASSUME NEW p \in Peers, PlcChanges(p) PROVE PollerInv'
  BY <1>3, PeerChangesInv DEF PlcChanges
<1> QED
  BY <1>1, <1>2, <1>3, PollStepPoller, ResetStepPoller, InitStepPoller
  DEF Next, ReqStep, Requests, Environment, PlcExecutes, PlcExecutesLate,
      PlantChanges, SharedInit, vars

-----------------------------------------------------------------------------
(* The Reset command *)

\* No step of a poll thread moves the request thread.
LEMMA PollKeepsReq ==
    ASSUME PollerInv, NEW t \in Threads, PollStep(t)
    PROVE  pc'[Req] = pc[Req]
<1>1. Req # t /\ Req \in Procs /\ pc \in [Procs -> ThreadLabels \cup ReqLabels]
  BY ProcessAssumption DEF Procs, PollerInv, PollerTypeOK
<1>2. \A label : Goto(t, label) => pc'[Req] = pc[Req]
  BY <1>1 DEF Goto
<1> QED
  BY <1>2
  DEF PollStep, PollWait, PollBegin, PollAnswered, PollReturns, PollUnanswered,
      PollRaises, PollFailed, PollDrop, PollCount, PollFault, PollGot, PollStore,
      PollApply, BeginCall, CallReturns, CallRefused, CallRaises, Release,
      DropConnection

\* Init does not pass through the labels of Reset.
LEMMA InitKeepsOffReset ==
    ASSUME PollerInv, InitStep
    PROVE  /\ pc[Req] \notin {"resetLock", "reset", "resetFailed"}
           /\ pc'[Req] \notin {"resetLock", "reset", "resetFailed"}
<1>1. Req \in Procs /\ Req \notin Threads
      /\ pc \in [Procs -> ThreadLabels \cup ReqLabels]
  BY ProcessAssumption DEF Procs, PollerInv, PollerTypeOK
<1>2. \A label : Goto(Req, label) => pc'[Req] = label
  BY <1>1 DEF Goto
<1>3. \A t \in Threads : StartThread(t, "idle") => pc'[Req] = "idle"
  BY <1>1 DEF StartThread
<1> QED
  BY <1>2, <1>3
  DEF InitStep, DeleteDevice, Join, CloseClient, InitRefused, InitClient, ResetFields,
      InitBegin, BeginCall, InitAnswered, InitReturns, InitRaises, CallReturns,
      CallRefused, CallRaises, Release, InitOk, InitFailed, InitRead, InitReadFailed

ResetTypeOK ==
    /\ write \in {"none", "sent", "done"}
    /\ late \in 0..MaxLate
    /\ outcome \in {"none", "requested", "refused", "notDelivered"}

LEMMA NextReset ==
    ASSUME PollerInv, ResetTypeOK, ResetInv, [Next]_vars
    PROVE  ResetTypeOK' /\ ResetInv'
<1> USE DEF ResetInv, ResetTypeOK, ResetAnswersAreTrue
<1>1. Req \in Procs /\ pc \in [Procs -> ThreadLabels \cup ReqLabels]
      /\ MaxLate \in Nat
  BY MaxLateAssumption DEF Procs, PollerInv, PollerTypeOK
<1>2. \A label : Goto(Req, label) => pc'[Req] = label
  BY <1>1 DEF Goto
<1>3. ASSUME pc'[Req] = pc[Req], UNCHANGED <<write, late, outcome>>
      PROVE  ResetTypeOK' /\ ResetInv'
  BY <1>3
<1>4. ASSUME NEW t \in Threads, PollStep(t) PROVE ResetTypeOK' /\ ResetInv'
  <2>1. UNCHANGED <<write, late, outcome>>
    BY <1>4
    DEF PollStep, PollAnswered, PollUnanswered, PollGot, PollStore, PollApply, deviceVars
  <2> QED
    BY <1>3, <1>4, <2>1, PollKeepsReq
<1>5. CASE InitStep
  <2>1. UNCHANGED <<write, late, outcome>>
    BY <1>5 DEF InitStep, ClearCache, InitAnswered, InitOk, InitFailed, deviceVars
  <2> QED
    BY <1>5, <2>1, InitKeepsOffReset
<1>6. CASE RequestReset
  BY <1>1, <1>2, <1>6 DEF RequestReset
<1>7. CASE ResetBegin
  BY <1>1, <1>2, <1>7 DEF ResetBegin, BeginCall
<1>8. CASE ResetReturns
  BY <1>1, <1>2, <1>8 DEF ResetReturns, CallReturns, Release
<1>9. CASE ResetRefused
  BY <1>1, <1>2, <1>9 DEF ResetRefused, CallRefused, Release
<1>10. CASE ResetRaises
  BY <1>1, <1>2, <1>10 DEF ResetRaises, CallRaises, Release
<1>11. CASE ResetDrop
  BY <1>1, <1>2, <1>11 DEF ResetDrop, DropConnection
<1>12. CASE RequestInit /\ UNCHANGED <<plcVars, deviceVars>>
  BY <1>1, <1>2, <1>12 DEF RequestInit, deviceVars
<1>13. CASE PlcExecutes \/ PlcExecutesLate
  BY <1>1, <1>13 DEF PlcExecutes, PlcExecutesLate, pollerVars
<1>14. ASSUME NEW p \in Peers, PlcChanges(p) PROVE ResetTypeOK' /\ ResetInv'
  BY <1>1, <1>14, MaxLateAssumption DEF PlcChanges, PeerChanges
<1>15. CASE UNCHANGED vars
  BY <1>3, <1>15 DEF vars, pollerVars, deviceVars
<1>16. CASE Tick /\ UNCHANGED <<plcVars, deviceVars>>
  BY <1>3, <1>16 DEF Tick, deviceVars
<1>17. ASSUME NEW w, PlantChanges(w) PROVE ResetTypeOK' /\ ResetInv'
  BY <1>3, <1>17 DEF PlantChanges, pollerVars, deviceVars
<1> QED
  BY <1>4, <1>5, <1>6, <1>7, <1>8, <1>9, <1>10, <1>11, <1>12, <1>13, <1>14, <1>15,
     <1>16, <1>17
  DEF Next, ReqStep, ResetStep, Requests, Environment

-----------------------------------------------------------------------------
(* What clients are served *)

ServeTypeOK ==
    /\ cache \in Snapshots \cup {None}
    /\ answer \in Snapshots \cup {None}
    /\ age \in 0..(POLL_FAILURE_THRESHOLD + 1)

ServeInv == ServeTypeOK /\ AnswerInv /\ CacheInv /\ AgeInv

\* A step that moves no thread and touches nothing that is served.
LEMMA ServeUnchanged ==
    ASSUME ServeInv,
           UNCHANGED <<pc, thread, state, failures, cache, answer, age>>
    PROVE  ServeInv'
BY DEF ServeInv, ServeTypeOK, AnswerInv, CacheInv, AgeInv, Operational, Alive, StateOf

\* A step of the request thread outside Init.
LEMMA ServeReqMoves ==
    ASSUME PollerInv, ServeInv,
           NEW label \in Settled,
           pc[Req] \in Settled \ {"join", "close"}, Goto(Req, label),
           UNCHANGED <<thread, state, failures, cache, answer, age>>
    PROVE  ServeInv'
<1>1. Req \in Procs /\ Req \notin Threads /\ thread \in Threads \cup {None}
      /\ pc \in [Procs -> ThreadLabels \cup ReqLabels]
  BY ProcessAssumption DEF Procs, PollerInv, PollerTypeOK
<1>2. pc'[Req] = label /\ \A p \in Procs : p # Req => pc'[p] = pc[p]
  BY <1>1 DEF Goto
<1>3. \A t \in Threads : t \in Procs /\ pc'[t] = pc[t]
  BY <1>1, <1>2 DEF Procs
<1>4. ServeTypeOK' /\ AnswerInv'
  BY <1>2 DEF ServeInv, ServeTypeOK, AnswerInv, Settled
<1>5. CacheInv'
  BY <1>1, <1>2, <1>3 DEF ServeInv, CacheInv, Operational, Settled, StateOf
<1>6. AgeInv'
  BY <1>1, <1>2, <1>3 DEF ServeInv, AgeInv, Operational, Settled, Alive
<1> QED
  BY <1>4, <1>5, <1>6 DEF ServeInv

LEMMA CoilsTyped == PlcTypeOK => Coils \in Snapshots /\ Coils # None
BY SnapshotAssumption DEF PlcTypeOK, Coils, Snapshots

\* What holds whenever a poll thread moves: it is the only one, and no Init is
\* under way behind its back.
LEMMA PollAlone ==
    ASSUME PollerInv, NEW t \in Threads, pc[t] # "dead"
    PROVE  /\ t = thread
           /\ pc[Req] \notin {"init", "lock", "call", "got", "failed"}
           /\ \A u \in Threads : u # t => pc[u] = "dead"
BY ProcessAssumption
DEF PollerInv, PollerTypeOK, Lifecycle, OnePoller, Alive, Starting

LEMMA PollGoto ==
    ASSUME PollerInv, NEW t \in Threads, NEW label, Goto(t, label), pc[t] # "dead"
    PROVE  /\ t \in Procs /\ Req \in Procs /\ Req \notin Threads /\ Threads \subseteq Procs
           /\ pc'[t] = label /\ pc'[Req] = pc[Req]
           /\ \A u \in Threads : u # t => pc[u] = "dead" /\ pc'[u] = "dead"
BY PollAlone, ProcessAssumption DEF Goto, Procs, PollerInv, PollerTypeOK

\* A step of the poll thread that neither counts, nor stores, nor sets the state.
LEMMA ServePollMoves ==
    ASSUME PollerInv, ServeInv, NEW t \in Threads, NEW label, Goto(t, label),
           pc[t] \notin {"dead", "apply", "fault", "count"},
           label \notin {"apply", "fault", "failed"},
           pc[t] \in {"failed", "drop"} => label \in {"drop", "count", "dead"},
           label \in {"got", "store"} => answer' # None,
           answer' \in Snapshots \cup {None},
           UNCHANGED <<thread, state, failures, cache, age>>
    PROVE  ServeInv'
<1>1. /\ t = thread /\ t # None
      /\ pc[Req] \notin {"init", "lock", "call", "got", "failed"}
  BY PollAlone, ProcessAssumption
<1>2. /\ t \in Procs /\ Req \in Procs /\ Req \notin Threads /\ Threads \subseteq Procs
      /\ pc'[t] = label /\ pc'[Req] = pc[Req]
      /\ \A u \in Threads : u # t => pc[u] = "dead" /\ pc'[u] = "dead"
  BY PollGoto
<1>3. /\ failures \in Nat /\ age \in Nat /\ pc[Req] # "store"
  BY TimingAssumption
  DEF PollerInv, PollerTypeOK, ServeInv, ServeTypeOK, ReqLabels
<1>4. ServeTypeOK' /\ AnswerInv'
  BY <1>1, <1>2, <1>3 DEF ServeInv, ServeTypeOK, AnswerInv, Procs
<1>5. CacheInv'
  BY <1>1, <1>2 DEF ServeInv, CacheInv, Operational, StateOf
<1>6. AgeInv'
  BY <1>1, <1>2, <1>3 DEF ServeInv, AgeInv, Operational, Alive
<1> QED
  BY <1>4, <1>5, <1>6 DEF ServeInv

LEMMA PollStepServe ==
    ASSUME PollerInv, PlcTypeOK, ServeInv, NEW t \in Threads, PollStep(t)
    PROVE  ServeInv'
<1> USE DEF ServeInv, ServeTypeOK
<1>1. /\ failures \in 0..POLL_FAILURE_THRESHOLD
      /\ POLL_FAILURE_THRESHOLD \in Nat \ {0}
      /\ None \notin Threads
  BY ProcessAssumption, TimingAssumption DEF PollerInv, PollerTypeOK
<1>2. CASE PollWait(t) /\ UNCHANGED <<plcVars, deviceVars>>
  BY <1>2, ServePollMoves DEF PollWait, deviceVars
<1>3. CASE PollBegin(t) /\ UNCHANGED <<plcVars, deviceVars>>
  BY <1>3, ServePollMoves DEF PollBegin, BeginCall, deviceVars
<1>4. CASE PollAnswered(t)
  BY <1>4, ServePollMoves, CoilsTyped
  DEF PollAnswered, PollReturns, CallReturns, Release
<1>5. CASE PollFailed(t) /\ UNCHANGED <<plcVars, deviceVars>>
  BY <1>5, ServePollMoves DEF PollFailed, deviceVars
<1>6. CASE PollDrop(t) /\ UNCHANGED <<plcVars, deviceVars>>
  BY <1>6, ServePollMoves DEF PollDrop, DropConnection, deviceVars
<1>7. CASE PollGot(t)
  <2>1. t \in Procs
    BY DEF Procs
  <2> QED
    BY <1>7, <2>1, ServePollMoves DEF PollGot, deviceVars, AnswerInv
<1> DEFINE Moved(label) ==
        /\ t = thread /\ t # None
        /\ pc[Req] \notin {"init", "lock", "call", "got", "failed"}
        /\ t \in Procs /\ Req \in Procs /\ Req \notin Threads /\ Threads \subseteq Procs
        /\ pc'[t] = label /\ pc'[Req] = pc[Req]
        /\ \A u \in Threads : u # t => pc[u] = "dead" /\ pc'[u] = "dead"
<1>8. ASSUME NEW label, Goto(t, label), pc[t] # "dead" PROVE Moved(label)
  BY <1>1, <1>8, PollAlone, PollGoto
<1>9. CASE PollUnanswered(t)
  <2>1. /\ pc[t] = "call" /\ Moved("failed")
        /\ age' = IF age <= POLL_FAILURE_THRESHOLD THEN age + 1 ELSE age
        /\ UNCHANGED <<thread, state, failures, cache, answer>>
    BY <1>8, <1>9
    DEF PollUnanswered, PollRaises, CallRefused, CallRaises, Release
  <2>2. ServeTypeOK' /\ AnswerInv' /\ CacheInv'
    BY <1>1, <2>1 DEF AnswerInv, CacheInv, Operational, StateOf, Procs
  <2>3. Operational => age <= failures /\ failures # POLL_FAILURE_THRESHOLD
    BY <2>1 DEF AgeInv, Alive
  <2>4. \A u \in Threads : pc'[u] # "apply"
    BY <2>1
  <2>5. Operational' => age' <= failures' + 1 /\ failures' # POLL_FAILURE_THRESHOLD
    BY <1>1, <2>1, <2>3 DEF Operational
  <2>6. pc'[thread'] = "failed" /\ pc'[Req] \notin {"lock", "call", "got", "failed"}
    BY <2>1
  <2>7. AgeInv'
    BY <2>4, <2>5, <2>6 DEF AgeInv
  <2> QED
    BY <2>2, <2>7
<1>10. CASE PollCount(t) /\ UNCHANGED <<plcVars, deviceVars>>
  <2> DEFINE label == IF failures' >= POLL_FAILURE_THRESHOLD THEN "fault" ELSE "wait"
  <2>1. /\ pc[t] = "count" /\ Moved(label)
        /\ failures' = IF failures < POLL_FAILURE_THRESHOLD
                       THEN failures + 1 ELSE failures
        /\ UNCHANGED <<thread, state, cache, answer, age>>
    BY <1>8, <1>10 DEF PollCount, deviceVars
  <2>2. ServeTypeOK' /\ AnswerInv' /\ CacheInv'
    BY <1>1, <2>1 DEF AnswerInv, CacheInv, Operational, StateOf, Procs
  <2>3. Operational => age <= failures + 1 /\ failures < POLL_FAILURE_THRESHOLD
    BY <1>1, <2>1 DEF AgeInv, Alive
  <2>4. \A u \in Threads : pc'[u] # "apply"
    BY <2>1
  <2>5. Operational' => age' <= failures' /\ age' <= failures' + 1
    BY <1>1, <2>1, <2>3 DEF Operational
  <2>6. failures' = POLL_FAILURE_THRESHOLD => pc'[thread'] = "fault"
    BY <1>1, <2>1
  <2>7. pc'[Req] \notin {"lock", "call", "got", "failed"} /\ failures' \in Nat /\ age' \in Nat
    BY <1>1, <2>1
  <2>8. AgeInv'
    BY <2>4, <2>5, <2>6, <2>7 DEF AgeInv
  <2> QED
    BY <2>2, <2>8
<1>11. CASE PollFault(t) /\ UNCHANGED <<plcVars, deviceVars>>
  <2>1. /\ pc[t] = "fault" /\ Moved("wait") /\ state' = "FAULT"
        /\ UNCHANGED <<thread, failures, cache, answer, age>>
    BY <1>8, <1>11 DEF PollFault, deviceVars
  <2> QED
    BY <1>1, <2>1 DEF AnswerInv, CacheInv, AgeInv, Operational, Procs
<1>12. CASE PollStore(t)
  <2>1. /\ pc[t] = "store" /\ Moved("apply")
        /\ failures' = 0 /\ age' = 0 /\ cache' = answer
        /\ UNCHANGED <<thread, state, answer>>
    BY <1>8, <1>12 DEF PollStore
  <2>2. answer # None
    BY <2>1 DEF AnswerInv
  <2> QED
    BY <1>1, <2>1, <2>2 DEF AnswerInv, CacheInv, AgeInv, Operational, Procs, Alive
<1>13. CASE PollApply(t)
  <2>1. /\ pc[t] = "apply" /\ Moved("wait") /\ state' = StateOf(cache)
        /\ UNCHANGED <<thread, failures, cache, answer, age>>
    BY <1>8, <1>13 DEF PollApply, deviceVars
  <2>2. failures = 0 /\ age = 0 /\ cache # None
    BY <2>1 DEF AgeInv
  <2>3. ServeTypeOK' /\ AnswerInv' /\ CacheInv'
    BY <1>1, <2>1, <2>2 DEF AnswerInv, CacheInv, Operational, StateOf, Procs
  <2>4. AgeInv'
    BY <1>1, <2>1, <2>2 DEF AgeInv, Operational, Alive
  <2> QED
    BY <2>3, <2>4
<1> QED
  BY <1>2, <1>3, <1>4, <1>5, <1>6, <1>7, <1>9, <1>10, <1>11, <1>12, <1>13 DEF PollStep

\* While Init has no poll thread, only what the request thread does matters.
LEMMA NoThread ==
    ASSUME PollerInv, pc[Req] \in Starting
    PROVE  thread = None /\ \A u \in Threads : pc[u] = "dead"
BY ProcessAssumption DEF PollerInv, Lifecycle, OnePoller, Alive

LEMMA InitStepServe ==
    ASSUME PollerInv, PlcTypeOK, ServeInv, InitStep
    PROVE  ServeInv'
<1> USE DEF ServeInv, ServeTypeOK
<1>1. /\ Req \in Procs /\ Req \notin Threads /\ Threads \subseteq Procs
      /\ None \notin Threads
      /\ pc \in [Procs -> ThreadLabels \cup ReqLabels]
      /\ failures \in 0..POLL_FAILURE_THRESHOLD
      /\ POLL_FAILURE_THRESHOLD \in Nat \ {0}
  BY ProcessAssumption, TimingAssumption DEF Procs, PollerInv, PollerTypeOK
<1> DEFINE Moved(label) == pc'[Req] = label /\ \A u \in Threads : pc'[u] = pc[u]
<1>2. \A label : Goto(Req, label) => Moved(label)
  BY <1>1 DEF Goto
<1>3. CASE DeleteDevice /\ UNCHANGED <<plcVars, deviceVars>>
  <2> DEFINE label == IF thread = None THEN "close" ELSE "join"
  <2>1. /\ pc[Req] = "delete" /\ Moved(label)
        /\ UNCHANGED <<thread, state, failures, cache, answer, age>>
    BY <1>2, <1>3 DEF DeleteDevice, deviceVars
  <2>2. AnswerInv'
    BY <1>1, <2>1 DEF AnswerInv, Procs
  <2>3. CacheInv'
    BY <1>1, <2>1 DEF CacheInv, Operational, StateOf, Settled, PollerInv, PollerTypeOK
  <2>4. AgeInv'
    BY <1>1, <2>1 DEF AgeInv, Operational, Alive, PollerInv, PollerTypeOK
  <2> QED
    BY <2>1, <2>2, <2>3, <2>4
<1>4. CASE Join /\ UNCHANGED <<plcVars, deviceVars>>
  <2>1. /\ pc[Req] = "join" /\ Moved("close") /\ thread' = None
        /\ UNCHANGED <<state, failures, cache, answer, age>>
    BY <1>2, <1>4 DEF Join, deviceVars
  <2>2. AnswerInv'
    BY <1>1, <2>1 DEF AnswerInv, Procs
  <2>3. CacheInv' /\ AgeInv'
    BY <1>1, <2>1 DEF CacheInv, AgeInv, Operational, Settled
  <2> QED
    BY <2>1, <2>2, <2>3
<1>5. CASE CloseClient /\ UNCHANGED <<plcVars, deviceVars>>
  <2>1. /\ pc[Req] = "close" /\ Moved("init")
        /\ UNCHANGED <<thread, state, failures, cache, answer, age>>
    BY <1>2, <1>5 DEF CloseClient, deviceVars
  <2>2. thread = None
    BY <2>1, NoThread DEF Starting
  <2>3. AnswerInv'
    BY <1>1, <2>1 DEF AnswerInv, Procs
  <2>4. CacheInv' /\ AgeInv'
    BY <1>1, <2>1, <2>2 DEF CacheInv, AgeInv, Settled
  <2> QED
    BY <2>1, <2>3, <2>4
<1>6. CASE (InitRefused("idle") \/ InitClient) /\ ClearCache
  <2>1. /\ pc[Req] = "init"
        /\ (Moved("idle") /\ state' = "FAULT") \/ Moved("lock")
        /\ failures' = 0 /\ age' = 0 /\ cache' = None /\ answer' = None
        /\ thread' = None
    BY <1>2, <1>6 DEF InitRefused, InitClient, ResetFields, ClearCache
  <2>2. \A u \in Threads : pc'[u] = "dead"
    <3>1. pc[Req] \in Starting
      BY <1>6 DEF InitRefused, InitClient, ResetFields, Starting
    <3> QED
      BY <2>1, <3>1, NoThread
  <2>3. AnswerInv'
    BY <1>1, <2>1, <2>2 DEF AnswerInv, Procs
  <2>4. CacheInv' /\ AgeInv'
    BY <1>1, <2>1, <2>2 DEF CacheInv, AgeInv, Settled, Operational
  <2> QED
    BY <1>1, <2>1, <2>3, <2>4
<1>7. CASE (InitBegin \/ InitRaises) /\ UNCHANGED <<plcVars, deviceVars>>
  <2>1. /\ pc[Req] \in {"lock", "call"}
        /\ Moved("call") \/ Moved("failed")
        /\ UNCHANGED <<thread, state, failures, cache, answer, age>>
    BY <1>2, <1>7
    DEF InitBegin, BeginCall, InitRaises, CallRefused, CallRaises, Release, deviceVars
  <2>2. thread = None /\ \A u \in Threads : pc'[u] = "dead"
    BY <2>1, NoThread DEF Starting
  <2>3. AnswerInv'
    BY <1>1, <2>1, <2>2 DEF AnswerInv, Procs
  <2>4. CacheInv' /\ AgeInv'
    BY <1>1, <2>1, <2>2 DEF CacheInv, AgeInv, Settled
  <2> QED
    BY <2>1, <2>3, <2>4
<1>8. CASE InitAnswered
  <2>1. /\ pc[Req] = "call" /\ Moved("got") /\ answer' = Coils
        /\ UNCHANGED <<thread, state, failures, cache, age>>
    BY <1>2, <1>8 DEF InitAnswered, InitReturns, CallReturns, Release
  <2>2. thread = None /\ \A u \in Threads : pc'[u] = "dead"
    BY <2>1, NoThread DEF Starting
  <2>3. AnswerInv' /\ ServeTypeOK'
    BY <1>1, <2>1, <2>2, CoilsTyped DEF AnswerInv, Procs
  <2>4. CacheInv' /\ AgeInv'
    BY <1>1, <2>1, <2>2 DEF CacheInv, AgeInv, Settled
  <2> QED
    BY <2>3, <2>4
<1> DEFINE Started(t) == /\ thread' = t /\ pc'[Req] = "idle" /\ pc'[t] = "wait"
                         /\ \A u \in Threads : u # t => pc'[u] = "dead"
<1>9. ASSUME NEW t \in Threads, StartThread(t, "idle"), pc[Req] \in Starting
      PROVE  Started(t)
  BY <1>1, <1>9, NoThread DEF StartThread
<1>10. ASSUME NEW t \in Threads, InitOk(t) PROVE ServeInv'
  <2>1. /\ pc[Req] = "got" /\ Started(t) /\ state' = StateOf(answer)
        /\ cache' = answer /\ UNCHANGED <<failures, answer, age>>
    BY <1>9, <1>10 DEF InitOk, InitRead, Starting
  <2>2. answer # None /\ failures = 0 /\ age = 0
    BY <1>1, <2>1 DEF AnswerInv, AgeInv
  <2>3. AnswerInv'
    BY <1>1, <2>1, <2>2 DEF AnswerInv, Procs
  <2>4. CacheInv' /\ AgeInv'
    BY <1>1, <2>1, <2>2 DEF CacheInv, AgeInv, Settled, StateOf
  <2> QED
    BY <2>1, <2>3, <2>4
<1>11. ASSUME NEW t \in Threads, InitFailed(t) PROVE ServeInv'
  <2>1. /\ pc[Req] = "failed" /\ Started(t) /\ state' = "FAULT"
        /\ UNCHANGED <<failures, cache, answer, age>>
    BY <1>9, <1>11 DEF InitFailed, InitReadFailed, Starting, deviceVars
  <2>2. AnswerInv'
    BY <1>1, <2>1 DEF AnswerInv, Procs
  <2>3. CacheInv' /\ AgeInv'
    BY <1>1, <2>1 DEF CacheInv, AgeInv, Operational
  <2> QED
    BY <2>1, <2>2, <2>3
<1> QED
  BY <1>3, <1>4, <1>5, <1>6, <1>7, <1>8, <1>10, <1>11 DEF InitStep

LEMMA NextServe ==
    ASSUME PollerInv, PlcTypeOK, ServeInv, [Next]_vars
    PROVE  ServeInv'
<1>1. CASE UNCHANGED <<pc, thread, state, failures, cache, answer, age>>
  BY <1>1, ServeUnchanged
<1>2. CASE RequestReset \/ (RequestInit /\ UNCHANGED <<plcVars, deviceVars>>)
  BY <1>2, ServeReqMoves DEF RequestReset, RequestInit, deviceVars, Settled
<1>3. CASE ResetStep
  BY <1>3, ServeReqMoves
  DEF ResetStep, ResetBegin, ResetReturns, ResetRefused, ResetRaises, ResetDrop,
      BeginCall, CallReturns, CallRefused, CallRaises, Release, DropConnection, Settled
<1> QED
  BY <1>1, <1>2, <1>3, PollStepServe, InitStepServe
  DEF Next, ReqStep, Requests, Environment, PlcExecutes, PlcExecutesLate,
      PlantChanges, PlcChanges, PeerChanges, Tick, vars, pollerVars, deviceVars

-----------------------------------------------------------------------------
(* Connections on which a call has failed *)

LEMMA NextDropped ==
    ASSUME PollerInv, FailedConnectionIsDropped, [Next]_vars
    PROVE  FailedConnectionIsDropped'
<1>1. Req \in Procs /\ Threads \subseteq Procs
  BY DEF Procs
<1>2. CASE UNCHANGED <<suspect, stop, pc>>
  BY <1>2, DroppedStutters
<1>3. ASSUME NEW t \in Threads, PollGot(t) \/ PollStore(t) \/ PollApply(t)
      PROVE  FailedConnectionIsDropped'
  BY <1>1, <1>3, DroppedMoves DEF PollGot, PollStore, PollApply, Dropping
<1>4. CASE ResetDrop
  BY <1>4 DEF ResetDrop, DropConnection, FailedConnectionIsDropped
<1>5. CASE ResetRaises
  BY <1>1, <1>5, DroppedMoves DEF ResetRaises, CallRaises, Release, Dropping
<1>6. CASE RequestReset \/ ResetBegin \/ ResetReturns \/ ResetRefused
  BY <1>1, <1>6, DroppedMoves
  DEF RequestReset, ResetBegin, ResetReturns, ResetRefused, BeginCall, CallReturns,
      CallRefused, Release, Dropping
<1>7. CASE SharedInit
  BY <1>7, SharedInitDropped
<1>8. ASSUME NEW t \in Threads, SharedPoll(t) PROVE FailedConnectionIsDropped'
  BY <1>8, SharedPollDropped
<1>9. CASE InitRefused("idle") \/ \E t \in Threads : InitOk(t) \/ InitFailed(t)
  BY <1>9, InitDropped DEF InitOk, InitFailed
<1> QED
  BY <1>2, <1>3, <1>4, <1>5, <1>6, <1>7, <1>8, <1>9
  DEF Next, PollStep, PollAnswered, PollUnanswered, ReqStep, ResetStep, InitStep,
      InitAnswered, Requests, Environment, PlcExecutes, PlcExecutesLate, PlantChanges,
      PlcChanges, PeerChanges, SharedPoll, SharedInit, vars, pollerVars

-----------------------------------------------------------------------------
(* The theorems *)

LEMMA InitInterlockInv == Init => InterlockInv
<1> SUFFICES ASSUME Init PROVE InterlockInv
  OBVIOUS
<1>1. PollerInv
  BY PollerInitInv DEF Init
<1>2. PlcTypeOK /\ CoilsAgree
  <2>1. InputsOk(inputs)
    BY DEF Init, PlcInit, InputsOk
  <2> QED
    BY <2>1 DEF Init, PlcInit, PlcTypeOK, CoilsAgree
<1>3. TypeOK
  BY <1>1, <1>2, MaxLateAssumption, TimingAssumption DEF PollerInv, TypeOK, Init
<1>4. Req \notin Threads /\ Req \in Procs /\ Threads \subseteq Procs
  BY ProcessAssumption DEF Procs
<1>5. /\ pc[Req] = "init" /\ thread = None
      /\ \A p \in Procs : pc[p] \in {"init", "dead"}
  BY <1>4 DEF Init, PollerInit
<1>6. AnswerInv /\ CacheInv
  BY <1>4, <1>5 DEF AnswerInv, CacheInv, Settled
<1>7. AgeInv
  BY <1>4, <1>5 DEF AgeInv
<1>8. ResetInv
  BY <1>5 DEF ResetInv, ResetAnswersAreTrue, Init
<1> QED
  BY <1>1, <1>2, <1>3, <1>6, <1>7, <1>8 DEF InterlockInv

LEMMA NextInterlockInv == InterlockInv /\ [Next]_vars => InterlockInv'
<1> SUFFICES ASSUME InterlockInv, [Next]_vars PROVE InterlockInv'
  OBVIOUS
<1>1. /\ PollerInv /\ TypeOK /\ PlcTypeOK /\ CoilsAgree /\ ResetInv
      /\ ServeInv /\ ResetTypeOK
  BY DEF InterlockInv, TypeOK, ServeInv, ServeTypeOK, ResetTypeOK
<1>2. PollerInv'
  BY <1>1, NextPoller
<1>3. PlcTypeOK' /\ CoilsAgree'
  <2>1. CASE Next
    BY <1>1, <2>1, PlcStepTyped
  <2>2. CASE UNCHANGED vars
    BY <1>1, <2>2 DEF vars, plcVars, PlcTypeOK, CoilsAgree, InputsOk
  <2> QED
    BY <2>1, <2>2
<1>4. ResetTypeOK' /\ ResetInv'
  BY <1>1, NextReset
<1>5. ServeInv'
  BY <1>1, NextServe
<1> QED
  BY <1>2, <1>3, <1>4, <1>5
  DEF InterlockInv, TypeOK, ServeInv, ServeTypeOK, ResetTypeOK, PollerInv

\* The inductive invariant holds: the eleven fields of the poller and the device's
\* own are always consistent in the way the code relies on.
THEOREM InterlockIsConsistent == Spec => []InterlockInv
BY InitInterlockInv, NextInterlockInv, PTL DEF Spec

\* Every variable keeps its type: in particular the device only ever shows the four
\* states it names, and the poll thread and the request thread never run each
\* other's code.
THEOREM InterlockTypeCorrect == Spec => []TypeOK
<1>1. InterlockInv => TypeOK
  BY DEF InterlockInv
<1> QED
  BY <1>1, InterlockIsConsistent, PTL

\* Init leaves exactly one poll thread, for every timeout shorter than the poll
\* interval and two seconds (interlock_monitor.py, lines 106-111 and 267-281).
THEOREM InterlockHasOnePoller == Spec => []OnePoller
<1>1. InterlockInv => OnePoller
  BY DEF InterlockInv, PollerInv, Lifecycle
<1> QED
  BY <1>1, InterlockIsConsistent, PTL

\* At most one thread is inside the pymodbus client, and it holds the lock, although
\* Init replaces the lock (lines 27-31 and 77).
THEOREM InterlockCallsOneAtATime == Spec => []OneCallAtATime
<1>1. InterlockInv => OneCallAtATime
  BY DEF InterlockInv, PollerInv
<1> QED
  BY <1>1, InterlockIsConsistent, PTL

\* A client is never served a cache that POLL_FAILURE_THRESHOLD failed polls have
\* outdated, whatever the threshold (lines 21-24).
THEOREM InterlockServesRecent == Spec => []ServedIsRecent
<1>1. ASSUME InterlockInv, Served PROVE ServedIsRecent
  <2>1. /\ Operational /\ pc[Req] = "idle" /\ pc[Req] \in Settled
        /\ failures \in 0..POLL_FAILURE_THRESHOLD
        /\ POLL_FAILURE_THRESHOLD \in Nat /\ age \in Nat
    BY <1>1, TimingAssumption
    DEF Served, Settled, InterlockInv, PollerInv, PollerTypeOK, TypeOK
  <2>2. cache # None /\ thread # None
    BY <1>1, <2>1 DEF InterlockInv, CacheInv
  <2>3. Alive(thread)
    BY <1>1, <2>1, <2>2 DEF InterlockInv, PollerInv, Lifecycle, OnePoller
  <2>4. /\ age <= failures + 1
        /\ pc[thread] \notin {"failed", "drop", "count"} => age <= failures
        /\ failures = POLL_FAILURE_THRESHOLD => pc[thread] = "fault"
    BY <1>1, <2>1, <2>2, <2>3 DEF InterlockInv, AgeInv
  <2>5. age <= POLL_FAILURE_THRESHOLD
    <3>1. CASE failures = POLL_FAILURE_THRESHOLD
      BY <2>1, <2>4, <3>1
    <3>2. CASE failures < POLL_FAILURE_THRESHOLD
      BY <2>1, <2>4, <3>2
    <3> QED
      BY <2>1, <3>1, <3>2
  <2>6. pc[thread] = "wait" => age < POLL_FAILURE_THRESHOLD
    BY <2>1, <2>4
  <2> QED
    BY <2>2, <2>5, <2>6 DEF ServedIsRecent
<1>2. InterlockInv => ServedIsRecent
  BY <1>1 DEF ServedIsRecent
<1> QED
  BY <1>2, InterlockIsConsistent, PTL

\* Except between the poll thread's two assignments, ON and ALARM say what the
\* cached permit says (lines 144-156 and 195-196).
THEOREM InterlockStateMatchesCache == Spec => []StateMatchesCache
<1>1. InterlockInv => StateMatchesCache
  BY DEF InterlockInv, CacheInv, StateMatchesCache, Served, Settled
<1> QED
  BY <1>1, InterlockIsConsistent, PTL

\* "Reset requested" and "refused" are true whenever they are said (lines 238-262).
THEOREM InterlockResetAnswersAreTrue == Spec => []ResetAnswersAreTrue
<1>1. InterlockInv => ResetAnswersAreTrue
  BY DEF InterlockInv, ResetInv
<1> QED
  BY <1>1, InterlockIsConsistent, PTL

\* A latched fault is cleared, and a lost permit given again, only by a reset that
\* the device sent, executed while the inputs are safe, or by a restart of the PLC.
THEOREM InterlockLatchHolds == Spec => LatchHolds
<1> DEFINE Cleared == (fault /\ ~fault') \/ (~permit /\ permit')
           Excused == \/ peer = "down"
                      \/ /\ InputsOk(inputs) /\ InputsOk(inputs')
                         /\ (write = "sent" /\ write' = "done") \/ late' < late
<1>1. ASSUME PlcTypeOK, CoilsAgree, late \in Nat, PlcExecutes, Cleared PROVE Excused
  <2>1. write = "sent" /\ write' = "done" /\ inputs' = inputs /\ WriteReset
    BY <1>1 DEF PlcExecutes, WriteReset, WriteCoils, PlcTypeOK
  <2>2. InputsOk(inputs')
    BY <1>1, <2>1 DEF WriteReset, WriteCoils, CoilsAgree
  <2> QED
    BY <2>1, <2>2
<1>2. ASSUME PlcTypeOK, CoilsAgree, late \in Nat, PlcExecutesLate, Cleared PROVE Excused
  <2>1. late' < late /\ inputs' = inputs /\ WriteReset
    BY <1>2 DEF PlcExecutesLate, WriteReset, WriteCoils, PlcTypeOK
  <2>2. InputsOk(inputs')
    BY <1>2, <2>1 DEF WriteReset, WriteCoils, CoilsAgree
  <2> QED
    BY <2>1, <2>2
<1>3. ASSUME CoilsAgree, NEW w, PlantChanges(w) PROVE ~Cleared
  <2>1. WriteCoils(w, FALSE)
    BY <1>3 DEF PlantChanges, WriteInputs
  <2>2. fault => fault' /\ ~permit'
    BY <2>1 DEF WriteCoils
  <2> QED
    BY <1>3, <2>2 DEF CoilsAgree
<1>4. ASSUME NEW p, PlcChanges(p), Cleared PROVE Excused
  BY <1>4 DEF PlcChanges, plcVars
<1>5. ASSUME InterlockInv, Next PROVE Cleared => Excused
  <2>1. PlcTypeOK /\ CoilsAgree /\ late \in Nat
    BY <1>5, MaxLateAssumption DEF InterlockInv, TypeOK
  <2>2. \/ UNCHANGED plcVars \/ PlcExecutes \/ PlcExecutesLate
        \/ \E w \in [Inputs -> BOOLEAN] : PlantChanges(w)
        \/ \E p \in Peers : PlcChanges(p)
    BY <1>5
    DEF Next, PollStep, ReqStep, ResetStep, InitStep, Requests, Environment,
        PollAnswered, PollUnanswered, PollGot, PollStore, PollApply,
        RequestReset, ResetBegin, ResetReturns, ResetRefused, ResetRaises, ResetDrop,
        ClearCache, InitAnswered, InitOk, InitFailed
  <2>3. UNCHANGED plcVars => ~Cleared
    BY DEF plcVars
  <2> QED
    BY <1>1, <1>2, <1>3, <1>4, <2>1, <2>2, <2>3
<1>6. InterlockInv /\ [Next]_vars => [Cleared => Excused]_vars
  BY <1>5
<1> QED
  BY <1>6, InterlockIsConsistent, PTL DEF Spec, LatchHolds

\* A connection on which a call has failed is on its way to being closed, whichever
\* thread saw it fail and whatever Init does meanwhile (interlock_monitor.py, lines 118-124).
THEOREM InterlockDropsFailedConnection == Spec => []FailedConnectionIsDropped
<1>1. Init => FailedConnectionIsDropped
  BY DEF Init, PollerInit, FailedConnectionIsDropped
<1>2. /\ InterlockInv /\ FailedConnectionIsDropped /\ [Next]_vars
      => FailedConnectionIsDropped'
  BY NextDropped DEF InterlockInv
<1> QED
  BY <1>1, <1>2, InterlockIsConsistent, PTL DEF Spec

=============================================================================
