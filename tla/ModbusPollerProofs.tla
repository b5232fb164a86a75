------------------------- MODULE ModbusPollerProofs -------------------------
(***************************************************************************)
(* The life cycle of the poll thread and the use of the client lock,       *)
(* proved for any number of threads and any timeouts that satisfy          *)
(* TimingAssumption.  The two devices differ in what they do with an       *)
(* answer and in their requests; the lemmas below cover every step that    *)
(* either can take, and InterlockProofs and VacuumProofs put them          *)
(* together.                                                               *)
(***************************************************************************)
EXTENDS ModbusPoller, TLAPS

\* The request thread is in init_device(), or past the join of delete_device():
\* there is no poll thread.
Starting == {"close", "init", "lock", "call", "got", "failed"}

\* The request thread is not in Init and not inside the client.
Running == {"idle", "resetLock", "resetFailed", "restore", "pumpLock",
            "pumpFailed", "memorize", "reply"}

Lifecycle ==
    /\ OnePoller
    /\ stop => pc[Req] \in {"join", "close", "init"}
    /\ pc[Req] \in Starting => thread = None
    /\ pc[Req] = "join" => thread # None /\ stop

\* Why the join never runs out of time: the poll thread makes at most the one call
\* that it is in or about to make, and that call takes less than the join waits.
JoinHasTime ==
    pc[Req] = "join" =>
        /\ \/ joinLeft = THREAD_JOIN_TIMEOUT_S
           \/ pc[thread] \in {"call", "got", "failed", "dead"}
        /\ pc[thread] = "call" => callLeft < joinLeft
        /\ pc[thread] \in {"got", "failed"} => joinLeft > 0

PollerInv == PollerTypeOK /\ OneCallAtATime /\ Lifecycle /\ JoinHasTime

LEMMA CallTimeIsNat == CallTime \in Nat
BY TimingAssumption, SMT DEF CallTime

\* A call, with the dial before it, is shorter than the join.
LEMMA CallFitsJoin ==
    /\ CallTime + MODBUS_TIMEOUT_S < THREAD_JOIN_TIMEOUT_S
    /\ THREAD_JOIN_TIMEOUT_S \in Nat
<1>1. CallTime \in Nat
  BY CallTimeIsNat
<1> QED
  BY <1>1, TimingAssumption, SMT DEF THREAD_JOIN_TIMEOUT_S

LEMMA PollerInitInv == PollerInit => PollerInv
<1> SUFFICES ASSUME PollerInit PROVE PollerInv
  OBVIOUS
<1>1. CallTime \in Nat /\ MODBUS_TIMEOUT_S \in Nat /\ THREAD_JOIN_TIMEOUT_S \in Nat
  BY CallTimeIsNat, CallFitsJoin, TimingAssumption
<1>2. POLL_FAILURE_THRESHOLD \in Nat
  BY TimingAssumption
<1>3. PollerTypeOK
  <2>1. /\ pc = [p \in Procs |-> IF p = Req THEN "init" ELSE "dead"]
        /\ Req \in Procs /\ Threads \subseteq Procs /\ Req \notin Threads
    BY ProcessAssumption DEF PollerInit, Procs
  <2>2. /\ pc \in [Procs -> ThreadLabels \cup ReqLabels]
        /\ \A t \in Threads : pc[t] \in ThreadLabels
        /\ pc[Req] \in ReqLabels
    BY <2>1 DEF ThreadLabels, ReqLabels
  <2>3. /\ 0 \in 0..POLL_FAILURE_THRESHOLD
        /\ 0 \in 0..(MODBUS_TIMEOUT_S + CallTime)
        /\ 0 \in 0..THREAD_JOIN_TIMEOUT_S
    BY <1>1, <1>2
  <2> QED
    BY <2>2, <2>3 DEF PollerInit, PollerTypeOK, States
<1>4. /\ pc[Req] = "init" /\ \A t \in Threads : pc[t] = "dead"
      /\ \A p \in Procs : pc[p] \in {"init", "dead"} /\ p # None
  BY ProcessAssumption DEF PollerInit, Procs
<1>5. OneCallAtATime
  BY <1>4 DEF PollerInit, OneCallAtATime, CallLabels
<1>6. Lifecycle /\ JoinHasTime
  BY <1>4 DEF PollerInit, Lifecycle, JoinHasTime, OnePoller, Alive, Starting
<1> QED
  BY <1>3, <1>5, <1>6 DEF PollerInv

-----------------------------------------------------------------------------
(* Steps in general *)

\* A step of a poll thread outside the client: it only moves on.
LEMMA ThreadMoves ==
    ASSUME PollerInv, NEW t \in Threads, NEW label \in ThreadLabels,
           pc[t] \notin {"dead", "lock", "call"},
           label \notin {"call", "got", "failed"},
           pc[t] \in {"wait", "got", "failed"} /\ stop => label = "dead",
           label = "dead" => stop,
           Goto(t, label),
           UNCHANGED <<lock, stop, thread, callLeft, joinLeft>>,
           peer' \in Peers, sock' \in {"none", "closed", "open", "dead"},
           suspect' \in BOOLEAN, state' \in States,
           failures' \in 0..POLL_FAILURE_THRESHOLD
    PROVE  PollerInv'
<1>1. t # Req /\ t \in Procs /\ Req \in Procs
  BY ProcessAssumption DEF Procs
<1>2. /\ pc \in [Procs -> ThreadLabels \cup ReqLabels]
      /\ pc'[t] = label
      /\ \A p \in Procs : p # t => pc'[p] = pc[p]
      /\ pc' \in [Procs -> ThreadLabels \cup ReqLabels]
  BY <1>1 DEF PollerInv, PollerTypeOK, Goto
<1>3. PollerTypeOK'
  BY <1>1, <1>2 DEF PollerInv, PollerTypeOK, Procs
<1>4. OneCallAtATime'
  BY <1>1, <1>2
  DEF PollerInv, PollerTypeOK, OneCallAtATime, CallLabels, ThreadLabels
<1>5. Lifecycle'
  BY <1>1, <1>2, ProcessAssumption
  DEF PollerInv, PollerTypeOK, Lifecycle, OnePoller, Alive, Procs, Starting
<1>6. JoinHasTime'
  BY <1>1, <1>2, ProcessAssumption
  DEF PollerInv, PollerTypeOK, Lifecycle, JoinHasTime, OnePoller, Alive, Procs
<1> QED
  BY <1>3, <1>4, <1>5, <1>6 DEF PollerInv

\* A step of the request thread outside Init and outside the client.
LEMMA ReqMoves ==
    ASSUME PollerInv, NEW label \in Running \cup {"delete"},
           pc[Req] \in Running,
           Goto(Req, label),
           UNCHANGED <<lock, stop, thread, callLeft, joinLeft>>,
           peer' \in Peers, sock' \in {"none", "closed", "open", "dead"},
           suspect' \in BOOLEAN, state' \in States,
           failures' \in 0..POLL_FAILURE_THRESHOLD
    PROVE  PollerInv'
<1>1. Req \in Procs /\ Req \notin Threads
  BY ProcessAssumption DEF Procs
<1>2. /\ pc \in [Procs -> ThreadLabels \cup ReqLabels]
      /\ pc'[Req] = label
      /\ \A t \in Threads : pc'[t] = pc[t]
      /\ pc' \in [Procs -> ThreadLabels \cup ReqLabels]
  BY <1>1 DEF PollerInv, PollerTypeOK, Goto, Procs, Running, ReqLabels
<1>3. PollerTypeOK'
  BY <1>1, <1>2 DEF PollerInv, PollerTypeOK, Running, ReqLabels
<1>4. OneCallAtATime'
  BY <1>1, <1>2 DEF PollerInv, OneCallAtATime, CallLabels, Running, Procs
<1>5. Lifecycle'
  BY <1>1, <1>2
  DEF PollerInv, PollerTypeOK, Lifecycle, OnePoller, Alive, Starting, Running
<1>6. JoinHasTime'
  BY <1>1, <1>2 DEF JoinHasTime, Running
<1> QED
  BY <1>3, <1>4, <1>5, <1>6 DEF PollerInv

\* A step of the surroundings, or of a request that moves no thread.
LEMMA OthersMove ==
    ASSUME PollerInv,
           UNCHANGED <<lock, pc, stop, thread, callLeft, joinLeft>>,
           peer' \in Peers, sock' \in {"none", "closed", "open", "dead"},
           suspect' \in BOOLEAN, state' \in States,
           failures' \in 0..POLL_FAILURE_THRESHOLD
    PROVE  PollerInv'
<1>1. PollerTypeOK'
  BY DEF PollerInv, PollerTypeOK
<1>2. OneCallAtATime' /\ Lifecycle' /\ JoinHasTime'
  BY DEF PollerInv, OneCallAtATime, Lifecycle, JoinHasTime, OnePoller, Alive
<1> QED
  BY <1>1, <1>2 DEF PollerInv

\* A thread takes the lock and starts a call: the poll thread its poll, the request
\* thread its first read or its request.
LEMMA CallBegins ==
    ASSUME PollerInv, NEW p \in Procs, NEW label \in CallLabels,
           BeginCall(p, label),
           \/ p \in Threads /\ pc[p] = "lock" /\ label = "call"
           \/ p = Req /\ pc[p] = "lock" /\ label = "call"
           \/ p = Req /\ pc[p] \in {"resetLock", "pumpLock"} /\ label # "call"
    PROVE  PollerInv'
<1>1. Req \in Procs /\ Req \notin Threads /\ None \notin Procs
  BY ProcessAssumption DEF Procs
<1>2. /\ pc \in [Procs -> ThreadLabels \cup ReqLabels]
      /\ pc'[p] = label
      /\ \A q \in Procs : q # p => pc'[q] = pc[q]
      /\ pc' \in [Procs -> ThreadLabels \cup ReqLabels]
  BY <1>1 DEF PollerInv, PollerTypeOK, BeginCall, Goto, CallLabels, ThreadLabels,
              ReqLabels
<1>3. /\ callLeft' \in 0..(MODBUS_TIMEOUT_S + CallTime)
      /\ callLeft' < THREAD_JOIN_TIMEOUT_S
  BY CallTimeIsNat, CallFitsJoin, TimingAssumption, SMT DEF BeginCall
<1>4. PollerTypeOK'
  <2>1. sock' \in {"none", "closed", "open", "dead"}
    BY DEF PollerInv, PollerTypeOK, BeginCall
  <2>2. (\A t \in Threads : pc'[t] \in ThreadLabels) /\ pc'[Req] \in ReqLabels
    BY <1>1, <1>2
    DEF PollerInv, PollerTypeOK, Procs, CallLabels, ThreadLabels, ReqLabels
  <2> QED
    BY <1>1, <1>2, <1>3, <2>1, <2>2 DEF PollerInv, PollerTypeOK, BeginCall
<1>5. OneCallAtATime'
  BY <1>1, <1>2 DEF PollerInv, OneCallAtATime, BeginCall, CallLabels
<1>6. Lifecycle'
  BY <1>1, <1>2, ProcessAssumption
  DEF PollerInv, PollerTypeOK, Lifecycle, OnePoller, Alive, Procs, Starting,
      BeginCall, CallLabels
<1>7. JoinHasTime'
  BY <1>1, <1>2, <1>3, ProcessAssumption
  DEF PollerInv, PollerTypeOK, Lifecycle, JoinHasTime, OnePoller, Alive, Procs,
      BeginCall, CallLabels
<1> QED
  BY <1>4, <1>5, <1>6, <1>7 DEF PollerInv

\* A call ends, whichever way, and its thread lets go of the lock.
LEMMA CallEnds ==
    ASSUME PollerInv, NEW p \in Procs, NEW label,
           Release(p, label), suspect' \in BOOLEAN,
           pc[p] = "call" => label \in {"got", "failed"},
           pc[p] # "call" => label \in Running
    PROVE  PollerInv'
<1>1. Req \in Procs /\ Req \notin Threads /\ None \notin Procs
  BY ProcessAssumption DEF Procs
<1>2. pc[p] \in CallLabels /\ lock = p
  BY DEF PollerInv, OneCallAtATime, Release
<1>3. /\ p \in Threads => pc[p] = "call"
      /\ label \in ReqLabels /\ label \notin CallLabels
      /\ p \in Threads => label \in {"got", "failed"}
  BY <1>1, <1>2
  DEF PollerInv, PollerTypeOK, Procs, CallLabels, ThreadLabels, ReqLabels, Running
<1>4. /\ pc \in [Procs -> ThreadLabels \cup ReqLabels]
      /\ pc'[p] = label
      /\ \A q \in Procs : q # p => pc'[q] = pc[q]
      /\ pc' \in [Procs -> ThreadLabels \cup ReqLabels]
  BY <1>1, <1>3 DEF PollerInv, PollerTypeOK, Release, Goto
<1>5. PollerTypeOK'
  <2>1. 0 \in 0..(MODBUS_TIMEOUT_S + CallTime)
    BY CallTimeIsNat, TimingAssumption
  <2>2. (\A t \in Threads : pc'[t] \in ThreadLabels) /\ pc'[Req] \in ReqLabels
    BY <1>1, <1>3, <1>4 DEF PollerInv, PollerTypeOK, Procs, ThreadLabels
  <2> QED
    BY <1>1, <1>4, <2>1, <2>2 DEF PollerInv, PollerTypeOK, Release
<1>6. OneCallAtATime'
  BY <1>1, <1>2, <1>3, <1>4 DEF PollerInv, OneCallAtATime, Release
<1>7. Lifecycle'
  BY <1>1, <1>2, <1>3, <1>4, ProcessAssumption
  DEF PollerInv, PollerTypeOK, Lifecycle, OnePoller, Alive, Procs, Starting,
      Release, CallLabels, Running
<1>8. JoinHasTime'
  <2> SUFFICES ASSUME pc'[Req] = "join" PROVE JoinHasTime'
    BY DEF JoinHasTime
  <2>1. p \in Threads /\ pc[Req] = "join"
    BY <1>1, <1>2, <1>3, <1>4 DEF Procs, CallLabels, Running
  <2>2. p = thread /\ pc[thread] = "call" /\ pc'[thread] \in {"got", "failed"}
    BY <1>3, <1>4, <2>1 DEF PollerInv, Lifecycle, OnePoller, Alive
  <2>3. callLeft < joinLeft /\ callLeft \in Nat /\ joinLeft \in Nat
    BY <2>1, <2>2, CallTimeIsNat, CallFitsJoin, TimingAssumption
    DEF PollerInv, PollerTypeOK, JoinHasTime
  <2> QED
    BY <2>2, <2>3 DEF JoinHasTime, Release
<1> QED
  BY <1>5, <1>6, <1>7, <1>8 DEF PollerInv

-----------------------------------------------------------------------------
(* delete_device() and init_device() *)

LEMMA RequestInitInv == PollerInv /\ RequestInit => PollerInv'
<1> SUFFICES ASSUME PollerInv, RequestInit PROVE PollerInv'
  OBVIOUS
<1> QED
  BY ReqMoves DEF RequestInit, PollerInv, PollerTypeOK, Running

LEMMA DeleteDeviceInv == PollerInv /\ DeleteDevice => PollerInv'
<1> SUFFICES ASSUME PollerInv, DeleteDevice PROVE PollerInv'
  OBVIOUS
<1>1. Req \in Procs /\ Req \notin Threads
  BY ProcessAssumption DEF Procs
<1>2. /\ pc'[Req] = IF thread = None THEN "close" ELSE "join"
      /\ \A t \in Threads : pc'[t] = pc[t]
      /\ pc' \in [Procs -> ThreadLabels \cup ReqLabels]
  BY <1>1 DEF PollerInv, PollerTypeOK, DeleteDevice, Goto, Procs, ReqLabels
<1>3. PollerTypeOK'
  BY <1>1, <1>2, CallFitsJoin DEF PollerInv, PollerTypeOK, DeleteDevice, ReqLabels
<1>4. OneCallAtATime'
  BY <1>1, <1>2 DEF PollerInv, OneCallAtATime, DeleteDevice, CallLabels, Procs
<1>5. Lifecycle'
  BY <1>1, <1>2
  DEF PollerInv, PollerTypeOK, Lifecycle, OnePoller, Alive, DeleteDevice, Starting
<1>6. JoinHasTime'
  BY <1>1, <1>2, CallFitsJoin, CallTimeIsNat, TimingAssumption
  DEF PollerInv, PollerTypeOK, JoinHasTime, DeleteDevice
<1> QED
  BY <1>3, <1>4, <1>5, <1>6 DEF PollerInv

LEMMA TickInv == PollerInv /\ Tick => PollerInv'
<1> SUFFICES ASSUME PollerInv, Tick PROVE PollerInv'
  OBVIOUS
<1>1. callLeft \in Nat /\ joinLeft \in Nat /\ CallTime \in Nat
      /\ MODBUS_TIMEOUT_S \in Nat /\ THREAD_JOIN_TIMEOUT_S \in Nat
  BY CallTimeIsNat, CallFitsJoin, TimingAssumption DEF PollerInv, PollerTypeOK
<1>2. PollerTypeOK'
  BY <1>1 DEF PollerInv, PollerTypeOK, Tick
<1>3. OneCallAtATime' /\ Lifecycle'
  BY DEF PollerInv, OneCallAtATime, Lifecycle, OnePoller, Alive, Tick
<1>4. thread \in Threads /\ pc[thread] = "call"
  BY ProcessAssumption
  DEF PollerInv, PollerTypeOK, Lifecycle, OneCallAtATime, Tick, Procs, CallLabels,
      ThreadLabels
<1>5. JoinHasTime'
  BY <1>1, <1>4 DEF PollerInv, JoinHasTime, Tick
<1> QED
  BY <1>2, <1>3, <1>5 DEF PollerInv

\* The join ends because the thread has: it never runs out of time.
LEMMA JoinInv == PollerInv /\ Join => PollerInv' /\ ~Alive(thread)
<1> SUFFICES ASSUME PollerInv, Join PROVE PollerInv' /\ ~Alive(thread)
  OBVIOUS
<1>1. Req \in Procs /\ Req \notin Threads
  BY ProcessAssumption DEF Procs
<1>2. /\ pc'[Req] = "close"
      /\ \A t \in Threads : pc'[t] = pc[t]
      /\ pc' \in [Procs -> ThreadLabels \cup ReqLabels]
  BY <1>1 DEF PollerInv, PollerTypeOK, Join, Goto, Procs, ReqLabels
<1>3. ~Alive(thread)
  <2>1. 0 < THREAD_JOIN_TIMEOUT_S /\ callLeft \in Nat
    BY CallFitsJoin, CallTimeIsNat, TimingAssumption DEF PollerInv, PollerTypeOK
  <2> QED
    BY <2>1 DEF PollerInv, JoinHasTime, Join, Alive
<1>4. PollerTypeOK'
  BY <1>1, <1>2, CallFitsJoin DEF PollerInv, PollerTypeOK, Join, ReqLabels
<1>5. OneCallAtATime'
  BY <1>1, <1>2 DEF PollerInv, OneCallAtATime, Join, CallLabels, Procs
<1>6. Lifecycle'
  BY <1>1, <1>2, <1>3
  DEF PollerInv, PollerTypeOK, Lifecycle, OnePoller, Alive, Join, Starting
<1>7. JoinHasTime'
  BY <1>2 DEF JoinHasTime
<1> QED
  BY <1>3, <1>4, <1>5, <1>6, <1>7 DEF PollerInv

LEMMA CloseClientInv == PollerInv /\ CloseClient => PollerInv'
<1> SUFFICES ASSUME PollerInv, CloseClient PROVE PollerInv'
  OBVIOUS
<1>1. Req \in Procs /\ Req \notin Threads
  BY ProcessAssumption DEF Procs
<1>2. /\ pc'[Req] = "init"
      /\ \A t \in Threads : pc'[t] = pc[t]
      /\ pc' \in [Procs -> ThreadLabels \cup ReqLabels]
  BY <1>1 DEF PollerInv, PollerTypeOK, CloseClient, Goto, Procs, ReqLabels
<1>3. PollerTypeOK'
  BY <1>1, <1>2 DEF PollerInv, PollerTypeOK, CloseClient, ReqLabels
<1>4. OneCallAtATime'
  BY <1>1, <1>2 DEF PollerInv, OneCallAtATime, CloseClient, CallLabels, Procs
<1>5. Lifecycle' /\ JoinHasTime'
  BY <1>1, <1>2
  DEF PollerInv, PollerTypeOK, Lifecycle, JoinHasTime, OnePoller, Alive,
      CloseClient, Starting
<1> QED
  BY <1>3, <1>4, <1>5 DEF PollerInv

\* A new lock is given to threads of which none holds the old one.
LEMMA ResetFieldsInv ==
    ASSUME PollerInv, NEW label \in Running \cup {"lock"},
           ResetFields, Goto(Req, label),
           sock' \in {"none", "closed"}, state' \in States
    PROVE  PollerInv'
<1>1. Req \in Procs /\ Req \notin Threads /\ None \notin Procs
  BY ProcessAssumption DEF Procs
<1>2. /\ pc'[Req] = label
      /\ \A t \in Threads : pc'[t] = pc[t]
      /\ pc' \in [Procs -> ThreadLabels \cup ReqLabels]
  BY <1>1 DEF PollerInv, PollerTypeOK, Goto, Procs, ReqLabels, Running
<1>3. \A t \in Threads : pc[t] = "dead"
  BY ProcessAssumption DEF PollerInv, Lifecycle, OnePoller, Alive, ResetFields, Starting
<1>4. PollerTypeOK'
  <2>1. 0 \in 0..POLL_FAILURE_THRESHOLD
    BY TimingAssumption
  <2>2. \A t \in Threads : pc'[t] \in ThreadLabels
    BY <1>2 DEF PollerInv, PollerTypeOK
  <2>3. pc'[Req] \in ReqLabels
    BY <1>2 DEF ReqLabels, Running
  <2> QED
    BY <1>2, <2>1, <2>2, <2>3 DEF PollerInv, PollerTypeOK, ResetFields
<1>5. OneCallAtATime'
  BY <1>1, <1>2, <1>3 DEF OneCallAtATime, ResetFields, CallLabels, Running, Procs
<1>6. Lifecycle' /\ JoinHasTime'
  BY <1>1, <1>2, <1>3
  DEF Lifecycle, JoinHasTime, OnePoller, Alive, ResetFields, Running, Starting
<1> QED
  BY <1>4, <1>5, <1>6 DEF PollerInv

\* The last step of init_device(): the poll thread is started when there is none.
LEMMA StartThreadInv ==
    ASSUME PollerInv, NEW t \in Threads, NEW label \in Running,
           pc[Req] \in {"got", "failed"},
           StartThread(t, label),
           UNCHANGED <<peer, lock, stop, failures, callLeft, joinLeft>>,
           sock' \in {"none", "closed", "open", "dead"},
           suspect' \in BOOLEAN, state' \in States
    PROVE  PollerInv'
<1>1. Req \in Procs /\ Req \notin Threads /\ None \notin Procs /\ t \in Procs
  BY ProcessAssumption DEF Procs
<1>2. /\ pc'[Req] = label /\ pc'[t] = "wait"
      /\ \A p \in Procs : p \notin {Req, t} => pc'[p] = pc[p]
      /\ pc' \in [Procs -> ThreadLabels \cup ReqLabels]
  BY <1>1 DEF PollerInv, PollerTypeOK, StartThread, ReqLabels, Running, ThreadLabels
<1>3. \A u \in Threads : pc[u] = "dead"
  BY ProcessAssumption DEF PollerInv, Lifecycle, OnePoller, Alive, Starting
<1>4. PollerTypeOK'
  <2>1. \A u \in Threads : pc'[u] \in ThreadLabels
    BY <1>1, <1>2, <1>3 DEF Procs, ThreadLabels
  <2>2. pc'[Req] \in ReqLabels
    BY <1>2 DEF ReqLabels, Running
  <2> QED
    BY <1>2, <2>1, <2>2 DEF PollerInv, PollerTypeOK, StartThread
<1>5. OneCallAtATime'
  BY <1>1, <1>2, <1>3 DEF PollerInv, OneCallAtATime, CallLabels, Running
<1>6. Lifecycle' /\ JoinHasTime'
  BY <1>1, <1>2, <1>3
  DEF PollerInv, Lifecycle, JoinHasTime, OnePoller, Alive, StartThread, Running,
      Starting, Procs
<1> QED
  BY <1>4, <1>5, <1>6 DEF PollerInv

-----------------------------------------------------------------------------
(* The steps that both devices share *)

\* What a poll does whichever device it is made for.
SharedPoll(t) ==
    \/ PollWait(t) \/ PollBegin(t) \/ PollReturns(t) \/ PollRaises(t)
    \/ PollFailed(t) \/ PollDrop(t) \/ PollCount(t) \/ PollFault(t)

LEMMA SharedPollInv ==
    ASSUME PollerInv, NEW t \in Threads, SharedPoll(t)
    PROVE  PollerInv'
<1> USE DEF PollerInv, PollerTypeOK
<1>1. t \in Procs
  BY DEF Procs
<1>2. CASE PollWait(t)
  <2> DEFINE label == IF stop THEN "dead" ELSE "lock"
  <2>1. label \in ThreadLabels
    BY DEF ThreadLabels
  <2> QED
    BY <1>2, <2>1, ThreadMoves DEF PollWait
<1>3. CASE PollBegin(t)
  BY <1>1, <1>3, CallBegins DEF PollBegin, CallLabels
<1>4. CASE PollReturns(t)
  BY <1>1, <1>4, CallEnds DEF PollReturns, CallReturns
<1>5. CASE PollRaises(t)
  <2>1. pc[t] = "call" /\ Release(t, "failed")
    BY <1>5 DEF PollRaises, CallRefused, CallRaises
  <2>2. suspect' \in BOOLEAN
    <3>1. CASE CallRefused(t, "failed")
      BY <3>1 DEF CallRefused, PollerInv, PollerTypeOK
    <3>2. CASE CallRaises(t, "failed")
      <4>1. suspect' = (sock \in {"open", "dead"})
        BY <3>2 DEF CallRaises
      <4>2. CASE sock \in {"open", "dead"}
        BY <4>1, <4>2
      <4>3. CASE sock \notin {"open", "dead"}
        BY <4>1, <4>3
      <4> QED
        BY <4>2, <4>3
    <3> QED
      BY <1>5, <3>1, <3>2 DEF PollRaises
  <2> QED
    BY <1>1, <2>1, <2>2, CallEnds
<1>6. CASE PollFailed(t)
  <2> DEFINE label == IF stop THEN "dead" ELSE "drop"
  <2>1. label \in ThreadLabels
    BY DEF ThreadLabels
  <2> QED
    BY <1>6, <2>1, ThreadMoves DEF PollFailed
<1>7. CASE PollDrop(t)
  <2>1. "count" \in ThreadLabels
    BY DEF ThreadLabels
  <2> QED
    BY <1>7, <2>1, ThreadMoves DEF PollDrop, DropConnection
<1>8. CASE PollCount(t)
  <2> DEFINE label == IF failures' >= POLL_FAILURE_THRESHOLD THEN "fault" ELSE "wait"
  <2>1. label \in ThreadLabels
    BY DEF ThreadLabels
  <2>2. failures' \in 0..POLL_FAILURE_THRESHOLD
    BY <1>8, TimingAssumption DEF PollCount
  <2> QED
    BY <1>8, <2>1, <2>2, ThreadMoves DEF PollCount
<1>9. CASE PollFault(t)
  <2>1. "wait" \in ThreadLabels /\ "FAULT" \in States
    BY DEF ThreadLabels, States
  <2> QED
    BY <1>9, <2>1, ThreadMoves DEF PollFault
<1> QED
  BY <1>2, <1>3, <1>4, <1>5, <1>6, <1>7, <1>8, <1>9 DEF SharedPoll

\* Init up to the end of its first read, whichever device it is made of.
SharedInit ==
    \/ RequestInit \/ DeleteDevice \/ Tick \/ Join \/ CloseClient
    \/ InitClient \/ InitBegin \/ InitReturns \/ InitRaises

LEMMA SharedInitInv == PollerInv /\ SharedInit => PollerInv'
<1> SUFFICES ASSUME PollerInv, SharedInit PROVE PollerInv'
  OBVIOUS
<1>1. Req \in Procs
  BY DEF Procs
<1>2. CASE RequestInit \/ DeleteDevice \/ Tick \/ Join \/ CloseClient
  BY <1>2, RequestInitInv, DeleteDeviceInv, TickInv, JoinInv, CloseClientInv
<1>3. CASE InitClient
  BY <1>3, ResetFieldsInv DEF InitClient, PollerInv, PollerTypeOK
<1>4. CASE InitBegin
  BY <1>1, <1>4, CallBegins DEF InitBegin, CallLabels
<1>5. CASE InitReturns
  BY <1>1, <1>5, CallEnds DEF InitReturns, CallReturns, PollerInv, PollerTypeOK
<1>6. CASE InitRaises
  <2>1. pc[Req] = "call" /\ Release(Req, "failed")
    BY <1>6 DEF InitRaises, CallRefused, CallRaises
  <2>2. suspect' \in BOOLEAN
    <3>1. CASE CallRefused(Req, "failed")
      BY <3>1 DEF CallRefused, PollerInv, PollerTypeOK
    <3>2. CASE CallRaises(Req, "failed")
      <4>1. suspect' = (sock \in {"open", "dead"})
        BY <3>2 DEF CallRaises
      <4>2. CASE sock \in {"open", "dead"}
        BY <4>1, <4>2
      <4>3. CASE sock \notin {"open", "dead"}
        BY <4>1, <4>3
      <4> QED
        BY <4>2, <4>3
    <3> QED
      BY <1>6, <3>1, <3>2 DEF InitRaises
  <2> QED
    BY <1>1, <2>1, <2>2, CallEnds
<1> QED
  BY <1>2, <1>3, <1>4, <1>5, <1>6 DEF SharedInit

LEMMA InitRefusedInv ==
    ASSUME PollerInv, NEW label \in Running, InitRefused(label)
    PROVE  PollerInv'
BY ResetFieldsInv DEF InitRefused, States

LEMMA InitReadInv ==
    ASSUME PollerInv, NEW t \in Threads, NEW label \in Running, NEW s \in States,
           InitRead(t, s, label)
    PROVE  PollerInv'
BY StartThreadInv DEF InitRead, PollerInv, PollerTypeOK

LEMMA InitReadFailedInv ==
    ASSUME PollerInv, NEW t \in Threads, NEW label \in Running,
           InitReadFailed(t, label)
    PROVE  PollerInv'
BY StartThreadInv DEF InitReadFailed, States

LEMMA PeerChangesInv ==
    ASSUME PollerInv, NEW p \in Peers, PeerChanges(p)
    PROVE  PollerInv'
BY OthersMove DEF PeerChanges, PollerInv, PollerTypeOK

LEMMA ServerRestartsInv == PollerInv /\ ServerRestarts => PollerInv'
<1> SUFFICES ASSUME PollerInv, ServerRestarts PROVE PollerInv'
  OBVIOUS
<1>1. PollerInit'
  BY DEF PollerInv, PollerTypeOK, ServerRestarts, PollerInit
<1>2. (PollerInit => PollerInv)'
  BY PollerInitInv, PTL
<1> QED
  BY <1>1, <1>2

LEMMA PollerStutters == PollerInv /\ UNCHANGED pollerVars => PollerInv'
<1> SUFFICES ASSUME PollerInv, UNCHANGED pollerVars PROVE PollerInv'
  OBVIOUS
<1> QED
  BY OthersMove DEF PollerInv, PollerTypeOK, pollerVars

-----------------------------------------------------------------------------
(* Connections on which a call has failed *)

\* The thread that saw the call fail has not closed the connection yet.
Dropping == {"failed", "drop", "resetFailed", "pumpFailed"}

LEMMA DroppedMoves ==
    ASSUME PollerInv, FailedConnectionIsDropped,
           NEW p \in Procs, NEW label, Goto(p, label),
           stop => stop',
           \/ label \in Dropping
           \/ (suspect' => suspect) /\ (pc[p] \in Dropping => stop' \/ ~suspect')
    PROVE  FailedConnectionIsDropped'
<1>1. /\ pc'[p] = label
      /\ \A q \in Procs : q # p => pc'[q] = pc[q]
  BY DEF PollerInv, PollerTypeOK, Goto
<1> QED
  BY <1>1 DEF FailedConnectionIsDropped, Dropping

LEMMA DroppedStutters ==
    ASSUME FailedConnectionIsDropped, UNCHANGED <<suspect, stop, pc>>
    PROVE  FailedConnectionIsDropped'
BY DEF FailedConnectionIsDropped

LEMMA DroppedStarts ==
    ASSUME PollerInv, FailedConnectionIsDropped,
           NEW t \in Threads, NEW label, StartThread(t, label), pc[Req] = "got",
           UNCHANGED <<suspect, stop>>
    PROVE  FailedConnectionIsDropped'
<1>1. /\ Req \in Procs /\ t \in Procs
      /\ \A q \in Procs : q \notin {Req, t} => pc'[q] = pc[q]
  BY DEF PollerInv, PollerTypeOK, StartThread, Procs
<1> QED
  BY <1>1 DEF FailedConnectionIsDropped, StartThread, Alive

LEMMA SharedPollDropped ==
    ASSUME PollerInv, FailedConnectionIsDropped, NEW t \in Threads, SharedPoll(t)
    PROVE  FailedConnectionIsDropped'
<1>1. t \in Procs
  BY DEF Procs
<1>2. CASE PollDrop(t)
  BY <1>2 DEF PollDrop, DropConnection, FailedConnectionIsDropped
<1>3. CASE PollRaises(t)
  BY <1>1, <1>3, DroppedMoves DEF PollRaises, CallRefused, CallRaises, Release, Dropping
<1>4. CASE PollFailed(t)
  BY <1>1, <1>4, DroppedMoves DEF PollFailed, Dropping
<1>5. CASE PollWait(t) \/ PollBegin(t) \/ PollReturns(t) \/ PollCount(t) \/ PollFault(t)
  BY <1>1, <1>5, DroppedMoves
  DEF PollWait, PollBegin, PollReturns, PollCount, PollFault, BeginCall, CallReturns,
      Release, Dropping
<1> QED
  BY <1>2, <1>3, <1>4, <1>5 DEF SharedPoll

LEMMA SharedInitDropped ==
    ASSUME PollerInv, FailedConnectionIsDropped, SharedInit
    PROVE  FailedConnectionIsDropped'
<1>1. Req \in Procs
  BY DEF Procs
<1>2. CASE CloseClient \/ InitClient
  BY <1>2 DEF CloseClient, InitClient, ResetFields, FailedConnectionIsDropped
<1>3. CASE InitRaises
  BY <1>1, <1>3, DroppedMoves DEF InitRaises, CallRefused, CallRaises, Release, Dropping
<1>4. CASE Tick
  BY <1>4, DroppedStutters DEF Tick
<1>5. CASE RequestInit \/ DeleteDevice \/ Join \/ InitBegin \/ InitReturns
  BY <1>1, <1>5, DroppedMoves
  DEF RequestInit, DeleteDevice, Join, InitBegin, InitReturns, BeginCall, CallReturns,
      Release, Dropping
<1> QED
  BY <1>2, <1>3, <1>4, <1>5 DEF SharedInit

LEMMA InitDropped ==
    ASSUME PollerInv, FailedConnectionIsDropped,
           \/ \E label : InitRefused(label)
           \/ \E t \in Threads : \E s, label : InitRead(t, s, label)
           \/ \E t \in Threads : \E label : InitReadFailed(t, label)
           \/ ServerRestarts
    PROVE  FailedConnectionIsDropped'
<1>1. CASE \E t \in Threads : \E s, label : InitRead(t, s, label)
  BY <1>1, DroppedStarts DEF InitRead
<1>2. CASE suspect' = FALSE
  BY <1>2 DEF FailedConnectionIsDropped
<1> QED
  BY <1>1, <1>2 DEF InitRefused, ResetFields, InitReadFailed, ServerRestarts

=============================================================================
