---------------------------- MODULE ModbusPoller ----------------------------
(***************************************************************************)
(* What interlock_monitor.py and vacuum_gauge.py have in common: a         *)
(* synchronous Tango device whose requests run one at a time (process      *)
(* Req), a background poll thread (a member of Threads), and one pymodbus  *)
(* client that both use under self._client_lock.                           *)
(*                                                                         *)
(* The actions here leave the variables of the device that uses them       *)
(* alone; InterlockMonitor and VacuumGauge conjoin the device's part.      *)
(* Line references are to interlock_monitor.py; vacuum_gauge.py has the    *)
(* same code.                                                              *)
(*                                                                         *)
(* Time passes only inside a Modbus call while delete_device() joins the   *)
(* poll thread: every other step is a few Python instructions, and the     *)
(* two seconds of margin in THREAD_JOIN_TIMEOUT_S are there for them.      *)
(***************************************************************************)
EXTENDS Integers

CONSTANTS
    Threads,                \* poll threads, dead or alive
    Req,                    \* the thread that runs the device's requests
    None,                   \* Python's None
    POLL_INTERVAL_S, POLL_FAILURE_THRESHOLD, MODBUS_TIMEOUT_S, MODBUS_RETRIES

ASSUME ProcessAssumption ==
    /\ Req \notin Threads
    /\ None \notin Threads \cup {Req}

\* The third conjunct is what the shipped values (1.0 s and 1.0 s) satisfy and
\* pymodbus's default timeout of 3 s would not: see OnePoller.
ASSUME TimingAssumption ==
    /\ POLL_INTERVAL_S \in Nat /\ MODBUS_TIMEOUT_S \in Nat /\ MODBUS_RETRIES \in Nat
    /\ POLL_FAILURE_THRESHOLD \in Nat \ {0}
    /\ MODBUS_TIMEOUT_S < POLL_INTERVAL_S + 2

VARIABLES
    peer,       \* the instrument: "up", "busy" (answers with Modbus exception
                \* responses), "hung" (accepts, never answers), "down"
    sock,       \* the client's connection: "closed", "open", "dead" (its peer
                \* closed it), or "none" while self._client is None
    suspect,    \* a call has failed on this connection
    lock,       \* who holds self._client_lock
    pc,         \* where each thread is
    stop,       \* self._stop_event
    thread,     \* self._thread
    state,      \* the Tango device state
    failures,   \* self._poll_failures, counted up to the threshold
    callLeft,   \* seconds the call in progress may still take
    joinLeft    \* seconds delete_device() will still wait for the poll thread

pollerVars == <<peer, sock, suspect, lock, pc, stop, thread, state, failures,
                callLeft, joinLeft>>

Procs == Threads \cup {Req}
Peers == {"up", "busy", "hung", "down"}
States == {"UNKNOWN", "ON", "ALARM", "FAULT"}

\* Where a poll thread can be: the second set is what the devices do with an
\* answer.
ThreadLabels ==
    {"dead", "wait", "lock", "call", "got", "failed", "drop", "count", "fault"}
        \cup {"recover", "store", "apply", "push"}

\* Where the request thread can be: in init_device() and delete_device(), in the
\* interlock's Reset, in a request to the gauge's pump.
ReqLabels ==
    {"idle", "delete", "join", "close", "init", "lock", "call", "got", "failed"}
        \cup {"resetLock", "reset", "resetFailed"}
        \cup {"restore", "pumpLock", "pump", "pumpFailed", "memorize", "reply"}

\* The labels at which a thread is inside the client.
CallLabels == {"call", "reset", "pump"}

\* One attempt and its retries; dialling a closed connection comes before them.
CallTime == MODBUS_TIMEOUT_S * (MODBUS_RETRIES + 1)
THREAD_JOIN_TIMEOUT_S == CallTime + POLL_INTERVAL_S + 2

PollerTypeOK ==
    /\ peer \in Peers
    /\ sock \in {"none", "closed", "open", "dead"}
    /\ suspect \in BOOLEAN
    /\ lock \in Procs \cup {None}
    /\ pc \in [Procs -> ThreadLabels \cup ReqLabels]
    /\ \A t \in Threads : pc[t] \in ThreadLabels
    /\ pc[Req] \in ReqLabels
    /\ stop \in BOOLEAN
    /\ thread \in Threads \cup {None}
    /\ state \in States
    /\ failures \in 0..POLL_FAILURE_THRESHOLD
    /\ callLeft \in 0..(MODBUS_TIMEOUT_S + CallTime)
    /\ joinLeft \in 0..THREAD_JOIN_TIMEOUT_S

\* A server that is about to run init_device() for the first time.
PollerInit ==
    /\ peer \in Peers
    /\ sock = "none" /\ suspect = FALSE /\ lock = None
    /\ pc = [p \in Procs |-> IF p = Req THEN "init" ELSE "dead"]
    /\ stop = FALSE /\ thread = None
    /\ state = "UNKNOWN" /\ failures = 0
    /\ callLeft = 0 /\ joinLeft = 0

Goto(p, label) == pc' = [pc EXCEPT ![p] = label]

Alive(t) == pc[t] # "dead"

Operational == state \in {"ON", "ALARM"}

-----------------------------------------------------------------------------
(* One Modbus call of process p: with self._client_lock: self._client.xxx() *)

\* The client dials first if its connection is closed.
BeginCall(p, label) ==
    /\ lock = None
    /\ lock' = p
    /\ sock' = IF sock = "closed" /\ peer # "down" THEN "open" ELSE sock
    /\ callLeft' = CallTime + IF sock = "closed" THEN MODBUS_TIMEOUT_S ELSE 0
    /\ Goto(p, label)
    /\ UNCHANGED <<peer, suspect, stop, thread, state, failures, joinLeft>>

Release(p, label) ==
    /\ lock = p
    /\ lock' = None
    /\ callLeft' = 0
    /\ Goto(p, label)
    /\ UNCHANGED <<peer, sock, stop, thread, state, failures, joinLeft>>

\* An answer that is not an exception response.
CallReturns(p, label) ==
    /\ sock = "open"
    /\ Release(p, label)
    /\ UNCHANGED suspect

\* A Modbus exception response: no .bits, no .registers, isError() is true.
CallRefused(p, label) ==
    /\ sock = "open" /\ peer = "busy"
    /\ Release(p, label)
    /\ UNCHANGED suspect

\* _drop_connection() called inside the with statement: the lock is not
\* reentrant, and its holder waits for itself.
CallRaisesLocked(p, label) ==
    /\ sock # "open" \/ peer = "hung"
    /\ lock = p
    /\ suspect' = (sock \in {"open", "dead"})
    /\ Goto(p, label)
    /\ UNCHANGED <<peer, sock, lock, stop, thread, state, failures, callLeft,
                   joinLeft>>

\* ModbusException or OSError: the dial failed, the connection is dead, or the
\* answer did not come in time. pymodbus keeps the socket.
CallRaises(p, label) ==
    /\ sock # "open" \/ peer = "hung"
    /\ Release(p, label)
    /\ suspect' = (sock \in {"open", "dead"})

\* _drop_connection(): take the lock again and close, so that the next call
\* dials.
DropConnection(p, label) ==
    /\ lock = None
    /\ sock' = "closed"
    /\ suspect' = FALSE
    /\ Goto(p, label)
    /\ UNCHANGED <<peer, lock, stop, thread, failures, callLeft, joinLeft>>

-----------------------------------------------------------------------------
(* _poll_loop(), up to what the device does with an answer *)

PollWait(t) ==                     \* while not self._stop_event.wait(...)
    /\ pc[t] = "wait"
    /\ Goto(t, IF stop THEN "dead" ELSE "lock")
    /\ UNCHANGED <<peer, sock, suspect, lock, stop, thread, state, failures,
                   callLeft, joinLeft>>

PollBegin(t) == pc[t] = "lock" /\ BeginCall(t, "call")

PollReturns(t) == pc[t] = "call" /\ peer = "up" /\ CallReturns(t, "got")

\* AttributeError not caught: an exception response ends the poll thread.
PollRaisesUncaught(t) ==
    /\ pc[t] = "call"
    /\ CallRefused(t, "dead") \/ CallRaises(t, "failed")

PollRaises(t) ==
    /\ pc[t] = "call"
    /\ CallRefused(t, "failed") \/ CallRaises(t, "failed")

\* except ...: if self._stop_event.is_set(): return
PollFailed(t) ==
    /\ pc[t] = "failed"
    /\ Goto(t, IF stop THEN "dead" ELSE "drop")
    /\ UNCHANGED <<peer, sock, suspect, lock, stop, thread, state, failures,
                   callLeft, joinLeft>>

\* The connection kept after a failed poll, as before Ch28.
PollKeepConnection(t) ==
    /\ pc[t] = "drop"
    /\ Goto(t, "count")
    /\ UNCHANGED <<peer, sock, suspect, lock, stop, thread, state, failures,
                   callLeft, joinLeft>>

PollDrop(t) ==
    /\ pc[t] = "drop"
    /\ DropConnection(t, "count")
    /\ UNCHANGED state

\* A threshold one too high.
PollCountLate(t) ==
    /\ pc[t] = "count"
    /\ failures' = IF failures < POLL_FAILURE_THRESHOLD
                   THEN failures + 1 ELSE failures
    /\ Goto(t, IF failures >= POLL_FAILURE_THRESHOLD THEN "fault" ELSE "wait")
    /\ UNCHANGED <<peer, sock, suspect, lock, stop, thread, state, callLeft,
                   joinLeft>>

PollCount(t) ==
    /\ pc[t] = "count"
    /\ failures' = IF failures < POLL_FAILURE_THRESHOLD
                   THEN failures + 1 ELSE failures
    /\ Goto(t, IF failures' >= POLL_FAILURE_THRESHOLD THEN "fault" ELSE "wait")
    /\ UNCHANGED <<peer, sock, suspect, lock, stop, thread, state, callLeft,
                   joinLeft>>

PollFault(t) ==
    /\ pc[t] = "fault"
    /\ state' = "FAULT"
    /\ Goto(t, "wait")
    /\ UNCHANGED <<peer, sock, suspect, lock, stop, thread, failures, callLeft,
                   joinLeft>>

-----------------------------------------------------------------------------
(* Init: delete_device() and then init_device() *)

RequestInit ==
    /\ pc[Req] = "idle"
    /\ Goto(Req, "delete")
    /\ UNCHANGED <<peer, sock, suspect, lock, stop, thread, state, failures,
                   callLeft, joinLeft>>

\* delete_device() that forgets to stop the poll thread before it joins it.
DeleteDeviceNoStop ==
    /\ pc[Req] = "delete"
    /\ joinLeft' = THREAD_JOIN_TIMEOUT_S
    /\ Goto(Req, IF thread = None THEN "close" ELSE "join")
    /\ UNCHANGED <<peer, sock, suspect, lock, stop, thread, state, failures,
                   callLeft>>

DeleteDevice ==
    /\ pc[Req] = "delete"
    /\ stop' = TRUE
    /\ joinLeft' = THREAD_JOIN_TIMEOUT_S
    /\ Goto(Req, IF thread = None THEN "close" ELSE "join")
    /\ UNCHANGED <<peer, sock, suspect, lock, thread, state, failures, callLeft>>

\* A second of the join, spent in the poll thread's call.
Tick ==
    /\ pc[Req] = "join"
    /\ lock = thread /\ callLeft > 0 /\ joinLeft > 0
    /\ callLeft' = callLeft - 1
    /\ joinLeft' = joinLeft - 1
    /\ UNCHANGED <<peer, sock, suspect, lock, pc, stop, thread, state, failures>>

\* self._thread.join(timeout=THREAD_JOIN_TIMEOUT_S)
Join ==
    /\ pc[Req] = "join"
    /\ ~Alive(thread) \/ joinLeft = 0
    /\ thread' = None /\ joinLeft' = 0
    /\ Goto(Req, "close")
    /\ UNCHANGED <<peer, sock, suspect, lock, stop, state, failures, callLeft>>

CloseClient ==
    /\ pc[Req] = "close"
    /\ lock = None
    /\ sock' = "none"
    /\ suspect' = FALSE
    /\ Goto(Req, "init")
    /\ UNCHANGED <<peer, lock, stop, thread, state, failures, callLeft, joinLeft>>

\* The fields init_device() resets before it looks at the properties: a new
\* lock, a new stop event, no client and no thread.
ResetFields ==
    /\ pc[Req] = "init"
    /\ lock' = None /\ stop' = FALSE /\ thread' = None /\ failures' = 0
    /\ suspect' = FALSE
    /\ UNCHANGED <<peer, callLeft, joinLeft>>

\* Port (or ModbusDeviceId) out of range: FAULT, no client, no thread.
InitRefused(label) ==
    /\ ResetFields
    /\ sock' = "none"
    /\ state' = "FAULT"
    /\ Goto(Req, label)

InitClient ==
    /\ ResetFields
    /\ sock' = "closed"
    /\ Goto(Req, "lock")
    /\ UNCHANGED state

\* The synchronous first read of init_device().
InitBegin == pc[Req] = "lock" /\ BeginCall(Req, "call")

InitReturns == pc[Req] = "call" /\ peer = "up" /\ CallReturns(Req, "got")

InitRaises ==
    /\ pc[Req] = "call"
    /\ CallRefused(Req, "failed") \/ CallRaises(Req, "failed")

\* Starting the thread is the last thing init_device() does; the request goes on
\* at label.
StartThread(t, label) ==
    /\ ~Alive(t)
    /\ thread' = t
    /\ pc' = [pc EXCEPT ![t] = "wait", ![Req] = label]

\* The first read succeeded: the device is in state s.
InitRead(t, s, label) ==
    /\ pc[Req] = "got"
    /\ StartThread(t, label)
    /\ state' = s
    /\ UNCHANGED <<peer, sock, suspect, lock, stop, failures, callLeft, joinLeft>>

\* The first read failed: drop the connection, FAULT, and start the thread all
\* the same.
InitReadFailed(t, label) ==
    /\ pc[Req] = "failed"
    /\ lock = None
    /\ sock' = "closed" /\ suspect' = FALSE
    /\ state' = "FAULT"
    /\ StartThread(t, label)
    /\ UNCHANGED <<peer, lock, stop, failures, callLeft, joinLeft>>

\* The server process is killed and started again: everything it held is lost.
ServerRestarts ==
    /\ sock' = "none" /\ suspect' = FALSE /\ lock' = None
    /\ pc' = [p \in Procs |-> IF p = Req THEN "init" ELSE "dead"]
    /\ stop' = FALSE /\ thread' = None
    /\ state' = "UNKNOWN" /\ failures' = 0
    /\ callLeft' = 0 /\ joinLeft' = 0
    /\ UNCHANGED peer

-----------------------------------------------------------------------------
(* The instrument and the network *)

\* A peer that goes down takes its connections with it.
PeerChanges(p) ==
    /\ p # peer
    /\ peer' = p
    /\ sock' = IF p = "down" /\ sock = "open" THEN "dead" ELSE sock
    /\ UNCHANGED <<suspect, lock, pc, stop, thread, state, failures, callLeft,
                   joinLeft>>

-----------------------------------------------------------------------------
(* Properties of both devices *)

\* A client can be served in this state: no other request runs, and
\* is_X_allowed() says yes.
Served == pc[Req] = "idle" /\ Operational

\* Init leaves exactly one poll thread: the one in self._thread is the only one
\* that lives, and nothing but delete_device() ends it (interlock_monitor.py,
\* lines 267-281 and 106-111; vacuum_gauge.py, lines 30-32).  With a call that may
\* take longer than the join waits, the old thread would survive into the life of
\* the new one, and find there a stop event that is not set.
OnePoller ==
    /\ \A t \in Threads : Alive(t) => t = thread
    /\ (thread # None /\ ~stop) => Alive(thread)

\* pymodbus's client is not thread safe: at most one thread is inside a call,
\* and it holds the lock, although Init replaces the lock (interlock_monitor.py,
\* lines 27-31 and 77; vacuum_gauge.py, lines 15-20 and 96).
OneCallAtATime == \A p \in Procs : pc[p] \in CallLabels <=> lock = p

\* "the connection can't be trusted ... Closing here makes the next call connect
\* afresh" (interlock_monitor.py, lines 118-124): a connection on which a call has
\* failed is on its way to being closed, by the thread that saw it fail or by Init.
\* Until then the other thread may still call on it: the lock is free in between.
FailedConnectionIsDropped ==
    suspect => \/ stop
               \/ \E p \in Procs : pc[p] \in {"failed", "drop", "resetFailed", "pumpFailed"}

\* An instrument that never answers again ends in FAULT for good, however it fails
\* and whatever clients request meanwhile (interlock_monitor.py, line 21;
\* vacuum_gauge.py, lines 22-24).
LossIsReported == <>[](peer # "up") => <>[](pc[Req] = "idle" => state = "FAULT")

\* Every request and every Init comes to an end, whatever the instrument does: no
\* deadlock on the lock, no join that never ends.
RequestsReturn == []<>(pc[Req] = "idle")

=============================================================================
