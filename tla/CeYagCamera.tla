----------------------------- MODULE CeYagCamera -----------------------------
(***************************************************************************)
(* ceyag_camera.py: an asyncio device that reads frames from a camera's    *)
(* TCP stream.  A read loop hands its blocking calls to worker threads and *)
(* redials by itself; Reconnect and Init replace the connection and the    *)
(* loop.                                                                   *)
(*                                                                         *)
(* A cancelled read loop runs no further, but its worker thread does: it   *)
(* looks up self._sock again before every recv().  The dial of a cancelled *)
(* loop ends in a socket that nobody refers to, which CPython closes, and  *)
(* is left out.                                                            *)
(*                                                                         *)
(* A frame is read in three parts, each in one recv() or in two.           *)
(***************************************************************************)
EXTENDS Integers

CONSTANTS
    Loops,          \* read loop tasks; bound: as many are alive at a time
    Workers,        \* worker threads that read
    Socks,          \* bound: connections in use at a time
    Reqs,           \* bound: Reconnects and Inits in progress at a time
    None,
    BACKOFF_CAP     \* the doublings from BACKOFF_START_S to BACKOFF_CAP_S

ASSUME CameraAssumption ==
    /\ None \notin Loops \cup Socks \cup {"torn", "gone"}
    /\ {"torn", "gone"} \cap Loops = {}
    /\ BACKOFF_CAP \in Nat

VARIABLES
    state,      \* the Tango device state
    sock,       \* self._sock
    readTask,   \* self._read_task
    loop,       \* each read loop: where it is, and its backoff in doublings
    worker,     \* each worker: where it is, the loop that awaits it, its socket,
                \* and whether it has received a part of what it was asked for
    req,        \* each request: where it is, and what it is
    stream,     \* each connection: the loop whose frame it is in the middle of, None
                \* between two frames, "torn" if bytes were taken out of one, "gone"
                \* if it was shut down or lost
    shown,      \* self._frame: "none", "whole" or "torn"
    peer,       \* the camera: "up", "mute" (accepts, sends nothing), "down"
    crossed,    \* requests overlapped, and none has been alone since
    mixed       \* requests, or a connect and a worker of nobody, overlapped, and
                \* none has swept up since

deviceVars == <<state, sock, readTask, shown>>
taskVars == <<loop, worker, req>>
raceVars == <<crossed, mixed>>
vars == <<deviceVars, taskVars, stream, peer, raceVars>>

Parts == {"magic", "length", "payload"}
NoLoop == [pc |-> "free", backoff |-> 0]
NoJob == [pc |-> "free", owner |-> None, conn |-> None, got |-> FALSE]
NoRequest == [pc |-> "idle", kind |-> "none"]

TypeOK ==
    /\ state \in {"UNKNOWN", "ON", "FAULT"}
    /\ sock \in Socks \cup {None} /\ readTask \in Loops \cup {None}
    /\ loop \in [Loops -> [pc : {"free", "failed", "new", "backoff", "dial"} \cup Parts,
                           backoff : 0..BACKOFF_CAP]]
    /\ worker \in [Workers -> [pc : {"free", "pick", "recv", "ok", "torn", "error",
                                     "broken"},
                               owner : Loops \cup {None}, conn : Socks \cup {None},
                               got : BOOLEAN]]
    /\ req \in [Reqs -> [pc : {"idle", "cancel", "await", "dial"},
                         kind : {"none", "reconnect", "init"}]]
    /\ stream \in [Socks -> Loops \cup {None, "torn", "gone"}]
    /\ shown \in {"none", "whole", "torn"} /\ peer \in {"up", "mute", "down"}
    /\ crossed \in BOOLEAN /\ mixed \in BOOLEAN

\* The server has just started, and one request runs its first init_device().
Init ==
    /\ state = "UNKNOWN" /\ sock = None /\ readTask = None
    /\ loop = [l \in Loops |-> NoLoop] /\ worker = [w \in Workers |-> NoJob]
    /\ \E r \in Reqs : req = [q \in Reqs |->
            IF q = r THEN [pc |-> "await", kind |-> "init"] ELSE NoRequest]
    /\ stream = [s \in Socks |-> "gone"]
    /\ shown = "none" /\ peer \in {"up", "mute", "down"}
    /\ crossed = FALSE /\ mixed = FALSE

Live(l) == loop[l].pc \notin {"free", "failed"}
Orphan(w) == worker[w].pc # "free" /\ worker[w].owner = None
AtWork(r) == req[r].pc \in {"await", "dial"}
InUse(s) == s = sock \/ \E w \in Workers : worker[w].conn = s

-----------------------------------------------------------------------------
(* Connections *)

\* close() without shutdown(): a recv() that is blocked goes on.
CloseWithoutShutdown == sock' = None /\ UNCHANGED stream

CloseSocket ==
    /\ sock' = None
    /\ stream' = [s \in Socks |-> IF s = sock THEN "gone" ELSE stream[s]]

\* _blocking_connect() has succeeded, and its coroutine goes on.  A worker of nobody
\* that is between two recv()s will find the new connection.
Connected ==
    /\ peer # "down"
    /\ \E s \in Socks :
          /\ ~InUse(s)
          /\ sock' = s
          /\ stream' = [stream EXCEPT ![s] = None]
    /\ mixed' = (mixed \/ \E w \in Workers : Orphan(w) /\ worker[w].pc = "pick")
    /\ UNCHANGED crossed

-----------------------------------------------------------------------------
(* The worker threads, in _blocking_recv_exact() *)

Job(l) == [pc |-> "pick", owner |-> l, conn |-> None, got |-> FALSE]

\* The job is over; whoever awaits it will see the result.
Over(w, result) ==
    IF worker[w].owner = None THEN NoJob
    ELSE [worker[w] EXCEPT !.pc = result, !.conn = None]

\* self._sock.recv(...): None has no recv().
WorkerPicks(w) ==
    /\ worker[w].pc = "pick"
    /\ worker' = [worker EXCEPT ![w] =
                    IF sock = None THEN Over(w, "broken")
                    ELSE [@ EXCEPT !.pc = "recv", !.conn = sock]]
    /\ UNCHANGED <<deviceVars, loop, req, stream, peer, raceVars>>

\* What a recv() of worker w leaves of its stream; whole if its part is complete.
Continues(w, whole) ==
    LET s == worker[w].conn
        l == worker[w].owner
        begins == l # None /\ loop[l].pc = "magic" /\ ~worker[w].got
    IN  IF l = None \/ stream[s] # (IF begins THEN None ELSE l) THEN "torn"
        ELSE IF whole /\ loop[l].pc = "payload" THEN None
        ELSE l

\* Bytes arrive: a part of what was asked for, or all of it.  A magic or a length
\* out of a torn stream is not what it should be, and ends in ValueError.
WorkerReceives(w) ==
    /\ worker[w].pc = "recv" /\ peer = "up" /\ stream[worker[w].conn] # "gone"
    /\ \E whole \in {worker[w].got, TRUE} :
          LET left == Continues(w, whole)
              result == IF left # "torn" \/ worker[w].owner = None THEN "ok"
                        ELSE IF loop[worker[w].owner].pc = "payload" THEN "torn"
                        ELSE "error"
          IN  /\ stream' = [stream EXCEPT ![worker[w].conn] = left]
              /\ worker' = [worker EXCEPT ![w] =
                    IF whole THEN Over(w, result)
                    ELSE [@ EXCEPT !.pc = "pick", !.conn = None, !.got = TRUE]]
    /\ UNCHANGED <<deviceVars, loop, req, peer, raceVars>>

\* The connection has ended, or nothing has come for five seconds.
WorkerFails(w) ==
    /\ worker[w].pc = "recv" /\ (peer # "up" \/ stream[worker[w].conn] = "gone")
    /\ worker' = [worker EXCEPT ![w] = Over(w, "error")]
    /\ UNCHANGED <<deviceVars, loop, req, stream, peer, raceVars>>

WorkerStep(w) == WorkerPicks(w) \/ WorkerReceives(w) \/ WorkerFails(w)

-----------------------------------------------------------------------------
(* The read loop *)

\* The top of the loop: redial without a connection, else read a frame, in worker w.
Turn(l, w, backoff) ==
    IF sock' = None
    THEN /\ loop' = [loop EXCEPT ![l] = [pc |-> "backoff", backoff |-> backoff]]
         /\ worker' = [worker EXCEPT ![w] = NoJob]
    ELSE /\ loop' = [loop EXCEPT ![l] = [pc |-> "magic", backoff |-> backoff]]
         /\ worker' = [worker EXCEPT ![w] = Job(l)]

LoopStarts(l) ==
    /\ loop[l].pc = "new"
    /\ UNCHANGED sock
    /\ \E w \in Workers : worker[w].pc = "free" /\ Turn(l, w, 0)
    /\ UNCHANGED <<state, readTask, shown, req, stream, peer, raceVars>>

LoopWakes(l) ==
    /\ loop[l].pc = "backoff"
    /\ loop' = [loop EXCEPT ![l].pc = "dial",
                            ![l].backoff = IF @ < BACKOFF_CAP THEN @ + 1 ELSE @]
    /\ UNCHANGED <<deviceVars, worker, req, stream, peer, raceVars>>

\* The backoff reset by a connect instead of a frame.
LoopConnectsReset(l) ==
    /\ loop[l].pc = "dial"
    /\ Connected
    /\ \E w \in Workers : worker[w].pc = "free" /\ Turn(l, w, 0)
    /\ UNCHANGED <<state, readTask, shown, req, peer>>

LoopConnects(l) ==
    /\ loop[l].pc = "dial"
    /\ Connected
    /\ \E w \in Workers : worker[w].pc = "free" /\ Turn(l, w, loop[l].backoff)
    /\ UNCHANGED <<state, readTask, shown, req, peer>>

LoopRefused(l) ==
    /\ loop[l].pc = "dial" /\ peer = "down"
    /\ loop' = [loop EXCEPT ![l].pc = "backoff"]
    /\ UNCHANGED <<deviceVars, worker, req, stream, peer, raceVars>>

LoopReadsOn(l, w) ==
    /\ worker[w].owner = l /\ worker[w].pc = "ok"
    /\ loop[l].pc \in {"magic", "length"}
    /\ loop' = [loop EXCEPT ![l].pc = IF @ = "magic" THEN "length" ELSE "payload"]
    /\ worker' = [worker EXCEPT ![w] = Job(l)]
    /\ UNCHANGED <<deviceVars, req, stream, peer, raceVars>>

LoopShows(l, w) ==
    /\ worker[w].owner = l /\ worker[w].pc \in {"ok", "torn"}
    /\ loop[l].pc = "payload"
    /\ shown' = IF worker[w].pc = "torn" THEN "torn" ELSE "whole"
    /\ state' = "ON"
    /\ UNCHANGED sock
    /\ Turn(l, w, 0)
    /\ UNCHANGED <<readTask, req, stream, peer, raceVars>>


\* The connection is closed, and the state left alone.
LoopLosesSilently(l, w) ==
    /\ worker[w].owner = l /\ worker[w].pc \in {"error", "broken"}
    /\ CloseSocket /\ Turn(l, w, loop[l].backoff)
    /\ UNCHANGED <<state, readTask, shown, req, peer, raceVars>>

\* An error of the connection or of the frame: FAULT, and redial.  AttributeError,
\* of a worker that found no socket, ends the loop.
LoopLoses(l, w) ==
    /\ worker[w].owner = l /\ worker[w].pc \in {"error", "broken"}
    /\ IF worker[w].pc = "error"
       THEN state' = "FAULT" /\ CloseSocket /\ Turn(l, w, loop[l].backoff)
       ELSE /\ loop' = [loop EXCEPT ![l] = [NoLoop EXCEPT !.pc = "failed"]]
            /\ worker' = [worker EXCEPT ![w] = NoJob]
            /\ UNCHANGED <<state, sock, stream>>
    /\ UNCHANGED <<readTask, shown, req, peer, raceVars>>

LoopStep(l) ==
    \/ LoopStarts(l) \/ LoopWakes(l) \/ LoopConnects(l) \/ LoopRefused(l)
    \/ \E w \in Workers : LoopReadsOn(l, w) \/ LoopShows(l, w) \/ LoopLoses(l, w)

-----------------------------------------------------------------------------
(* Reconnect and Init *)

Request(r, kind) ==
    /\ req[r].pc = "idle" /\ state # "UNKNOWN"
    /\ req' = [req EXCEPT ![r] = [pc |-> "cancel", kind |-> kind]]
    /\ UNCHANGED <<deviceVars, loop, worker, stream, peer, raceVars>>

Overlaps(r) == \E q \in Reqs \ {r} : AtWork(q)

\* The first step of a request: another may be at work.
Crosses(r) ==
    /\ crossed' = (crossed \/ Overlaps(r))
    /\ mixed' = (mixed \/ Overlaps(r))

\* _disconnect() that leaves the read loop alone.
DisconnectKeepsLoop(r) ==
    /\ req[r].pc = "cancel" /\ readTask # None
    /\ Crosses(r)
    /\ req' = [req EXCEPT ![r].pc = "await"]
    /\ UNCHANGED <<deviceVars, loop, worker, stream, peer>>

\* _disconnect(): cancel the read loop, and await it.  Its worker goes on.
DisconnectCancels(r) ==
    /\ req[r].pc = "cancel" /\ readTask # None
    /\ Crosses(r)
    /\ loop' = [loop EXCEPT ![readTask] = IF Live(readTask) THEN NoLoop ELSE @]
    /\ worker' = [w \in Workers |->
                    IF worker[w].owner # readTask THEN worker[w]
                    ELSE IF worker[w].pc \in {"pick", "recv"}
                    THEN [worker[w] EXCEPT !.owner = None] ELSE NoJob]
    /\ req' = [req EXCEPT ![r].pc = "await"]
    /\ UNCHANGED <<deviceVars, stream, peer>>

\* A request that is alone, and leaves no loop and no worker that could read on, ends
\* what overlapped before.
Settles(r) ==
    LET loopLeft == readTask' # None \/ \E l \in Loops : Live(l)
        workerLeft == \E w \in Workers : /\ worker[w].pc = "recv"
                                         /\ stream'[worker[w].conn] # "gone"
    IN  /\ crossed' = (Overlaps(r) \/ (crossed /\ loopLeft))
        /\ mixed' = (crossed' \/ (mixed /\ (workerLeft \/ shown' = "torn")))

\* The await is over, or there was nothing to await: close the socket and dial, or,
\* in an Init with an interval out of range, FAULT.  The error of a loop that has
\* failed goes to the caller.
Disconnected(r) ==
    /\ req[r].pc = "await" \/ (req[r].pc = "cancel" /\ readTask = None)
    /\ IF readTask # None /\ loop[readTask].pc = "failed"
       THEN req' = [req EXCEPT ![r] = NoRequest] /\ UNCHANGED <<deviceVars, stream>>
       ELSE /\ readTask' = None
            /\ CloseSocket
            /\ shown' = IF req[r].kind = "init" THEN "none" ELSE shown
            /\ \/ req' = [req EXCEPT ![r].pc = "dial"] /\ UNCHANGED state
               \/ /\ req[r].kind = "init"
                  /\ req' = [req EXCEPT ![r] = NoRequest] /\ state' = "FAULT"
    /\ Settles(r)
    /\ UNCHANGED <<loop, worker, peer>>

\* _connect() starts a read loop either way.
StartLoop ==
    \E l \in Loops :
        /\ ~Live(l)
        /\ loop' = [loop EXCEPT ![l] = [NoLoop EXCEPT !.pc = "new"]]
        /\ readTask' = l

ConnectSucceeds(r) ==
    /\ req[r].pc = "dial"
    /\ Connected
    /\ state' = "ON"
    /\ StartLoop
    /\ req' = [req EXCEPT ![r] = NoRequest]
    /\ UNCHANGED <<shown, worker, peer>>

ConnectFails(r) ==
    /\ req[r].pc = "dial" /\ peer = "down"
    /\ state' = "FAULT"
    /\ StartLoop
    /\ req' = [req EXCEPT ![r] = NoRequest]
    /\ UNCHANGED <<sock, shown, worker, stream, peer, raceVars>>

ReqStep(r) ==
    DisconnectCancels(r) \/ Disconnected(r) \/ ConnectSucceeds(r) \/ ConnectFails(r)

-----------------------------------------------------------------------------
(* The camera *)

PeerChanges ==
    /\ peer' \in {"up", "mute", "down"} \ {peer}
    /\ stream' = [s \in Socks |-> IF peer' = "down" THEN "gone" ELSE stream[s]]
    /\ UNCHANGED <<deviceVars, taskVars, raceVars>>

Next ==
    \/ \E w \in Workers : WorkerStep(w)
    \/ \E l \in Loops : LoopStep(l)
    \/ \E r \in Reqs : Request(r, "reconnect") \/ Request(r, "init") \/ ReqStep(r)
    \/ PeerChanges

Spec == Init /\ [][Next]_vars

\* The event loop and the threads keep running; nothing obliges a client or the
\* camera.  A dial may have to wait for a worker again and again, hence SF.
CameraFairness ==
    /\ \A w \in Workers : WF_vars(WorkerStep(w))
    /\ \A l \in Loops : SF_vars(LoopStep(l))
    /\ \A r \in Reqs : SF_vars(ReqStep(r))

-----------------------------------------------------------------------------
(* Properties *)

\* "no read loop outlives its connection or its device" (lines 22-24): the only
\* read loop alive is self._read_task, and there is none from the end of
\* _disconnect() to the connect.  Two loops would split one stream between them, as
\* they do once two requests have dialled at once, until a request is alone again
\* and finds no second loop.
OneReadLoop ==
    crossed \/
        /\ \A l \in Loops : Live(l) => l = readTask
        /\ \A r \in Reqs : req[r].pc = "dial" => readTask = None

\* "a worker thread still reading an old connection after Reconnect or Init can't
\* take bytes from the new one" (tests/camera/test_ceyag_camera.py, lines 69-72): no
\* frame is shown that lacks bytes, unless requests overlapped, or a connect completed
\* while a worker of a cancelled loop was between two recv()s and would take the new
\* connection (line 133).
FramesAreWhole == mixed \/ shown # "torn"

\* "a lost or refused connection means FAULT" (line 27): between requests a device
\* that is ON has a connection and a read loop on it, unless requests overlapped.
OnIsConnected ==
    (state = "ON" /\ ~crossed /\ \A r \in Reqs : req[r].pc = "idle") =>
        sock # None /\ readTask # None /\ Live(readTask)

\* "heals the device by itself" (lines 26-32): with a camera that streams from some
\* time on, valid properties and whatever Reconnects that no longer overlap, it is ON
\* for good.
HealsItself ==
    <>[](/\ peer = "up" /\ ~crossed
         /\ \A r \in Reqs : req[r].kind # "init" /\ (req[r].pc = "idle" => readTask # None))
        => <>[](state = "ON")

\* "a camera that accepts a connection but sends no frames must not be redialled at
\* full speed" (lines 29-32), until the next Reconnect or Init.
MuteIsRedialledSlowly ==
    <>[](peer = "mute" /\ ~crossed /\ \A r \in Reqs : req[r].pc = "idle") =>
        <>[](readTask # None => loop[readTask].backoff = BACKOFF_CAP)

=============================================================================
