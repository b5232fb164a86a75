---------------------------- MODULE CameraPanelProofs ----------------------------
(***************************************************************************)
(* Proofs about the Ce:YAG camera and about the operator's tabs that show  *)
(* it and the other devices.  They share no name and no state: each part   *)
(* has its own types, its own inductive invariant and its own theorems.    *)
(*                                                                         *)
(* CeYagCamera.  CameraInv says where a read loop, its worker and its      *)
(* socket may stand: whatever overlaps, a worker with an owner reads for a *)
(* loop that reads; and unless requests have overlapped (crossed), there   *)
(* is one loop, the one self._read_task names, and State ON only while     *)
(* that loop has the connection.  FrameInv adds, unless a connect or a     *)
(* request has mixed up frames (mixed), what the workers left behind by a  *)
(* cancelled loop may still do to a socket, so that every read starts at a *)
(* frame's first byte.                                                     *)
(*                                                                         *)
(* OperatorPanel.  PingInv: a pending tab has one thread that runs or one  *)
(* result that is queued.  ShowInv: the state of a watched device is on    *)
(* its way to its tab, or it is shown and nothing queued disturbs that.    *)
(***************************************************************************)
EXTENDS CeYagCamera, OperatorPanel, FiniteSetTheorems, SequenceTheorems, TLAPS

-----------------------------------------------------------------------------
(* Types *)

LoopType == [pc : {"free", "failed", "new", "backoff", "dial"} \cup Parts,
             backoff : 0..BACKOFF_CAP]
WorkerType == [pc : {"free", "pick", "recv", "ok", "torn", "error", "broken"},
               owner : Loops \cup {None}, conn : Socks \cup {None}, got : BOOLEAN]
ReqType == [pc : {"idle", "cancel", "await", "dial"},
            kind : {"none", "reconnect", "init"}]

LEMMA OverTypes ==
    ASSUME TypeOK, NEW w \in Workers, NEW result \in {"ok", "torn", "error", "broken"}
    PROVE  Over(w, result) \in WorkerType
<1>1. worker[w] \in WorkerType
  BY DEF TypeOK, WorkerType
<1>2. NoJob \in WorkerType
  BY DEF NoJob, WorkerType
<1>3. [worker[w] EXCEPT !.pc = result, !.conn = None] \in WorkerType
  BY <1>1 DEF WorkerType
<1> QED
  BY <1>2, <1>3 DEF Over

LEMMA TurnTypes ==
    ASSUME TypeOK, NEW l \in Loops, NEW w \in Workers, NEW backoff \in 0..BACKOFF_CAP,
           Turn(l, w, backoff)
    PROVE  loop' \in [Loops -> LoopType] /\ worker' \in [Workers -> WorkerType]
<1>1. [pc |-> "backoff", backoff |-> backoff] \in LoopType
      /\ [pc |-> "magic", backoff |-> backoff] \in LoopType
  BY DEF LoopType, Parts
<1>2. Job(l) \in WorkerType /\ NoJob \in WorkerType
  BY DEF Job, NoJob, WorkerType
<1>3. loop \in [Loops -> LoopType] /\ worker \in [Workers -> WorkerType]
  BY DEF TypeOK, LoopType, WorkerType
<1> QED
  BY <1>1, <1>2, <1>3 DEF Turn

LEMMA ContinuesTypes ==
    ASSUME TypeOK, NEW w \in Workers, NEW whole
    PROVE  Continues(w, whole) \in Loops \cup {None, "torn"}
BY DEF TypeOK, Continues

LEMMA InitTypes == Init => TypeOK
<1> SUFFICES ASSUME Init PROVE TypeOK
  OBVIOUS
<1>1. crossed \in BOOLEAN /\ mixed \in BOOLEAN
  BY DEF Init
<1> QED
  BY <1>1, CameraAssumption DEF Init, TypeOK, NoLoop, NoJob, NoRequest, Parts

LEMMA WorkerTypes ==
    ASSUME TypeOK, NEW w \in Workers, WorkerStep(w)
    PROVE  TypeOK'
<1>0. worker \in [Workers -> WorkerType]
  BY DEF TypeOK, WorkerType
<1>races. crossed' \in BOOLEAN /\ mixed' \in BOOLEAN
  BY DEF TypeOK, WorkerStep, WorkerPicks, WorkerReceives, WorkerFails, raceVars
<1>1. CASE WorkerPicks(w)
  <2>1. Over(w, "broken") \in WorkerType
    BY OverTypes
  <2>2. sock # None => [worker[w] EXCEPT !.pc = "recv", !.conn = sock] \in WorkerType
    BY <1>0 DEF TypeOK, WorkerType
  <2>3. worker' \in [Workers -> WorkerType]
    BY <1>0, <1>1, <2>1, <2>2 DEF WorkerPicks
  <2> QED
    BY <1>races, <1>1, <2>3 DEF WorkerPicks, TypeOK, WorkerType, deviceVars
<1>2. CASE WorkerReceives(w)
  <2>1. PICK whole \in {worker[w].got, TRUE}, result \in {"ok", "torn", "error"} :
          /\ stream' = [stream EXCEPT ![worker[w].conn] = Continues(w, whole)]
          /\ worker' = [worker EXCEPT ![w] =
                IF whole THEN Over(w, result)
                ELSE [@ EXCEPT !.pc = "pick", !.conn = None, !.got = TRUE]]
    BY <1>2 DEF WorkerReceives
  <2>2. Over(w, result) \in WorkerType
    BY OverTypes
  <2>3. [worker[w] EXCEPT !.pc = "pick", !.conn = None, !.got = TRUE] \in WorkerType
    BY <1>0 DEF WorkerType
  <2>4. worker' \in [Workers -> WorkerType]
    BY <1>0, <2>1, <2>2, <2>3
  <2>5. stream' \in [Socks -> Loops \cup {None, "torn", "gone"}]
    BY <2>1, ContinuesTypes DEF TypeOK
  <2> QED
    BY <1>races, <1>2, <2>4, <2>5 DEF WorkerReceives, TypeOK, WorkerType, deviceVars
<1>3. CASE WorkerFails(w)
  <2>1. worker' \in [Workers -> WorkerType]
    BY <1>0, <1>3, OverTypes DEF WorkerFails
  <2> QED
    BY <1>races, <1>3, <2>1 DEF WorkerFails, TypeOK, WorkerType, deviceVars
<1> QED
  BY <1>1, <1>2, <1>3 DEF WorkerStep

LEMMA ConnectedTypes ==
    ASSUME TypeOK, Connected
    PROVE  /\ sock' \in Socks /\ stream' \in [Socks -> Loops \cup {None, "torn", "gone"}]
           /\ crossed' = crossed
BY DEF Connected, TypeOK

\* Whether requests or frames may be mixed up is a matter of yes or no.
LEMMA RaceTypes ==
    ASSUME TypeOK, Next
    PROVE  crossed' \in BOOLEAN /\ mixed' \in BOOLEAN
<1>1. CASE UNCHANGED raceVars
  BY <1>1 DEF TypeOK, raceVars
<1>2. CASE Connected
  BY <1>2 DEF Connected, TypeOK
<1>3. ASSUME NEW r \in Reqs, Crosses(r) PROVE crossed' \in BOOLEAN /\ mixed' \in BOOLEAN
  BY <1>3 DEF Crosses
<1>4. ASSUME NEW r \in Reqs, Settles(r) PROVE crossed' \in BOOLEAN /\ mixed' \in BOOLEAN
  BY <1>4 DEF Settles
<1> QED
  BY <1>1, <1>2, <1>3, <1>4
  DEF Next, WorkerStep, WorkerPicks, WorkerReceives, WorkerFails, LoopStep, LoopStarts,
      LoopWakes, LoopConnects, LoopRefused, LoopReadsOn, LoopShows, LoopLoses, Request,
      ReqStep, DisconnectCancels, Disconnected, ConnectSucceeds, ConnectFails, PeerChanges

LEMMA CloseTypes ==
    ASSUME TypeOK, CloseSocket
    PROVE  sock' = None /\ stream' \in [Socks -> Loops \cup {None, "torn", "gone"}]
BY DEF CloseSocket, TypeOK

LEMMA LoopTypes ==
    ASSUME TypeOK, NEW l \in Loops, LoopStep(l)
    PROVE  TypeOK'
<1>0. /\ loop \in [Loops -> LoopType] /\ worker \in [Workers -> WorkerType]
      /\ loop[l].backoff \in 0..BACKOFF_CAP /\ 0 \in 0..BACKOFF_CAP
      /\ crossed' \in BOOLEAN /\ mixed' \in BOOLEAN
  BY RaceTypes, CameraAssumption DEF TypeOK, LoopType, WorkerType, Next
<1>1. CASE LoopStarts(l)
  BY <1>0, <1>1, TurnTypes DEF LoopStarts, TypeOK, LoopType, WorkerType
<1>2. CASE LoopWakes(l)
  <2>1. loop' \in [Loops -> LoopType]
    <3>1. loop[l] \in LoopType
      BY <1>0
    <3>2. PICK b \in 0..BACKOFF_CAP :
             loop' = [loop EXCEPT ![l] = [loop[l] EXCEPT !.pc = "dial", !.backoff = b]]
      <4>1. /\ loop[l].backoff \in 0..BACKOFF_CAP /\ BACKOFF_CAP \in Nat
            /\ loop' = [loop EXCEPT ![l] = [loop[l] EXCEPT !.pc = "dial", !.backoff =
                        IF loop[l].backoff < BACKOFF_CAP THEN loop[l].backoff + 1
                        ELSE loop[l].backoff]]
        BY <1>0, <1>2, <3>1, CameraAssumption DEF LoopWakes, LoopType
      <4>2. (IF loop[l].backoff < BACKOFF_CAP THEN loop[l].backoff + 1
             ELSE loop[l].backoff) \in 0..BACKOFF_CAP
        BY <4>1
      <4> QED
        BY <4>1, <4>2
    <3>3. [loop[l] EXCEPT !.pc = "dial", !.backoff = b] \in LoopType
      BY <3>1 DEF LoopType
    <3> QED
      BY <1>0, <3>2, <3>3
  <2> QED
    BY <1>0, <1>2, <2>1 DEF LoopWakes, TypeOK, LoopType, deviceVars
<1>3. CASE LoopConnects(l)
  BY <1>0, <1>3, TurnTypes, ConnectedTypes DEF LoopConnects, TypeOK, LoopType, WorkerType
<1>4. CASE LoopRefused(l)
  <2>1. loop' \in [Loops -> LoopType]
    BY <1>0, <1>4 DEF LoopRefused, LoopType
  <2> QED
    BY <1>0, <1>4, <2>1 DEF LoopRefused, TypeOK, LoopType, deviceVars
<1>5. ASSUME NEW w \in Workers, LoopReadsOn(l, w) PROVE TypeOK'
  <2>1. loop' \in [Loops -> LoopType] /\ worker' \in [Workers -> WorkerType]
    BY <1>0, <1>5 DEF LoopReadsOn, LoopType, WorkerType, Job, Parts
  <2> QED
    BY <1>0, <1>5, <2>1 DEF LoopReadsOn, TypeOK, LoopType, WorkerType, deviceVars
<1>6. ASSUME NEW w \in Workers, LoopShows(l, w) PROVE TypeOK'
  <2>1. loop' \in [Loops -> LoopType] /\ worker' \in [Workers -> WorkerType]
    BY <1>0, <1>6, TurnTypes DEF LoopShows
  <2> QED
    BY <1>0, <1>6, <2>1 DEF LoopShows, TypeOK, LoopType, WorkerType
<1>7. ASSUME NEW w \in Workers, LoopLoses(l, w) PROVE TypeOK'
  <2>1. CASE worker[w].pc = "error"
    <3>1. loop' \in [Loops -> LoopType] /\ worker' \in [Workers -> WorkerType]
      BY <1>0, <1>7, <2>1, TurnTypes DEF LoopLoses
    <3> QED
      BY <1>0, <1>7, <2>1, <3>1, CloseTypes DEF LoopLoses, TypeOK, LoopType, WorkerType
  <2>2. CASE worker[w].pc # "error"
    <3>1. [NoLoop EXCEPT !.pc = "failed"] \in LoopType /\ NoJob \in WorkerType
      BY <1>0 DEF NoLoop, NoJob, LoopType, WorkerType
    <3>2. loop' \in [Loops -> LoopType] /\ worker' \in [Workers -> WorkerType]
      BY <1>0, <1>7, <2>2, <3>1 DEF LoopLoses
    <3> QED
      BY <1>0, <1>7, <2>2, <3>2 DEF LoopLoses, TypeOK, LoopType, WorkerType
  <2> QED
    BY <2>1, <2>2
<1> QED
  BY <1>1, <1>2, <1>3, <1>4, <1>5, <1>6, <1>7 DEF LoopStep

LEMMA StartLoopTypes ==
    ASSUME TypeOK, StartLoop
    PROVE  loop' \in [Loops -> LoopType] /\ readTask' \in Loops
<1>1. [NoLoop EXCEPT !.pc = "new"] \in LoopType
  BY CameraAssumption DEF NoLoop, LoopType
<1> QED
  BY <1>1 DEF StartLoop, TypeOK, LoopType

LEMMA ReqTypes ==
    ASSUME TypeOK, NEW r \in Reqs,
           Request(r, "reconnect") \/ Request(r, "init") \/ ReqStep(r)
    PROVE  TypeOK'
<1>0. /\ loop \in [Loops -> LoopType] /\ worker \in [Workers -> WorkerType]
      /\ req \in [Reqs -> ReqType] /\ NoRequest \in ReqType
      /\ crossed' \in BOOLEAN /\ mixed' \in BOOLEAN
  BY RaceTypes DEF TypeOK, LoopType, WorkerType, ReqType, NoRequest, Next
<1>1. ASSUME NEW kind \in {"reconnect", "init"}, Request(r, kind) PROVE TypeOK'
  <2>1. req' \in [Reqs -> ReqType]
    BY <1>0, <1>1 DEF Request, ReqType
  <2> QED
    BY <1>0, <1>1, <2>1 DEF Request, TypeOK, ReqType, deviceVars
<1>2. CASE DisconnectCancels(r)
  <2>1. loop' \in [Loops -> LoopType]
    <3>1. NoLoop \in LoopType
      BY CameraAssumption DEF NoLoop, LoopType
    <3> QED
      BY <1>0, <1>2, <3>1 DEF DisconnectCancels
  <2>2. worker' \in [Workers -> WorkerType]
    BY <1>0, <1>2 DEF DisconnectCancels, WorkerType, NoJob
  <2>3. req' \in [Reqs -> ReqType]
    BY <1>0, <1>2 DEF DisconnectCancels, ReqType
  <2> QED
    BY <1>0, <1>2, <2>1, <2>2, <2>3
    DEF DisconnectCancels, TypeOK, LoopType, WorkerType, ReqType, deviceVars
<1>3. CASE Disconnected(r)
  <2>1. req' \in [Reqs -> ReqType]
    BY <1>0, <1>3 DEF Disconnected, ReqType
  <2>2. CASE readTask # None /\ loop[readTask].pc = "failed"
    BY <1>0, <1>3, <2>1, <2>2 DEF Disconnected, TypeOK, ReqType, deviceVars
  <2>3. CASE ~(readTask # None /\ loop[readTask].pc = "failed")
    <3>1. /\ readTask' = None /\ CloseSocket /\ UNCHANGED <<loop, worker, peer>>
          /\ shown' \in {"none", shown} /\ state' \in {state, "FAULT"}
      BY <1>3, <2>3 DEF Disconnected
    <3> QED
      BY <1>0, <2>1, <3>1, CloseTypes DEF TypeOK, ReqType
  <2> QED
    BY <2>2, <2>3
<1>4. CASE ConnectSucceeds(r)
  <2>1. req' \in [Reqs -> ReqType]
    BY <1>0, <1>4 DEF ConnectSucceeds
  <2> QED
    BY <1>0, <1>4, <2>1, StartLoopTypes, ConnectedTypes
    DEF ConnectSucceeds, TypeOK, LoopType, ReqType
<1>5. CASE ConnectFails(r)
  <2>1. req' \in [Reqs -> ReqType]
    BY <1>0, <1>5 DEF ConnectFails
  <2> QED
    BY <1>0, <1>5, <2>1, StartLoopTypes DEF ConnectFails, TypeOK, LoopType, ReqType
<1> QED
  BY <1>1, <1>2, <1>3, <1>4, <1>5 DEF ReqStep

LEMMA NextTypes == TypeOK /\ [Next]_vars => TypeOK'
<1> SUFFICES ASSUME TypeOK, [Next]_vars PROVE TypeOK'
  OBVIOUS
<1>1. CASE PeerChanges
  BY <1>1 DEF PeerChanges, TypeOK, deviceVars, taskVars, raceVars
<1>2. CASE UNCHANGED vars
  BY <1>2 DEF vars, deviceVars, taskVars, raceVars, TypeOK
<1> QED
  BY <1>1, <1>2, WorkerTypes, LoopTypes, ReqTypes DEF Next

\* The camera device, its tasks, workers, connections and requests keep their types,
\* whatever overlaps.
THEOREM CameraTypeCorrect == Spec => []TypeOK
BY InitTypes, NextTypes, PTL DEF Spec

-----------------------------------------------------------------------------
(* One read loop, unless requests overlap *)

\* A worker that has an owner reads for it; without one it reads for nobody.
JobInv ==
    /\ \A w \in Workers : worker[w].owner # None => loop[worker[w].owner].pc \in Parts
    /\ \A w \in Workers : \A v \in Workers :
          worker[w].owner # None /\ worker[w].owner = worker[v].owner => w = v
    /\ \A w \in Workers :
          /\ worker[w].pc = "free" => worker[w] = NoJob
          /\ worker[w].pc = "recv" <=> worker[w].conn # None
          /\ Orphan(w) => worker[w].pc \in {"pick", "recv"}

\* A request that overlaps none has the device for itself.
RequestInv ==
    /\ crossed => mixed
    /\ ~crossed => \A r \in Reqs : \A q \in Reqs : AtWork(r) /\ AtWork(q) => r = q

Awaiting == \E r \in Reqs : req[r].pc = "await"

\* The loop is gone from its cancellation on, and it never ends by an error: the
\* await of a cancelled loop raises nothing.
LoopInv == ~crossed =>
    /\ OneReadLoop
    /\ readTask # None => loop[readTask].pc # "failed"
    /\ Awaiting => \A l \in Loops : ~Live(l)

\* The worker of a loop reads from the device's connection.
ConnInv == ~crossed => \A w \in Workers : worker[w].owner # None =>
    /\ worker[w].pc # "broken"
    /\ sock # None
    /\ worker[w].pc = "recv" => worker[w].conn = sock

\* A device that is ON, and not being replaced, reads or is about to.
OnInv ==
    (state = "ON" /\ ~crossed /\ \A r \in Reqs : req[r].pc \in {"idle", "cancel"}) =>
        /\ sock # None /\ readTask # None
        /\ loop[readTask].pc \in Parts \cup {"new"}

CameraInv == TypeOK /\ JobInv /\ RequestInv /\ LoopInv /\ ConnInv /\ OnInv

LEMMA InitCameraInv == Init => CameraInv
<1> SUFFICES ASSUME Init PROVE CameraInv
  OBVIOUS
<1>1. \A l \in Loops : loop[l] = NoLoop
  BY DEF Init
<1>2. \A w \in Workers : /\ worker[w] = NoJob /\ worker[w].pc = "free"
                          /\ worker[w].owner = None /\ worker[w].conn = None
  BY DEF Init, NoJob
<1>3. PICK r \in Reqs : \A q \in Reqs :
         /\ req[q].pc \in {"idle", "await"}
         /\ q # r => req[q].pc = "idle"
  BY DEF Init, NoRequest
<1>4. LoopInv
  BY <1>1, <1>3 DEF Init, LoopInv, OneReadLoop, Live, NoLoop
<1>5. JobInv /\ ConnInv
  BY <1>2 DEF JobInv, ConnInv, Orphan
<1>6. RequestInv
  BY <1>3 DEF Init, RequestInv, AtWork
<1>7. OnInv
  BY DEF Init, OnInv
<1> QED
  BY <1>4, <1>5, <1>6, <1>7, InitTypes DEF CameraInv

\* Who owns a job is a loop alive: the one there is, unless requests overlapped.
LEMMA OwnerIsReader ==
    ASSUME CameraInv, NEW w \in Workers, worker[w].owner # None
    PROVE  /\ worker[w].owner \in Loops /\ Live(worker[w].owner)
           /\ ~crossed => worker[w].owner = readTask
<1>1. worker[w].owner \in Loops
  BY DEF CameraInv, TypeOK
<1>2. loop[worker[w].owner].pc \in Parts
  BY DEF CameraInv, JobInv
<1>3. Live(worker[w].owner)
  BY <1>2 DEF Live, Parts
<1> QED
  BY <1>1, <1>3 DEF CameraInv, LoopInv, OneReadLoop

\* A worker's step leaves its owner, or ends the job of nobody.
LEMMA JobMoves ==
    ASSUME CameraInv, NEW w \in Workers, UNCHANGED <<loop, sock, crossed>>,
           \A v \in Workers : v # w => worker'[v] = worker[v],
           \/ worker'[w] = NoJob
           \/ /\ worker'[w].owner = worker[w].owner
              /\ worker'[w].pc = "recv" <=> worker'[w].conn # None
              /\ worker'[w].pc = "recv" => worker'[w].conn = sock
              /\ \/ worker'[w].pc \in {"pick", "recv"}
                 \/ /\ worker'[w].pc \in {"ok", "torn", "error", "broken"}
                    /\ worker'[w].owner # None
              /\ worker'[w].pc = "broken" => sock = None
    PROVE  JobInv' /\ ConnInv'
<1>1. NoJob.owner = None /\ NoJob.pc = "free" /\ NoJob.conn = None
  BY DEF NoJob
<1>2. JobInv'
  BY <1>1 DEF CameraInv, JobInv, Orphan
<1>3. ConnInv'
  BY <1>1 DEF CameraInv, ConnInv
<1> QED
  BY <1>2, <1>3

LEMMA WorkerKeepsInv ==
    ASSUME CameraInv, NEW w \in Workers, WorkerStep(w)
    PROVE  CameraInv'
<1>1. UNCHANGED <<state, sock, readTask, loop, req, crossed, mixed>>
  BY DEF WorkerStep, WorkerPicks, WorkerReceives, WorkerFails, deviceVars, raceVars
<1>2. LoopInv' /\ OnInv' /\ RequestInv'
  BY <1>1 DEF CameraInv, LoopInv, OneReadLoop, Live, Awaiting, OnInv, RequestInv, AtWork
<1>3. worker[w] \in WorkerType /\ sock \in Socks \cup {None}
  BY DEF CameraInv, TypeOK, WorkerType
<1>4. JobInv' /\ ConnInv'
  <2>1. CASE WorkerPicks(w)
    <3>1. CASE sock = None
      <4>1. worker' = [worker EXCEPT ![w] = Over(w, "broken")]
        BY <2>1, <3>1 DEF WorkerPicks
      <4>2. \/ worker'[w] = NoJob
            \/ /\ worker'[w].owner = worker[w].owner /\ worker'[w].conn = None
               /\ worker'[w].pc = "broken" /\ worker'[w].owner # None
        BY <1>3, <4>1 DEF WorkerType, Over, CameraInv, TypeOK
      <4> QED
        BY <1>1, <3>1, <4>1, <4>2, JobMoves DEF CameraInv, TypeOK
    <3>2. CASE sock # None
      <4>1. worker' = [worker EXCEPT ![w] = [worker[w] EXCEPT !.pc = "recv", !.conn = sock]]
        BY <2>1, <3>2 DEF WorkerPicks
      <4>2. /\ worker'[w].owner = worker[w].owner /\ worker'[w].pc = "recv"
            /\ worker'[w].conn = sock
        BY <1>3, <4>1 DEF WorkerType, CameraInv, TypeOK
      <4> QED
        BY <1>1, <3>2, <4>1, <4>2, JobMoves DEF CameraInv, TypeOK
    <3> QED
      BY <3>1, <3>2
  <2>2. CASE WorkerReceives(w)
    <3>1. PICK whole \in {worker[w].got, TRUE}, result \in {"ok", "torn", "error"} :
            worker' = [worker EXCEPT ![w] =
                IF whole THEN Over(w, result)
                ELSE [worker[w] EXCEPT !.pc = "pick", !.conn = None, !.got = TRUE]]
      BY <2>2 DEF WorkerReceives
    <3>2. \/ worker'[w] = NoJob
          \/ /\ worker'[w].owner = worker[w].owner /\ worker'[w].conn = None
             /\ \/ worker'[w].pc = "pick"
                \/ worker'[w].pc \in {"ok", "torn", "error"} /\ worker'[w].owner # None
      BY <1>3, <3>1 DEF WorkerType, Over, CameraInv, TypeOK
    <3> QED
      BY <1>1, <3>1, <3>2, JobMoves DEF CameraInv, TypeOK
  <2>3. CASE WorkerFails(w)
    <3>1. worker' = [worker EXCEPT ![w] = Over(w, "error")]
      BY <2>3 DEF WorkerFails
    <3>2. \/ worker'[w] = NoJob
          \/ /\ worker'[w].owner = worker[w].owner /\ worker'[w].conn = None
             /\ worker'[w].pc = "error" /\ worker'[w].owner # None
      BY <1>3, <3>1 DEF WorkerType, Over, CameraInv, TypeOK
    <3> QED
      BY <1>1, <3>1, <3>2, JobMoves DEF CameraInv, TypeOK
  <2> QED
    BY <2>1, <2>2, <2>3 DEF WorkerStep
<1> QED
  BY <1>2, <1>4, WorkerTypes DEF CameraInv

\* A loop's next step in its worker w, or in none: w is the only worker it has.
LEMMA ReaderMoves ==
    ASSUME CameraInv, NEW l \in Loops, Live(l), NEW w \in Workers, UNCHANGED crossed,
           worker[w].owner = l \/ (worker[w].pc = "free" /\ loop[l].pc \notin Parts),
           \A k \in Loops : k # l => loop'[k] = loop[k],
           \A v \in Workers : v # w => worker'[v] = worker[v],
           \/ worker'[w] = NoJob
           \/ /\ worker'[w] = Job(l) /\ loop'[l].pc \in Parts
              /\ crossed \/ sock' # None
    PROVE  JobInv' /\ ConnInv'
<1>1. \A v \in Workers : v # w => worker[v].owner # l
  <2> SUFFICES ASSUME NEW v \in Workers, v # w, worker[v].owner = l PROVE FALSE
    OBVIOUS
  <2>1. l # None
    BY CameraAssumption
  <2>2. loop[l].pc \in Parts
    BY <2>1 DEF CameraInv, JobInv
  <2>3. worker[w].owner = l
    BY <2>2
  <2> QED
    BY <2>1, <2>3 DEF CameraInv, JobInv
<1>2. NoJob.owner = None /\ NoJob.pc = "free" /\ NoJob.conn = None
  BY DEF NoJob
<1>3. Job(l).owner = l /\ Job(l).pc = "pick" /\ Job(l).conn = None /\ l # None
  BY CameraAssumption DEF Job
<1>4. \A v \in Workers : worker[v].owner # None => worker[v].owner \in Loops
  BY DEF CameraInv, TypeOK
<1>5. JobInv'
  <2>1. \A v \in Workers : worker'[v].owner # None => loop'[worker'[v].owner].pc \in Parts
    BY <1>1, <1>2, <1>3, <1>4 DEF CameraInv, JobInv
  <2>2. \A v \in Workers : \A u \in Workers :
           worker'[v].owner # None /\ worker'[v].owner = worker'[u].owner => v = u
    BY <1>1, <1>2, <1>3 DEF CameraInv, JobInv
  <2>3. \A v \in Workers :
           /\ worker'[v].pc = "free" => worker'[v] = NoJob
           /\ worker'[v].pc = "recv" <=> worker'[v].conn # None
           /\ Orphan(v)' => worker'[v].pc \in {"pick", "recv"}
    BY <1>2, <1>3 DEF CameraInv, JobInv, Orphan
  <2> QED
    BY <2>1, <2>2, <2>3 DEF JobInv
<1>6. ConnInv'
  <2> SUFFICES ASSUME ~crossed PROVE ConnInv'
    BY DEF ConnInv
  <2>1. \A v \in Workers : v # w => worker[v].owner = None
    BY <1>1, OwnerIsReader DEF CameraInv, LoopInv, OneReadLoop
  <2> QED
    BY <1>2, <1>3, <2>1 DEF ConnInv
<1> QED
  BY <1>5, <1>6

LEMMA ReaderKeepsLoopInv ==
    ASSUME CameraInv, NEW l \in Loops, Live(l), UNCHANGED <<readTask, req, crossed>>,
           \A k \in Loops : k # l => loop'[k] = loop[k],
           crossed \/ loop'[l].pc # "failed"
    PROVE  LoopInv'
BY DEF CameraInv, TypeOK, LoopInv, OneReadLoop, Live, Awaiting

LEMMA TurnMoves ==
    ASSUME CameraInv, NEW l \in Loops, NEW w \in Workers, NEW backoff, Turn(l, w, backoff)
    PROVE  /\ \A k \in Loops : k # l => loop'[k] = loop[k]
           /\ \A v \in Workers : v # w => worker'[v] = worker[v]
           /\ sock' = None => loop'[l].pc = "backoff" /\ worker'[w] = NoJob
           /\ sock' # None => loop'[l].pc = "magic" /\ worker'[w] = Job(l)
BY DEF Turn, CameraInv, TypeOK

\* No step of a loop ends an overlap, or begins one.
LEMMA LoopKeepsRequests ==
    ASSUME CameraInv, NEW l \in Loops, LoopStep(l)
    PROVE  RequestInv' /\ UNCHANGED <<req, crossed>> /\ (mixed => mixed')
<1>1. req' = req /\ (Connected \/ UNCHANGED <<crossed, mixed>>)
  BY DEF LoopStep, LoopStarts, LoopWakes, LoopConnects, LoopRefused, LoopReadsOn, LoopShows,
      LoopLoses, raceVars
<1>2. crossed' = crossed /\ (mixed => mixed')
  <2>1. CASE Connected
    BY <2>1 DEF Connected
  <2>2. CASE UNCHANGED <<crossed, mixed>>
    BY <2>2
  <2> QED
    BY <1>1, <2>1, <2>2
<1> QED
  BY <1>1, <1>2 DEF CameraInv, RequestInv, AtWork

LEMMA LoopKeepsInv ==
    ASSUME CameraInv, NEW l \in Loops, LoopStep(l)
    PROVE  CameraInv'
<1>1. TypeOK' /\ RequestInv' /\ UNCHANGED <<req, crossed>>
  BY LoopTypes, LoopKeepsRequests DEF CameraInv
<1>2. Live(l) /\ ~crossed => l = readTask
  BY DEF CameraInv, LoopInv, OneReadLoop
<1>3. TypeOK /\ l # None
  BY CameraAssumption DEF CameraInv
<1>4. \A w \in Workers : worker[w].owner = l => Live(l) /\ loop[l].pc \in Parts
  BY <1>3, OwnerIsReader DEF CameraInv, JobInv
<1>5. CASE LoopStarts(l)
  <2>1. Live(l) /\ loop[l].pc \notin Parts /\ UNCHANGED <<state, sock, readTask>>
    BY <1>5 DEF LoopStarts, Live, Parts
  <2>2. PICK w \in Workers : worker[w].pc = "free" /\ Turn(l, w, 0)
    BY <1>5 DEF LoopStarts
  <2>3. LoopInv'
    BY <1>1, <2>1, <2>2, TurnMoves, ReaderKeepsLoopInv
  <2>4. JobInv' /\ ConnInv'
    BY <1>1, <2>1, <2>2, TurnMoves, ReaderMoves DEF Parts
  <2>5. OnInv'
    BY <1>1, <1>2, <2>1, <2>2, TurnMoves DEF CameraInv, OnInv, Parts
  <2> QED
    BY <1>1, <2>3, <2>4, <2>5 DEF CameraInv
<1>6. CASE LoopWakes(l) \/ LoopRefused(l)
  <2>1. /\ Live(l) /\ loop[l].pc \notin Parts \cup {"new"}
        /\ UNCHANGED <<state, sock, readTask, worker>>
    BY <1>6 DEF LoopWakes, LoopRefused, Live, Parts, deviceVars
  <2>2. \A k \in Loops : k # l => loop'[k] = loop[k]
    BY <1>3, <1>6 DEF LoopWakes, LoopRefused, TypeOK
  <2>3. loop'[l].pc \in {"dial", "backoff"}
    BY <1>3, <1>6 DEF LoopWakes, LoopRefused, TypeOK
  <2>4. LoopInv'
    BY <1>1, <2>1, <2>2, <2>3, ReaderKeepsLoopInv
  <2>5. JobInv' /\ ConnInv'
    <3>1. \A w \in Workers : worker[w].owner # l
      BY <1>4, <2>1
    <3>2. JobInv'
      BY <1>3, <2>1, <2>2, <3>1 DEF CameraInv, TypeOK, JobInv, Orphan
    <3>3. ConnInv'
      BY <1>1, <2>1 DEF CameraInv, ConnInv
    <3> QED
      BY <3>2, <3>3
  <2>6. OnInv'
    BY <1>1, <1>2, <2>1 DEF CameraInv, OnInv
  <2> QED
    BY <1>1, <2>4, <2>5, <2>6 DEF CameraInv
<1>7. CASE LoopConnects(l)
  <2>1. /\ Live(l) /\ loop[l].pc \notin Parts \cup {"new"}
        /\ UNCHANGED <<state, readTask>> /\ sock' # None
    BY <1>3, <1>7, ConnectedTypes, CameraAssumption DEF LoopConnects, Live, Parts
  <2>2. PICK w \in Workers : worker[w].pc = "free" /\ Turn(l, w, loop[l].backoff)
    BY <1>7 DEF LoopConnects
  <2>3. LoopInv'
    BY <1>1, <2>1, <2>2, TurnMoves, ReaderKeepsLoopInv
  <2>4. JobInv' /\ ConnInv'
    BY <1>1, <2>1, <2>2, TurnMoves, ReaderMoves DEF Parts
  <2>5. OnInv'
    BY <1>1, <1>2, <2>1 DEF CameraInv, OnInv
  <2> QED
    BY <1>1, <2>3, <2>4, <2>5 DEF CameraInv
<1>8. ASSUME NEW w \in Workers, LoopReadsOn(l, w) PROVE CameraInv'
  <2>1. /\ Live(l) /\ worker[w].owner = l /\ UNCHANGED <<state, sock, readTask>>
    BY <1>4, <1>8 DEF LoopReadsOn, deviceVars
  <2>2. /\ \A k \in Loops : k # l => loop'[k] = loop[k]
        /\ \A v \in Workers : v # w => worker'[v] = worker[v]
        /\ loop'[l].pc \in {"length", "payload"} /\ worker'[w] = Job(l)
    BY <1>3, <1>8 DEF LoopReadsOn, TypeOK
  <2>3. LoopInv'
    BY <1>1, <2>1, <2>2, ReaderKeepsLoopInv
  <2>4. JobInv' /\ ConnInv'
    <3>1. ~crossed => sock # None
      BY <1>3, <2>1 DEF CameraInv, ConnInv
    <3> QED
      BY <1>1, <2>1, <2>2, <3>1, ReaderMoves DEF Parts
  <2>5. OnInv'
    BY <1>1, <1>2, <1>3, <2>1, <2>2 DEF CameraInv, ConnInv, OnInv, Parts
  <2> QED
    BY <1>1, <2>3, <2>4, <2>5 DEF CameraInv
<1>9. ASSUME NEW w \in Workers, LoopShows(l, w) PROVE CameraInv'
  <2>1. /\ Live(l) /\ worker[w].owner = l /\ UNCHANGED <<sock, readTask>>
        /\ Turn(l, w, 0)
    BY <1>4, <1>9 DEF LoopShows
  <2>2. ~crossed => sock # None
    BY <1>3, <2>1 DEF CameraInv, ConnInv
  <2>3. LoopInv'
    BY <1>1, <2>1, TurnMoves, ReaderKeepsLoopInv
  <2>4. JobInv' /\ ConnInv'
    BY <1>1, <2>1, TurnMoves, ReaderMoves DEF Parts
  <2>5. OnInv'
    BY <1>1, <1>2, <1>3, <2>1, <2>2, TurnMoves DEF OnInv, Parts
  <2> QED
    BY <1>1, <2>3, <2>4, <2>5 DEF CameraInv
<1>10. ASSUME NEW w \in Workers, LoopLoses(l, w) PROVE CameraInv'
  <2>1. Live(l) /\ worker[w].owner = l /\ readTask' = readTask
    BY <1>4, <1>10 DEF LoopLoses
  <2>2. CASE worker[w].pc = "error"
    <3>1. state' = "FAULT" /\ CloseSocket /\ Turn(l, w, loop[l].backoff)
      BY <1>10, <2>2 DEF LoopLoses
    <3>2. sock' = None
      BY <3>1 DEF CloseSocket
    <3>3. LoopInv'
      BY <1>1, <2>1, <3>1, <3>2, TurnMoves, ReaderKeepsLoopInv
    <3>4. JobInv' /\ ConnInv'
      BY <1>1, <2>1, <3>1, <3>2, TurnMoves, ReaderMoves
    <3>5. OnInv'
      BY <3>1 DEF OnInv
    <3> QED
      BY <1>1, <3>3, <3>4, <3>5 DEF CameraInv
  <2>3. CASE worker[w].pc # "error"
    <3>1. crossed
      BY <1>3, <1>10, <2>1, <2>3 DEF LoopLoses, CameraInv, ConnInv
    <3>2. /\ \A k \in Loops : k # l => loop'[k] = loop[k]
          /\ \A v \in Workers : v # w => worker'[v] = worker[v]
          /\ worker'[w] = NoJob
      BY <1>3, <1>10, <2>3 DEF LoopLoses, TypeOK
    <3>3. JobInv' /\ ConnInv'
      BY <1>1, <2>1, <3>2, ReaderMoves
    <3>4. LoopInv' /\ OnInv'
      BY <1>1, <3>1 DEF LoopInv, OnInv
    <3> QED
      BY <1>1, <3>3, <3>4 DEF CameraInv
  <2> QED
    BY <2>2, <2>3
<1> QED
  BY <1>5, <1>6, <1>7, <1>8, <1>9, <1>10 DEF LoopStep

\* While a request that overlaps none awaits or dials, no other is at work.
LEMMA NoOther ==
    ASSUME CameraInv, ~crossed, NEW r \in Reqs, AtWork(r)
    PROVE  \A q \in Reqs : AtWork(q) => q = r
BY DEF CameraInv, RequestInv

\* What a request finds when it begins, if it will not have overlapped.
LEMMA Begins ==
    ASSUME CameraInv, NEW r \in Reqs, Crosses(r), ~crossed', req[r].pc = "cancel"
    PROVE  ~crossed /\ \A q \in Reqs : ~AtWork(q)
BY DEF Crosses, Overlaps, AtWork

\* What a request leaves that closes the connection, if it has not overlapped or was
\* the first to be alone.
LEMMA ClosesAlone ==
    ASSUME CameraInv, NEW r \in Reqs, Disconnected(r), ~crossed'
    PROVE  /\ \A q \in Reqs : AtWork(q) => q = r
           /\ \A l \in Loops : ~Live(l)
           /\ readTask' = None /\ CloseSocket /\ UNCHANGED <<loop, worker>>
           /\ \/ req' = [req EXCEPT ![r].pc = "dial"]
              \/ req' = [req EXCEPT ![r] = NoRequest] /\ state' = "FAULT"
           /\ shown' \in {"none", shown}
<1>1. \A q \in Reqs : AtWork(q) => q = r
  BY DEF Disconnected, Settles, Overlaps
<1>2. CASE crossed
  <2>1. readTask' = None /\ \A l \in Loops : ~Live(l)
    BY <1>2 DEF Disconnected, Settles
  <2>2. ~(readTask # None /\ loop[readTask].pc = "failed")
    BY <2>1 DEF Disconnected, deviceVars
  <2> QED
    BY <1>1, <2>1, <2>2 DEF Disconnected
<1>3. CASE ~crossed
  <2>1. ~(readTask # None /\ loop[readTask].pc = "failed")
    BY <1>3 DEF CameraInv, LoopInv
  <2>2. \A l \in Loops : ~Live(l)
    BY <1>3, CameraAssumption DEF Disconnected, CameraInv, LoopInv, OneReadLoop, Awaiting
  <2> QED
    BY <1>1, <2>1, <2>2 DEF Disconnected
<1> QED
  BY <1>2, <1>3

\* A new loop takes the place of none that is alive.
LEMMA StartMoves ==
    ASSUME CameraInv, StartLoop
    PROVE  \E l \in Loops : /\ ~Live(l) /\ readTask' = l /\ loop'[l].pc = "new"
                            /\ \A k \in Loops : k # l => loop'[k] = loop[k]
BY DEF StartLoop, CameraInv, TypeOK, NoLoop

\* Whatever overlaps, a request takes the worker of the loop that it cancels, and no
\* other loop's.
LEMMA ReqKeepsJobs ==
    ASSUME CameraInv, NEW r \in Reqs,
           Request(r, "reconnect") \/ Request(r, "init") \/ ReqStep(r)
    PROVE  JobInv'
<1>1. TypeOK
  BY DEF CameraInv
<1>2. \A w \in Workers : worker[w].owner # None =>
         worker[w].owner \in Loops /\ Live(worker[w].owner)
  BY OwnerIsReader
<1>3. CASE UNCHANGED <<loop, worker>>
  BY <1>3 DEF CameraInv, JobInv, Orphan
<1>4. CASE DisconnectCancels(r)
  <2>1. \A w \in Workers : worker'[w] =
           IF worker[w].owner # readTask THEN worker[w]
           ELSE IF worker[w].pc \in {"pick", "recv"}
           THEN [worker[w] EXCEPT !.owner = None] ELSE NoJob
    BY <1>4 DEF DisconnectCancels
  <2>2. \A l \in Loops : l # readTask => loop'[l] = loop[l]
    BY <1>1, <1>4 DEF DisconnectCancels, TypeOK
  <2>3. ASSUME NEW w \in Workers
        PROVE  /\ worker'[w].owner # None =>
                     worker'[w] = worker[w] /\ worker[w].owner # readTask
               /\ worker'[w].pc = "free" => worker'[w] = NoJob
               /\ worker'[w].pc = "recv" <=> worker'[w].conn # None
               /\ Orphan(w)' => worker'[w].pc \in {"pick", "recv"}
    <3>1. worker[w] \in WorkerType
      BY <1>1 DEF TypeOK, WorkerType
    <3>2. CASE worker[w].owner # readTask
      BY <2>1, <3>2 DEF CameraInv, JobInv, Orphan
    <3>3. CASE worker[w].owner = readTask /\ worker[w].pc \in {"pick", "recv"}
      <4>1. /\ worker'[w].owner = None /\ worker'[w].pc = worker[w].pc
            /\ worker'[w].conn = worker[w].conn
        BY <2>1, <3>1, <3>3 DEF WorkerType
      <4> QED
        BY <3>3, <4>1 DEF CameraInv, JobInv
    <3>4. CASE worker[w].owner = readTask /\ worker[w].pc \notin {"pick", "recv"}
      <4>1. worker'[w] = NoJob
        BY <2>1, <3>4
      <4>2. NoJob.owner = None /\ NoJob.pc = "free" /\ NoJob.conn = None
        BY DEF NoJob
      <4> QED
        BY <4>1, <4>2 DEF Orphan
    <3> QED
      BY <3>2, <3>3, <3>4
  <2>4. \A w \in Workers : worker'[w].owner # None =>
           loop'[worker'[w].owner].pc \in Parts
    BY <1>2, <2>2, <2>3 DEF CameraInv, JobInv
  <2>5. \A w \in Workers : \A v \in Workers :
           worker'[w].owner # None /\ worker'[w].owner = worker'[v].owner => w = v
    BY <2>3 DEF CameraInv, JobInv
  <2> QED
    BY <2>3, <2>4, <2>5 DEF JobInv
<1>5. CASE StartLoop /\ worker' = worker
  <2>1. PICK l \in Loops : ~Live(l) /\ \A k \in Loops : k # l => loop'[k] = loop[k]
    BY <1>5, StartMoves
  <2>2. \A w \in Workers : worker[w].owner # None => worker[w].owner # l
    BY <1>2, <2>1
  <2> QED
    BY <1>2, <1>5, <2>1, <2>2 DEF CameraInv, JobInv, Orphan
<1> QED
  BY <1>3, <1>4, <1>5 DEF ReqStep, Request, Disconnected, ConnectSucceeds, ConnectFails

\* Overlapping requests are the only ones that are at work together, and they cross.
LEMMA ReqKeepsRequests ==
    ASSUME CameraInv, NEW r \in Reqs,
           Request(r, "reconnect") \/ Request(r, "init") \/ ReqStep(r)
    PROVE  RequestInv'
<1>1. req \in [Reqs -> ReqType]
  BY DEF CameraInv, TypeOK, ReqType
<1>2. crossed => mixed
  BY DEF CameraInv, RequestInv
<1>3. ASSUME NEW kind, Request(r, kind) PROVE RequestInv'
  <2>1. \A q \in Reqs : AtWork(q)' => AtWork(q)
    BY <1>1, <1>3 DEF Request, AtWork
  <2> QED
    BY <1>3, <2>1 DEF Request, CameraInv, RequestInv, raceVars
<1>4. CASE DisconnectCancels(r)
  <2>1. \A q \in Reqs : q # r => req'[q] = req[q]
    BY <1>1, <1>4 DEF DisconnectCancels
  <2>2. crossed' => mixed'
    BY <1>2, <1>4 DEF DisconnectCancels, Crosses
  <2>3. ~crossed' => \A q \in Reqs : ~AtWork(q)
    BY <1>4, Begins DEF DisconnectCancels
  <2> QED
    BY <2>1, <2>2, <2>3 DEF RequestInv, AtWork
<1>5. CASE Disconnected(r)
  <2>1. \A q \in Reqs : q # r => req'[q] = req[q]
    BY <1>1, <1>5 DEF Disconnected
  <2>2. crossed' => mixed'
    BY <1>5 DEF Disconnected, Settles
  <2>3. ~crossed' => \A q \in Reqs : AtWork(q) => q = r
    BY <1>5, ClosesAlone
  <2> QED
    BY <2>1, <2>2, <2>3 DEF RequestInv, AtWork
<1>6. CASE ConnectSucceeds(r) \/ ConnectFails(r)
  <2>1. \A q \in Reqs : q # r => req'[q] = req[q]
    BY <1>1, <1>6 DEF ConnectSucceeds, ConnectFails
  <2>2. req'[r].pc = "idle"
    BY <1>1, <1>6 DEF ConnectSucceeds, ConnectFails, NoRequest
  <2>3. \A q \in Reqs : AtWork(q)' => AtWork(q)
    BY <2>1, <2>2 DEF AtWork
  <2>4. crossed' = crossed
    <3>1. CASE ConnectSucceeds(r)
      BY <3>1 DEF ConnectSucceeds, Connected
    <3>2. CASE ConnectFails(r)
      BY <3>2 DEF ConnectFails, raceVars
    <3> QED
      BY <1>6, <3>1, <3>2
  <2>5. crossed' => mixed'
    <3>1. CASE ConnectSucceeds(r)
      <4>1. crossed' = crossed /\ (mixed => mixed')
        BY <3>1 DEF ConnectSucceeds, Connected
      <4> QED
        BY <1>2, <4>1
    <3>2. CASE ConnectFails(r)
      <4>1. crossed' = crossed /\ mixed' = mixed
        BY <3>2 DEF ConnectFails, raceVars
      <4> QED
        BY <1>2, <4>1
    <3> QED
      BY <1>6, <3>1, <3>2
  <2> QED
    BY <2>3, <2>4, <2>5 DEF CameraInv, RequestInv
<1> QED
  BY <1>3, <1>4, <1>5, <1>6 DEF ReqStep

LEMMA ReqKeepsInv ==
    ASSUME CameraInv, NEW r \in Reqs,
           Request(r, "reconnect") \/ Request(r, "init") \/ ReqStep(r)
    PROVE  CameraInv'
<1>1. TypeOK /\ TypeOK' /\ JobInv' /\ RequestInv'
  BY ReqTypes, ReqKeepsJobs, ReqKeepsRequests DEF CameraInv
<1> SUFFICES ASSUME ~crossed' PROVE LoopInv' /\ ConnInv' /\ OnInv'
  BY <1>1 DEF CameraInv, LoopInv, ConnInv, OnInv
<1>2. readTask # None => readTask \in Loops
  BY <1>1 DEF TypeOK
<1>3. ~crossed => \A l \in Loops : Live(l) => l = readTask /\ readTask # None
  BY CameraAssumption DEF CameraInv, LoopInv, OneReadLoop
<1>4. ASSUME NEW kind, Request(r, kind) PROVE LoopInv' /\ ConnInv' /\ OnInv'
  <2>1. /\ req[r].pc = "idle" /\ req'[r].pc = "cancel" /\ ~crossed
        /\ \A q \in Reqs : q # r => req'[q] = req[q]
        /\ UNCHANGED <<state, sock, readTask, loop, worker>>
    BY <1>1, <1>4 DEF Request, TypeOK, deviceVars, raceVars
  <2>2. LoopInv'
    BY <2>1 DEF CameraInv, LoopInv, OneReadLoop, Live, Awaiting
  <2>3. ConnInv'
    BY <2>1 DEF CameraInv, ConnInv
  <2>4. OnInv'
    BY <2>1 DEF CameraInv, OnInv
  <2> QED
    BY <2>2, <2>3, <2>4
<1>5. CASE DisconnectCancels(r)
  <2>1. /\ readTask \in Loops /\ readTask # None /\ req'[r].pc = "await"
        /\ \A q \in Reqs : q # r => req'[q] = req[q]
        /\ UNCHANGED <<state, sock, readTask>>
    BY <1>1, <1>2, <1>5 DEF DisconnectCancels, TypeOK, deviceVars
  <2>2. ~crossed /\ \A q \in Reqs : ~AtWork(q)
    BY <1>5, Begins DEF DisconnectCancels
  <2>3. \A l \in Loops : loop'[l] = IF l = readTask /\ Live(l) THEN NoLoop ELSE loop[l]
    BY <1>1, <1>5 DEF DisconnectCancels, TypeOK
  <2>4. \A l \in Loops : ~Live(l)'
    BY <1>3, <2>2, <2>3 DEF Live, NoLoop
  <2>5. loop'[readTask].pc # "failed"
    BY <2>1, <2>2, <2>3 DEF NoLoop, CameraInv, LoopInv
  <2>6. LoopInv'
    BY <2>1, <2>2, <2>4, <2>5 DEF LoopInv, OneReadLoop, AtWork
  <2>7. ConnInv'
    <3>1. \A w \in Workers : worker'[w].owner = None
      BY <1>1, <2>4, CameraAssumption DEF JobInv, TypeOK, Live, Parts
    <3> QED
      BY <3>1 DEF ConnInv
  <2>8. OnInv'
    BY <2>1 DEF OnInv
  <2> QED
    BY <2>6, <2>7, <2>8
<1>6. CASE Disconnected(r)
  <2>1. /\ \A q \in Reqs : AtWork(q) => q = r
        /\ \A l \in Loops : ~Live(l)
        /\ readTask' = None /\ UNCHANGED <<loop, worker>>
        /\ \/ req' = [req EXCEPT ![r].pc = "dial"]
           \/ req' = [req EXCEPT ![r] = NoRequest] /\ state' = "FAULT"
    BY <1>6, ClosesAlone
  <2>2. LoopInv'
    BY <2>1 DEF LoopInv, OneReadLoop, Live
  <2>3. ConnInv'
    <3>1. \A w \in Workers : worker[w].owner = None
      BY <2>1, OwnerIsReader
    <3> QED
      BY <2>1, <3>1 DEF ConnInv
  <2>4. OnInv'
    BY <1>1, <2>1 DEF OnInv, TypeOK
  <2> QED
    BY <2>2, <2>3, <2>4
<1>7. CASE ConnectSucceeds(r) \/ ConnectFails(r)
  <2>1. ~crossed
    BY <1>7 DEF ConnectSucceeds, ConnectFails, Connected, raceVars
  <2>2. /\ AtWork(r) /\ req[r].pc = "dial" /\ req'[r].pc = "idle"
        /\ \A q \in Reqs : q # r => req'[q] = req[q]
        /\ worker' = worker
    BY <1>1, <1>7 DEF ConnectSucceeds, ConnectFails, TypeOK, NoRequest, AtWork
  <2>3. \A q \in Reqs : ~AtWork(q)'
    BY <2>1, <2>2, NoOther DEF AtWork
  <2>4. \A l \in Loops : ~Live(l)
    BY <1>3, <2>1, <2>2 DEF CameraInv, LoopInv, OneReadLoop
  <2>5. PICK l \in Loops :
           /\ readTask' = l /\ loop'[l].pc = "new"
           /\ \A k \in Loops : k # l => loop'[k] = loop[k]
    BY <1>7, StartMoves DEF ConnectSucceeds, ConnectFails
  <2>6. state' = "ON" => sock' # None
    BY <1>1, <1>7, ConnectedTypes, CameraAssumption DEF ConnectSucceeds, ConnectFails
  <2>7. LoopInv'
    BY <2>3, <2>4, <2>5 DEF LoopInv, OneReadLoop, Live, Awaiting, AtWork
  <2>8. ConnInv'
    <3>1. \A w \in Workers : worker[w].owner = None
      BY <2>4, OwnerIsReader
    <3> QED
      BY <2>2, <3>1 DEF ConnInv
  <2>9. OnInv'
    BY <2>5, <2>6, CameraAssumption DEF OnInv
  <2> QED
    BY <2>7, <2>8, <2>9
<1> QED
  BY <1>4, <1>5, <1>6, <1>7 DEF ReqStep

LEMMA NextCameraInv == CameraInv /\ [Next]_vars => CameraInv'
<1> SUFFICES ASSUME CameraInv, [Next]_vars PROVE CameraInv'
  OBVIOUS
<1>1. CASE PeerChanges \/ UNCHANGED vars
  <2>1. UNCHANGED <<state, sock, readTask, loop, worker, req, crossed, mixed>>
    BY <1>1 DEF PeerChanges, vars, deviceVars, taskVars, raceVars
  <2>2. JobInv' /\ RequestInv'
    BY <2>1 DEF CameraInv, JobInv, Orphan, RequestInv, AtWork
  <2>3. LoopInv' /\ ConnInv' /\ OnInv'
    BY <2>1 DEF CameraInv, LoopInv, OneReadLoop, Live, Awaiting, ConnInv, OnInv
  <2> QED
    BY <2>2, <2>3, NextTypes DEF CameraInv
<1> QED
  BY <1>1, WorkerKeepsInv, LoopKeepsInv, ReqKeepsInv DEF Next

LEMMA CameraInvHolds == Spec => []CameraInv
BY InitCameraInv, NextCameraInv, PTL DEF Spec

\* The only read loop alive is the device's, and there is none from the end of
\* _disconnect() to the connect, until two requests overlap; and again from the first
\* request that was alone and found no second loop.  For any number of requests.
THEOREM CameraHasOneReadLoop == Spec => []OneReadLoop
<1>1. CameraInv => OneReadLoop
  BY DEF CameraInv, LoopInv, OneReadLoop
<1> QED
  BY <1>1, CameraInvHolds, PTL

\* A device that is ON between requests has a connection and a read loop on it, unless
\* requests overlapped and none has been alone since.
THEOREM CameraOnIsConnected == Spec => []OnIsConnected
<1>1. CameraInv => OnIsConnected
  BY DEF CameraInv, OnInv, OnIsConnected, Live, Parts
<1> QED
  BY <1>1, CameraInvHolds, PTL

\* The device's loop has not ended by an error that it does not catch, unless requests
\* overlapped.
LoopNeverFails == ~crossed /\ readTask # None => loop[readTask].pc # "failed"

\* The worker of a loop that is not cancelled never finds self._sock None (line 133),
\* whose AttributeError line 152 does not catch, unless requests overlapped: the loop is
\* not lost, and no _disconnect() re-raises its error (line 117).
THEOREM CameraLoopNeverFails == Spec => []LoopNeverFails
<1>1. CameraInv => LoopNeverFails
  BY DEF CameraInv, LoopInv, LoopNeverFails
<1> QED
  BY <1>1, CameraInvHolds, PTL

-----------------------------------------------------------------------------
(* Whole frames, unless requests or a connect and a worker overlap *)

\* A worker of nobody finds no connection, or one that has ended, once the request
\* that cancelled its loop has closed it.
OrphanInv ==
    \A w \in Workers : Orphan(w) =>
        /\ worker[w].pc = "pick" => sock = None \/ Awaiting
        /\ worker[w].pc = "recv" =>
              \/ stream[worker[w].conn] = "gone"
              \/ Awaiting /\ worker[w].conn = sock

\* What the stream is in the middle of, before a job's next recv() and after it.
Due(w) ==
    LET l == worker[w].owner IN
    IF \/ loop[l].pc = "magic" /\ worker[w].pc \in {"pick", "recv"} /\ ~worker[w].got
       \/ loop[l].pc = "payload" /\ worker[w].pc = "ok"
    THEN None ELSE l

\* The loop and its connection agree on where in a frame they are.
StreamInv ==
    /\ \A w \in Workers : worker[w].owner # None =>
          /\ worker[w].pc # "torn"
          /\ worker[w].pc # "error" => stream[sock] \in {Due(w), "gone"}
    /\ \A l \in Loops : loop[l].pc = "new" /\ sock # None => stream[sock] \in {None, "gone"}
    /\ \A r \in Reqs : req[r].pc = "dial" => sock = None
    /\ shown # "torn"

\* Nothing has mixed up frames.
InOrder == CameraInv /\ ~crossed /\ OrphanInv /\ StreamInv

WholeInv == CameraInv /\ (~mixed => OrphanInv /\ StreamInv)

LEMMA WholeInOrder == WholeInv /\ ~mixed => InOrder
BY DEF WholeInv, InOrder, CameraInv, RequestInv

LEMMA InitWholeInv == Init => WholeInv
<1> SUFFICES ASSUME Init PROVE WholeInv
  OBVIOUS
<1>1. \A w \in Workers : worker[w].owner = None /\ worker[w].pc = "free"
  BY DEF Init, NoJob
<1>2. OrphanInv /\ StreamInv
  BY <1>1 DEF Init, OrphanInv, StreamInv, Orphan, NoRequest
<1> QED
  BY <1>2, InitCameraInv DEF WholeInv

LEMMA WorkerKeepsFrames ==
    ASSUME InOrder, NEW w \in Workers, WorkerStep(w)
    PROVE  OrphanInv' /\ StreamInv'
<1>1. UNCHANGED <<state, sock, readTask, shown, loop, req>>
  BY DEF WorkerStep, WorkerPicks, WorkerReceives, WorkerFails, deviceVars
<1>2. /\ TypeOK /\ worker[w] \in WorkerType
      /\ \A v \in Workers : v # w => worker'[v] = worker[v]
  BY DEF WorkerStep, WorkerPicks, WorkerReceives, WorkerFails, InOrder, CameraInv, TypeOK,
      WorkerType
<1>3. \A v \in Workers : worker[v].owner # None /\ worker[w].owner # None => v = w
  BY OwnerIsReader DEF InOrder, CameraInv, JobInv, ConnInv
<1>4. CASE WorkerPicks(w) \/ WorkerFails(w)
  <2>1. stream' = stream
    BY <1>4 DEF WorkerPicks, WorkerFails
  <2>2. CASE worker'[w] = NoJob /\ worker[w].owner = None
    <3>1. NoJob.owner = None /\ NoJob.pc = "free"
      BY DEF NoJob
    <3> QED
      BY <1>1, <1>2, <2>1, <2>2, <3>1
      DEF InOrder, OrphanInv, StreamInv, Orphan, Awaiting, Due
  <2>3. CASE WorkerPicks(w) /\ sock # None
    <3>1. /\ worker[w].pc = "pick" /\ worker'[w].pc = "recv" /\ worker'[w].conn = sock
          /\ worker'[w].owner = worker[w].owner /\ worker'[w].got = worker[w].got
      BY <1>2, <2>3 DEF WorkerPicks, TypeOK, WorkerType
    <3>2. OrphanInv'
      BY <1>1, <1>2, <2>1, <2>3, <3>1 DEF InOrder, OrphanInv, Orphan, Awaiting
    <3>3. worker'[w].owner # None => Due(w)' = Due(w)
      BY <1>1, <3>1 DEF Due
    <3>4. StreamInv'
      BY <1>1, <1>2, <2>1, <3>1, <3>3 DEF InOrder, StreamInv, Due
    <3> QED
      BY <3>2, <3>4
  <2>4. CASE WorkerFails(w) /\ worker[w].owner # None
    <3>1. worker'[w].pc = "error" /\ worker'[w].owner = worker[w].owner
      BY <1>2, <2>4 DEF WorkerFails, Over, TypeOK, WorkerType
    <3> QED
      BY <1>1, <1>2, <2>1, <2>4, <3>1 DEF InOrder, OrphanInv, StreamInv, Orphan, Awaiting, Due
  <2>5. WorkerPicks(w) /\ sock = None => worker[w].owner = None
    BY DEF InOrder, CameraInv, JobInv, ConnInv
  <2>6. \/ WorkerPicks(w) /\ sock = None
        \/ WorkerFails(w) /\ worker[w].owner = None
        => worker'[w] = NoJob
    BY <1>2, <2>5 DEF WorkerPicks, WorkerFails, Over, TypeOK
  <2> QED
    BY <1>4, <2>2, <2>3, <2>4, <2>5, <2>6
<1>5. CASE WorkerReceives(w)
  <2>1. /\ worker[w].pc = "recv" /\ worker[w].conn \in Socks
        /\ stream[worker[w].conn] # "gone"
    BY <1>2, <1>5 DEF WorkerReceives, InOrder, CameraInv, JobInv, ConnInv, TypeOK
  <2>2. PICK whole \in {worker[w].got, TRUE} :
          /\ stream' = [stream EXCEPT ![worker[w].conn] = Continues(w, whole)]
          /\ worker' = [worker EXCEPT ![w] =
                IF whole
                THEN Over(w, IF Continues(w, whole) # "torn" \/ worker[w].owner = None
                             THEN "ok"
                             ELSE IF loop[worker[w].owner].pc = "payload" THEN "torn"
                             ELSE "error")
                ELSE [worker[w] EXCEPT !.pc = "pick", !.conn = None, !.got = TRUE]]
    BY <1>5 DEF WorkerReceives
  <2>3. CASE worker[w].owner = None
    <3>1. Awaiting /\ worker[w].conn = sock
      BY <2>1, <2>3 DEF InOrder, OrphanInv, Orphan
    <3>2. \A v \in Workers : worker[v].owner = None
      BY <3>1, OwnerIsReader DEF InOrder, CameraInv, LoopInv
    <3>3. /\ worker'[w].owner = None
          /\ worker'[w] = NoJob \/ worker'[w].pc = "pick"
      BY <1>2, <2>2, <2>3 DEF Over, TypeOK, WorkerType, NoJob
    <3>4. OrphanInv'
      BY <1>1, <1>2, <2>2, <3>1, <3>3
      DEF InOrder, OrphanInv, Orphan, Awaiting, NoJob, TypeOK
    <3>5. StreamInv'
      BY <1>1, <1>2, <3>1, <3>2, <3>3
      DEF InOrder, CameraInv, LoopInv, StreamInv, Live
    <3> QED
      BY <3>4, <3>5
  <2>4. CASE worker[w].owner # None
    <3> DEFINE l == worker[w].owner
    <3>1. l \in Loops /\ loop[l].pc \in Parts /\ l = readTask /\ worker[w].conn = sock
      BY <2>1, <2>4, OwnerIsReader DEF InOrder, CameraInv, JobInv, ConnInv
    <3>2. stream[sock] = Due(w) /\ sock \in Socks
      BY <2>1, <2>4, <3>1 DEF InOrder, StreamInv
    <3>3. Continues(w, whole) = IF whole /\ loop[l].pc = "payload" THEN None ELSE l
      BY <2>1, <2>4, <3>1, <3>2 DEF Continues, Due
    <3>4. Continues(w, whole) # "torn"
      BY <3>1, <3>3, CameraAssumption
    <3>5. /\ worker'[w].owner = l
          /\ \/ whole /\ worker'[w].pc = "ok"
             \/ ~whole /\ worker'[w].pc = "pick" /\ worker'[w].got
      BY <1>2, <2>2, <2>4, <3>4 DEF Over, TypeOK, WorkerType
    <3>6. stream'[sock] = Continues(w, whole)
          /\ \A s \in Socks : s # sock => stream'[s] = stream[s]
      BY <1>2, <2>2, <3>1, <3>2 DEF TypeOK
    <3>7. Due(w)' = Continues(w, whole)
      BY <1>1, <3>1, <3>3, <3>5 DEF Due, Parts
    <3>8. ~Awaiting
      BY <2>4, OwnerIsReader DEF InOrder, CameraInv, LoopInv
    <3>9. OrphanInv'
      <4> SUFFICES ASSUME NEW v \in Workers, Orphan(v)'
                   PROVE  /\ worker'[v].pc = "pick" => sock = None
                          /\ worker'[v].pc = "recv" => stream'[worker'[v].conn] = "gone"
        BY <1>1 DEF OrphanInv
      <4>1. v # w /\ worker'[v] = worker[v] /\ Orphan(v)
        BY <1>2, <2>4, <3>5 DEF Orphan
      <4>2. worker[v].pc = "recv" =>
               stream[worker[v].conn] = "gone" /\ worker[v].conn \in Socks
        BY <1>2, <3>8, <4>1 DEF InOrder, CameraInv, JobInv, ConnInv, OrphanInv, TypeOK
      <4> QED
        BY <2>1, <3>1, <3>6, <3>8, <4>1, <4>2 DEF InOrder, OrphanInv
    <3>10. StreamInv'
      <4>1. \A v \in Workers : worker'[v].owner # None => v = w
        BY <1>2, <1>3, <2>4
      <4>2. \A k \in Loops : loop[k].pc # "new"
        BY <3>1 DEF InOrder, CameraInv, LoopInv, OneReadLoop, Live, Parts
      <4> QED
        BY <1>1, <3>5, <3>6, <3>7, <4>1, <4>2 DEF InOrder, StreamInv
    <3> QED
      BY <3>9, <3>10
  <2> QED
    BY <2>3, <2>4
<1> QED
  BY <1>4, <1>5 DEF WorkerStep

\* What a connect finds: no worker of nobody is about to look up the connection, and
\* none reads from the one that is taken.
LEMMA ConnectKeepsOrphans ==
    ASSUME InOrder, ~Awaiting, Connected, ~mixed'
    PROVE  /\ sock' \in Socks /\ stream'[sock'] = None
           /\ \A v \in Workers : Orphan(v) =>
                /\ worker[v].pc # "pick"
                /\ worker[v].pc = "recv" => stream'[worker[v].conn] = "gone"
<1>1. TypeOK
  BY DEF InOrder, CameraInv
<1>2. PICK s \in Socks : ~InUse(s) /\ sock' = s /\ stream' = [stream EXCEPT ![s] = None]
  BY DEF Connected
<1>3. \A v \in Workers : Orphan(v) => worker[v].pc # "pick"
  BY DEF Connected
<1>4. ASSUME NEW v \in Workers, Orphan(v), worker[v].pc = "recv"
      PROVE  stream'[worker[v].conn] = "gone"
  <2>1. worker[v].conn # s
    BY <1>2 DEF InUse
  <2>2. worker[v].conn \in Socks /\ stream[worker[v].conn] = "gone"
    BY <1>1, <1>4 DEF TypeOK, InOrder, CameraInv, JobInv, ConnInv, OrphanInv
  <2> QED
    BY <1>1, <1>2, <2>1, <2>2 DEF TypeOK
<1> QED
  BY <1>1, <1>2, <1>3, <1>4 DEF TypeOK

\* The workers of nobody do not notice a step of the loop: it gives none of them a
\* connection.
LEMMA OrphansStay ==
    ASSUME InOrder, ~Awaiting, NEW w \in Workers,
           worker'[w] = NoJob \/ worker'[w].owner # None,
           \A v \in Workers : v # w => worker'[v] = worker[v],
           \A v \in Workers : Orphan(v) =>
              /\ worker[v].pc = "pick" => sock' = None
              /\ worker[v].pc = "recv" => stream'[worker[v].conn] = "gone"
    PROVE  OrphanInv'
<1>1. NoJob.pc = "free"
  BY DEF NoJob
<1> QED
  BY <1>1 DEF OrphanInv, Orphan

LEMMA LoopKeepsFrames ==
    ASSUME InOrder, NEW l \in Loops, LoopStep(l), ~mixed'
    PROVE  OrphanInv' /\ StreamInv'
<1>1. TypeOK
  BY DEF InOrder, CameraInv
<1>2. \A k \in Loops : Live(k) => k = readTask
  BY DEF InOrder, CameraInv, LoopInv, OneReadLoop
<1>3. \A w \in Workers : worker[w].owner = l =>
         Live(l) /\ loop[l].pc \in Parts /\ worker[w].owner # None
  BY CameraAssumption, OwnerIsReader DEF InOrder, CameraInv, JobInv, ConnInv
<1>4. Live(l)
  BY <1>3 DEF LoopStep, LoopStarts, LoopWakes, LoopConnects, LoopRefused, LoopReadsOn,
      LoopShows, LoopLoses, Live
<1>5. ~Awaiting /\ \A r \in Reqs : req[r].pc # "dial"
  BY <1>2, <1>4, CameraAssumption DEF InOrder, CameraInv, LoopInv, OneReadLoop
<1>6. \A v \in Workers : Orphan(v) =>
         /\ worker[v].pc = "pick" => sock = None
         /\ worker[v].pc = "recv" =>
               stream[worker[v].conn] = "gone" /\ worker[v].conn \in Socks
  BY <1>1, <1>5 DEF InOrder, CameraInv, JobInv, ConnInv, OrphanInv, TypeOK
<1>7. \A k \in Loops : k # l => loop[k].pc # "new"
  BY <1>2, <1>4 DEF Live
<1>8. Job(l).owner = l /\ Job(l).pc = "pick" /\ Job(l).got = FALSE /\ l # None
  BY CameraAssumption DEF Job
<1>9. NoJob.owner = None
  BY DEF NoJob
<1>10. \A w \in Workers : worker[w].owner \in {None, l}
  BY <1>2, <1>4, OwnerIsReader DEF InOrder
<1>11. \A w \in Workers : \A v \in Workers : worker[w].owner = l /\ worker[v].owner = l => w = v
  BY <1>8 DEF InOrder, CameraInv, JobInv, ConnInv
<1>12. CASE LoopStarts(l)
  <2>1. PICK w \in Workers : Turn(l, w, 0)
    BY <1>12 DEF LoopStarts
  <2>2. loop[l].pc = "new" /\ UNCHANGED <<sock, stream, shown, req>>
    BY <1>12 DEF LoopStarts
  <2>3. \A v \in Workers : worker[v].owner = None
    BY <1>3, <1>10, <2>2 DEF Parts
  <2>4. OrphanInv'
    BY <1>5, <1>6, <1>8, <2>1, <2>2, TurnMoves, OrphansStay DEF InOrder
  <2>5. StreamInv'
    BY <1>5, <1>7, <1>8, <1>9, <2>1, <2>2, <2>3, TurnMoves DEF InOrder, StreamInv, Due
  <2> QED
    BY <2>4, <2>5
<1>13. CASE LoopWakes(l) \/ LoopRefused(l)
  <2>1. /\ loop[l].pc \notin Parts /\ UNCHANGED <<sock, stream, shown, worker, req>>
        /\ loop'[l].pc \in {"dial", "backoff"} /\ \A k \in Loops : k # l => loop'[k] = loop[k]
    BY <1>1, <1>13 DEF LoopWakes, LoopRefused, deviceVars, TypeOK, Parts
  <2>2. \A v \in Workers : worker[v].owner = None
    BY <1>3, <1>10, <2>1
  <2>3. OrphanInv'
    BY <2>1 DEF InOrder, OrphanInv, Orphan, Awaiting
  <2>4. StreamInv'
    BY <1>7, <2>1, <2>2 DEF InOrder, StreamInv
  <2> QED
    BY <2>3, <2>4
<1>14. CASE LoopConnects(l)
  <2>1. PICK w \in Workers : Turn(l, w, loop[l].backoff)
    BY <1>14 DEF LoopConnects
  <2>2. loop[l].pc = "dial" /\ Connected /\ UNCHANGED <<shown, req>>
    BY <1>14 DEF LoopConnects
  <2>3. \A v \in Workers : worker[v].owner = None
    BY <1>3, <1>10, <2>2 DEF Parts
  <2>4. sock' # None /\ stream'[sock'] = None
    BY <1>5, <2>2, ConnectKeepsOrphans, CameraAssumption
  <2>5. OrphanInv'
    BY <1>5, <1>8, <2>1, <2>2, <2>4, TurnMoves, ConnectKeepsOrphans, OrphansStay DEF InOrder
  <2>6. StreamInv'
    BY <1>5, <1>7, <1>8, <2>1, <2>2, <2>3, <2>4, TurnMoves DEF InOrder, StreamInv, Due
  <2> QED
    BY <2>5, <2>6
<1>15. ASSUME NEW w \in Workers, LoopReadsOn(l, w) PROVE OrphanInv' /\ StreamInv'
  <2>1. /\ worker[w].owner = l /\ worker[w].pc = "ok" /\ loop[l].pc \in {"magic", "length"}
        /\ UNCHANGED <<sock, stream, shown, req>>
    BY <1>15 DEF LoopReadsOn, deviceVars
  <2>2. /\ \A k \in Loops : k # l => loop'[k] = loop[k]
        /\ \A v \in Workers : v # w => worker'[v] = worker[v]
        /\ loop'[l].pc \in {"length", "payload"} /\ worker'[w] = Job(l)
    BY <1>1, <1>15 DEF LoopReadsOn, TypeOK
  <2>3. \A v \in Workers : v # w => worker[v].owner = None
    BY <1>10, <1>11, <2>1
  <2>4. stream[sock] \in {l, "gone"}
    BY <1>8, <2>1 DEF InOrder, StreamInv, Due
  <2>5. OrphanInv'
    BY <1>5, <1>6, <1>8, <2>1, <2>2, OrphansStay
  <2>6. StreamInv'
    BY <1>5, <1>7, <1>8, <2>1, <2>2, <2>3, <2>4 DEF InOrder, StreamInv, Due
  <2> QED
    BY <2>5, <2>6
<1>16. ASSUME NEW w \in Workers, LoopShows(l, w) PROVE OrphanInv' /\ StreamInv'
  <2>1. /\ worker[w].owner = l /\ worker[w].pc \in {"ok", "torn"} /\ loop[l].pc = "payload"
        /\ Turn(l, w, 0) /\ UNCHANGED <<sock, stream, req>>
        /\ shown' = IF worker[w].pc = "torn" THEN "torn" ELSE "whole"
    BY <1>16 DEF LoopShows
  <2>2. worker[w].pc = "ok" /\ sock # None /\ stream[sock] \in {None, "gone"}
    BY <1>8, <2>1 DEF InOrder, CameraInv, JobInv, ConnInv, StreamInv, Due
  <2>3. \A v \in Workers : v # w => worker[v].owner = None
    BY <1>10, <1>11, <2>1
  <2>4. OrphanInv'
    BY <1>5, <1>6, <1>8, <2>1, <2>2, TurnMoves, OrphansStay DEF InOrder
  <2>5. StreamInv'
    BY <1>5, <1>7, <1>8, <2>1, <2>2, <2>3, TurnMoves DEF InOrder, StreamInv, Due
  <2> QED
    BY <2>4, <2>5
<1>17. ASSUME NEW w \in Workers, LoopLoses(l, w) PROVE OrphanInv' /\ StreamInv'
  <2>1. worker[w].owner = l /\ worker[w].pc = "error"
    BY <1>8, <1>17 DEF LoopLoses, InOrder, CameraInv, JobInv, ConnInv
  <2>2. CloseSocket /\ Turn(l, w, loop[l].backoff) /\ UNCHANGED <<shown, req>>
    BY <1>17, <2>1 DEF LoopLoses
  <2>3. sock' = None /\ \A s \in Socks : stream[s] = "gone" => stream'[s] = "gone"
    BY <2>2 DEF CloseSocket
  <2>4. \A v \in Workers : v # w => worker[v].owner = None
    BY <1>10, <1>11, <2>1
  <2>5. OrphanInv'
    BY <1>5, <1>6, <2>2, <2>3, TurnMoves, OrphansStay DEF InOrder
  <2>6. StreamInv'
    BY <1>9, <2>2, <2>3, <2>4, TurnMoves DEF InOrder, StreamInv
  <2> QED
    BY <2>5, <2>6
<1> QED
  BY <1>12, <1>13, <1>14, <1>15, <1>16, <1>17 DEF LoopStep

\* A step of a request that leaves nothing mixed up: it begins alone, or goes on alone,
\* or ends alone what overlapped before.
LEMMA ReqKeepsFrames ==
    ASSUME WholeInv, NEW r \in Reqs, ~mixed',
           Request(r, "reconnect") \/ Request(r, "init") \/ ReqStep(r)
    PROVE  OrphanInv' /\ StreamInv'
<1>1. CameraInv /\ CameraInv' /\ TypeOK /\ ~crossed'
  BY ReqKeepsInv DEF WholeInv, CameraInv, RequestInv
<1>2. ASSUME NEW kind, Request(r, kind) PROVE OrphanInv' /\ StreamInv'
  <2>1. /\ req[r].pc = "idle" /\ req'[r].pc = "cancel" /\ mixed' = mixed
        /\ \A q \in Reqs : q # r => req'[q] = req[q]
        /\ UNCHANGED <<sock, shown, loop, worker, stream>>
    BY <1>1, <1>2 DEF Request, TypeOK, deviceVars, raceVars
  <2>2. (Awaiting' <=> Awaiting) /\ \A q \in Reqs : req'[q].pc = "dial" => req[q].pc = "dial"
    BY <2>1 DEF Awaiting
  <2> QED
    BY <2>1, <2>2 DEF WholeInv, OrphanInv, StreamInv, Orphan, Due
<1>3. CASE DisconnectCancels(r)
  <2>1. /\ req[r].pc = "cancel" /\ req'[r].pc = "await"
        /\ \A q \in Reqs : q # r => req'[q] = req[q]
        /\ UNCHANGED <<sock, readTask, shown, stream>> /\ readTask # None
    BY <1>1, <1>3 DEF DisconnectCancels, TypeOK, deviceVars
  <2>2. ~crossed /\ \A q \in Reqs : ~AtWork(q)
    BY <1>1, <1>3, Begins DEF DisconnectCancels
  <2>3. ~mixed
    BY <1>3 DEF DisconnectCancels, Crosses
  <2>4. InOrder
    BY <2>3, WholeInOrder
  <2>5. Awaiting' /\ ~Awaiting
    BY <2>1, <2>2 DEF Awaiting, AtWork
  <2>6. ASSUME NEW v \in Workers, Orphan(v)', worker'[v].pc = "recv"
        PROVE  stream[worker'[v].conn] = "gone" \/ worker'[v].conn = sock
    <3>1. worker'[v] =
            IF worker[v].owner # readTask THEN worker[v]
            ELSE IF worker[v].pc \in {"pick", "recv"}
            THEN [worker[v] EXCEPT !.owner = None] ELSE NoJob
      BY <1>3 DEF DisconnectCancels
    <3>2. worker[v].owner \in {None, readTask} /\ worker[v] \in WorkerType
      BY <1>1, <2>2, OwnerIsReader DEF TypeOK, WorkerType
    <3>3. CASE worker[v].owner # readTask
      BY <2>4, <2>5, <2>6, <3>1, <3>2, <3>3 DEF InOrder, OrphanInv, Orphan
    <3>4. CASE worker[v].owner = readTask /\ worker[v].pc \in {"pick", "recv"}
      <4>1. worker'[v].pc = worker[v].pc /\ worker'[v].conn = worker[v].conn
        BY <3>1, <3>2, <3>4 DEF WorkerType
      <4> QED
        BY <2>1, <2>2, <2>6, <3>4, <4>1, <1>1 DEF CameraInv, ConnInv
    <3>5. CASE worker[v].owner = readTask /\ worker[v].pc \notin {"pick", "recv"}
      BY <2>6, <3>1, <3>5 DEF NoJob
    <3> QED
      BY <3>3, <3>4, <3>5
  <2>7. OrphanInv'
    BY <2>1, <2>5, <2>6 DEF OrphanInv
  <2>8. StreamInv'
    <3>1. \A l \in Loops : ~Live(l)'
      BY <1>1, <2>5 DEF CameraInv, LoopInv
    <3>2. \A v \in Workers : worker'[v].owner = None
      <4> SUFFICES ASSUME NEW v \in Workers, worker'[v].owner # None PROVE FALSE
        OBVIOUS
      <4>1. worker'[v].owner \in Loops
        BY <1>1 DEF CameraInv, TypeOK
      <4>2. loop'[worker'[v].owner].pc \in Parts
        BY <1>1 DEF CameraInv, JobInv
      <4> QED
        BY <3>1, <4>1, <4>2 DEF Live, Parts
    <3>3. \A l \in Loops : loop'[l].pc # "new"
      BY <3>1 DEF Live
    <3>4. \A q \in Reqs : req'[q].pc # "dial"
      BY <2>1, <2>2 DEF AtWork
    <3> QED
      BY <2>1, <2>4, <3>2, <3>3, <3>4 DEF InOrder, StreamInv
  <2> QED
    BY <2>7, <2>8
<1>4. CASE Disconnected(r)
  <2>1. /\ \A l \in Loops : ~Live(l)
        /\ CloseSocket /\ UNCHANGED <<loop, worker>> /\ shown' \in {"none", shown}
    BY <1>1, <1>4, ClosesAlone
  <2>2. /\ sock' = None
        /\ \A s \in Socks : stream[s] = "gone" \/ s = sock => stream'[s] = "gone"
    BY <2>1 DEF CloseSocket
  <2>3. \A v \in Workers : worker[v].owner = None
    BY <1>1, <2>1, OwnerIsReader
  <2>4. OrphanInv'
    <3>1. ASSUME NEW v \in Workers, Orphan(v), worker[v].pc = "recv"
          PROVE  stream'[worker[v].conn] = "gone"
      <4>1. CASE mixed
        BY <1>4, <3>1, <4>1 DEF Disconnected, Settles
      <4>2. CASE ~mixed
        BY <1>1, <2>2, <3>1, <4>2 DEF WholeInv, CameraInv, JobInv, OrphanInv, TypeOK
      <4> QED
        BY <4>1, <4>2
    <3> QED
      BY <2>1, <2>2, <3>1 DEF OrphanInv, Orphan
  <2>5. shown' # "torn"
    <3>1. CASE mixed
      BY <1>4, <3>1 DEF Disconnected, Settles
    <3>2. CASE ~mixed
      BY <2>1, <3>2 DEF WholeInv, StreamInv
    <3> QED
      BY <3>1, <3>2
  <2>6. StreamInv'
    BY <2>1, <2>2, <2>3, <2>5 DEF StreamInv
  <2> QED
    BY <2>4, <2>6
<1>5. CASE ConnectSucceeds(r) \/ ConnectFails(r)
  <2>1. ~mixed
    BY <1>5 DEF ConnectSucceeds, ConnectFails, Connected, raceVars
  <2>2. InOrder
    BY <2>1, WholeInOrder
  <2>3. /\ req[r].pc = "dial" /\ req'[r].pc = "idle" /\ UNCHANGED <<worker, shown>>
        /\ \A q \in Reqs : q # r => req'[q] = req[q]
    BY <1>1, <1>5 DEF ConnectSucceeds, ConnectFails, TypeOK, NoRequest
  <2>4. \A q \in Reqs : AtWork(q) => q = r
    BY <2>2, <2>3, NoOther DEF InOrder, AtWork
  <2>5. ~Awaiting /\ sock = None /\ \A q \in Reqs : req'[q].pc # "dial"
    BY <2>2, <2>3, <2>4 DEF Awaiting, AtWork, InOrder, StreamInv
  <2>6. \A l \in Loops : ~Live(l)
    BY <2>2, <2>3, CameraAssumption DEF InOrder, CameraInv, LoopInv, OneReadLoop
  <2>7. \A v \in Workers : worker[v].owner = None
    BY <1>1, <2>6, OwnerIsReader
  <2>8. sock' = None \/ stream'[sock'] = None
    BY <1>5, <2>2, <2>5, ConnectKeepsOrphans DEF ConnectSucceeds, ConnectFails
  <2>9. OrphanInv'
    <3>1. CASE ConnectSucceeds(r)
      BY <2>2, <2>3, <2>5, <3>1, ConnectKeepsOrphans DEF ConnectSucceeds, OrphanInv, Orphan
    <3>2. CASE ConnectFails(r)
      BY <2>2, <2>3, <2>5, <3>2 DEF ConnectFails, InOrder, OrphanInv, Orphan
    <3> QED
      BY <1>5, <3>1, <3>2
  <2>10. StreamInv'
    BY <2>2, <2>3, <2>5, <2>7, <2>8 DEF InOrder, StreamInv
  <2> QED
    BY <2>9, <2>10
<1> QED
  BY <1>2, <1>3, <1>4, <1>5 DEF ReqStep

LEMMA NextWholeInv == WholeInv /\ [Next]_vars => WholeInv'
<1> SUFFICES ASSUME WholeInv, [Next]_vars PROVE WholeInv'
  OBVIOUS
<1>1. CameraInv'
  BY NextCameraInv DEF WholeInv
<1> SUFFICES ASSUME ~mixed' PROVE OrphanInv' /\ StreamInv'
  BY <1>1 DEF WholeInv
<1>2. CASE PeerChanges \/ UNCHANGED vars
  <2>1. UNCHANGED <<sock, shown, loop, worker, req>> /\ ~mixed
        /\ \A s \in Socks : stream'[s] \in {stream[s], "gone"}
    BY <1>2 DEF PeerChanges, vars, deviceVars, taskVars, raceVars
  <2>2. InOrder
    BY <2>1, WholeInOrder
  <2>3. OrphanInv'
    <3>1. \A v \in Workers : worker[v].pc = "recv" => worker[v].conn \in Socks
      BY <2>2 DEF InOrder, CameraInv, JobInv, TypeOK
    <3> QED
      BY <2>1, <2>2, <3>1 DEF InOrder, OrphanInv, Orphan, Awaiting
  <2>4. StreamInv'
    <3>1. sock # None => sock \in Socks
      BY <2>2 DEF InOrder, CameraInv, TypeOK
    <3>2. \A w \in Workers : worker[w].owner # None => sock # None
      BY <2>2 DEF InOrder, CameraInv, ConnInv
    <3> QED
      BY <2>1, <2>2, <3>1, <3>2 DEF InOrder, StreamInv, Due
  <2> QED
    BY <2>3, <2>4
<1>3. ASSUME NEW w \in Workers, WorkerStep(w) PROVE OrphanInv' /\ StreamInv'
  <2>1. ~mixed
    BY <1>3 DEF WorkerStep, WorkerPicks, WorkerReceives, WorkerFails, raceVars
  <2> QED
    BY <1>3, <2>1, WholeInOrder, WorkerKeepsFrames
<1>4. ASSUME NEW l \in Loops, LoopStep(l) PROVE OrphanInv' /\ StreamInv'
  <2>1. ~mixed
    BY <1>4, LoopKeepsRequests DEF WholeInv
  <2> QED
    BY <1>4, <2>1, WholeInOrder, LoopKeepsFrames
<1> QED
  BY <1>2, <1>3, <1>4, ReqKeepsFrames DEF Next

\* A frame that is shown lacks no bytes, whatever Reconnects, Inits and outages cut
\* streams short, unless requests overlapped or a connect completed while a worker of a
\* cancelled loop was between two recv()s; and again from the first request that was
\* alone and left none of it.  For any number of requests, workers and connections.
THEOREM CameraShowsWholeFrames == Spec => []FramesAreWhole
<1>1. WholeInv => FramesAreWhole
  BY DEF WholeInv, StreamInv, FramesAreWhole
<1> QED
  BY <1>1, InitWholeInv, NextWholeInv, PTL DEF Spec

-----------------------------------------------------------------------------
(* The operator's panel *)

Signals == Shown \cup Pinged \cup {"frame"}

\* What a handler or a thread leaves of a queue of signals.
LEMMA QueueMoves ==
    ASSUME NEW q \in Seq(Signals)
    PROVE  /\ Len(q) \in Nat /\ DOMAIN q = 1..Len(q)
           /\ \A s \in Signals :
                /\ Append(q, s) \in Seq(Signals)
                /\ DOMAIN Append(q, s) = 1..(Len(q) + 1)
                /\ Append(q, s)[Len(q) + 1] = s
                /\ \A k \in 1..Len(q) : Append(q, s)[k] = q[k]
           /\ q # <<>> =>
                /\ Len(q) >= 1 /\ Head(q) = q[1] /\ Head(q) \in Signals
                /\ Tail(q) \in Seq(Signals)
                /\ DOMAIN Tail(q) = 1..(Len(q) - 1)
                /\ \A k \in 1..(Len(q) - 1) : Tail(q)[k] = q[k + 1]
<1>1. Len(q) \in Nat /\ DOMAIN q = 1..Len(q)
  BY LenProperties
<1>2. ASSUME NEW s \in Signals
      PROVE  /\ Append(q, s) \in Seq(Signals)
             /\ DOMAIN Append(q, s) = 1..(Len(q) + 1)
             /\ Append(q, s)[Len(q) + 1] = s
             /\ \A k \in 1..Len(q) : Append(q, s)[k] = q[k]
  BY <1>1, AppendProperties, LenProperties
<1>3. ASSUME q # <<>>
      PROVE  /\ Len(q) >= 1 /\ Head(q) = q[1] /\ Head(q) \in Signals
             /\ Tail(q) \in Seq(Signals)
             /\ DOMAIN Tail(q) = 1..(Len(q) - 1)
             /\ \A k \in 1..(Len(q) - 1) : Tail(q)[k] = q[k + 1]
  BY <1>1, <1>3, HeadTailProperties, LenProperties, EmptySeq
<1> QED
  BY <1>1, <1>2, <1>3

-----------------------------------------------------------------------------
(* Types *)

LEMMA PanelInitTypes == PanelInit => PanelTypeOK
<1> SUFFICES ASSUME PanelInit PROVE PanelTypeOK
  OBVIOUS
<1>1. signals \in [Tabs -> Seq(Signals)]
  BY EmptySeq DEF PanelInit
<1>2. /\ enabled \in [Tabs -> BOOLEAN] /\ picture \in [Tabs -> {"none", "live", "stray"}]
      /\ image \in [Tabs -> {"none", "first", "on"}] /\ reported \in [Tabs -> Shown]
  BY DEF PanelInit, Shown
<1> QED
  BY <1>1, <1>2 DEF PanelInit, PanelTypeOK, Signals

LEMMA EmitTypes ==
    ASSUME PanelTypeOK, NEW i \in Tabs, NEW s \in Signals
    PROVE  [signals EXCEPT ![i] = Append(@, s)] \in [Tabs -> Seq(Signals)]
BY QueueMoves DEF PanelTypeOK, Signals

LEMMA HandleTypes ==
    ASSUME PanelTypeOK, NEW i \in Tabs, Handle(i)
    PROVE  signals' \in [Tabs -> Seq(Signals)] /\ Head(signals[i]) \in Signals
BY QueueMoves DEF PanelTypeOK, Signals, Handle

LEMMA HandleMoves ==
    ASSUME PanelTypeOK, NEW i \in Tabs, Handle(i)
    PROVE  /\ signals[i] \in Seq(Signals) /\ signals[i] # <<>>
           /\ signals'[i] = Tail(signals[i])
           /\ \A j \in Tabs : j # i => signals'[j] = signals[j]
<1>1. signals \in [Tabs -> Seq(Signals)]
  BY DEF PanelTypeOK, Signals
<1>2. signals[i] # <<>> /\ signals' = [signals EXCEPT ![i] = Tail(@)]
  BY DEF Handle
<1> QED
  BY <1>1, <1>2

LEMMA StartPingsTypes ==
    ASSUME PanelTypeOK, NEW these \in SUBSET Tabs, StartPings(these)
    PROVE  pending' \subseteq Tabs /\ pings' \in [Tabs -> Nat]
BY DEF PanelTypeOK, StartPings

LEMMA GuiTypes ==
    ASSUME PanelTypeOK, NEW i \in Tabs, GuiStep(i)
    PROVE  PanelTypeOK'
<1>1. CASE OnPingFailed(i)
  BY <1>1, HandleTypes DEF OnPingFailed, PanelTypeOK, Signals, Shown, listenVars, clickVars
<1>2. CASE OnPingAnswered(i)
  BY <1>2, HandleTypes DEF OnPingAnswered, PanelTypeOK, Signals, clickVars
<1>3. CASE OnState(i)
  <2>1. Head(signals[i]) \in Shown
    BY <1>3 DEF OnState
  <2>2. label' \in [Tabs -> Shown \cup {Nothing}]
        /\ enabled' \in [Tabs -> BOOLEAN]
    BY <1>3, <2>1, ZenonT(30) DEF OnState, PanelTypeOK
  <2>3. picture' \in [Tabs -> {"none", "live", "stray"}]
    BY <1>3 DEF OnState, PanelTypeOK
  <2> QED
    BY <1>3, <2>2, <2>3, HandleTypes
       DEF OnState, PanelTypeOK, Signals, listenVars, pingVars, clickVars
<1>4. CASE OnFrame(i)
  BY <1>4, HandleTypes DEF OnFrame, PanelTypeOK, Signals, listenVars, pingVars, clickVars
<1> QED
  BY <1>1, <1>2, <1>3, <1>4 DEF GuiStep

LEMMA PingEmits ==
    ASSUME NEW i \in Tabs, PingEnds(i)
    PROVE  \E s \in Pinged :
              \/ signals' = [signals EXCEPT ![i] = Append(@, s)]
              \/ OddErrors /\ signals' = signals
<1> DEFINE result == IF device[i] = "NO CONTACT" THEN "failed" ELSE "answered"
<1>1. signals' \in {[signals EXCEPT ![i] = Append(@, result)]}
                      \cup (IF OddErrors THEN {signals} ELSE {})
  BY DEF PingEnds
<1>2. result \in Pinged
  BY DEF Pinged
<1> HIDE DEF result
<1>3. signals' = [signals EXCEPT ![i] = Append(@, result)] \/ (OddErrors /\ signals' = signals)
  <2>1. CASE OddErrors
    BY <1>1, <2>1
  <2>2. CASE ~OddErrors
    BY <1>1, <2>2
  <2> QED
    BY <2>1, <2>2
<1> QED
  BY <1>2, <1>3

LEMMA PanelNextTypes == PanelTypeOK /\ [PanelNext]_panelVars => PanelTypeOK'
<1> SUFFICES ASSUME PanelTypeOK, [PanelNext]_panelVars PROVE PanelTypeOK'
  OBVIOUS
<1> USE DEF listenVars, widgetVars, pingVars, clickVars
<1>1. CASE RetryUnreachable
  <2>1. StartPings({i \in Tabs : tab[i] = "unreachable"})
    BY <1>1 DEF RetryUnreachable
  <2>2. pending' \subseteq Tabs /\ pings' \in [Tabs -> Nat]
    BY <2>1, StartPingsTypes
  <2> QED
    BY <1>1, <2>2 DEF RetryUnreachable, PanelTypeOK
<1>2. ASSUME NEW i \in Tabs, RetryNow(i) PROVE PanelTypeOK'
  <2>1. pending' \subseteq Tabs /\ pings' \in [Tabs -> Nat]
    BY <1>2, StartPingsTypes DEF RetryNow
  <2> QED
    BY <1>2, <2>1 DEF RetryNow, PanelTypeOK
<1>3. ASSUME NEW i \in Tabs, PingEnds(i) PROVE PanelTypeOK'
  <2>1. pings' \in [Tabs -> Nat]
    <3>1. pings \in [Tabs -> Nat] /\ pings[i] > 0 /\ pings' = [pings EXCEPT ![i] = @ - 1]
      BY <1>3 DEF PingEnds, PanelTypeOK
    <3>2. pings[i] - 1 \in Nat
      BY <3>1
    <3> QED
      BY <3>1, <3>2
  <2>2. PICK s \in Pinged :
           \/ signals' = [signals EXCEPT ![i] = Append(@, s)]
           \/ OddErrors /\ signals' = signals
    BY <1>3, PingEmits, Zenon
  <2>3. signals' \in [Tabs -> Seq(Signals)]
    <3>1. s \in Signals /\ signals \in [Tabs -> Seq(Signals)]
      BY DEF Signals, PanelTypeOK
    <3> QED
      BY <2>2, <3>1, EmitTypes
  <2> QED
    BY <1>3, <2>1, <2>3 DEF PingEnds, PanelTypeOK, Signals
<1>4. ASSUME NEW i \in Tabs, Click(i) PROVE PanelTypeOK'
  BY <1>4 DEF Click, PanelTypeOK
<1>5. CASE Answer \/ CommandReturns
  BY <1>5 DEF Answer, CommandReturns, PanelTypeOK
<1>6. ASSUME NEW i \in Tabs, FirstValue(i) \/ StateEvent(i) PROVE PanelTypeOK'
  <2>1. device[i] \in Signals /\ device[i] \in Shown
    BY DEF PanelTypeOK, Signals
  <2>2. signals' \in [Tabs -> Seq(Signals)]
    <3>1. signals' = [signals EXCEPT ![i] = Append(@, device[i])]
      BY <1>6 DEF FirstValue, StateEvent, Report, Emit
    <3> QED
      BY <2>1, <3>1, EmitTypes
  <2>3. reported' \in [Tabs -> Shown] /\ watch' \in [Tabs -> {"none", "first", "on"}]
    BY <1>6, <2>1 DEF FirstValue, StateEvent, Report, PanelTypeOK
  <2> QED
    BY <1>6, <2>2, <2>3 DEF FirstValue, StateEvent, PanelTypeOK, Signals
<1>7. ASSUME NEW i \in Tabs, FirstFrame(i) \/ CameraPushes(i) PROVE PanelTypeOK'
  <2>1. "frame" \in Signals /\ signals \in [Tabs -> Seq(Signals)]
    BY DEF Signals, PanelTypeOK
  <2>2. signals' \in [Tabs -> Seq(Signals)]
    <3>1. \/ signals' = [signals EXCEPT ![i] = Append(@, "frame")]
          \/ signals' = signals
      BY <1>7 DEF FirstFrame, CameraPushes, Emit
    <3> QED
      BY <2>1, <3>1, EmitTypes
  <2>3. image' \in [Tabs -> {"none", "first", "on"}]
    BY <1>7 DEF FirstFrame, CameraPushes, PanelTypeOK
  <2> QED
    BY <1>7, <2>2, <2>3 DEF FirstFrame, CameraPushes, PanelTypeOK, Signals
<1>8. ASSUME NEW i \in Tabs, NEW s \in Shown, DeviceChanges(i, s) PROVE PanelTypeOK'
  BY <1>8 DEF DeviceChanges, PanelTypeOK
<1>9. CASE UNCHANGED panelVars
  BY <1>9 DEF panelVars, PanelTypeOK
<1> QED
  BY <1>1, <1>2, <1>3, <1>4, <1>5, <1>6, <1>7, <1>8, <1>9, GuiTypes DEF PanelNext

\* The panel, its pings, its watches and its queues of signals keep their types, for
\* any devices and any error of a ping.
THEOREM PanelTypeCorrect == PanelSpec => []PanelTypeOK
BY PanelInitTypes, PanelNextTypes, PTL DEF PanelSpec

-----------------------------------------------------------------------------
(* One ping per tab *)

NoResult(q) == \A k \in DOMAIN q : q[k] \notin Pinged
OneResult(q) == \E k \in DOMAIN q : \A m \in DOMAIN q : q[m] \in Pinged <=> m = k

LEMMA ResultQueued ==
    ASSUME NEW q \in Seq(Signals), NEW s \in Signals
    PROVE  /\ s \in Pinged /\ NoResult(q) => OneResult(Append(q, s))
           /\ s \notin Pinged /\ NoResult(q) => NoResult(Append(q, s))
           /\ s \notin Pinged /\ OneResult(q) => OneResult(Append(q, s))
<1>1. /\ Len(q) \in Nat /\ DOMAIN q = 1..Len(q)
      /\ DOMAIN Append(q, s) = 1..(Len(q) + 1) /\ Append(q, s)[Len(q) + 1] = s
      /\ \A k \in 1..Len(q) : Append(q, s)[k] = q[k]
  BY QueueMoves
<1>2. \A k \in DOMAIN Append(q, s) : k \in 1..Len(q) \/ k = Len(q) + 1
  BY <1>1
<1>3. Len(q) + 1 \in DOMAIN Append(q, s) /\ Len(q) + 1 \notin 1..Len(q)
      /\ 1..Len(q) \subseteq DOMAIN Append(q, s)
  BY <1>1
<1>4. ASSUME s \in Pinged, NoResult(q) PROVE OneResult(Append(q, s))
  BY <1>1, <1>2, <1>3, <1>4 DEF NoResult, OneResult
<1>5. ASSUME s \notin Pinged, NoResult(q) PROVE NoResult(Append(q, s))
  BY <1>1, <1>2, <1>5 DEF NoResult
<1>6. ASSUME s \notin Pinged, OneResult(q) PROVE OneResult(Append(q, s))
  BY <1>1, <1>2, <1>3, <1>6 DEF OneResult
<1> QED
  BY <1>4, <1>5, <1>6

LEMMA ResultHandled ==
    ASSUME NEW q \in Seq(Signals), q # <<>>
    PROVE  /\ NoResult(q) => Head(q) \notin Pinged /\ NoResult(Tail(q))
           /\ OneResult(q) /\ Head(q) \in Pinged => NoResult(Tail(q))
           /\ OneResult(q) /\ Head(q) \notin Pinged => OneResult(Tail(q))
<1>1. /\ Len(q) \in Nat /\ DOMAIN q = 1..Len(q) /\ Len(q) >= 1 /\ Head(q) = q[1]
      /\ DOMAIN Tail(q) = 1..(Len(q) - 1)
      /\ \A k \in 1..(Len(q) - 1) : Tail(q)[k] = q[k + 1]
  BY QueueMoves
<1>2. \A k \in DOMAIN Tail(q) : k + 1 \in DOMAIN q /\ k + 1 # 1
  BY <1>1
<1>3. ASSUME NoResult(q) PROVE Head(q) \notin Pinged /\ NoResult(Tail(q))
  BY <1>1, <1>2, <1>3 DEF NoResult
<1>4. ASSUME NEW k \in DOMAIN q, \A m \in DOMAIN q : q[m] \in Pinged <=> m = k
      PROVE  /\ Head(q) \in Pinged => NoResult(Tail(q))
             /\ Head(q) \notin Pinged => OneResult(Tail(q))
  <2>1. CASE k = 1
    <3>1. Head(q) \in Pinged
      BY <1>1, <1>4, <2>1
    <3>2. NoResult(Tail(q))
      BY <1>1, <1>2, <1>4, <2>1 DEF NoResult
    <3> QED
      BY <3>1, <3>2
  <2>2. CASE k # 1
    <3>1. Head(q) \notin Pinged
      BY <1>1, <1>4, <2>2
    <3>2. k - 1 \in DOMAIN Tail(q)
      BY <1>1, <2>2
    <3>3. \A m \in DOMAIN Tail(q) : Tail(q)[m] \in Pinged <=> m = k - 1
      BY <1>1, <1>2, <1>4
    <3> QED
      BY <3>1, <3>2, <3>3 DEF OneResult
  <2> QED
    BY <2>1, <2>2
<1> QED
  BY <1>3, <1>4 DEF OneResult

\* A pending tab has a thread that runs or a result that is queued, unless its thread
\* ended without a result; any other has neither.
PingInv ==
    \A i \in Tabs :
        IF i \in pending
        THEN \/ pings[i] = 1 /\ NoResult(signals[i])
             \/ pings[i] = 0 /\ OneResult(signals[i])
             \/ OddErrors /\ pings[i] = 0 /\ NoResult(signals[i])
        ELSE pings[i] = 0 /\ NoResult(signals[i])

LEMMA InitPingInv == PanelInit => PingInv
<1> SUFFICES ASSUME PanelInit PROVE PingInv
  OBVIOUS
<1>1. /\ pending = Tabs /\ pings = [i \in Tabs |-> 1]
      /\ signals = [i \in Tabs |-> <<>>]
  BY DEF PanelInit
<1>2. NoResult(<<>>)
  BY DEF NoResult
<1> QED
  BY <1>1, <1>2 DEF PingInv

\* A signal that is no result disturbs no ping.
LEMMA OtherSignalQueued ==
    ASSUME PanelTypeOK, PingInv, NEW i \in Tabs, NEW s \in Signals \ Pinged,
           Emit(i, s), UNCHANGED pingVars
    PROVE  PingInv'
<1>1. \A j \in Tabs : signals'[j] = IF j = i THEN Append(signals[j], s) ELSE signals[j]
  BY DEF Emit, PanelTypeOK
<1>2. signals[i] \in Seq(Signals)
  BY DEF PanelTypeOK, Signals
<1>3. /\ NoResult(signals[i]) => NoResult(signals'[i])
      /\ OneResult(signals[i]) => OneResult(signals'[i])
  BY <1>1, <1>2, ResultQueued
<1> QED
  BY <1>1, <1>3 DEF PingInv, pingVars

LEMMA StartPingsKeepsPingInv ==
    ASSUME PanelTypeOK, PingInv, NEW these \in SUBSET Tabs, StartPings(these),
           UNCHANGED signals
    PROVE  PingInv'
BY DEF PanelTypeOK, PingInv, StartPings

LEMMA NextPingInv == PanelTypeOK /\ PingInv /\ [PanelNext]_panelVars => PingInv'
<1> SUFFICES ASSUME PanelTypeOK, PingInv, [PanelNext]_panelVars PROVE PingInv'
  OBVIOUS
<1>5. Shown \cap Pinged = {} /\ "frame" \notin Pinged
  BY PanelAssumption DEF Shown, Pinged
<1>1. CASE RetryUnreachable
  <2>1. StartPings({i \in Tabs : tab[i] = "unreachable"}) /\ UNCHANGED signals
    BY <1>1 DEF RetryUnreachable
  <2> QED
    BY <2>1, StartPingsKeepsPingInv
<1>2. ASSUME NEW i \in Tabs, RetryNow(i) PROVE PingInv'
  BY <1>2, StartPingsKeepsPingInv DEF RetryNow
<1>3. ASSUME NEW i \in Tabs, PingEnds(i) PROVE PingInv'
  <2>1. PICK s \in Pinged :
           \/ signals' = [signals EXCEPT ![i] = Append(@, s)]
           \/ OddErrors /\ signals' = signals
    BY <1>3, PingEmits, Zenon
  <2>2. /\ pings \in [Tabs -> Nat] /\ pings[i] > 0
        /\ pings' = [pings EXCEPT ![i] = @ - 1] /\ pending' = pending
    BY <1>3 DEF PingEnds, PanelTypeOK
  <2>3. i \in pending' /\ pings'[i] = 0 /\ NoResult(signals[i])
    BY <2>2 DEF PingInv
  <2>4. \A j \in Tabs : j # i => pings'[j] = pings[j]
    BY <2>2
  <2>5. signals \in [Tabs -> Seq(Signals)] /\ s \in Signals
    BY DEF PanelTypeOK, Signals
  <2>6. CASE signals' = [signals EXCEPT ![i] = Append(@, s)]
    <3>1. /\ signals'[i] = Append(signals[i], s) /\ signals[i] \in Seq(Signals)
          /\ \A j \in Tabs : j # i => signals'[j] = signals[j]
      BY <2>5, <2>6
    <3>2. OneResult(signals'[i])
      BY <2>3, <2>5, <3>1, ResultQueued
    <3> QED
      BY <2>2, <2>3, <2>4, <3>1, <3>2 DEF PingInv
  <2>7. CASE OddErrors /\ signals' = signals
    BY <2>2, <2>3, <2>4, <2>7 DEF PingInv
  <2> QED
    BY <2>1, <2>6, <2>7
<1>4. ASSUME NEW i \in Tabs, GuiStep(i) PROVE PingInv'
  <2>1. /\ signals[i] \in Seq(Signals) /\ signals[i] # <<>> /\ signals'[i] = Tail(signals[i])
        /\ \A j \in Tabs : j # i => signals'[j] = signals[j]
    BY <1>4, HandleMoves DEF GuiStep, OnPingFailed, OnPingAnswered, OnState, OnFrame
  <2>2. CASE Head(signals[i]) \in Pinged
    <3>1. pending' = pending \ {i} /\ pings' = pings
      <4>1. OnPingFailed(i) \/ OnPingAnswered(i)
        BY <1>4, <1>5, <2>2 DEF GuiStep, OnState, OnFrame
      <4> QED
        BY <4>1 DEF OnPingFailed, OnPingAnswered
    <3>2. OneResult(signals[i]) /\ pings[i] = 0
      BY <2>1, <2>2, ResultHandled DEF PingInv
    <3>3. NoResult(signals'[i])
      BY <2>1, <2>2, <3>2, ResultHandled
    <3> QED
      BY <2>1, <3>1, <3>2, <3>3 DEF PingInv
  <2>3. CASE Head(signals[i]) \notin Pinged
    <3>1. UNCHANGED pingVars
      BY <1>4, <2>3 DEF GuiStep, OnPingFailed, OnPingAnswered, OnState, OnFrame, Pinged
    <3>2. /\ NoResult(signals[i]) => NoResult(signals'[i])
          /\ OneResult(signals[i]) => OneResult(signals'[i])
      BY <2>1, <2>3, ResultHandled
    <3> QED
      BY <2>1, <3>1, <3>2 DEF PingInv, pingVars
  <2> QED
    BY <2>2, <2>3
<1>6. ASSUME NEW i \in Tabs, FirstValue(i) \/ StateEvent(i) PROVE PingInv'
  <2>1. device[i] \in Signals \ Pinged
    BY <1>5 DEF PanelTypeOK, Signals
  <2> QED
    BY <1>6, <2>1, OtherSignalQueued DEF FirstValue, StateEvent, Report
<1>7. ASSUME NEW i \in Tabs, FirstFrame(i) \/ CameraPushes(i) PROVE PingInv'
  <2>1. "frame" \in Signals \ Pinged
    BY <1>5 DEF Signals
  <2>2. CASE Emit(i, "frame")
    BY <1>7, <2>1, <2>2, OtherSignalQueued DEF FirstFrame, CameraPushes
  <2>3. CASE UNCHANGED signals
    BY <1>7, <2>3 DEF FirstFrame, CameraPushes, PingInv, pingVars
  <2> QED
    BY <1>7, <2>2, <2>3 DEF FirstFrame, CameraPushes
<1>8. ASSUME NEW i \in Tabs, NEW s \in Shown, DeviceChanges(i, s) PROVE PingInv'
  BY <1>8 DEF DeviceChanges, PingInv, pingVars
<1>9. CASE UNCHANGED panelVars \/ Answer \/ CommandReturns \/ \E i \in Tabs : Click(i)
  BY <1>9 DEF panelVars, Answer, CommandReturns, Click, pingVars, PingInv
<1> QED
  BY <1>1, <1>2, <1>3, <1>4, <1>6, <1>7, <1>8, <1>9 DEF PanelNext

LEMMA PingCounts ==
    ASSUME PanelTypeOK, PingInv, NEW i \in Tabs
    PROVE  /\ pings[i] \in 0..1 /\ Count(i) \in 0..1 /\ pings[i] + Count(i) <= 1
           /\ pings[i] + Count(i) = 1 => i \in pending
           /\ ~OddErrors /\ i \in pending => pings[i] + Count(i) = 1
<1> DEFINE results == {k \in DOMAIN signals[i] : signals[i][k] \in Pinged}
<1>1. NoResult(signals[i]) => Count(i) = 0
  <2>1. NoResult(signals[i]) => results = {}
    BY DEF NoResult
  <2> QED
    BY <2>1, FS_EmptySet DEF Count
<1>2. OneResult(signals[i]) => Count(i) = 1
  <2>1. OneResult(signals[i]) => \E k \in DOMAIN signals[i] : results = {k}
    BY DEF OneResult
  <2> QED
    BY <2>1, FS_Singleton DEF Count
<1> QED
  BY <1>1, <1>2 DEF PingInv

LEMMA PingInvHolds == PanelSpec => [](PanelTypeOK /\ PingInv)
BY InitPingInv, NextPingInv, PanelInitTypes, PanelNextTypes, PTL DEF PanelSpec

\* As long as a ping ends by an answer or by DevFailed, a tab has one ping on its way
\* while its index is in _pending and none otherwise, for any tabs and any number of
\* retries.
THEOREM PanelPendingIsTruthful ==
    ASSUME OddErrors = FALSE PROVE PanelSpec => []PendingIsTruthful
<1>1. PanelTypeOK /\ PingInv => PendingIsTruthful
  BY PingCounts DEF PendingIsTruthful
<1> QED
  BY <1>1, PingInvHolds, PTL

\* No tab has two pings on their way, neither has one that _pending does not know of.
PingsApart ==
    \A i \in Tabs : /\ pings[i] + Count(i) <= 1
                    /\ pings[i] + Count(i) = 1 => i \in pending

\* Whatever ends a ping, and however often the timer and the button ask for one, no tab
\* has two on their way: what _start_ping() looks at _pending for (lines 562-565).
THEOREM PanelPingsApart == PanelSpec => []PingsApart
<1>1. PanelTypeOK /\ PingInv => PingsApart
  BY PingCounts DEF PingsApart
<1> QED
  BY <1>1, PingInvHolds, PTL

-----------------------------------------------------------------------------
(* What the panel shows *)

\* A signal that says nothing of the device's state
Quiet(s) == s \notin Shown

AllQuiet(q) == \A k \in DOMAIN q : Quiet(q[k])

\* The last state in the queue is d.
Tells(q, d) ==
    \E k \in DOMAIN q : q[k] = d /\ \A m \in DOMAIN q : m > k => Quiet(q[m])

LEMMA StateQueued ==
    ASSUME NEW q \in Seq(Signals), NEW s \in Signals, NEW d
    PROVE  /\ s = d => Tells(Append(q, s), d)
           /\ Quiet(s) /\ Tells(q, d) => Tells(Append(q, s), d)
           /\ Quiet(s) /\ AllQuiet(q) => AllQuiet(Append(q, s))
<1>1. /\ Len(q) \in Nat /\ DOMAIN q = 1..Len(q)
      /\ DOMAIN Append(q, s) = 1..(Len(q) + 1) /\ Append(q, s)[Len(q) + 1] = s
      /\ \A k \in 1..Len(q) : Append(q, s)[k] = q[k]
  BY QueueMoves
<1>2. \A k \in DOMAIN Append(q, s) : k \in DOMAIN q \/ k = Len(q) + 1
  BY <1>1
<1>3. ASSUME s = d PROVE Tells(Append(q, s), d)
  <2>1. Len(q) + 1 \in DOMAIN Append(q, s)
    BY <1>1
  <2>2. \A m \in DOMAIN Append(q, s) : ~(m > Len(q) + 1)
    BY <1>1
  <2> QED
    BY <1>1, <1>3, <2>1, <2>2 DEF Tells
<1>4. ASSUME Quiet(s), Tells(q, d) PROVE Tells(Append(q, s), d)
  <2>1. PICK k \in DOMAIN q : q[k] = d /\ \A m \in DOMAIN q : m > k => Quiet(q[m])
    BY <1>4 DEF Tells
  <2>2. k \in DOMAIN Append(q, s) /\ Append(q, s)[k] = d
    BY <1>1, <2>1
  <2>3. ASSUME NEW m \in DOMAIN Append(q, s), m > k PROVE Quiet(Append(q, s)[m])
    BY <1>1, <1>2, <1>4, <2>1, <2>3
  <2> QED
    BY <2>2, <2>3 DEF Tells
<1>5. ASSUME Quiet(s), AllQuiet(q) PROVE AllQuiet(Append(q, s))
  BY <1>1, <1>2, <1>5 DEF AllQuiet
<1> QED
  BY <1>3, <1>4, <1>5

LEMMA StateHandled ==
    ASSUME NEW q \in Seq(Signals), q # <<>>, NEW d
    PROVE  /\ Tells(q, d) => Tells(Tail(q), d) \/ (Head(q) = d /\ AllQuiet(Tail(q)))
           /\ AllQuiet(q) => Quiet(Head(q)) /\ AllQuiet(Tail(q))
<1>1. /\ Len(q) \in Nat /\ DOMAIN q = 1..Len(q) /\ Len(q) >= 1 /\ Head(q) = q[1]
      /\ DOMAIN Tail(q) = 1..(Len(q) - 1)
      /\ \A k \in 1..(Len(q) - 1) : Tail(q)[k] = q[k + 1]
  BY QueueMoves
<1>2. \A k \in DOMAIN Tail(q) : k + 1 \in DOMAIN q /\ k + 1 > 1 /\ Tail(q)[k] = q[k + 1]
  BY <1>1
<1>3. ASSUME NEW k \in DOMAIN q, q[k] = d, \A m \in DOMAIN q : m > k => Quiet(q[m])
      PROVE  Tells(Tail(q), d) \/ (Head(q) = d /\ AllQuiet(Tail(q)))
  <2>1. CASE k = 1
    <3>1. \A m \in DOMAIN Tail(q) : Quiet(Tail(q)[m])
      BY <1>2, <1>3, <2>1
    <3> QED
      BY <1>1, <1>3, <2>1, <3>1 DEF AllQuiet
  <2>2. CASE k # 1
    <3>1. k - 1 \in DOMAIN Tail(q) /\ Tail(q)[k - 1] = d
      BY <1>1, <1>3, <2>2
    <3>2. ASSUME NEW m \in DOMAIN Tail(q), m > k - 1 PROVE Quiet(Tail(q)[m])
      <4>1. m + 1 > k
        BY <1>1, <3>2
      <4> QED
        BY <1>2, <1>3, <4>1
    <3> QED
      BY <3>1, <3>2 DEF Tells
  <2> QED
    BY <2>1, <2>2
<1>4. ASSUME AllQuiet(q) PROVE Quiet(Head(q)) /\ AllQuiet(Tail(q))
  BY <1>1, <1>2, <1>4 DEF AllQuiet
<1> QED
  BY <1>3, <1>4 DEF Tells

\* The panel shows what the watch has been told last.
Shows(i) ==
    label[i] = reported[i] /\ enabled[i] = (reported[i] \in Allowed(i))

\* Only a built tab is watched.
WatchInv == \A i \in Tabs : watch[i] # "none" => tab[i] = "device"

\* The state that a watched tab has been told is on its way, or it is shown and nothing
\* on its way will disturb that.
Tracks(i) ==
    watch[i] = "on" =>
        \/ Tells(signals[i], reported[i])
        \/ AllQuiet(signals[i]) /\ Shows(i)

ShowInv == PanelTypeOK /\ WatchInv /\ \A i \in Tabs : Tracks(i)

LEMMA InitShowInv == PanelInit => ShowInv
BY PanelInitTypes DEF PanelInit, ShowInv, WatchInv, Tracks

\* Neither the panel's label and button of tab i, nor what its watch has been told, is
\* changed.
Keeps(i) ==
    /\ watch'[i] = watch[i] /\ reported'[i] = reported[i] /\ label'[i] = label[i]
    /\ enabled'[i] = enabled[i]

LEMMA OtherTabTracks ==
    ASSUME NEW i \in Tabs, Tracks(i), Keeps(i), signals'[i] = signals[i]
    PROVE  Tracks(i)'
BY DEF Tracks, Shows, Keeps, Allowed

LEMMA QuietSignalTracks ==
    ASSUME NEW i \in Tabs, NEW s \in Signals, Tracks(i), Keeps(i),
           signals[i] \in Seq(Signals), signals'[i] = Append(signals[i], s),
           watch[i] = "on" => Quiet(s)
    PROVE  Tracks(i)'
<1> SUFFICES ASSUME watch[i] = "on"
             PROVE  \/ Tells(signals'[i], reported[i])
                    \/ AllQuiet(signals'[i]) /\ Shows(i)
  BY DEF Tracks, Shows, Keeps, Allowed
<1> QED
  BY StateQueued DEF Tracks

\* A handled signal that says nothing of the device's state
LEMMA QuietHandled ==
    ASSUME PanelTypeOK, NEW i \in Tabs, Handle(i), Head(signals[i]) \notin Shown,
           Tracks(i), Keeps(i)
    PROVE  Tracks(i)'
<1>1. signals[i] \in Seq(Signals) /\ signals[i] # <<>> /\ signals'[i] = Tail(signals[i])
  BY HandleMoves
<1>2. reported[i] \in Shown
  BY DEF PanelTypeOK
<1> SUFFICES ASSUME watch[i] = "on"
             PROVE  \/ Tells(signals'[i], reported[i])
                    \/ AllQuiet(signals'[i]) /\ Shows(i)
  BY DEF Tracks, Shows, Keeps, Allowed
<1> QED
  BY <1>1, <1>2, StateHandled DEF Tracks

LEMMA StateShown ==
    ASSUME ShowInv, NEW i \in Tabs, OnState(i)
    PROVE  Tracks(i)'
<1>1. signals[i] \in Seq(Signals) /\ signals[i] # <<>> /\ signals'[i] = Tail(signals[i])
  BY HandleMoves DEF OnState, ShowInv
<1>2. /\ label'[i] = Head(signals[i])
      /\ enabled'[i] = (tab[i] = "device" /\ Head(signals[i]) \in Allowed(i))
  BY ZenonT(30) DEF OnState, ShowInv, PanelTypeOK
<1>3. UNCHANGED <<reported, watch, tab>>
  BY DEF OnState, listenVars
<1> SUFFICES ASSUME watch[i] = "on"
             PROVE  Tells(signals'[i], reported[i])
                    \/ (AllQuiet(signals'[i]) /\ Shows(i)')
  BY <1>3 DEF Tracks
<1>4. tab[i] = "device"
  BY DEF ShowInv, WatchInv
<1>5. CASE Tells(signals[i], reported[i]) /\ Head(signals[i]) = reported[i]
  <2>1. Shows(i)'
    <3>1. reported'[i] = Head(signals[i])
      BY <1>3, <1>5
    <3>2. (tab[i] = "device" /\ Head(signals[i]) \in Allowed(i))
             = (Head(signals[i]) \in Allowed(i))
      BY <1>4
    <3>3. enabled'[i] = (reported'[i] \in Allowed(i))
      BY <1>2, <3>1, <3>2, Zenon
    <3>4. label'[i] = reported'[i]
      BY <1>2, <3>1, Zenon
    <3> QED
      BY <3>3, <3>4, Zenon DEF Shows, Allowed
  <2>2. Tells(signals'[i], reported[i]) \/ AllQuiet(signals'[i])
    BY <1>1, <1>5, StateHandled
  <2> QED
    BY <2>1, <2>2
<1>6. CASE Tells(signals[i], reported[i]) /\ Head(signals[i]) # reported[i]
  BY <1>1, <1>6, StateHandled
<1>7. ~AllQuiet(signals[i])
  <2>1. Head(signals[i]) \in Shown
    BY DEF OnState
  <2> QED
    BY <1>1, <2>1, StateHandled DEF Quiet
<1> QED
  BY <1>5, <1>6, <1>7 DEF ShowInv, Tracks

LEMMA GuiTracks ==
    ASSUME ShowInv, NEW i \in Tabs, GuiStep(i)
    PROVE  WatchInv' /\ \A j \in Tabs : Tracks(j)'
<1>1. Handle(i) /\ UNCHANGED reported
  BY DEF GuiStep, OnPingFailed, OnPingAnswered, OnState, OnFrame, listenVars
<1>2. ASSUME NEW j \in Tabs, j # i
      PROVE  Keeps(j) /\ tab'[j] = tab[j] /\ signals'[j] = signals[j]
  <2>1. signals'[j] = signals[j]
    BY <1>1, <1>2, HandleMoves DEF ShowInv
  <2>2. CASE OnPingFailed(i)
    BY <1>2, <2>1, <2>2 DEF OnPingFailed, Keeps, listenVars, ShowInv, PanelTypeOK
  <2>3. CASE OnPingAnswered(i)
    BY <1>2, <2>1, <2>3 DEF OnPingAnswered, Keeps, ShowInv, PanelTypeOK
  <2>4. CASE OnState(i)
    BY <1>2, <2>1, <2>4, ZenonT(30) DEF OnState, Keeps, listenVars, ShowInv, PanelTypeOK
  <2>5. CASE OnFrame(i)
    BY <1>2, <2>1, <2>5 DEF OnFrame, Keeps, listenVars, ShowInv, PanelTypeOK
  <2> QED
    BY <2>2, <2>3, <2>4, <2>5 DEF GuiStep
<1>3. (watch'[i] # "none" => tab'[i] = "device") /\ Tracks(i)'
  <2>1. CASE OnPingFailed(i)
    <3>1. CASE tab[i] = "unreachable"
      <4>1. watch'[i] = "none"
        BY <2>1, <3>1 DEF OnPingFailed, ShowInv, WatchInv, PanelTypeOK, listenVars
      <4> QED
        BY <4>1 DEF Tracks
    <3>2. CASE tab[i] # "unreachable"
      <4>1. Keeps(i) /\ UNCHANGED <<tab, watch>>
        BY <2>1, <3>2 DEF OnPingFailed, Keeps, listenVars
      <4>2. Head(signals[i]) \notin Shown
        BY <2>1, PanelAssumption DEF OnPingFailed, Shown
      <4> QED
        BY <1>1, <4>1, <4>2, QuietHandled DEF ShowInv, WatchInv
    <3> QED
      BY <3>1, <3>2
  <2>2. CASE OnPingAnswered(i)
    <3>1. /\ tab'[i] = "device"
          /\ watch'[i] = IF tab[i] = "unreachable" THEN "first" ELSE watch[i]
          /\ UNCHANGED <<reported, label, enabled>>
          /\ Head(signals[i]) \notin Shown
      BY <2>2, PanelAssumption DEF OnPingAnswered, ShowInv, PanelTypeOK, Shown
    <3>2. CASE tab[i] = "unreachable"
      BY <3>1, <3>2 DEF Tracks
    <3>3. CASE tab[i] # "unreachable"
      <4>1. Keeps(i)
        BY <3>1, <3>3 DEF Keeps
      <4> QED
        BY <1>1, <3>1, <4>1, QuietHandled DEF ShowInv
    <3> QED
      BY <3>2, <3>3
  <2>3. CASE OnState(i)
    BY <2>3, StateShown DEF OnState, ShowInv, WatchInv, listenVars
  <2>4. CASE OnFrame(i)
    <3>1. Keeps(i) /\ UNCHANGED <<tab, watch>>
      BY <2>4 DEF OnFrame, Keeps, listenVars
    <3>2. Head(signals[i]) \notin Shown
      BY <2>4, PanelAssumption DEF OnFrame, Shown
    <3> QED
      BY <1>1, <3>1, <3>2, QuietHandled DEF ShowInv, WatchInv
  <2> QED
    BY <2>1, <2>2, <2>3, <2>4 DEF GuiStep
<1>4. ASSUME NEW j \in Tabs, j # i
      PROVE  (watch'[j] # "none" => tab'[j] = "device") /\ Tracks(j)'
  <2>1. Keeps(j) /\ tab'[j] = tab[j] /\ signals'[j] = signals[j] /\ watch'[j] = watch[j]
    BY <1>2, <1>4 DEF Keeps
  <2>2. Tracks(j)'
    BY <2>1, OtherTabTracks DEF ShowInv
  <2> QED
    BY <2>1, <2>2 DEF ShowInv, WatchInv
<1> QED
  BY <1>3, <1>4 DEF WatchInv

\* A thread's signal that is no state
LEMMA QuietEmitTracks ==
    ASSUME ShowInv, NEW i \in Tabs, NEW s \in Signals,
           signals' = [signals EXCEPT ![i] = Append(@, s)],
           watch[i] = "on" => Quiet(s),
           UNCHANGED <<watch, reported, tab, label, enabled>>
    PROVE  WatchInv' /\ \A j \in Tabs : Tracks(j)'
<1>1. \A j \in Tabs : Keeps(j)
  BY DEF Keeps
<1>2. /\ \A j \in Tabs : signals[j] \in Seq(Signals)
      /\ \A j \in Tabs : signals'[j] = IF j = i THEN Append(signals[j], s) ELSE signals[j]
  BY DEF ShowInv, PanelTypeOK, Signals
<1>3. Tracks(i)'
  BY <1>1, <1>2, QuietSignalTracks DEF ShowInv
<1>4. ASSUME NEW j \in Tabs, j # i PROVE Tracks(j)'
  <2>1. signals'[j] = signals[j]
    BY <1>2, <1>4
  <2> QED
    BY <1>1, <2>1, OtherTabTracks DEF ShowInv
<1>5. WatchInv'
  BY DEF ShowInv, WatchInv
<1> QED
  BY <1>3, <1>4, <1>5

LEMMA ReportTracks ==
    ASSUME ShowInv, NEW i \in Tabs, FirstValue(i) \/ StateEvent(i)
    PROVE  WatchInv' /\ \A j \in Tabs : Tracks(j)'
<1>1. device[i] \in Signals
  BY DEF ShowInv, PanelTypeOK, Signals
<1>2. /\ watch' = [watch EXCEPT ![i] = "on"] /\ UNCHANGED <<tab, label, enabled>>
      /\ signals' = [signals EXCEPT ![i] = Append(@, device[i])] /\ watch[i] # "none"
      /\ reported' = [reported EXCEPT ![i] = device[i]]
  BY DEF FirstValue, StateEvent, Report, Emit, widgetVars, ShowInv, PanelTypeOK
<1>3. /\ watch \in [Tabs -> {"none", "first", "on"}] /\ reported \in [Tabs -> Shown]
      /\ signals \in [Tabs -> Seq(Signals)]
  BY DEF ShowInv, PanelTypeOK, Signals
<1>4. Tells(signals'[i], reported'[i])
  <2>1. signals'[i] = Append(signals[i], device[i]) /\ reported'[i] = device[i]
    BY <1>2, <1>3
  <2> QED
    BY <1>1, <1>3, <2>1, StateQueued
<1>5. ASSUME NEW j \in Tabs, j # i PROVE Tracks(j)'
  <2>1. Keeps(j) /\ signals'[j] = signals[j]
    BY <1>2, <1>3, <1>5 DEF Keeps
  <2> QED
    BY <2>1, OtherTabTracks DEF ShowInv
<1>6. WatchInv'
  BY <1>2, <1>3 DEF ShowInv, WatchInv
<1> QED
  BY <1>4, <1>5, <1>6 DEF Tracks

LEMMA NextShowInv == ShowInv /\ [PanelNext]_panelVars => ShowInv'
<1> SUFFICES ASSUME ShowInv, [PanelNext]_panelVars
             PROVE  WatchInv' /\ \A j \in Tabs : Tracks(j)'
  BY PanelNextTypes DEF ShowInv
<1>1. CASE UNCHANGED <<watch, reported, signals, tab, label, enabled>>
  <2>1. \A j \in Tabs : Keeps(j) /\ signals'[j] = signals[j]
    BY <1>1 DEF Keeps
  <2>2. \A j \in Tabs : Tracks(j)'
    BY <2>1, OtherTabTracks DEF ShowInv
  <2> QED
    BY <1>1, <2>2 DEF ShowInv, WatchInv
<1>2. ASSUME NEW i \in Tabs, PingEnds(i)
      PROVE  WatchInv' /\ \A j \in Tabs : Tracks(j)'
  <2>1. UNCHANGED <<watch, reported, tab, label, enabled>>
    BY <1>2 DEF PingEnds, listenVars, widgetVars
  <2>2. PICK s \in Pinged :
           \/ signals' = [signals EXCEPT ![i] = Append(@, s)]
           \/ OddErrors /\ signals' = signals
    BY <1>2, PingEmits, Zenon
  <2>3. s \in Signals /\ Quiet(s)
    BY PanelAssumption DEF Signals, Quiet, Pinged, Shown
  <2>4. CASE signals' = [signals EXCEPT ![i] = Append(@, s)]
    BY <2>1, <2>3, <2>4, QuietEmitTracks
  <2> QED
    BY <1>1, <2>1, <2>2, <2>4
<1>3. ASSUME NEW i \in Tabs, FirstFrame(i) \/ CameraPushes(i)
      PROVE  WatchInv' /\ \A j \in Tabs : Tracks(j)'
  <2>1. "frame" \in Signals /\ Quiet("frame")
    BY PanelAssumption DEF Signals, Quiet, Shown
  <2>2. /\ UNCHANGED <<watch, reported, tab, label, enabled>>
        /\ \/ signals' = [signals EXCEPT ![i] = Append(@, "frame")]
           \/ UNCHANGED signals
    BY <1>3 DEF FirstFrame, CameraPushes, Emit, listenVars, widgetVars
  <2> QED
    BY <1>1, <2>1, <2>2, QuietEmitTracks
<1>4. CASE RetryUnreachable \/ Answer \/ CommandReturns \/ UNCHANGED panelVars
  BY <1>1, <1>4 DEF RetryUnreachable, Answer, CommandReturns, panelVars, listenVars, widgetVars
<1>5. CASE \E i \in Tabs : \/ RetryNow(i) \/ Click(i)
                           \/ \E now \in Shown : DeviceChanges(i, now)
  BY <1>1, <1>5 DEF RetryNow, Click, DeviceChanges, listenVars, widgetVars
<1> QED
  BY <1>2, <1>3, <1>4, <1>5, GuiTracks, ReportTracks DEF PanelNext

\* A frame comes to a built tab only.
NoFrame(q) == \A k \in DOMAIN q : q[k] # "frame"

PictureInv ==
    \A i \in Tabs :
        /\ tab[i] # "device" =>
              image[i] = "none" /\ picture[i] = "none" /\ NoFrame(signals[i])
        /\ picture[i] = "live" => label[i] = "ON"

LEMMA FrameQueued ==
    ASSUME NEW q \in Seq(Signals), NoFrame(q)
    PROVE  /\ \A s \in Signals \ {"frame"} : NoFrame(Append(q, s))
           /\ q # <<>> => Head(q) # "frame" /\ NoFrame(Tail(q))
<1>1. ASSUME NEW s \in Signals \ {"frame"} PROVE NoFrame(Append(q, s))
  <2>1. /\ Len(q) \in Nat /\ DOMAIN q = 1..Len(q)
        /\ DOMAIN Append(q, s) = 1..(Len(q) + 1) /\ Append(q, s)[Len(q) + 1] = s
        /\ \A k \in 1..Len(q) : Append(q, s)[k] = q[k]
    BY QueueMoves
  <2>2. \A k \in DOMAIN Append(q, s) : k \in DOMAIN q \/ k = Len(q) + 1
    BY <2>1
  <2> QED
    BY <2>1, <2>2 DEF NoFrame
<1>2. ASSUME q # <<>> PROVE Head(q) # "frame" /\ NoFrame(Tail(q))
  <2>1. /\ Len(q) \in Nat /\ DOMAIN q = 1..Len(q) /\ Len(q) >= 1 /\ Head(q) = q[1]
        /\ DOMAIN Tail(q) = 1..(Len(q) - 1)
        /\ \A k \in 1..(Len(q) - 1) : Tail(q)[k] = q[k + 1]
    BY <1>2, QueueMoves
  <2>2. \A k \in DOMAIN Tail(q) : k + 1 \in DOMAIN q /\ Tail(q)[k] = q[k + 1]
    BY <2>1
  <2> QED
    BY <2>1, <2>2 DEF NoFrame
<1> QED
  BY <1>1, <1>2

LEMMA InitPictureInv == PanelInit => PictureInv
<1> SUFFICES ASSUME PanelInit PROVE PictureInv
  OBVIOUS
<1>1. /\ image = [i \in Tabs |-> "none"] /\ picture = [i \in Tabs |-> "none"]
      /\ signals = [i \in Tabs |-> <<>>]
  BY DEF PanelInit
<1>2. NoFrame(<<>>)
  BY DEF NoFrame
<1> QED
  BY <1>1, <1>2 DEF PictureInv

\* A signal that is no frame, or that comes to a built tab
LEMMA EmitKeepsPictureInv ==
    ASSUME PanelTypeOK, PictureInv, NEW i \in Tabs, NEW s \in Signals,
           signals' = [signals EXCEPT ![i] = Append(@, s)],
           s # "frame" \/ tab[i] = "device",
           UNCHANGED <<tab, picture, label>>,
           \A j \in Tabs : image[j] = "none" => image'[j] = "none"
    PROVE  PictureInv'
<1>1. /\ \A j \in Tabs : signals[j] \in Seq(Signals)
      /\ \A j \in Tabs : signals'[j] = IF j = i THEN Append(signals[j], s) ELSE signals[j]
  BY DEF PanelTypeOK, Signals
<1>2. ASSUME NEW j \in Tabs, tab[j] # "device" PROVE NoFrame(signals'[j])
  <2>1. NoFrame(signals[j])
    BY <1>2 DEF PictureInv
  <2> QED
    BY <1>1, <1>2, <2>1, FrameQueued
<1> QED
  BY <1>2 DEF PictureInv

LEMMA GuiKeepsPictureInv ==
    ASSUME PanelTypeOK, PictureInv, NEW i \in Tabs, GuiStep(i)
    PROVE  PictureInv'
<1>1. /\ signals[i] \in Seq(Signals) /\ signals[i] # <<>> /\ signals'[i] = Tail(signals[i])
      /\ \A j \in Tabs : j # i => signals'[j] = signals[j]
  BY HandleMoves DEF GuiStep, OnPingFailed, OnPingAnswered, OnState, OnFrame
<1>2. ASSUME NEW j \in Tabs, tab[j] # "device" PROVE NoFrame(signals'[j])
  <2>1. NoFrame(signals[j])
    BY <1>2 DEF PictureInv
  <2> QED
    BY <1>1, <2>1, FrameQueued
<1>3. Head(signals[i]) = "frame" => tab[i] = "device"
  BY <1>1, FrameQueued DEF PictureInv
<1>4. CASE OnPingFailed(i)
  <2>1. UNCHANGED <<tab, image, picture>>
    BY <1>4 DEF OnPingFailed, listenVars
  <2>2. ASSUME NEW j \in Tabs, picture[j] = "live" PROVE label'[j] = label[j]
    BY <1>4, <2>2 DEF OnPingFailed, PictureInv, PanelTypeOK
  <2> QED
    BY <1>2, <2>1, <2>2 DEF PictureInv
<1>5. CASE OnPingAnswered(i)
  <2>1. UNCHANGED <<label, picture>>
    BY <1>5 DEF OnPingAnswered
  <2>2. ASSUME NEW j \in Tabs, tab'[j] # "device"
        PROVE  tab[j] # "device" /\ image'[j] = image[j]
    BY <1>5, <2>2 DEF OnPingAnswered, PanelTypeOK
  <2> QED
    BY <1>2, <2>1, <2>2 DEF PictureInv
<1>6. CASE OnState(i)
  <2>1. UNCHANGED <<tab, image>>
    BY <1>6 DEF OnState, listenVars
  <2>2. /\ label' = [label EXCEPT ![i] = Head(signals[i])]
        /\ picture' = [picture EXCEPT ![i] =
                         IF Head(signals[i]) # "ON" \/ @ = "none" THEN "none" ELSE "live"]
    BY <1>6 DEF OnState
  <2>3. label \in [Tabs -> Shown \cup {Nothing}]
        /\ picture \in [Tabs -> {"none", "live", "stray"}]
    BY DEF PanelTypeOK
  <2>4. ASSUME NEW j \in Tabs
        PROVE  /\ picture[j] = "none" => picture'[j] = "none"
               /\ picture'[j] = "live" => label'[j] = "ON"
    BY <2>2, <2>3 DEF PictureInv
  <2> QED
    BY <1>2, <2>1, <2>4 DEF PictureInv
<1>7. CASE OnFrame(i)
  <2>1. UNCHANGED <<tab, image, label>> /\ tab[i] = "device"
    BY <1>3, <1>7 DEF OnFrame, listenVars
  <2>2. picture' = [picture EXCEPT ![i] = IF label[i] = "ON" THEN "live" ELSE "stray"]
        /\ picture \in [Tabs -> {"none", "live", "stray"}]
    BY <1>7 DEF OnFrame, PanelTypeOK
  <2>3. ASSUME NEW j \in Tabs
        PROVE  /\ tab[j] # "device" => picture'[j] = picture[j]
               /\ picture'[j] = "live" => label[j] = "ON"
    BY <2>1, <2>2 DEF PictureInv
  <2> QED
    BY <1>2, <2>1, <2>3 DEF PictureInv
<1> QED
  BY <1>4, <1>5, <1>6, <1>7 DEF GuiStep

LEMMA NextPictureInv == PanelTypeOK /\ PictureInv /\ [PanelNext]_panelVars => PictureInv'
<1> SUFFICES ASSUME PanelTypeOK, PictureInv, [PanelNext]_panelVars PROVE PictureInv'
  OBVIOUS
<1>1. CASE UNCHANGED <<tab, image, picture, label, signals>>
  BY <1>1 DEF PictureInv
<1>2. ASSUME NEW i \in Tabs, PingEnds(i) PROVE PictureInv'
  <2>1. UNCHANGED <<tab, image, picture, label>>
    BY <1>2 DEF PingEnds, listenVars, widgetVars
  <2>2. PICK s \in Pinged :
           \/ signals' = [signals EXCEPT ![i] = Append(@, s)]
           \/ OddErrors /\ signals' = signals
    BY <1>2, PingEmits, Zenon
  <2>3. s \in Signals /\ s # "frame"
    BY DEF Signals, Pinged
  <2>4. CASE signals' = [signals EXCEPT ![i] = Append(@, s)]
    BY <2>1, <2>3, <2>4, EmitKeepsPictureInv
  <2> QED
    BY <1>1, <2>1, <2>2, <2>4
<1>3. ASSUME NEW i \in Tabs, FirstValue(i) \/ StateEvent(i) PROVE PictureInv'
  <2>1. UNCHANGED <<tab, image, picture, label>>
    BY <1>3 DEF FirstValue, StateEvent, widgetVars
  <2>2. signals' = [signals EXCEPT ![i] = Append(@, device[i])]
    BY <1>3 DEF FirstValue, StateEvent, Report, Emit
  <2>3. device[i] \in Signals /\ device[i] # "frame"
    BY PanelAssumption DEF PanelTypeOK, Signals, Shown
  <2> QED
    BY <2>1, <2>2, <2>3, EmitKeepsPictureInv
<1>4. ASSUME NEW i \in Tabs, FirstFrame(i) \/ CameraPushes(i) PROVE PictureInv'
  <2>1. UNCHANGED <<tab, picture, label>> /\ image[i] # "none"
    BY <1>4 DEF FirstFrame, CameraPushes, widgetVars
  <2>2. tab[i] = "device" /\ "frame" \in Signals
    BY <2>1 DEF PictureInv, Signals
  <2>3. \A j \in Tabs : tab[j] # "device" => image'[j] = image[j]
    BY <1>4, <2>2 DEF FirstFrame, CameraPushes, listenVars, PanelTypeOK
  <2>4. \A j \in Tabs : image[j] = "none" => image'[j] = "none"
    BY <1>4, <2>1 DEF FirstFrame, CameraPushes, listenVars, PanelTypeOK
  <2>5. CASE Emit(i, "frame")
    BY <2>1, <2>2, <2>4, <2>5, EmitKeepsPictureInv DEF Emit
  <2>6. CASE UNCHANGED signals
    BY <2>1, <2>3, <2>6 DEF PictureInv
  <2> QED
    BY <1>4, <2>5, <2>6 DEF FirstFrame, CameraPushes
<1>5. CASE RetryUnreachable \/ Answer \/ CommandReturns \/ UNCHANGED panelVars
  BY <1>1, <1>5 DEF RetryUnreachable, Answer, CommandReturns, panelVars, listenVars, widgetVars
<1>6. CASE \E i \in Tabs : \/ RetryNow(i) \/ Click(i)
                           \/ \E now \in Shown : DeviceChanges(i, now)
  BY <1>1, <1>6 DEF RetryNow, Click, DeviceChanges, listenVars, widgetVars
<1> QED
  BY <1>2, <1>3, <1>4, <1>5, <1>6, GuiKeepsPictureInv DEF PanelNext

\* Once nothing is on its way to a built and watched tab, it shows its device's state and
\* the buttons of that state, and no frame that was there under ON is left when the label
\* is no longer ON: for any tabs, any order of pings, states and frames, a camera's frames
\* before, between and after its states, and whatever ends a ping.
THEOREM PanelShowsItsDevices == PanelSpec => []PanelShowsDevice
<1>1. ShowInv /\ PictureInv => PanelShowsDevice
  <2> SUFFICES ASSUME ShowInv, NEW i \in Tabs, watch[i] = "on", signals[i] = <<>>,
                      reported[i] = device[i]
               PROVE  tab[i] = "device" /\ Shows(i)
    BY DEF PanelShowsDevice, Shows, PictureInv
  <2>1. DOMAIN signals[i] = {}
    OBVIOUS
  <2> QED
    BY <2>1 DEF ShowInv, WatchInv, Tracks, Tells
<1>2. ShowInv /\ PictureInv /\ [PanelNext]_panelVars => (ShowInv /\ PictureInv)'
  BY NextShowInv, NextPictureInv DEF ShowInv
<1> QED
  BY <1>1, <1>2, InitShowInv, InitPictureInv, PTL DEF PanelSpec

-----------------------------------------------------------------------------
(* What the panel sends *)

ClickInv ==
    /\ PanelTypeOK
    /\ \A i \in Tabs : enabled[i] => tab[i] = "device" /\ label[i] \in Allowed(i)
    /\ dialog # Nothing => dialog \in Confirmed
    /\ command # Nothing => command \in Confirmed \/ enabled[command]

LEMMA InitClickInv == PanelInit => ClickInv
BY PanelInitTypes DEF PanelInit, ClickInv

LEMMA StateEnables ==
    ASSUME ClickInv, NEW i \in Tabs, OnState(i)
    PROVE  \A j \in Tabs : enabled'[j] => tab'[j] = "device" /\ label'[j] \in Allowed(j)
<1>1. UNCHANGED tab
  BY DEF OnState
<1>2. /\ label'[i] = Head(signals[i])
      /\ enabled'[i] = (tab[i] = "device" /\ Head(signals[i]) \in Allowed(i))
  BY ZenonT(30) DEF OnState, ClickInv, PanelTypeOK
<1>3. ASSUME NEW j \in Tabs, j # i
      PROVE  label'[j] = label[j] /\ enabled'[j] = enabled[j]
  BY <1>3, ZenonT(30) DEF OnState, ClickInv, PanelTypeOK
<1>4. enabled'[i] => tab'[i] = "device" /\ label'[i] \in Allowed(i)
  BY <1>1, <1>2, Zenon
<1>5. ASSUME NEW j \in Tabs, j # i, enabled'[j]
      PROVE  tab'[j] = "device" /\ label'[j] \in Allowed(j)
  BY <1>1, <1>3, <1>5 DEF ClickInv
<1> QED
  BY <1>4, <1>5

LEMMA NextClickInv == ClickInv /\ [PanelNext]_panelVars => ClickInv'
<1> SUFFICES ASSUME ClickInv, [PanelNext]_panelVars
             PROVE  /\ \A i \in Tabs : enabled'[i] =>
                                       tab'[i] = "device" /\ label'[i] \in Allowed(i)
                    /\ dialog' # Nothing => dialog' \in Confirmed
                    /\ command' # Nothing => command' \in Confirmed \/ enabled'[command']
  BY PanelNextTypes DEF ClickInv, Allowed
<1>1. CASE UNCHANGED <<widgetVars, clickVars>>
  BY <1>1 DEF ClickInv, widgetVars, clickVars
<1>2. ASSUME NEW i \in Tabs, Click(i)
      PROVE  /\ UNCHANGED widgetVars
             /\ dialog' # Nothing => dialog' \in Confirmed
             /\ command' # Nothing => command' \in Confirmed \/ enabled[command']
  BY <1>2 DEF Click, GuiFree, ClickInv
<1>3. CASE Answer \/ CommandReturns
  BY <1>3 DEF Answer, CommandReturns, ClickInv, GuiFree, widgetVars
<1>4. ASSUME NEW i \in Tabs, GuiStep(i)
      PROVE  /\ command' = Nothing /\ dialog' = dialog
             /\ \A j \in Tabs : enabled'[j] =>
                                tab'[j] = "device" /\ label'[j] \in Allowed(j)
  <2>1. command' = Nothing /\ dialog' = dialog
    BY <1>4 DEF GuiStep, OnPingFailed, OnPingAnswered, OnState, OnFrame, Handle, GuiFree,
       clickVars
  <2>2. CASE OnPingFailed(i)
    <3>1. UNCHANGED <<tab, enabled>>
      BY <2>2 DEF OnPingFailed
    <3>2. ASSUME NEW j \in Tabs, enabled[j] PROVE label'[j] = label[j]
      BY <2>2, <3>2 DEF OnPingFailed, ClickInv, PanelTypeOK
    <3> QED
      BY <2>1, <3>1, <3>2 DEF ClickInv
  <2>3. CASE OnPingAnswered(i)
    BY <2>1, <2>3 DEF OnPingAnswered, ClickInv, PanelTypeOK
  <2>4. CASE OnState(i)
    BY <2>1, <2>4, StateEnables
  <2>5. CASE OnFrame(i)
    BY <2>1, <2>5 DEF OnFrame, ClickInv
  <2> QED
    BY <1>4, <2>2, <2>3, <2>4, <2>5 DEF GuiStep
<1>5. \/ UNCHANGED <<widgetVars, clickVars>> \/ Answer \/ CommandReturns
      \/ \E i \in Tabs : GuiStep(i) \/ Click(i)
  BY DEF PanelNext, panelVars, RetryUnreachable, RetryNow, PingEnds, FirstValue,
     StateEvent, FirstFrame, CameraPushes, DeviceChanges
<1>6. CASE \E i \in Tabs : Click(i)
  BY <1>2, <1>6 DEF ClickInv, widgetVars
<1>7. CASE \E i \in Tabs : GuiStep(i)
  BY <1>4, <1>7 DEF ClickInv
<1> QED
  BY <1>1, <1>3, <1>5, <1>6, <1>7

\* A command that asks no question is under way only in a state its action allows, as
\* far as the panel shows it.
CommandsAreAllowed ==
    \A i \in Tabs \ Confirmed :
        command = i => tab[i] = "device" /\ label[i] \in Allowed(i)

\* The GUI thread handles no signal between a click and the command's return, so that the
\* label and the button cannot part from it: what the question of a dangerous command,
\* which runs the event loop, loses (lines 347-363; CommandFollowsLabel).
THEOREM PanelCommandsAreAllowed == PanelSpec => []CommandsAreAllowed
<1>1. ClickInv => CommandsAreAllowed
  BY PanelAssumption DEF ClickInv, CommandsAreAllowed
<1> QED
  BY <1>1, InitClickInv, NextClickInv, PTL DEF PanelSpec

=============================================================================
