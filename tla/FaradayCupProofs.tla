-------------------------- MODULE FaradayCupProofs --------------------------
(***************************************************************************)
(* Theorems about the Faraday cup, for any clients, connections and cap of *)
(* the backoff, and for requests that overlap each other and Inits in any  *)
(* way.                                                                    *)
(***************************************************************************)
EXTENDS FaradayCup, TLAPS

-----------------------------------------------------------------------------
(* Types *)

LabelsOf(t) ==
    IF t = Poll THEN PollSteps \cup {"none", "failed"}
    ELSE IF t = Init_ THEN InitSteps \cup {"idle"}
    ELSE ClientSteps \cup {"unserved", "idle"}

PcTypeOK ==
    /\ pc \in [Tasks -> PollSteps \cup InitSteps \cup ClientSteps
                          \cup {"none", "failed", "idle", "unserved"}]
    /\ \A t \in Tasks : pc[t] \in LabelsOf(t)

CupTypeOK ==
    /\ state \in {"INIT", "ON", "FAULT"}
    /\ writer \in Links \cup {None}
    /\ lock \in [{0, 1} -> Tasks \cup {None}] /\ gen \in {0, 1} /\ straddled \in BOOLEAN
    /\ PcTypeOK
    /\ mine \in [Tasks -> {0, 1}]
    /\ conn \in [Tasks -> Links \cup {None}]
    /\ backoff \in 0..BACKOFF_CAP
    /\ zeroCheck \in BOOLEAN
    /\ link \in [Links -> {"none", "open", "dead"}]
    /\ peer \in {"up", "mute", "down"} /\ zch \in BOOLEAN /\ synced \in BOOLEAN

LEMMA TasksApart ==
    /\ Poll \in Tasks /\ Init_ \in Tasks /\ Clients \subseteq Tasks
    /\ Poll # Init_
    /\ \A c \in Clients : c # Poll /\ c # Init_
    /\ \A t \in Tasks : t # None
    /\ \A l \in Links : l # None
BY CupAssumption DEF Tasks

\* One task moves on.
LEMMA Moves ==
    ASSUME PcTypeOK, NEW t \in Tasks, NEW label \in LabelsOf(t),
           pc' = [pc EXCEPT ![t] = label]
    PROVE  PcTypeOK'
BY DEF PcTypeOK, LabelsOf

LEMMA ServingMoves ==
    ASSUME PcTypeOK, NEW f, f \in {[pc EXCEPT ![Init_] = "idle", ![Poll] = "sleep"],
                                   [pc EXCEPT ![Init_] = "idle", ![Poll] = "none"]},
           pc' = Serving(f)
    PROVE  PcTypeOK'
<1>1. \A t \in Tasks : f[t] \in LabelsOf(t)
  BY TasksApart DEF PcTypeOK, LabelsOf, PollSteps
<1>2. pc' = [t \in Tasks |-> IF f[t] = "unserved" THEN "idle" ELSE f[t]]
  BY DEF Serving
<1>3. \A t \in Tasks : pc'[t] \in LabelsOf(t)
  BY <1>1, <1>2, TasksApart DEF LabelsOf, PollSteps, InitSteps
<1> QED
  BY <1>2, <1>3 DEF PcTypeOK, LabelsOf

LEMMA ReadTypes ==
    ASSUME CupTypeOK, NEW t \in Clients \cup {Poll}, ReadStep(t)
    PROVE  CupTypeOK'
<1> USE CupAssumption DEF CupTypeOK, linkVars, peerVars, cupVars
<1>1. t \in Tasks /\ t # Init_
  BY TasksApart
<1>2. {"reply", "idle", "wantLink", "sleep", "failed"} \cap
          (IF t = Poll THEN {"reply", "wantLink", "sleep", "failed"} ELSE {"reply", "idle"})
        \subseteq LabelsOf(t)
  BY <1>1, TasksApart DEF LabelsOf, PollSteps, ClientSteps
<1>3. CASE ReadUnconnected(t)
  <2>1. PcTypeOK'
    BY <1>1, <1>2, <1>3, Moves DEF ReadUnconnected, Want, Release
  <2> QED
    BY <1>1, <1>3, <2>1 DEF ReadUnconnected, Want, Release, ReadBad
<1>4. CASE ReadSends(t)
  <2>1. PcTypeOK'
    BY <1>1, <1>2, <1>4, Moves DEF ReadSends, Take, Release
  <2> QED
    BY <1>1, <1>4, <2>1 DEF ReadSends, Take, Release
<1>5. CASE ReadReturns(t)
  <2>1. PcTypeOK'
    BY <1>1, <1>2, <1>5, Moves DEF ReadReturns, Release, AfterGoodRead
  <2> QED
    BY <1>1, <1>5, <2>1 DEF ReadReturns, Release, ReadGood
<1>6. CASE ReadGarbled(t)
  <2>1. PcTypeOK'
    BY <1>1, <1>2, <1>6, Moves DEF ReadGarbled, Release
  <2> QED
    BY <1>1, <1>6, <2>1 DEF ReadGarbled, Release
<1>7. CASE ReadFails(t)
  <2>1. PcTypeOK'
    BY <1>1, <1>2, <1>7, Moves DEF ReadFails, AfterBadRead
  <2> QED
    BY <1>1, <1>7, <2>1 DEF ReadFails, ReadBad
<1> QED
  BY <1>3, <1>4, <1>5, <1>6, <1>7 DEF ReadStep

LEMMA FinishTypes ==
    ASSUME CupTypeOK, NEW t \in Tasks, Finish(t)
    PROVE  /\ PcTypeOK'
           /\ lock' \in [{0, 1} -> Tasks \cup {None}]
           /\ gen' = gen /\ straddled' = straddled /\ mine' = mine
           /\ conn' \in [Tasks -> Links \cup {None}]
           /\ backoff' \in 0..BACKOFF_CAP
<1> USE CupAssumption DEF CupTypeOK
<1>1. PcTypeOK'
  <2>1. CASE t = Init_
    BY <2>1, ServingMoves DEF Finish
  <2>2. CASE t # Init_
    <3>1. (IF t = Poll THEN "backoff" ELSE "idle") \in LabelsOf(t)
      BY <2>2 DEF LabelsOf, PollSteps
    <3> QED
      BY <2>2, <3>1, Moves DEF Finish
  <2> QED
    BY <2>1, <2>2
<1> QED
  BY <1>1 DEF Finish

LEMMA ConnectTypes ==
    ASSUME CupTypeOK, NEW t \in Tasks, ConnectStep(t)
    PROVE  CupTypeOK'
<1> USE CupAssumption DEF CupTypeOK, linkVars, peerVars, cupVars
<1>1. {"dialling", "setup"} \subseteq LabelsOf(t)
  BY DEF LabelsOf, PollSteps, ClientSteps, InitSteps
<1>2. CASE ConnectDials(t)
  <2>1. PcTypeOK'
    BY <1>1, <1>2, Moves DEF ConnectDials, Take
  <2> QED
    BY <1>2, <2>1 DEF ConnectDials, Take, CloseLink
<1>3. CASE ConnectAccepted(t)
  <2>1. PcTypeOK'
    BY <1>1, <1>3, Moves DEF ConnectAccepted
  <2> QED
    BY <1>3, <2>1 DEF ConnectAccepted
<1>4. CASE ConnectRefused(t)
  BY <1>4, FinishTypes DEF ConnectRefused, StateAfterConnect
<1>5. CASE ConnectSetUp(t)
  BY <1>5, FinishTypes DEF ConnectSetUp, StateAfterConnect
<1>6. CASE ConnectLost(t)
  BY <1>6, FinishTypes DEF ConnectLost, StateAfterConnect
<1> QED
  BY <1>2, <1>3, <1>4, <1>5, <1>6 DEF ConnectStep

LEMMA ResetTypes ==
    ASSUME CupTypeOK, ResetFields
    PROVE  /\ gen' \in {0, 1} /\ gen' # gen /\ straddled' \in BOOLEAN
           /\ mine' \in [Tasks -> {0, 1}]
           /\ lock' \in [{0, 1} -> Tasks \cup {None}]
<1>1. gen' \in {0, 1} /\ gen' # gen /\ straddled' \in BOOLEAN
  <2>1. gen \in {0, 1} /\ gen' = 1 - gen
    BY DEF CupTypeOK, ResetFields
  <2>2. straddled' = ~Clean
    BY DEF ResetFields
  <2> QED
    BY <2>1, <2>2
<1>2. mine' = [mine EXCEPT ![Init_] = gen']
  BY DEF ResetFields
<1>3. lock' = [lock EXCEPT ![gen'] = None]
  BY DEF ResetFields
<1> QED
  BY <1>1, <1>2, <1>3 DEF CupTypeOK

LEMMA NextTypes ==
    ASSUME CupTypeOK, [Next]_vars
    PROVE  CupTypeOK'
<1> USE CupAssumption DEF CupTypeOK, linkVars, peerVars, cupVars, taskVars
<1>1. CASE PollWakes
  <2>1. {"wantLink", "wantRead"} \subseteq LabelsOf(Poll)
    BY DEF LabelsOf, PollSteps
  <2>2. PcTypeOK'
    BY <1>1, <2>1, TasksApart, Moves DEF PollWakes, Want
  <2> QED
    BY <1>1, <2>2 DEF PollWakes, Want
<1>2. ASSUME NEW c \in Clients, Request(c) PROVE CupTypeOK'
  <2>1. {"wantRead", "wantLink", "wantOn", "wantOff"} \subseteq LabelsOf(c)
    BY TasksApart DEF LabelsOf, ClientSteps
  <2>2. PcTypeOK'
    BY <1>2, <2>1, TasksApart, Moves DEF Request, Want
  <2> QED
    BY <1>2, <2>2 DEF Request, Want
<1>3. ASSUME NEW c \in Clients, ZeroCheck(c) PROVE CupTypeOK'
  <2>1. "idle" \in LabelsOf(c)
    BY TasksApart DEF LabelsOf
  <2>2. PcTypeOK'
    BY <1>3, <2>1, TasksApart, Moves DEF ZeroCheck
  <2> QED
    BY <1>3, <2>2 DEF ZeroCheck
<1>4. {"cancel", "wantClose", "closed", "reset", "idle", "wantLink"} \subseteq LabelsOf(Init_)
  BY TasksApart DEF LabelsOf, InitSteps
<1>5. CASE RequestInit
  <2>1. PcTypeOK'
    BY <1>4, <1>5, TasksApart, Moves DEF RequestInit
  <2> QED
    BY <1>5, <2>1 DEF RequestInit
<1>6. CASE DeleteCancels
  <2>1. PcTypeOK'
    BY <1>6, TasksApart DEF DeleteCancels, PcTypeOK, LabelsOf, InitSteps
  <2> QED
    BY <1>6, <2>1 DEF DeleteCancels
<1>7. CASE DeleteRaises
  <2>1. PcTypeOK'
    BY <1>4, <1>7, TasksApart, Moves DEF DeleteRaises
  <2> QED
    BY <1>7, <2>1 DEF DeleteRaises
<1>8. CASE DeleteCloses
  <2>1. PcTypeOK'
    BY <1>4, <1>8, TasksApart, Moves DEF DeleteCloses, Take
  <2> QED
    BY <1>8, <2>1, TasksApart DEF DeleteCloses, Take, CloseLink
<1>9. CASE DeleteEnds
  <2>1. PcTypeOK'
    BY <1>4, <1>9, TasksApart, Moves DEF DeleteEnds, Release
  <2> QED
    BY <1>9, <2>1 DEF DeleteEnds, Release
<1>10. CASE InitRefuses
  <2>1. PcTypeOK'
    BY <1>10, ServingMoves DEF InitRefuses
  <2> QED
    BY <1>10, <2>1, ResetTypes DEF InitRefuses, ResetFields
<1>11. CASE InitConnects
  <2>1. PcTypeOK'
    BY <1>11, TasksApart DEF InitConnects, PcTypeOK, LabelsOf, InitSteps
  <2> QED
    BY <1>11, <2>1, ResetTypes DEF InitConnects, ResetFields
<1>12. CASE PeerChanges \/ \E l \in Links : Collect(l)
  BY <1>12 DEF PeerChanges, Collect, PcTypeOK
<1>13. CASE UNCHANGED vars
  BY <1>13 DEF vars, PcTypeOK
<1> HIDE DEF CupTypeOK
<1>14. \A t \in Clients \cup {Poll} : ReadStep(t) => CupTypeOK'
  BY ReadTypes
<1>15. \A t \in Tasks : ConnectStep(t) => CupTypeOK'
  BY ConnectTypes
<1>16. CASE PollStep
  BY <1>1, <1>14, <1>15, <1>16, TasksApart DEF PollStep
<1>17. ASSUME NEW c \in Clients, ClientStep(c) PROVE CupTypeOK'
  BY <1>3, <1>14, <1>15, <1>17, TasksApart DEF ClientStep
<1>18. CASE InitStep
  BY <1>6, <1>7, <1>8, <1>9, <1>10, <1>11, <1>15, <1>18, TasksApart DEF InitStep
<1> QED
  BY <1>2, <1>5, <1>12, <1>13, <1>16, <1>17, <1>18 DEF Next

LEMMA InitTypes == Init => CupTypeOK
<1> SUFFICES ASSUME Init PROVE CupTypeOK
  OBVIOUS
<1>1. PcTypeOK
  <2>1. pc = [t \in Tasks |-> IF t = Poll THEN "none"
                              ELSE IF t = Init_ THEN "reset" ELSE "unserved"]
    BY TasksApart DEF Init
  <2> QED
    BY <2>1, TasksApart DEF PcTypeOK, LabelsOf, InitSteps
<1>2. backoff \in 0..BACKOFF_CAP
  BY CupAssumption DEF Init
<1>3. /\ lock \in [{0, 1} -> Tasks \cup {None}] /\ gen \in {0, 1}
      /\ mine \in [Tasks -> {0, 1}] /\ conn \in [Tasks -> Links \cup {None}]
      /\ link \in [Links -> {"none", "open", "dead"}]
  BY DEF Init
<1>4. straddled \in BOOLEAN /\ zeroCheck \in BOOLEAN /\ zch \in BOOLEAN /\ synced \in BOOLEAN
  BY DEF Init
<1> QED
  BY <1>1, <1>2, <1>3, <1>4 DEF Init, CupTypeOK

\* The device, its tasks, its lock objects and its connections keep their types.
THEOREM CupTypeCorrect == Spec => []TypeOK
<1>1. CupTypeOK => TypeOK
  BY TasksApart DEF CupTypeOK, PcTypeOK, LabelsOf, TypeOK
<1> QED
  BY <1>1, InitTypes, NextTypes, PTL DEF Spec


-----------------------------------------------------------------------------
(* The lock *)

BusyLabels == {"reply", "dialling", "setup", "closed"}
LockLabels == BusyLabels \cup {"wantRead", "wantLink", "wantOn", "wantOff", "wantClose"}

\* Who is in a round trip or a redial holds the lock object it uses, and nobody else
\* holds one.  Unless an Init has replaced the lock under a request, all use the lock
\* there is.
Held(g) == lock[g] # None => Busy(lock[g]) /\ mine[lock[g]] = g

LockInv ==
    /\ \A t \in Tasks : Busy(t) => lock[mine[t]] = t
    /\ \A g \in {0, 1} : Held(g)
    /\ straddled \/ \A t \in Tasks : pc[t] \in LockLabels => mine[t] = gen

CupInv == CupTypeOK /\ NoPollDuringInit /\ LockInv

LEMMA OneBusy ==
    ASSUME CupInv, NEW t \in Tasks, NEW u \in Tasks, Busy(t), Busy(u)
    PROVE  t = u \/ (straddled /\ mine[t] # mine[u])
BY DEF CupInv, LockInv, LockLabels, BusyLabels, Busy

\* t moves on to label: it goes or comes from where it has no lock, takes its lock,
\* keeps it, or lets it go.
LEMMA LockMoves ==
    ASSUME CupTypeOK, LockInv, NEW t \in Tasks, NEW label,
           pc' = [pc EXCEPT ![t] = label],
           UNCHANGED <<gen, straddled>>,
           \/ mine' = mine /\ (label \in LockLabels => pc[t] \in LockLabels)
           \/ mine' = [mine EXCEPT ![t] = gen] /\ label \notin BusyLabels,
           \/ ~Busy(t) /\ label \notin BusyLabels /\ lock' = lock
           \/ /\ label \in BusyLabels /\ mine' = mine
              /\ lock[mine[t]] = None /\ lock' = [lock EXCEPT ![mine[t]] = t]
           \/ Busy(t) /\ label \in BusyLabels /\ lock' = lock
           \/ /\ lock[mine[t]] \in {t, None} /\ label \notin BusyLabels
              /\ lock' = [lock EXCEPT ![mine[t]] = None]
    PROVE  LockInv'
<1>1. /\ pc'[t] = label /\ mine'[t] \in {mine[t], gen}
      /\ \A u \in Tasks : u # t => pc'[u] = pc[u] /\ mine'[u] = mine[u]
  BY DEF CupTypeOK, PcTypeOK
<1>2. Busy(t)' <=> label \in BusyLabels
  BY <1>1 DEF Busy, BusyLabels
<1>3. \A u \in Tasks : u # t => (Busy(u)' <=> Busy(u))
  BY <1>1 DEF Busy
<1>4. \A g \in {0, 1} : lock[g] \in Tasks \cup {None}
  BY DEF CupTypeOK
<1>5. mine[t] \in {0, 1} /\ lock \in [{0, 1} -> Tasks \cup {None}]
  BY DEF CupTypeOK
<1>6. \A u \in Tasks : Busy(u)' => lock'[mine'[u]] = u
  <2> SUFFICES ASSUME NEW u \in Tasks, Busy(u)' PROVE lock'[mine'[u]] = u
    OBVIOUS
  <2>1. CASE u = t
    BY <1>1, <1>2, <1>5, <2>1 DEF LockInv, Busy, BusyLabels
  <2>2. CASE u # t
    <3>1. lock[mine[u]] = u /\ mine'[u] = mine[u] /\ mine[u] \in {0, 1}
      BY <1>1, <1>3, <2>2 DEF LockInv, CupTypeOK
    <3> QED
      BY <1>5, <2>2, <3>1, TasksApart
  <2> QED
    BY <2>1, <2>2
<1>7. \A g \in {0, 1} : Held(g)'
  <2> SUFFICES ASSUME NEW g \in {0, 1}, lock'[g] # None PROVE Held(g)'
    BY DEF Held
  <2>1. CASE lock'[g] = t
    <3>1. Busy(t) /\ g # mine[t] => FALSE
      <4>1. Busy(t) /\ g # mine[t] => lock[g] = t
        BY <1>5, <2>1
      <4> QED
        BY <4>1, TasksApart DEF LockInv, Held
    <3>2. ~Busy(t) => lock[g] # t
      BY TasksApart DEF LockInv, Held
    <3>3. lock[mine[t]] = t => Busy(t)
      BY <1>5, TasksApart DEF LockInv, Held
    <3>4. label \in BusyLabels /\ mine'[t] = mine[t] /\ g = mine[t]
      BY <1>1, <1>5, <2>1, <3>1, <3>2, <3>3, TasksApart
    <3> QED
      BY <1>2, <2>1, <3>4 DEF Held, Busy
  <2>2. CASE lock'[g] # t
    <3>1. lock'[g] = lock[g] /\ lock[g] \in Tasks
      BY <1>4, <1>5, <2>2 DEF CupTypeOK
    <3> QED
      BY <1>1, <1>3, <2>2, <3>1 DEF LockInv, Held, Busy
  <2> QED
    BY <2>1, <2>2
<1>8. straddled' \/ \A u \in Tasks : pc'[u] \in LockLabels => mine'[u] = gen'
  <2>1. CASE straddled
    BY <2>1
  <2>2. CASE ~straddled
    <3>1. \A u \in Tasks : u # t /\ pc'[u] \in LockLabels => mine'[u] = gen'
      BY <1>1, <2>2 DEF LockInv
    <3>2. pc'[t] \in LockLabels => mine'[t] = gen'
      BY <1>1, <2>2 DEF LockInv, CupTypeOK
    <3> QED
      BY <3>1, <3>2
  <2> QED
    BY <2>1, <2>2
<1> QED
  BY <1>6, <1>7, <1>8 DEF LockInv

\* A client or the poll task that moves on does not make the poll task live.
LEMMA PollStaysOver ==
    ASSUME CupInv, NEW t \in Clients \cup {Poll}, NEW label,
           pc' = [pc EXCEPT ![t] = label], t = Poll => pc[Poll] # "none"
    PROVE  NoPollDuringInit'
<1>1. pc'[Init_] = pc[Init_] /\ (t # Poll => pc'[Poll] = pc[Poll])
  BY TasksApart DEF CupInv, CupTypeOK, PcTypeOK
<1> QED
  BY <1>1 DEF CupInv, NoPollDuringInit

LEMMA ReadCupInv ==
    ASSUME CupInv, NEW t \in Clients \cup {Poll}, ReadStep(t)
    PROVE  CupInv'
<1> USE DEF CupInv
<1>1. t \in Tasks
  BY TasksApart
<1>2. CupTypeOK'
  BY ReadTypes
<1>3. pc[t] \in {"wantRead", "reply"}
  BY DEF ReadStep, ReadUnconnected, ReadSends, ReadReturns, ReadGarbled, ReadFails
<1>4. NoPollDuringInit'
  <2>1. PICK label : pc' = [pc EXCEPT ![t] = label]
    BY DEF ReadStep, ReadUnconnected, ReadSends, ReadReturns, ReadGarbled, ReadFails,
           Want, Take, Release
  <2> QED
    BY <1>3, <2>1, PollStaysOver
<1>5. LockInv'
  <2>1. pc[t] = "reply" => Busy(t) /\ lock[mine[t]] = t
    BY <1>1 DEF LockInv, Busy
  <2>2. pc[t] = "wantRead" => ~Busy(t)
    BY DEF Busy
  <2>3. CASE ReadUnconnected(t)
    <3>1. pc[t] = "wantRead" /\ lock[mine[t]] = None
      BY <2>3 DEF ReadUnconnected, Free
    <3>2. CASE t = Poll
      BY <1>1, <2>2, <2>3, <3>1, <3>2, LockMoves
      DEF ReadUnconnected, Want, LockLabels, BusyLabels
    <3>3. CASE t # Poll
      BY <1>1, <2>3, <3>1, <3>3, LockMoves
      DEF ReadUnconnected, Release, LockLabels, BusyLabels
    <3> QED
      BY <3>2, <3>3
  <2>4. CASE ReadSends(t)
    <3>1. pc[t] = "wantRead"
      BY <2>4 DEF ReadSends
    <3>2. CASE Release(t, IF t = Poll THEN "failed" ELSE "idle") /\ Free(t)
      BY <1>1, <3>1, <3>2, LockMoves DEF Release, Free, LockLabels, BusyLabels
    <3>3. CASE Take(t, "reply")
      BY <1>1, <3>1, <3>3, LockMoves DEF Take, Free, LockLabels, BusyLabels
    <3> QED
      BY <2>4, <3>2, <3>3 DEF ReadSends
  <2>5. ASSUME NEW label, label \notin LockLabels \/ label = "wantLink",
               pc[t] = "reply", pc' = [pc EXCEPT ![t] = label],
               lock' = [lock EXCEPT ![mine[t]] = None], UNCHANGED <<gen, straddled>>,
               mine' = mine \/ mine' = [mine EXCEPT ![t] = gen]
        PROVE  LockInv'
    <3>1. label \notin BusyLabels /\ pc[t] \in LockLabels
      BY <2>5 DEF LockLabels, BusyLabels
    <3> QED
      BY <1>1, <2>1, <2>5, <3>1, LockMoves
  <2>6. CASE ReadReturns(t)
    BY <2>5, <2>6 DEF ReadReturns, Release, AfterGoodRead, LockLabels, BusyLabels
  <2>7. CASE ReadGarbled(t)
    BY <2>5, <2>7 DEF ReadGarbled, Release, LockLabels, BusyLabels
  <2>8. CASE ReadFails(t)
    BY <2>5, <2>8 DEF ReadFails, AfterBadRead, LockLabels, BusyLabels
  <2> QED
    BY <2>3, <2>4, <2>6, <2>7, <2>8 DEF ReadStep
<1> QED
  BY <1>2, <1>4, <1>5

\* The end of a redial, that of Init included, after which the poll task begins.
LEMMA FinishLock ==
    ASSUME CupInv, NEW t \in Tasks, Finish(t), pc[t] \in {"dialling", "setup"}
    PROVE  NoPollDuringInit' /\ LockInv'
<1> USE DEF CupInv
<1>1. Busy(t) /\ lock[mine[t]] = t
  BY DEF LockInv, Busy
<1>2. CASE t # Init_
  <2>1. pc' = [pc EXCEPT ![t] = IF t = Poll THEN "backoff" ELSE "idle"]
    BY <1>2 DEF Finish
  <2>2. t \in Clients \cup {Poll}
    BY <1>2 DEF Tasks
  <2>3. LockInv'
    BY <1>1, <2>1, LockMoves DEF Finish, LockLabels, BusyLabels
  <2> QED
    BY <2>1, <2>2, <2>3, PollStaysOver
<1>3. CASE t = Init_
  <2>1. pc' = [u \in Tasks |-> IF u = Init_ THEN "idle" ELSE IF u = Poll THEN "sleep"
                               ELSE IF pc[u] = "unserved" THEN "idle" ELSE pc[u]]
    BY <1>3, TasksApart DEF Finish, Serving, CupTypeOK, PcTypeOK
  <2>2. pc[Poll] = "none"
    BY <1>3 DEF NoPollDuringInit, InitSteps
  <2>3. \A u \in Tasks : u # Init_ => (Busy(u)' <=> Busy(u))
    BY <2>1, <2>2 DEF Busy
  <2>4. ~Busy(Init_)'
    BY <2>1, TasksApart DEF Busy
  <2>5. \A u \in Tasks : pc'[u] \in LockLabels => pc[u] \in LockLabels
    BY <2>1, TasksApart DEF LockLabels, BusyLabels
  <2>6. lock' = [lock EXCEPT ![mine[Init_]] = None] /\ UNCHANGED <<gen, straddled, mine>>
    BY <1>3 DEF Finish
  <2>7. LockInv'
    BY <1>1, <1>3, <2>3, <2>4, <2>5, <2>6, TasksApart DEF LockInv, Held, Busy, CupTypeOK
  <2>8. NoPollDuringInit'
    BY <2>1, TasksApart DEF NoPollDuringInit, InitSteps
  <2> QED
    BY <2>7, <2>8
<1> QED
  BY <1>2, <1>3

LEMMA ConnectCupInv ==
    ASSUME CupInv, NEW t \in Tasks, ConnectStep(t)
    PROVE  CupInv'
<1> USE DEF CupInv
<1>1. CupTypeOK'
  BY ConnectTypes
<1>2. ASSUME NEW label \in {"dialling", "setup"}, pc' = [pc EXCEPT ![t] = label],
             pc[t] \in {"wantLink", "dialling"}
      PROVE  NoPollDuringInit'
  <2>1. CASE t = Init_
    BY <1>2, <2>1, TasksApart DEF NoPollDuringInit, InitSteps, CupTypeOK, PcTypeOK
  <2>2. CASE t \in Clients \cup {Poll}
    BY <1>2, <2>2, PollStaysOver
  <2> QED
    BY <2>1, <2>2 DEF Tasks
<1>3. CASE ConnectDials(t)
  <2>1. /\ pc[t] = "wantLink" /\ pc' = [pc EXCEPT ![t] = "dialling"]
        /\ lock[mine[t]] = None /\ lock' = [lock EXCEPT ![mine[t]] = t]
        /\ UNCHANGED <<gen, straddled, mine>>
    BY <1>3 DEF ConnectDials, Take, Free
  <2> QED
    BY <1>1, <1>2, <2>1, LockMoves DEF LockLabels, BusyLabels
<1>4. CASE ConnectAccepted(t)
  <2>1. /\ pc[t] = "dialling" /\ pc' = [pc EXCEPT ![t] = "setup"]
        /\ UNCHANGED <<lock, gen, straddled, mine>>
    BY <1>4 DEF ConnectAccepted
  <2> QED
    BY <1>1, <1>2, <2>1, LockMoves DEF LockLabels, BusyLabels, Busy
<1>5. CASE ConnectRefused(t) \/ ConnectSetUp(t) \/ ConnectLost(t)
  <2>1. Finish(t) /\ pc[t] \in {"dialling", "setup"}
    BY <1>5 DEF ConnectRefused, ConnectSetUp, ConnectLost
  <2> QED
    BY <1>1, <2>1, FinishLock
<1> QED
  BY <1>3, <1>4, <1>5 DEF ConnectStep

LEMMA RequestCupInv ==
    ASSUME CupInv, CupTypeOK',
           \/ PollWakes
           \/ \E c \in Clients : Request(c) \/ ZeroCheck(c)
           \/ RequestInit
    PROVE  CupInv'
<1> USE DEF CupInv
<1>1. ASSUME NEW t \in Clients \cup {Poll}, ~Busy(t), pc[t] # "none",
             NEW label \in {"wantRead", "wantLink", "wantOn", "wantOff"}, Want(t, label)
      PROVE  CupInv'
  <2>1. LockInv'
    BY <1>1, TasksApart, LockMoves DEF Want, BusyLabels
  <2> QED
    BY <1>1, <2>1, PollStaysOver DEF Want
<1>2. CASE PollWakes
  BY <1>1, <1>2 DEF PollWakes, Busy
<1>3. ASSUME NEW c \in Clients, Request(c) PROVE CupInv'
  BY <1>1, <1>3 DEF Request, Busy
<1>4. ASSUME NEW c \in Clients, ZeroCheck(c) PROVE CupInv'
  <2>1. /\ pc[c] \in {"wantOn", "wantOff"} /\ pc' = [pc EXCEPT ![c] = "idle"]
        /\ UNCHANGED <<lock, gen, straddled, mine>>
    BY <1>4 DEF ZeroCheck
  <2>2. LockInv'
    BY <2>1, TasksApart, LockMoves DEF LockLabels, BusyLabels, Busy
  <2> QED
    BY <2>1, <2>2, TasksApart, PollStaysOver
<1>5. CASE RequestInit
  <2>1. /\ pc' = [pc EXCEPT ![Init_] = "cancel"] /\ pc[Init_] = "idle"
        /\ UNCHANGED <<lock, gen, straddled, mine>>
    BY <1>5 DEF RequestInit, Initialising
  <2>2. LockInv'
    BY <2>1, TasksApart, LockMoves DEF LockLabels, BusyLabels, Busy
  <2>3. NoPollDuringInit'
    BY <2>1, TasksApart DEF NoPollDuringInit, CupTypeOK, PcTypeOK
  <2> QED
    BY <2>2, <2>3
<1> QED
  BY <1>2, <1>3, <1>4, <1>5

\* The cancelled poll task lets go of the lock it uses.
LEMMA CancelCupInv ==
    ASSUME CupInv, CupTypeOK', DeleteCancels
    PROVE  CupInv'
<1> USE DEF CupInv
<1>1. /\ pc[Init_] = "cancel" /\ UNCHANGED <<gen, straddled>>
      /\ pc' = [pc EXCEPT ![Poll] = "none", ![Init_] = "wantClose"]
      /\ mine' = [mine EXCEPT ![Init_] = gen]
      /\ lock' = [g \in {0, 1} |-> IF lock[g] = Poll THEN None ELSE lock[g]]
  BY DEF DeleteCancels
<1>2. /\ pc'[Poll] = "none" /\ pc'[Init_] = "wantClose"
      /\ \A c \in Clients : pc'[c] = pc[c] /\ mine'[c] = mine[c]
      /\ mine'[Poll] = mine[Poll] /\ mine'[Init_] = gen
  BY <1>1, TasksApart DEF CupTypeOK, PcTypeOK
<1>3. /\ ~Busy(Poll)' /\ ~Busy(Init_) /\ ~Busy(Init_)'
      /\ \A c \in Clients : Busy(c)' <=> Busy(c)
  BY <1>1, <1>2 DEF Busy
<1>4. \A t \in Tasks : Busy(t)' => lock'[mine'[t]] = t
  BY <1>1, <1>2, <1>3, TasksApart DEF LockInv, CupTypeOK, Tasks
<1>5. \A g \in {0, 1} : Held(g)'
  <2> SUFFICES ASSUME NEW g \in {0, 1}, lock'[g] # None PROVE Held(g)'
    BY DEF Held
  <2>1. lock'[g] = lock[g] /\ lock[g] \in Tasks \ {Poll}
    BY <1>1 DEF CupTypeOK
  <2>2. Busy(lock[g]) /\ mine[lock[g]] = g
    BY <2>1, TasksApart DEF LockInv, Held
  <2>3. lock[g] \in Clients
    BY <1>3, <2>1, <2>2 DEF Tasks
  <2> QED
    BY <1>2, <1>3, <2>1, <2>2, <2>3 DEF Held, Busy
<1>6. straddled' \/ \A t \in Tasks : pc'[t] \in LockLabels => mine'[t] = gen'
  BY <1>1, <1>2, TasksApart DEF LockInv, Tasks, LockLabels, BusyLabels
<1>7. LockInv'
  BY <1>4, <1>5, <1>6 DEF LockInv
<1> QED
  BY <1>2, <1>7 DEF NoPollDuringInit

LEMMA DeleteCupInv ==
    ASSUME CupInv, CupTypeOK', DeleteRaises \/ DeleteCloses \/ DeleteEnds
    PROVE  CupInv'
<1> USE DEF CupInv
<1>1. PICK label \in {"idle", "closed", "reset"} : pc' = [pc EXCEPT ![Init_] = label]
  BY DEF DeleteRaises, DeleteCloses, DeleteEnds, Take, Release
<1>2. pc'[Init_] = label /\ pc'[Poll] = pc[Poll]
  BY <1>1, TasksApart DEF CupTypeOK, PcTypeOK
<1>3. /\ pc[Init_] \in {"cancel", "wantClose", "closed"}
      /\ label # "idle" => pc[Init_] # "cancel"
  BY <1>1, <1>2 DEF DeleteRaises, DeleteCloses, DeleteEnds, Take, Release
<1>4. NoPollDuringInit'
  BY <1>2, <1>3 DEF NoPollDuringInit, InitSteps
<1>5. LockInv'
  <2>1. CASE DeleteRaises
    BY <2>1, TasksApart, LockMoves DEF DeleteRaises, LockLabels, BusyLabels, Busy
  <2>2. CASE DeleteCloses
    BY <2>2, TasksApart, LockMoves DEF DeleteCloses, Take, Free, LockLabels, BusyLabels
  <2>3. CASE DeleteEnds
    <3>1. pc[Init_] = "closed" /\ lock[mine[Init_]] = Init_
      BY <2>3, TasksApart DEF DeleteEnds, LockInv, Busy
    <3> QED
      BY <2>3, <3>1, TasksApart, LockMoves DEF DeleteEnds, Release, LockLabels, BusyLabels
  <2> QED
    BY <2>1, <2>2, <2>3
<1> QED
  BY <1>4, <1>5

\* Nobody uses the lock object that becomes the new one; if the Init is clean, nobody
\* uses the other one either.
LEMMA ResetCupInv ==
    ASSUME CupInv, CupTypeOK', InitRefuses \/ InitConnects
    PROVE  CupInv'
<1> USE DEF CupInv
<1>1. /\ pc[Init_] = "reset" /\ gen' = 1 - gen /\ straddled' = ~Clean
      /\ mine' = [mine EXCEPT ![Init_] = gen']
      /\ lock' = [lock EXCEPT ![gen'] = None]
      /\ \A c \in Clients : pc[c] # "idle" => mine[c] = gen
  BY DEF InitRefuses, InitConnects, ResetFields
<1>2. gen \in {0, 1} /\ gen' \in {0, 1} /\ gen # gen'
  <2>1. gen \in {0, 1}
    BY DEF CupTypeOK
  <2> QED
    BY <1>1, <2>1
<1>3. pc[Poll] = "none"
  BY <1>1 DEF NoPollDuringInit, InitSteps
<1>4. /\ pc'[Init_] \in {"idle", "wantLink"} /\ pc'[Poll] = "none"
      /\ \A c \in Clients :
            pc'[c] = pc[c] \/ (pc[c] \in {"idle", "unserved"} /\ pc'[c] = "idle")
  <2>1. CASE InitRefuses
    <3>1. pc' = [u \in Tasks |-> IF u = Init_ THEN "idle" ELSE IF u = Poll THEN "none"
                                 ELSE IF pc[u] = "unserved" THEN "idle" ELSE pc[u]]
      BY <2>1, TasksApart DEF InitRefuses, Serving, CupTypeOK, PcTypeOK
    <3> QED
      BY <3>1, TasksApart
  <2>2. CASE InitConnects
    BY <2>2, TasksApart DEF InitConnects, CupTypeOK, PcTypeOK
  <2> QED
    BY <2>1, <2>2
<1>5. /\ ~Busy(Init_) /\ ~Busy(Init_)' /\ ~Busy(Poll) /\ ~Busy(Poll)'
      /\ \A c \in Clients : Busy(c)' <=> Busy(c)
  BY <1>1, <1>3, <1>4 DEF Busy
<1>6. \A c \in Clients : Busy(c) => mine[c] = gen /\ mine'[c] = gen
  BY <1>1, TasksApart DEF Busy, CupTypeOK
<1>7. \A t \in Tasks : Busy(t)' => lock'[mine'[t]] = t
  BY <1>1, <1>2, <1>5, <1>6, TasksApart DEF LockInv, CupTypeOK, Tasks
<1>8. \A g \in {0, 1} : Held(g)'
  <2> SUFFICES ASSUME NEW g \in {0, 1}, lock'[g] # None PROVE Held(g)'
    BY DEF Held
  <2>1. lock'[g] = lock[g] /\ lock[g] \in Tasks
    BY <1>1, <1>2 DEF CupTypeOK
  <2>2. Busy(lock[g]) /\ mine[lock[g]] = g
    BY <2>1, TasksApart DEF LockInv, Held
  <2>3. lock[g] \in Clients
    BY <1>5, <2>1, <2>2 DEF Tasks
  <2> QED
    BY <1>5, <1>6, <2>1, <2>2, <2>3 DEF Held, Busy
<1>9. straddled' \/ \A t \in Tasks : pc'[t] \in LockLabels => mine'[t] = gen'
  <2>1. mine'[Init_] = gen'
    BY <1>1, TasksApart DEF CupTypeOK
  <2>2. Clean => \A c \in Clients : pc'[c] \notin LockLabels
    BY <1>4 DEF Clean, LockLabels, BusyLabels
  <2>3. pc'[Poll] \notin LockLabels
    BY <1>4 DEF LockLabels, BusyLabels
  <2> QED
    BY <1>1, <2>1, <2>2, <2>3 DEF Tasks
<1>10. LockInv'
  BY <1>7, <1>8, <1>9 DEF LockInv
<1> QED
  BY <1>4, <1>10 DEF NoPollDuringInit

LEMMA NextCupInv ==
    ASSUME CupInv, [Next]_vars
    PROVE  CupInv'
<1>1. CupTypeOK'
  BY NextTypes DEF CupInv
<1>2. CASE UNCHANGED taskVars
  BY <1>1, <1>2 DEF CupInv, NoPollDuringInit, LockInv, Held, Busy, taskVars
<1>3. ASSUME NEW t \in Clients \cup {Poll}, ReadStep(t) PROVE CupInv'
  BY <1>3, ReadCupInv
<1>4. ASSUME NEW t \in Tasks, ConnectStep(t) PROVE CupInv'
  BY <1>4, ConnectCupInv
<1>5. CASE PollStep
  BY <1>1, <1>3, <1>4, <1>5, RequestCupInv, TasksApart DEF PollStep
<1>6. ASSUME NEW c \in Clients, Request(c) \/ ClientStep(c) PROVE CupInv'
  BY <1>1, <1>3, <1>4, <1>6, RequestCupInv, TasksApart DEF ClientStep
<1>7. CASE InitStep
  BY <1>1, <1>4, <1>7, CancelCupInv, DeleteCupInv, ResetCupInv, TasksApart DEF InitStep
<1>8. CASE PeerChanges \/ (\E l \in Links : Collect(l)) \/ UNCHANGED vars
  BY <1>2, <1>8 DEF PeerChanges, Collect, vars, taskVars
<1> QED
  BY <1>1, <1>5, <1>6, <1>7, <1>8, RequestCupInv DEF Next

LEMMA InitCupInv == Init => CupInv
<1> SUFFICES ASSUME Init PROVE CupInv
  OBVIOUS
<1>1. /\ pc[Poll] = "none" /\ pc[Init_] = "reset"
      /\ \A c \in Clients : pc[c] = "unserved"
  BY TasksApart DEF Init
<1>2. LockInv
  BY <1>1, TasksApart DEF Init, LockInv, Held, LockLabels, BusyLabels, Busy, Tasks
<1> QED
  BY <1>1, <1>2, InitTypes DEF CupInv, NoPollDuringInit

\* No two tasks are in a round trip or a redial, but one that holds the lock there is
\* and one that holds the lock of before an Init that overlapped it.
THEOREM CupRoundTripsApart == Spec => []RoundTripsApart
<1>1. CupInv => RoundTripsApart
  BY OneBusy DEF RoundTripsApart
<1>2. CupInv /\ [Next]_vars => CupInv'
  BY NextCupInv
<1> QED
  BY <1>1, <1>2, InitCupInv, PTL DEF Spec

\* Nothing polls from the moment Init cancels the poll task until Init is through,
\* whatever requests overlap it.
THEOREM CupNoPollDuringInit == Spec => []NoPollDuringInit
<1>1. CupInv => NoPollDuringInit
  BY DEF CupInv
<1>2. CupInv /\ [Next]_vars => CupInv'
  BY NextCupInv
<1> QED
  BY <1>1, <1>2, InitCupInv, PTL DEF Spec

-----------------------------------------------------------------------------
(* The connections *)

\* self._writer is a connection that there is, and so is each that is being set up, no
\* two of them the same.
LinkInv ==
    /\ writer # None => link[writer] # "none"
    /\ \A t \in Tasks : pc[t] = "setup" =>
          /\ conn[t] \in Links \ {writer} /\ link[conn[t]] # "none"
          /\ \A u \in Tasks : pc[u] = "setup" /\ conn[u] = conn[t] => u = t

\* Unless an Init has replaced the lock under a request, a redial finds no self._writer
\* and no connection is dropped.
LinksTidy ==
    straddled \/ /\ \A l \in Links : ~Dropped(l)
                 /\ \A t \in Tasks : pc[t] \in {"dialling", "setup"} => writer = None

CupLinks == CupInv /\ LinkInv /\ LinksTidy

\* A task that moves on without touching the connections, neither to nor from a redial.
LEMMA LinkStands ==
    ASSUME CupLinks, NEW t \in Tasks, NEW label,
           pc' = [pc EXCEPT ![t] = label], UNCHANGED <<linkVars, straddled>>,
           label \notin {"dialling", "setup"}, pc[t] # "setup",
           \E l : conn' = [conn EXCEPT ![t] = l]
    PROVE  LinkInv' /\ LinksTidy'
<1>1. pc'[t] = label /\ \A u \in Tasks : u # t => pc'[u] = pc[u] /\ conn'[u] = conn[u]
  BY DEF CupLinks, CupInv, CupTypeOK, PcTypeOK
<1>2. LinkInv'
  BY <1>1 DEF CupLinks, LinkInv, linkVars
<1>3. LinksTidy'
  BY <1>1 DEF CupLinks, LinksTidy, Dropped, linkVars
<1> QED
  BY <1>2, <1>3

LEMMA ReadLinks ==
    ASSUME CupLinks, NEW t \in Clients \cup {Poll}, ReadStep(t)
    PROVE  LinkInv' /\ LinksTidy'
<1>1. t \in Tasks /\ UNCHANGED <<linkVars, straddled>> /\ pc[t] \in {"wantRead", "reply"}
  BY TasksApart
  DEF ReadStep, ReadUnconnected, ReadSends, ReadReturns, ReadGarbled, ReadFails, Want,
      Take, Release
<1>2. PICK label \in {"idle", "sleep", "failed", "wantLink", "reply"} :
        pc' = [pc EXCEPT ![t] = label]
  BY DEF ReadStep, ReadUnconnected, ReadSends, ReadReturns, ReadGarbled, ReadFails, Want,
         Take, Release, AfterGoodRead, AfterBadRead
<1>3. \E l : conn' = [conn EXCEPT ![t] = l]
  <2>1. conn' = conn => conn' = [conn EXCEPT ![t] = conn[t]]
    BY DEF CupLinks, CupInv, CupTypeOK
  <2> QED
    BY <2>1
    DEF ReadStep, ReadUnconnected, ReadSends, ReadReturns, ReadGarbled, ReadFails, Want,
        Release
<1> QED
  BY <1>1, <1>2, <1>3, LinkStands

\* The end of a redial leaves the other redials where they are.
LEMMA FinishMoves ==
    ASSUME CupInv, NEW t \in Tasks, Finish(t), pc[t] \in {"dialling", "setup"}
    PROVE  /\ pc'[t] \in {"idle", "backoff"}
           /\ \A u \in Tasks : u # t => conn'[u] = conn[u]
           /\ \A u \in Tasks : u # t =>
                 \A label \in {"dialling", "setup"} : pc'[u] = label <=> pc[u] = label
<1> USE DEF CupInv, CupTypeOK, PcTypeOK
<1>1. CASE t # Init_
  BY <1>1 DEF Finish
<1>2. CASE t = Init_
  <2>1. pc' = [u \in Tasks |-> IF u = Init_ THEN "idle" ELSE IF u = Poll THEN "sleep"
                               ELSE IF pc[u] = "unserved" THEN "idle" ELSE pc[u]]
    BY <1>2, TasksApart DEF Finish, Serving
  <2>2. pc[Poll] = "none"
    BY <1>2 DEF NoPollDuringInit, InitSteps
  <2> QED
    BY <1>2, <2>1, <2>2 DEF Finish
<1> QED
  BY <1>1, <1>2

LEMMA ConnectLinks ==
    ASSUME CupLinks, NEW t \in Tasks, ConnectStep(t)
    PROVE  LinkInv' /\ LinksTidy'
<1> USE DEF CupLinks
<1>1. CASE ConnectDials(t)
  <2>1. /\ pc[t] = "wantLink" /\ pc' = [pc EXCEPT ![t] = "dialling"] /\ conn' = conn
        /\ writer' = None /\ UNCHANGED straddled
        /\ link' = [l \in Links |-> IF l = writer THEN "none" ELSE link[l]]
    BY <1>1 DEF ConnectDials, Take, CloseLink
  <2>2. \A u \in Tasks : pc'[u] = "setup" <=> pc[u] = "setup"
    BY <2>1 DEF CupInv, CupTypeOK, PcTypeOK
  <2>3. LinkInv'
    BY <2>1, <2>2, TasksApart DEF LinkInv
  <2>4. ASSUME ~straddled PROVE \A l \in Links : link'[l] = "none"
    <3>1. \A u \in Tasks : ~Busy(u)
      <4>1. mine[t] = gen /\ lock[gen] = None
        BY <1>1, <2>1, <2>4
        DEF ConnectDials, Take, Free, CupInv, LockInv, LockLabels, BusyLabels
      <4>2. \A u \in Tasks : Busy(u) => mine[u] = gen
        BY <2>4 DEF CupInv, LockInv, LockLabels, BusyLabels, Busy
      <4> QED
        BY <4>1, <4>2, TasksApart DEF CupInv, LockInv
    <3> QED
      BY <2>1, <2>4, <3>1 DEF LinksTidy, Dropped, Busy
  <2>5. LinksTidy'
    BY <2>1, <2>4 DEF LinksTidy, Dropped
  <2> QED
    BY <2>3, <2>5
<1>2. CASE ConnectAccepted(t)
  <2>1. PICK l \in Links : /\ link[l] = "none" /\ link' = [link EXCEPT ![l] = "open"]
                           /\ conn' = [conn EXCEPT ![t] = l]
                           /\ \A u \in Tasks : conn[u] # l
    BY <1>2 DEF ConnectAccepted
  <2>2. /\ pc[t] = "dialling" /\ UNCHANGED <<writer, straddled>>
        /\ pc' = [pc EXCEPT ![t] = "setup"]
    BY <1>2 DEF ConnectAccepted
  <2>3. /\ pc'[t] = "setup" /\ conn'[t] = l
        /\ \A u \in Tasks : u # t => pc'[u] = pc[u] /\ conn'[u] = conn[u]
    BY <2>1, <2>2 DEF CupInv, CupTypeOK, PcTypeOK
  <2>4. writer # l /\ \A k \in Links : k # l => link'[k] = link[k]
    BY <2>1, TasksApart DEF LinkInv, CupInv, CupTypeOK
  <2>5. link'[l] = "open"
    BY <2>1 DEF CupInv, CupTypeOK
  <2>6. LinkInv'
    <3>1. writer' # None => link'[writer'] # "none"
      BY <2>2, <2>4 DEF LinkInv, CupInv, CupTypeOK
    <3>2. \A u \in Tasks : pc'[u] = "setup" =>
             conn'[u] \in Links \ {writer'} /\ link'[conn'[u]] # "none"
      BY <2>1, <2>2, <2>3, <2>4, <2>5 DEF LinkInv
    <3>3. \A u, w \in Tasks : pc'[u] = "setup" /\ pc'[w] = "setup" /\ conn'[w] = conn'[u]
             => w = u
      BY <2>1, <2>3 DEF LinkInv
    <3> QED
      BY <3>1, <3>2, <3>3 DEF LinkInv
  <2>7. LinksTidy'
    BY <2>2, <2>3, <2>4 DEF LinksTidy, Dropped
  <2> QED
    BY <2>6, <2>7
<1>3. CASE ConnectRefused(t) \/ ConnectSetUp(t) \/ ConnectLost(t)
  <2>1. /\ Finish(t) /\ link' = link /\ pc[t] \in {"dialling", "setup"}
        /\ UNCHANGED straddled
    BY <1>3 DEF ConnectRefused, ConnectSetUp, ConnectLost, linkVars, Finish
  <2>2. /\ pc'[t] \in {"idle", "backoff"}
        /\ \A u \in Tasks : u # t => conn'[u] = conn[u]
        /\ \A u \in Tasks : u # t =>
              \A label \in {"dialling", "setup"} : pc'[u] = label <=> pc[u] = label
    BY <2>1, FinishMoves
  <2>3. \/ pc[t] = "dialling" /\ writer' = writer
        \/ pc[t] = "setup" /\ writer' = conn[t]
    BY <1>3 DEF ConnectRefused, ConnectSetUp, ConnectLost, linkVars
  <2>4. LinkInv'
    <3>1. writer' # None => link'[writer'] # "none"
      BY <2>1, <2>3 DEF LinkInv
    <3>2. \A u \in Tasks : pc'[u] = "setup" =>
             u # t /\ pc[u] = "setup" /\ conn'[u] = conn[u]
      BY <2>2
    <3> QED
      BY <2>1, <2>3, <3>1, <3>2 DEF LinkInv
  <2>5. LinksTidy'
    <3> SUFFICES ASSUME ~straddled PROVE LinksTidy'
      BY <2>1 DEF LinksTidy
    <3>1. \A u \in Tasks : u # t => ~Busy(u)
      BY <2>1, OneBusy DEF Busy
    <3>2. \A u \in Tasks : pc'[u] \notin {"dialling", "setup"}
      BY <2>2, <3>1 DEF Busy
    <3>3. writer = None
      BY <2>1 DEF LinksTidy
    <3>4. \A l \in Links : link[l] # "none" => pc[t] = "setup" /\ conn[t] = l
      BY <3>1, <3>3, TasksApart DEF LinksTidy, Dropped, Busy
    <3> QED
      BY <2>1, <2>3, <3>2, <3>4 DEF LinksTidy, Dropped
  <2> QED
    BY <2>4, <2>5
<1> QED
  BY <1>1, <1>2, <1>3 DEF ConnectStep

LEMMA InitLinks ==
    ASSUME CupLinks, InitStep, ~ConnectStep(Init_)
    PROVE  LinkInv' /\ LinksTidy'
<1> USE DEF CupLinks
<1>1. CASE DeleteCancels
  <2>1. /\ pc[Init_] = "cancel"
        /\ pc' = [pc EXCEPT ![Poll] = "none", ![Init_] = "wantClose"]
        /\ conn' = [conn EXCEPT ![Poll] = None] /\ UNCHANGED <<writer, straddled>>
        /\ link' = [l \in Links |-> IF pc[Poll] = "setup" /\ l = conn[Poll] THEN "none"
                                                                         ELSE link[l]]
    BY <1>1 DEF DeleteCancels
  <2>2. /\ pc'[Poll] = "none" /\ pc'[Init_] = "wantClose"
        /\ \A t \in Tasks : t # Poll => conn'[t] = conn[t]
        /\ \A t \in Tasks \ {Poll, Init_} : pc'[t] = pc[t]
    BY <2>1, TasksApart DEF CupInv, CupTypeOK, PcTypeOK
  <2>3. pc[Poll] = "setup" => conn[Poll] # writer
    BY TasksApart DEF LinkInv
  <2>4. \A t \in Tasks : pc'[t] = "setup" =>
           t # Poll /\ pc[t] = "setup" /\ link'[conn[t]] = link[conn[t]]
    BY <2>1, <2>2, TasksApart DEF LinkInv
  <2>5. LinkInv'
    BY <2>1, <2>2, <2>3, <2>4 DEF LinkInv, CupInv, CupTypeOK
  <2>6. LinksTidy'
    <3>1. \A t \in Tasks : pc'[t] \in {"dialling", "setup"} => pc'[t] = pc[t]
      BY <2>2
    <3>2. \A t \in Tasks : pc[t] = "setup" /\ t # Poll => pc'[t] = "setup" /\ conn'[t] = conn[t]
      BY <2>1, <2>2
    <3>3. \A l \in Links : Dropped(l)' => Dropped(l)
      BY <2>1, <3>2, TasksApart DEF Dropped
    <3> QED
      BY <2>1, <3>1, <3>3 DEF LinksTidy
  <2> QED
    BY <2>5, <2>6
<1>2. CASE DeleteRaises \/ DeleteEnds
  <2>1. PICK label \in {"idle", "reset"} : pc' = [pc EXCEPT ![Init_] = label]
    BY <1>2 DEF DeleteRaises, DeleteEnds, Release
  <2>2. UNCHANGED <<linkVars, straddled>> /\ pc[Init_] # "setup"
    BY <1>2 DEF DeleteRaises, DeleteEnds, Release
  <2>3. \E l : conn' = [conn EXCEPT ![Init_] = l]
    <3>1. conn' = conn => conn' = [conn EXCEPT ![Init_] = conn[Init_]]
      BY DEF CupInv, CupTypeOK
    <3> QED
      BY <1>2, <3>1 DEF DeleteRaises, DeleteEnds, Release
  <2> QED
    BY <2>1, <2>2, <2>3, TasksApart, LinkStands
<1>3. CASE DeleteCloses
  <2>1. /\ pc[Init_] = "wantClose" /\ pc' = [pc EXCEPT ![Init_] = "closed"]
        /\ conn' = conn /\ writer' = None /\ UNCHANGED straddled
        /\ link' = [l \in Links |-> IF l = writer THEN "none" ELSE link[l]]
    BY <1>3 DEF DeleteCloses, Take, CloseLink
  <2>2. \A u \in Tasks : \A label \in {"dialling", "setup"} : pc'[u] = label <=> pc[u] = label
    BY <2>1 DEF CupInv, CupTypeOK, PcTypeOK
  <2>3. LinkInv'
    BY <2>1, <2>2, TasksApart DEF LinkInv
  <2>4. LinksTidy'
    BY <2>1, <2>2 DEF LinksTidy, Dropped
  <2> QED
    BY <2>3, <2>4
<1>4. CASE InitRefuses \/ InitConnects
  <2>1. /\ pc[Init_] = "reset" /\ writer' = None /\ UNCHANGED <<conn, link>>
        /\ straddled' = ~Clean
    BY <1>4 DEF InitRefuses, InitConnects, ResetFields
  <2>2. /\ pc'[Init_] \in {"idle", "wantLink"} /\ pc'[Poll] = "none"
        /\ \A c \in Clients :
              pc'[c] = pc[c] \/ (pc[c] \in {"idle", "unserved"} /\ pc'[c] = "idle")
    <3>1. CASE InitRefuses
      <4>1. pc' = [u \in Tasks |-> IF u = Init_ THEN "idle" ELSE IF u = Poll THEN "none"
                                   ELSE IF pc[u] = "unserved" THEN "idle" ELSE pc[u]]
        BY <3>1, TasksApart DEF InitRefuses, Serving, CupInv, CupTypeOK, PcTypeOK
      <4> QED
        BY <4>1, TasksApart
    <3>2. CASE InitConnects
      BY <3>2, TasksApart DEF InitConnects, CupInv, CupTypeOK, PcTypeOK
    <3> QED
      BY <1>4, <3>1, <3>2
  <2>3. LinkInv'
    BY <2>1, <2>2, TasksApart DEF LinkInv, Tasks
  <2>4. Clean => /\ \A l \in Links : link'[l] = "none"
                 /\ \A t \in Tasks : pc'[t] \notin {"dialling", "setup"}
    BY <2>1, <2>2 DEF Clean, Tasks
  <2>5. LinksTidy'
    BY <2>1, <2>4 DEF LinksTidy, Dropped
  <2> QED
    BY <2>3, <2>5
<1> QED
  BY <1>1, <1>2, <1>3, <1>4 DEF InitStep

LEMMA NextLinks ==
    ASSUME CupLinks, [Next]_vars
    PROVE  LinkInv' /\ LinksTidy'
<1> USE DEF CupLinks
<1>1. ASSUME NEW t \in Clients \cup {Poll}, ReadStep(t) PROVE LinkInv' /\ LinksTidy'
  BY <1>1, ReadLinks
<1>2. ASSUME NEW t \in Tasks, ConnectStep(t) PROVE LinkInv' /\ LinksTidy'
  BY <1>2, ConnectLinks
<1>3. ASSUME NEW t \in Tasks, NEW label, pc' = [pc EXCEPT ![t] = label], conn' = conn,
             pc[t] # "setup", label \notin {"dialling", "setup"},
             UNCHANGED <<linkVars, straddled>>
      PROVE  LinkInv' /\ LinksTidy'
  <2>1. conn' = [conn EXCEPT ![t] = conn[t]]
    BY <1>3 DEF CupInv, CupTypeOK
  <2> QED
    BY <1>3, <2>1, LinkStands
<1>4. CASE PollWakes
  BY <1>3, <1>4, TasksApart DEF PollWakes, Want
<1>5. ASSUME NEW c \in Clients, Request(c) PROVE LinkInv' /\ LinksTidy'
  BY <1>3, <1>5, TasksApart DEF Request, Want
<1>6. ASSUME NEW c \in Clients, ZeroCheck(c) PROVE LinkInv' /\ LinksTidy'
  <2>1. /\ pc[c] # "setup" /\ pc' = [pc EXCEPT ![c] = "idle"] /\ conn' = conn
        /\ UNCHANGED <<linkVars, straddled>>
    BY <1>6 DEF ZeroCheck, linkVars
  <2> QED
    BY <1>3, <2>1, TasksApart
<1>7. CASE RequestInit
  <2>1. /\ pc[Init_] # "setup" /\ pc' = [pc EXCEPT ![Init_] = "cancel"] /\ conn' = conn
        /\ UNCHANGED <<linkVars, straddled>>
    BY <1>7 DEF RequestInit, Initialising, linkVars
  <2>2. Init_ \in Tasks
    BY TasksApart
  <2>3. "cancel" \notin {"dialling", "setup"}
    OBVIOUS
  <2> QED
    BY <1>3, <2>1, <2>2, <2>3
<1>8. CASE PeerChanges
  <2>1. /\ UNCHANGED <<writer, pc, conn, straddled>>
        /\ link' = [l \in Links |-> IF peer' = "down" /\ link[l] = "open" THEN "dead"
                                                                          ELSE link[l]]
    BY <1>8 DEF PeerChanges, taskVars
  <2>2. \A l \in Links : link'[l] = "none" <=> link[l] = "none"
    BY <2>1
  <2>3. LinkInv'
    BY <2>1, <2>2 DEF LinkInv, CupInv, CupTypeOK
  <2>4. LinksTidy'
    BY <2>1, <2>2 DEF LinksTidy, Dropped
  <2> QED
    BY <2>3, <2>4
<1>9. ASSUME NEW l \in Links, Collect(l) PROVE LinkInv' /\ LinksTidy'
  <2>1. /\ UNCHANGED <<writer, pc, conn, straddled>> /\ Dropped(l)
        /\ link' = [link EXCEPT ![l] = "none"]
    BY <1>9 DEF Collect, taskVars
  <2>2. \A k \in Links : k # l => link'[k] = link[k]
    BY <2>1 DEF CupInv, CupTypeOK
  <2>3. LinkInv'
    BY <2>1, <2>2 DEF LinkInv, Dropped, CupInv, CupTypeOK
  <2>4. straddled
    BY <2>1 DEF LinksTidy
  <2> QED
    BY <2>1, <2>3, <2>4 DEF LinksTidy
<1>10. CASE UNCHANGED vars
  BY <1>10 DEF vars, taskVars, linkVars, LinkInv, LinksTidy, Dropped
<1>11. CASE InitStep
  BY <1>2, <1>11, InitLinks, TasksApart
<1>12. CASE PollStep
  BY <1>1, <1>2, <1>4, <1>12, TasksApart DEF PollStep
<1>13. ASSUME NEW c \in Clients, ClientStep(c) PROVE LinkInv' /\ LinksTidy'
  BY <1>1, <1>2, <1>6, <1>13, TasksApart DEF ClientStep
<1> QED
  BY <1>5, <1>7, <1>8, <1>9, <1>10, <1>11, <1>12, <1>13 DEF Next

LEMMA InitLinkInv == Init => LinkInv /\ LinksTidy
<1> SUFFICES ASSUME Init PROVE LinkInv /\ LinksTidy
  OBVIOUS
<1>1. \A t \in Tasks : pc[t] \in {"none", "reset", "unserved"}
  BY TasksApart DEF Init
<1> QED
  BY <1>1 DEF Init, LinkInv, LinksTidy, Dropped

LEMMA CupLinksInvariant == Spec => []CupLinks
<1>1. CupLinks /\ [Next]_vars => CupLinks'
  BY NextCupInv, NextLinks DEF CupLinks
<1>2. Init => CupLinks
  BY InitCupInv, InitLinkInv DEF CupLinks
<1> QED
  BY <1>1, <1>2, PTL DEF Spec

\* Every connection is self._writer or about to be: none is left behind, unless the
\* last Init replaced the lock under a request or found what one had left.
THEOREM CupOneLink == Spec => []OneLink
<1>1. CupLinks => OneLink
  BY DEF CupLinks, LinksTidy, OneLink
<1> QED
  BY <1>1, CupLinksInvariant, PTL

-----------------------------------------------------------------------------
(* The mirror *)

\* No outage and no failed setup since the last setup: the peer is there, self._writer
\* is alive, and the mirror is right unless Init has reset it and neither a setup nor a
\* poll task has come since.
MirrorInv ==
    synced =>
        /\ peer = "up"
        /\ writer # None => link[writer] = "open"
        /\ zeroCheck = zch \/ (writer = None /\ state # "ON" /\ pc[Poll] = "none")

LEMMA ReadMirror ==
    ASSUME CupLinks, MirrorInv, NEW t \in Clients \cup {Poll}, ReadStep(t)
    PROVE  MirrorInv'
<1>1. UNCHANGED <<linkVars, zeroCheck, peerVars>>
  BY DEF ReadStep, ReadUnconnected, ReadSends, ReadReturns, ReadGarbled, ReadFails, cupVars
<1>2. CASE t = Poll
  <2>1. pc[Poll] # "none"
    BY <1>2
    DEF ReadStep, ReadUnconnected, ReadSends, ReadReturns, ReadGarbled, ReadFails
  <2> QED
    BY <1>1, <2>1 DEF MirrorInv, linkVars, peerVars
<1>3. CASE t # Poll
  <2>1. state' = state
    BY <1>3
    DEF ReadStep, ReadUnconnected, ReadSends, ReadReturns, ReadGarbled, ReadFails, ReadGood,
        ReadBad, cupVars
  <2>2. PICK label : pc' = [pc EXCEPT ![t] = label]
    BY DEF ReadStep, ReadUnconnected, ReadSends, ReadReturns, ReadGarbled, ReadFails,
           Want, Take, Release
  <2>3. pc'[Poll] = pc[Poll]
    BY <1>3, <2>2, TasksApart DEF CupLinks, CupInv, CupTypeOK, PcTypeOK
  <2> QED
    BY <1>1, <2>1, <2>3 DEF MirrorInv, linkVars, peerVars
<1> QED
  BY <1>2, <1>3

LEMMA ConnectMirror ==
    ASSUME CupLinks, MirrorInv, NEW t \in Tasks, ConnectStep(t)
    PROVE  MirrorInv'
<1> USE DEF CupLinks, CupInv, CupTypeOK, PcTypeOK
<1>1. pc[Poll] = "none" => t # Poll
  BY DEF ConnectStep, ConnectDials, ConnectAccepted, ConnectRefused, ConnectSetUp, ConnectLost
<1>2. CASE ConnectDials(t)
  <2>1. /\ pc' = [pc EXCEPT ![t] = "dialling"] /\ writer' = None
        /\ UNCHANGED <<state, zeroCheck, peer, zch, synced>>
    BY <1>2 DEF ConnectDials, Take, CloseLink, cupVars, peerVars
  <2>2. pc[Poll] = "none" => pc'[Poll] = "none"
    BY <1>1, <2>1, TasksApart
  <2> QED
    BY <2>1, <2>2 DEF MirrorInv
<1>3. CASE ConnectAccepted(t)
  <2>1. /\ pc' = [pc EXCEPT ![t] = "setup"] /\ writer' = writer
        /\ UNCHANGED <<state, zeroCheck, peer, zch, synced>>
        /\ \E l \in Links : link' = [link EXCEPT ![l] = "open"]
    BY <1>3 DEF ConnectAccepted, cupVars, peerVars
  <2>2. pc[Poll] = "none" => pc'[Poll] = "none"
    BY <1>1, <2>1, TasksApart
  <2>3. writer # None /\ link[writer] = "open" => link'[writer] = "open"
    BY <2>1
  <2> QED
    BY <2>1, <2>2, <2>3 DEF MirrorInv
<1>4. CASE ConnectRefused(t)
  BY <1>4 DEF ConnectRefused, MirrorInv, peerVars
<1>5. CASE ConnectLost(t)
  BY <1>5 DEF ConnectLost, MirrorInv
<1>6. CASE ConnectSetUp(t)
  BY <1>6 DEF ConnectSetUp, MirrorInv
<1> QED
  BY <1>2, <1>3, <1>4, <1>5, <1>6 DEF ConnectStep

LEMMA InitMirror ==
    ASSUME CupLinks, MirrorInv, InitStep, ~ConnectStep(Init_)
    PROVE  MirrorInv'
<1> USE DEF CupLinks, CupInv, CupTypeOK, PcTypeOK
<1>1. CASE DeleteCancels
  <2>1. /\ pc' = [pc EXCEPT ![Poll] = "none", ![Init_] = "wantClose"]
        /\ UNCHANGED <<writer, state, zeroCheck, peer, zch, synced>>
        /\ link' = [l \in Links |-> IF pc[Poll] = "setup" /\ l = conn[Poll] THEN "none"
                                                                         ELSE link[l]]
    BY <1>1 DEF DeleteCancels, cupVars, peerVars
  <2>2. pc'[Poll] = "none"
    BY <2>1, TasksApart
  <2>3. pc[Poll] = "setup" => conn[Poll] # writer
    BY TasksApart DEF LinkInv
  <2> QED
    BY <2>1, <2>2, <2>3 DEF MirrorInv
<1>2. CASE DeleteRaises \/ DeleteEnds
  <2>1. /\ \E label : pc' = [pc EXCEPT ![Init_] = label]
        /\ UNCHANGED <<linkVars, state, zeroCheck, peerVars>>
    BY <1>2 DEF DeleteRaises, DeleteEnds, Release, cupVars
  <2>2. pc'[Poll] = pc[Poll]
    BY <2>1, TasksApart
  <2> QED
    BY <2>1, <2>2 DEF MirrorInv, linkVars, peerVars
<1>3. CASE DeleteCloses
  <2>1. /\ pc' = [pc EXCEPT ![Init_] = "closed"] /\ writer' = None
        /\ UNCHANGED <<state, zeroCheck, peer, zch, synced>>
    BY <1>3 DEF DeleteCloses, Take, CloseLink, cupVars, peerVars
  <2>2. pc'[Poll] = pc[Poll]
    BY <2>1, TasksApart
  <2> QED
    BY <2>1, <2>2 DEF MirrorInv
<1>4. CASE InitRefuses \/ InitConnects
  <2>1. /\ writer' = None /\ state' # "ON" /\ UNCHANGED <<peer, zch, synced>>
    BY <1>4 DEF InitRefuses, InitConnects, ResetFields, peerVars
  <2>2. pc'[Poll] = "none"
    BY <1>4, TasksApart DEF InitRefuses, InitConnects, Serving
  <2> QED
    BY <2>1, <2>2 DEF MirrorInv
<1> QED
  BY <1>1, <1>2, <1>3, <1>4 DEF InitStep

LEMMA NextMirror ==
    ASSUME CupLinks, MirrorInv, [Next]_vars
    PROVE  MirrorInv'
<1>1. ASSUME NEW t \in Clients \cup {Poll}, ReadStep(t) PROVE MirrorInv'
  BY <1>1, ReadMirror
<1>2. ASSUME NEW t \in Tasks, ConnectStep(t) PROVE MirrorInv'
  BY <1>2, ConnectMirror
<1>3. ASSUME NEW t \in Tasks, NEW label, pc' = [pc EXCEPT ![t] = label],
             t = Poll => pc[Poll] # "none",
             UNCHANGED <<linkVars, zeroCheck, peerVars>>, state' = "ON" => state = "ON"
      PROVE  MirrorInv'
  <2>1. pc[Poll] = "none" => pc'[Poll] = "none"
    BY <1>3, TasksApart DEF CupLinks, CupInv, CupTypeOK, PcTypeOK
  <2> QED
    BY <1>3, <2>1 DEF MirrorInv, linkVars, peerVars
<1>4. ASSUME NEW c \in Clients, ZeroCheck(c) PROVE MirrorInv'
  <2>1. /\ UNCHANGED <<linkVars, state, peer, synced>>
        /\ pc' = [pc EXCEPT ![c] = "idle"]
    BY <1>4 DEF ZeroCheck
  <2>2. pc'[Poll] = pc[Poll]
    BY <2>1, TasksApart DEF CupLinks, CupInv, CupTypeOK, PcTypeOK
  <2>3. synced /\ writer # None => peer = "up" /\ Linked
    BY DEF MirrorInv, Linked, CupLinks, CupInv, CupTypeOK
  <2>4. \/ writer # None /\ zch' = (IF peer = "up" /\ Linked THEN zeroCheck' ELSE zch)
        \/ UNCHANGED <<zeroCheck, zch>>
    BY <1>4 DEF ZeroCheck
  <2> QED
    BY <2>1, <2>2, <2>3, <2>4 DEF MirrorInv, linkVars
<1>5. CASE PollWakes
  BY <1>3, <1>5, TasksApart DEF PollWakes, Want
<1>6. ASSUME NEW c \in Clients, Request(c) PROVE MirrorInv'
  BY <1>3, <1>6, TasksApart DEF Request, Want, cupVars
<1>7. CASE RequestInit
  BY <1>3, <1>7, TasksApart DEF RequestInit, cupVars
<1>8. CASE PeerChanges
  BY <1>8 DEF PeerChanges, MirrorInv
<1>9. ASSUME NEW l \in Links, Collect(l) PROVE MirrorInv'
  <2>1. UNCHANGED <<writer, pc, state, zeroCheck, peer, zch, synced>>
    BY <1>9 DEF Collect, taskVars, cupVars, peerVars
  <2>2. writer # None => link'[writer] = link[writer]
    BY <1>9 DEF Collect, Dropped, CupLinks, CupInv, CupTypeOK
  <2> QED
    BY <2>1, <2>2 DEF MirrorInv
<1>10. CASE UNCHANGED vars
  BY <1>10 DEF vars, linkVars, taskVars, cupVars, peerVars, MirrorInv
<1>11. CASE InitStep
  BY <1>2, <1>11, InitMirror, TasksApart
<1>12. CASE PollStep
  BY <1>1, <1>2, <1>5, <1>12, TasksApart DEF PollStep
<1>13. ASSUME NEW c \in Clients, ClientStep(c) PROVE MirrorInv'
  BY <1>1, <1>2, <1>4, <1>13, TasksApart DEF ClientStep
<1> QED
  BY <1>6, <1>7, <1>8, <1>9, <1>10, <1>11, <1>12, <1>13 DEF Next

\* zero_check is the instrument's as long as the instrument has been there since the
\* last setup, also when the requests that write it, or reconnect, overlap an Init.
THEOREM CupZeroCheckIsMirrored == Spec => []ZeroCheckIsMirrored
<1>1. Init => MirrorInv
  BY DEF Init, MirrorInv
<1>2. CupLinks /\ MirrorInv /\ [Next]_vars => MirrorInv'
  BY NextMirror
<1>3. MirrorInv => ZeroCheckIsMirrored
  BY DEF MirrorInv, ZeroCheckIsMirrored
<1> QED
  BY <1>1, <1>2, <1>3, CupLinksInvariant, PTL DEF Spec

=============================================================================
