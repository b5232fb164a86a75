----------------------------- MODULE FaradayCup -----------------------------
(***************************************************************************)
(* faraday_cup.py: an asyncio device that polls a picoammeter through a    *)
(* TCP adapter.  A poll task reads and, when that fails, redials with a    *)
(* growing backoff; clients read the current, write zero_check, Reconnect  *)
(* and Init at the same time.  An asyncio.Lock keeps the round trips and   *)
(* the redials apart.                                                      *)
(*                                                                         *)
(* The event loop runs one coroutine at a time, from one await to the      *)
(* next: that is the grain of the actions.  A coroutine that finds the     *)
(* lock free, or a buffer with room, does not give way.                    *)
(*                                                                         *)
(* Init replaces the lock object: lock[gen] is self._link_lock, the other  *)
(* one is that of before the last Init, which an operation may still hold. *)
(***************************************************************************)
EXTENDS Integers, FiniteSets

CONSTANTS
    Clients,        \* bound: the requests, Init apart, that run at a time
    Poll, Init_,    \* the poll task and the Init command
    Links,          \* bound: the TCP connections that are open at a time
    None,
    BACKOFF_CAP     \* the doublings from PollIntervalMs to BACKOFF_CAP_S

Tasks == Clients \cup {Poll, Init_}

ASSUME CupAssumption ==
    /\ Poll # Init_ /\ Poll \notin Clients /\ Init_ \notin Clients
    /\ None \notin Tasks /\ None \notin Links
    /\ BACKOFF_CAP \in Nat

VARIABLES
    state,      \* the Tango device state
    writer,     \* self._writer (and self._reader)
    lock,       \* who holds each of the two lock objects
    gen,        \* which of them is self._link_lock
    straddled,  \* the last Init replaced the lock under a request, or found what one left
    pc,         \* where each task is
    mine,       \* the lock object each task uses
    conn,       \* the connection each task waits on
    backoff,    \* backoff_s of the poll task, in doublings
    zeroCheck,  \* self._zero_check
    link,       \* each connection: "none", "open", or "dead" (its peer is gone)
    peer,       \* adapter and instrument: "up", "mute" (the instrument is gone), "down"
    zch,        \* the instrument's zero check
    synced      \* the last setup reached the instrument and no outage was since

linkVars == <<writer, link>>
taskVars == <<lock, gen, straddled, pc, mine, conn>>
cupVars == <<state, backoff, zeroCheck>>
peerVars == <<peer, zch, synced>>
vars == <<linkVars, taskVars, cupVars, peerVars>>

ClientSteps == {"wantRead", "reply", "wantLink", "dialling", "setup",
                "wantOn", "wantOff"}
PollSteps == {"sleep", "backoff", "wantRead", "reply", "wantLink", "dialling",
              "setup"}
InitSteps == {"cancel", "wantClose", "closed", "reset", "wantLink", "dialling",
              "setup"}

TypeOK ==
    /\ state \in {"INIT", "ON", "FAULT"}
    /\ writer \in Links \cup {None}
    /\ lock \in [{0, 1} -> Tasks \cup {None}] /\ gen \in {0, 1}
    /\ straddled \in BOOLEAN
    /\ \A c \in Clients : pc[c] \in ClientSteps \cup {"unserved", "idle"}
    /\ pc[Poll] \in PollSteps \cup {"none", "failed"}
    /\ pc[Init_] \in InitSteps \cup {"idle"}
    /\ mine \in [Tasks -> {0, 1}]
    /\ conn \in [Tasks -> Links \cup {None}]
    /\ backoff \in 0..BACKOFF_CAP
    /\ zeroCheck \in BOOLEAN
    /\ link \in [Links -> {"none", "open", "dead"}]
    /\ peer \in {"up", "mute", "down"} /\ zch \in BOOLEAN /\ synced \in BOOLEAN

\* The server has just started and runs its first Init, from init_device() on.
Init ==
    /\ state = "INIT" /\ writer = None
    /\ lock = [g \in {0, 1} |-> None] /\ gen = 0 /\ straddled = FALSE
    /\ pc = [t \in Tasks |-> CASE t = Poll -> "none" [] t = Init_ -> "reset"
                              [] OTHER -> "unserved"]
    /\ mine = [t \in Tasks |-> 0] /\ conn = [t \in Tasks |-> None]
    /\ backoff = 0 /\ zeroCheck = FALSE
    /\ link = [l \in Links |-> "none"]
    /\ peer \in {"up", "mute", "down"} /\ zch \in BOOLEAN /\ synced = FALSE

Initialising == pc[Init_] # "idle"
\* self._writer's connection is alive.
Linked == \E l \in Links : l = writer /\ link[l] = "open"

\* In a round trip or a redial.
Busy(t) == pc[t] \in {"reply", "dialling", "setup", "closed"}

\* Tango serves requests once the first Init is through.
Serving(f) == [t \in Tasks |-> IF f[t] = "unserved" THEN "idle" ELSE f[t]]

-----------------------------------------------------------------------------
(* The lock and the round trips *)

\* t goes to wait for self._link_lock, the object it is now.
Want(t, label) ==
    /\ pc' = [pc EXCEPT ![t] = label]
    /\ mine' = [mine EXCEPT ![t] = gen]
    /\ UNCHANGED <<lock, gen, straddled, conn>>

Free(t) == lock[mine[t]] = None

\* The lock is forgotten.
TakeUnlocked(t, label) ==
    /\ pc' = [pc EXCEPT ![t] = label]
    /\ UNCHANGED <<lock, gen, straddled, mine>>

\* The lock is taken for what lasts beyond this step, or passed through.
Take(t, label) ==
    /\ Free(t)
    /\ lock' = [lock EXCEPT ![mine[t]] = t]
    /\ pc' = [pc EXCEPT ![t] = label]
    /\ UNCHANGED <<gen, straddled, mine>>

Release(t, label) ==
    /\ lock' = [lock EXCEPT ![mine[t]] = None]
    /\ pc' = [pc EXCEPT ![t] = label]
    /\ conn' = [conn EXCEPT ![t] = None]
    /\ UNCHANGED <<gen, straddled, mine>>

\* What a read leads to: the poll task becomes ON and forgets its backoff, or FAULT
\* and redials; a client gets a value or an error.
ReadGood(t) ==
    IF t = Poll THEN state' = "ON" /\ backoff' = 0 ELSE UNCHANGED <<state, backoff>>
ReadBad(t) ==
    /\ state' = IF t = Poll THEN "FAULT" ELSE state
    /\ UNCHANGED backoff
AfterGoodRead(t) == IF t = Poll THEN "sleep" ELSE "idle"
\* A poll loop that retries without redialling.
AfterBadReadSleeps(t) == IF t = Poll THEN "sleep" ELSE "idle"
AfterBadRead(t) == IF t = Poll THEN "wantLink" ELSE "idle"

\* _read_current() with no connection.
ReadUnconnected(t) ==
    /\ pc[t] = "wantRead" /\ Free(t) /\ writer = None
    /\ ReadBad(t)
    /\ IF t = Poll THEN Want(t, "wantLink") ELSE Release(t, "idle")
    /\ UNCHANGED <<linkVars, zeroCheck, peerVars>>

\* "READ?" and "++read" are sent. A stream that another task waits on already
\* raises RuntimeError, which ends the poll task.
ReadSends(t) ==
    /\ pc[t] = "wantRead" /\ writer # None
    /\ IF \E u \in Tasks \ {t} : conn[u] = writer /\ pc[u] = "reply"
       THEN /\ Free(t)
            /\ Release(t, IF t = Poll THEN "failed" ELSE "idle")
       ELSE /\ Take(t, "reply")
            /\ conn' = [conn EXCEPT ![t] = writer]
    /\ UNCHANGED <<linkVars, cupVars, peerVars>>

ReadReturns(t) ==
    /\ pc[t] = "reply" /\ peer = "up" /\ link[conn[t]] = "open"
    /\ ReadGood(t)
    /\ Release(t, AfterGoodRead(t))
    /\ UNCHANGED <<linkVars, zeroCheck, peerVars>>

\* No answer within a second, or the end of the stream.
ReadFails(t) ==
    /\ pc[t] = "reply" /\ (peer # "up" \/ link[conn[t]] # "open")
    /\ ReadBad(t)
    /\ lock' = [lock EXCEPT ![mine[t]] = None]
    /\ pc' = [pc EXCEPT ![t] = AfterBadRead(t)]
    /\ mine' = [mine EXCEPT ![t] = gen]
    /\ conn' = [conn EXCEPT ![t] = None]
    /\ UNCHANGED <<gen, straddled, linkVars, zeroCheck, peerVars>>

\* A reply that is not a number: float() raises ValueError, which nothing in the poll
\* loop catches.
ReadGarbled(t) ==
    /\ pc[t] = "reply" /\ peer = "up" /\ link[conn[t]] = "open"
    /\ Release(t, IF t = Poll THEN "failed" ELSE "idle")
    /\ UNCHANGED <<linkVars, cupVars, peerVars>>

ReadStep(t) ==
    \/ ReadUnconnected(t) \/ ReadSends(t) \/ ReadReturns(t) \/ ReadGarbled(t)
    \/ ReadFails(t)

\* zero_check's setter: one line is sent, and the mirror assigned, in one go; with
\* no connection there is nobody to send it to, and a dead one may raise.
ZeroCheck(t) ==
    /\ pc[t] \in {"wantOn", "wantOff"} /\ Free(t)
    /\ \/ /\ writer # None
          /\ zeroCheck' = (pc[t] = "wantOn")
          /\ zch' = IF peer = "up" /\ Linked THEN zeroCheck' ELSE zch
       \/ /\ ~Linked
          /\ UNCHANGED <<zeroCheck, zch>>
    /\ pc' = [pc EXCEPT ![t] = "idle"]
    /\ UNCHANGED <<lock, gen, straddled, mine, conn, linkVars, state, backoff, peer, synced>>

-----------------------------------------------------------------------------
(* _connect_and_setup() *)

\* _connect_and_setup() that leaves the old link to the garbage collector.
ForgetLink == writer' = None /\ UNCHANGED link

\* _close_link() up to its await.
CloseLink ==
    /\ writer' = None
    /\ link' = [l \in Links |-> IF l = writer THEN "none" ELSE link[l]]

\* It awaits the old link's end and then the new link: it holds the lock and there
\* is no self._writer, either way.
ConnectDials(t) ==
    /\ pc[t] = "wantLink"
    /\ Take(t, "dialling")
    /\ CloseLink
    /\ UNCHANGED <<conn, cupVars, peerVars>>

\* What a connection that was made or not leads to.
StateAfterConnect(t, ok) ==
    CASE t = Poll -> state
      [] t = Init_ -> IF ok THEN "ON" ELSE "FAULT"
      [] OTHER -> IF ok THEN "ON" ELSE state

\* The backoff reset by a connection that was made.
FinishResetsBackoff(t) ==
    /\ lock' = [lock EXCEPT ![mine[t]] = None]
    /\ pc' = IF t = Init_ THEN Serving([pc EXCEPT ![t] = "idle", ![Poll] = "sleep"])
                          ELSE [pc EXCEPT ![t] = IF t = Poll THEN "backoff" ELSE "idle"]
    /\ conn' = [conn EXCEPT ![t] = None]
    /\ backoff' = IF t \in {Poll, Init_} THEN 0 ELSE backoff
    /\ UNCHANGED <<gen, straddled, mine>>

\* The lock is let go; init_device() goes on to create the poll task, connected or
\* not.
Finish(t) ==
    /\ lock' = [lock EXCEPT ![mine[t]] = None]
    /\ pc' = IF t = Init_ THEN Serving([pc EXCEPT ![t] = "idle", ![Poll] = "sleep"])
                          ELSE [pc EXCEPT ![t] = IF t = Poll THEN "backoff" ELSE "idle"]
    /\ conn' = [conn EXCEPT ![t] = None]
    /\ backoff' = IF t = Init_ THEN 0 ELSE backoff
    /\ UNCHANGED <<gen, straddled, mine>>

\* The adapter accepts; the task has not run yet.
ConnectAccepted(t) ==
    /\ pc[t] = "dialling" /\ peer # "down"
    /\ \E l \in Links :
          /\ link[l] = "none" /\ \A u \in Tasks : conn[u] # l
          /\ link' = [link EXCEPT ![l] = "open"]
          /\ conn' = [conn EXCEPT ![t] = l]
    /\ pc' = [pc EXCEPT ![t] = "setup"]
    /\ UNCHANGED <<lock, gen, straddled, mine, writer, cupVars, peerVars>>

ConnectRefused(t) ==
    /\ pc[t] = "dialling" /\ peer = "down"
    /\ Finish(t)
    /\ state' = StateAfterConnect(t, FALSE)
    /\ UNCHANGED <<linkVars, zeroCheck, peerVars>>

\* The setup lines without the mirror.
ConnectSetUpUnmirrored(t) ==
    /\ pc[t] = "setup" /\ link[conn[t]] = "open"
    /\ writer' = conn[t]
    /\ Finish(t)
    /\ state' = StateAfterConnect(t, TRUE)
    /\ zch' = IF peer = "up" THEN FALSE ELSE zch
    /\ synced' = (peer = "up")
    /\ UNCHANGED <<link, peer, zeroCheck>>

\* The connection becomes self._writer and the setup lines are sent, "SYST:ZCH OFF"
\* the last; an adapter without its instrument drops it.
ConnectSetUp(t) ==
    /\ pc[t] = "setup" /\ link[conn[t]] = "open"
    /\ writer' = conn[t]
    /\ Finish(t)
    /\ state' = StateAfterConnect(t, TRUE)
    /\ zeroCheck' = FALSE
    /\ zch' = IF peer = "up" THEN FALSE ELSE zch
    /\ synced' = (peer = "up")
    /\ UNCHANGED <<link, peer>>

\* It died before: sending raises, and self._writer is the dead connection.
ConnectLost(t) ==
    /\ pc[t] = "setup" /\ link[conn[t]] = "dead"
    /\ writer' = conn[t]
    /\ Finish(t)
    /\ state' = StateAfterConnect(t, FALSE)
    /\ synced' = FALSE
    /\ UNCHANGED <<link, zeroCheck, peer, zch>>

ConnectStep(t) ==
    \/ ConnectDials(t) \/ ConnectAccepted(t) \/ ConnectRefused(t)
    \/ ConnectSetUp(t) \/ ConnectLost(t)

-----------------------------------------------------------------------------
(* The poll task *)

\* It sleeps interval_s after a good read, else backoff_s, which then doubles, and
\* starts over: with a read, or without a connection in FAULT with a redial.
PollWakes ==
    /\ pc[Poll] \in {"sleep", "backoff"}
    /\ backoff' = IF pc[Poll] = "backoff" /\ backoff < BACKOFF_CAP THEN backoff + 1 ELSE backoff
    /\ IF writer = None
       THEN state' = "FAULT" /\ Want(Poll, "wantLink")
       ELSE UNCHANGED state /\ Want(Poll, "wantRead")
    /\ UNCHANGED <<linkVars, zeroCheck, peerVars>>

PollStep == PollWakes \/ ReadStep(Poll) \/ ConnectStep(Poll)

-----------------------------------------------------------------------------
(* Requests *)

Request(c) ==
    /\ pc[c] = "idle"
    /\ \E label \in {"wantRead", "wantLink", "wantOn", "wantOff"} :
          /\ label \in {"wantOn", "wantOff"} => state # "FAULT"
          /\ Want(c, label)
    /\ UNCHANGED <<linkVars, cupVars, peerVars>>

ClientStep(c) == ReadStep(c) \/ ZeroCheck(c) \/ ConnectStep(c)

RequestInit ==
    /\ ~Initialising
    /\ pc' = [pc EXCEPT ![Init_] = "cancel"]
    /\ UNCHANGED <<lock, gen, straddled, mine, conn, linkVars, cupVars, peerVars>>

\* delete_device() without the cancellation.
DeleteKeepsPoll ==
    /\ pc[Init_] = "cancel"
    /\ Want(Init_, "wantClose")
    /\ UNCHANGED <<linkVars, cupVars, peerVars>>

\* delete_device() cancels and awaits the poll task, which lets go of the lock, and
\* of a connection that open_connection() had not returned yet.
DeleteCancels ==
    /\ pc[Init_] = "cancel" /\ pc[Poll] # "failed"
    /\ lock' = [g \in {0, 1} |-> IF lock[g] = Poll THEN None ELSE lock[g]]
    /\ pc' = [pc EXCEPT ![Poll] = "none", ![Init_] = "wantClose"]
    /\ conn' = [conn EXCEPT ![Poll] = None]
    /\ mine' = [mine EXCEPT ![Init_] = gen]
    /\ link' = [l \in Links |-> IF pc[Poll] = "setup" /\ l = conn[Poll] THEN "none" ELSE link[l]]
    /\ UNCHANGED <<gen, straddled, writer, cupVars, peerVars>>

\* Awaiting a poll task that has failed raises its error: Init fails.
DeleteRaises ==
    /\ pc[Init_] = "cancel" /\ pc[Poll] = "failed"
    /\ pc' = [pc EXCEPT ![Init_] = "idle"]
    /\ UNCHANGED <<lock, gen, straddled, mine, conn, linkVars, cupVars, peerVars>>

DeleteCloses ==
    /\ pc[Init_] = "wantClose"
    /\ Take(Init_, "closed")
    /\ CloseLink
    /\ UNCHANGED <<conn, cupVars, peerVars>>

DeleteEnds ==
    /\ pc[Init_] = "closed"
    /\ Release(Init_, "reset")
    /\ UNCHANGED <<linkVars, cupVars, peerVars>>

\* No request is on its way, and none has left a connection.
Clean ==
    /\ \A c \in Clients : pc[c] \in {"idle", "unserved"}
    /\ writer = None /\ \A l \in Links : link[l] = "none"

\* init_device() up to its first await: everything is new, the lock too. An
\* operation of before two Inits would need a third lock (a bound).
ResetFields ==
    /\ pc[Init_] = "reset"
    /\ \A c \in Clients : pc[c] # "idle" => mine[c] = gen
    /\ gen' = 1 - gen
    /\ straddled' = ~Clean
    /\ mine' = [mine EXCEPT ![Init_] = gen']
    /\ lock' = [lock EXCEPT ![gen'] = None]
    /\ writer' = None /\ zeroCheck' = FALSE
    /\ UNCHANGED <<conn, link, backoff, peerVars>>

\* An address or an interval out of range: FAULT, and no poll task.
InitRefuses ==
    /\ ResetFields
    /\ state' = "FAULT"
    /\ pc' = Serving([pc EXCEPT ![Init_] = "idle", ![Poll] = "none"])

InitConnects ==
    /\ ResetFields
    /\ state' = "INIT"
    /\ pc' = [pc EXCEPT ![Init_] = "wantLink", ![Poll] = "none"]

InitStep ==
    \/ DeleteCancels \/ DeleteRaises \/ DeleteCloses \/ DeleteEnds
    \/ InitRefuses \/ InitConnects \/ ConnectStep(Init_)

-----------------------------------------------------------------------------
(* The adapter and the instrument *)

\* An adapter that goes down takes its connections with it; an instrument that
\* goes may lose its zero check.
PeerChanges ==
    /\ peer' \in {"up", "mute", "down"} \ {peer}
    /\ link' = [l \in Links |-> IF peer' = "down" /\ link[l] = "open" THEN "dead" ELSE link[l]]
    /\ zch' \in {zch, FALSE}
    /\ synced' = FALSE
    /\ UNCHANGED <<writer, taskVars, cupVars>>

\* The garbage collector closes a connection whose writer nobody has any more.
Dropped(l) ==
    /\ link[l] # "none" /\ l # writer
    /\ \A t \in Tasks : pc[t] = "setup" => conn[t] # l

Collect(l) ==
    /\ Dropped(l)
    /\ link' = [link EXCEPT ![l] = "none"]
    /\ UNCHANGED <<writer, taskVars, cupVars, peerVars>>

Next ==
    \/ PollStep
    \/ \E c \in Clients : Request(c) \/ ClientStep(c)
    \/ RequestInit
    \/ InitStep
    \/ PeerChanges
    \/ \E l \in Links : Collect(l)

Spec == Init /\ [][Next]_vars

\* The event loop serves every task, and asyncio.Lock its waiters in turn; nothing
\* obliges a client, or the peer, to do anything.
CupFairness ==
    /\ SF_vars(PollStep)
    /\ \A c \in Clients : SF_vars(ClientStep(c))
    /\ SF_vars(InitStep)
    /\ WF_vars(\E l \in Links : Collect(l))

-----------------------------------------------------------------------------
(* Properties *)

\* "a replaced link is always closed, not left to the garbage collector" (lines
\* 121-125): the only connection there is is self._writer, or about to be, unless
\* the last Init replaced the lock under a Reconnect or found what one had left.
OneLink == straddled \/ \A l \in Links : ~Dropped(l)

\* "one physical GPIB-style channel, no concurrent interleave" (lines 17-20): no
\* two tasks are in a round trip or a redial, so that no reply goes to another
\* task; but one may hold the lock that an Init replaced under it.
RoundTripsApart ==
    \A t, u \in Tasks :
        Busy(t) /\ Busy(u) => t = u \/ (straddled /\ mine[t] # mine[u])

\* "zero_check is tracked as device-server-mirrored state" (lines 9-15): it is the
\* instrument's, as long as the instrument has been there since the last setup.
ZeroCheckIsMirrored == state = "ON" /\ synced => zeroCheck = zch

\* "no poll loop outlives its device" (lines 28-31): after delete_device(), and
\* until init_device() is through, nothing polls.
NoPollDuringInit ==
    pc[Init_] \in InitSteps \ {"cancel"} => pc[Poll] = "none"

\* "the device heals itself once the adapter is back" (lines 23-26): with an
\* instrument that answers from some time on, in numbers, valid properties and
\* whatever clients do but Init and Reconnect, it is ON for good.
HealsItself ==
    <>[](/\ peer = "up" /\ ~Initialising /\ pc[Poll] \notin {"none", "failed"}
         /\ \A c \in Clients : pc[c] \notin {"dialling", "setup"})
        => <>[](state = "ON")

\* "an endpoint that accepts the connection but can't answer must not be redialled
\* at the poll rate" (lines 201-204), not even if clients Reconnect all the time.
MuteIsRedialledSlowly ==
    <>[](peer = "mute" /\ ~Initialising) =>
        <>[](pc[Poll] \notin {"none", "failed"} => backoff = BACKOFF_CAP)

=============================================================================
