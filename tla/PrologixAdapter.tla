--------------------------- MODULE PrologixAdapter ---------------------------
(***************************************************************************)
(* fake_prologix_adapter.py, with fake_picoammeter.py behind it: an        *)
(* asyncio server that lets several clients use one GPIB instrument over   *)
(* one backend link.  Each client has a session, client_loop(), that takes *)
(* its lines one after the other; a lock guards the backend link.          *)
(*                                                                         *)
(* The event loop runs one session at a time, from one await to the next:  *)
(* that is the grain of the actions.                                       *)
(*                                                                         *)
(* Lines are queries (READ?), writes (no reply) and ++read; of the         *)
(* settings, which all clients share, only ++addr and ++auto matter here:  *)
(* eos stays one that the instrument's parser accepts, read_tmo_ms is any  *)
(* time, and mode is stored and not used.  A line that asks for a setting  *)
(* or is addressed to no instrument changes nothing.                       *)
(***************************************************************************)
EXTENDS Integers, Sequences, SequencesExt, FiniteSets

CONSTANTS
    Sessions,       \* bound: the clients connected at a time
    None,
    MAX_UNREAD      \* bound: queries on the link that nobody has read the reply of

ASSUME AdapterAssumption == None \notin Sessions /\ MAX_UNREAD \in Nat

VARIABLES
    wired,      \* AdapterState.addr is the instrument's
    auto,       \* AdapterState.auto
    lock,       \* who holds Backend.lock
    link,       \* Backend.reader and writer: "none", "open", "eof" (the instrument has
                \* closed it), "reset" (and it was written to since)
    queries,    \* the sessions whose queries the instrument has still to answer
    replies,    \* the sessions whose replies wait in Backend.reader
    pc,         \* where each session is: "none" is no session
    job,        \* the line it handles
    peer        \* the instrument: "up", "mute" (accepts, does not answer), "down"

settingVars == <<wired, auto>>
linkVars == <<link, queries, replies>>
sessionVars == <<pc, job>>
vars == <<settingVars, lock, linkVars, sessionVars, peer>>

Lines == {"query", "write", "read"}

TypeOK ==
    /\ wired \in BOOLEAN /\ auto \in BOOLEAN
    /\ lock \in Sessions \cup {None}
    /\ link \in {"none", "open", "eof", "reset"}
    /\ queries \in Seq(Sessions) /\ replies \in Seq(Sessions)
    /\ link # "open" => queries = <<>>
    /\ link \in {"none", "reset"} => replies = <<>>
    /\ pc \in [Sessions -> {"none", "line", "want", "dial", "reading"}]
    /\ job \in [Sessions -> Lines \cup {"none"}]
    /\ peer \in {"up", "mute", "down"}

\* main() dials the instrument, and fails if it is not there.
Init ==
    /\ wired = TRUE /\ auto = FALSE
    /\ lock = None
    /\ link = "open" /\ queries = <<>> /\ replies = <<>>
    /\ pc = [s \in Sessions |-> "none"] /\ job = [s \in Sessions |-> "none"]
    /\ peer \in {"up", "mute"}

-----------------------------------------------------------------------------
(* The lines of a session *)

Accept(s) ==
    /\ pc[s] = "none"
    /\ pc' = [pc EXCEPT ![s] = "line"]
    /\ UNCHANGED <<settingVars, lock, linkVars, job, peer>>

\* The client has closed its connection, or sent what the parser raises on.
SessionEnds(s) ==
    /\ pc[s] = "line"
    /\ pc' = [pc EXCEPT ![s] = "none"]
    /\ UNCHANGED <<settingVars, lock, linkVars, job, peer>>

\* ++addr and ++auto, without the lock.
Setting(s) ==
    /\ pc[s] = "line"
    /\ wired' \in BOOLEAN /\ auto' \in BOOLEAN
    /\ wired' = wired \/ auto' = auto
    /\ UNCHANGED <<lock, linkVars, sessionVars, peer>>

\* The queries that sessions have in hand count, so that each will find room.
Room ==
    Len(queries) + Len(replies)
        + Cardinality({s \in Sessions : pc[s] \in {"want", "dial"} /\ job[s] = "query"})
    < MAX_UNREAD

\* The address is checked before the lock is waited for, and only then.
Command(s, line) ==
    /\ pc[s] = "line"
    /\ line = "read" \/ wired
    /\ line = "query" => Room
    /\ pc' = [pc EXCEPT ![s] = "want"]
    /\ job' = [job EXCEPT ![s] = line]
    /\ UNCHANGED <<settingVars, lock, linkVars, peer>>

\* s lets go of the lock and comes to its next line.
Done(s) ==
    /\ lock' = None
    /\ pc' = [pc EXCEPT ![s] = "line"]
    /\ job' = [job EXCEPT ![s] = "none"]

-----------------------------------------------------------------------------
(* Backend.write() and Backend.read() *)

Drop == link' = "none" /\ queries' = <<>> /\ replies' = <<>>

\* write() leaves the dead link where it is.
WriteFailsUndropped(s) == Done(s) /\ UNCHANGED linkVars

WriteFails(s) == Done(s) /\ Drop

\* With auto, the reply is read without the lock.
ReadNextUnlocked(s) ==
    IF auto
    THEN lock' = None /\ pc' = [pc EXCEPT ![s] = "reading"] /\ UNCHANGED job
    ELSE Done(s)

\* After a write: with auto, read in the same hold of the lock.
ReadNext(s) ==
    IF auto
    THEN lock' = s /\ pc' = [pc EXCEPT ![s] = "reading"] /\ UNCHANGED job
    ELSE Done(s)

Sent(s) == IF job[s] = "query" THEN <<s>> ELSE <<>>

\* The first write to a link whose peer has gone still succeeds, and resets it.
Written(s) ==
    \/ /\ link = "open" /\ ReadNext(s)
       /\ queries' = queries \o Sent(s)
       /\ UNCHANGED <<link, replies>>
    \/ /\ link = "eof" /\ ReadNext(s)
       /\ link' = "reset" /\ replies' = <<>>
       /\ UNCHANGED queries
    \/ link = "reset" /\ WriteFails(s)

Takes(s, label) ==
    /\ pc[s] = "want" /\ lock = None
    /\ lock' = s
    /\ pc' = [pc EXCEPT ![s] = label]
    /\ UNCHANGED <<settingVars, linkVars, job, peer>>

\* ++read with a link; without one there is nothing to read.
TakesToRead(s) == job[s] = "read" /\ link # "none" /\ Takes(s, "reading")

ReadUnlinked(s) ==
    /\ pc[s] = "want" /\ lock = None
    /\ job[s] = "read" /\ link = "none"
    /\ Done(s)
    /\ UNCHANGED <<settingVars, linkVars, peer>>

TakesToDial(s) == job[s] # "read" /\ link = "none" /\ Takes(s, "dial")

TakesToWrite(s) ==
    /\ pc[s] = "want" /\ lock = None
    /\ job[s] # "read" /\ link # "none"
    /\ Written(s)
    /\ UNCHANGED <<settingVars, peer>>

Dialled(s) ==
    /\ pc[s] = "dial" /\ peer # "down"
    /\ ReadNext(s)
    /\ link' = "open" /\ queries' = Sent(s) /\ replies' = <<>>
    /\ UNCHANGED <<settingVars, peer>>

DialRefused(s) ==
    /\ pc[s] = "dial" /\ peer = "down"
    /\ Done(s)
    /\ UNCHANGED <<settingVars, linkVars, peer>>

\* The reply goes to s, whoever asked; a client that has left ends the session.
ReadReturns(s) ==
    /\ pc[s] = "reading" /\ replies # <<>>
    /\ replies' = Tail(replies)
    /\ lock' = None
    /\ \E next \in {"line", "none"} : pc' = [pc EXCEPT ![s] = next]
    /\ job' = [job EXCEPT ![s] = "none"]
    /\ UNCHANGED <<settingVars, link, queries, peer>>

\* A timeout that keeps the lock.
ReadTimesOutLocked(s) ==
    /\ pc[s] = "reading" /\ replies = <<>> /\ link = "open"
    /\ pc' = [pc EXCEPT ![s] = "line"] /\ job' = [job EXCEPT ![s] = "none"]
    /\ UNCHANGED <<settingVars, lock, linkVars, peer>>

\* The query stays on the link, and its reply will come.
ReadTimesOut(s) ==
    /\ pc[s] = "reading" /\ replies = <<>> /\ link = "open"
    /\ Done(s)
    /\ UNCHANGED <<settingVars, linkVars, peer>>

ReadFails(s) ==
    /\ pc[s] = "reading" /\ replies = <<>> /\ link # "open"
    /\ Done(s) /\ Drop
    /\ UNCHANGED <<settingVars, peer>>

Exchange(s) ==
    \/ TakesToRead(s) \/ ReadUnlinked(s) \/ TakesToDial(s) \/ TakesToWrite(s)
    \/ Dialled(s) \/ DialRefused(s)
    \/ ReadReturns(s) \/ ReadTimesOut(s) \/ ReadFails(s)

-----------------------------------------------------------------------------
(* The instrument *)

InstrumentAnswers ==
    /\ peer = "up" /\ queries # <<>>
    /\ queries' = Tail(queries) /\ replies' = Append(replies, Head(queries))
    /\ UNCHANGED <<settingVars, lock, link, sessionVars, peer>>

\* Switched off, it closes the link; what it had answered may still be read.
PeerChanges ==
    /\ peer' \in {"up", "mute", "down"} \ {peer}
    /\ IF peer' = "down" /\ link = "open"
       THEN /\ queries' = <<>>
            /\ \/ link' = "eof" /\ UNCHANGED replies
               \/ link' = "reset" /\ replies' = <<>>
       ELSE UNCHANGED linkVars
    /\ UNCHANGED <<settingVars, lock, sessionVars>>

Next ==
    \/ \E s \in Sessions :
          \/ Accept(s) \/ SessionEnds(s) \/ Setting(s)
          \/ \E line \in Lines : Command(s, line)
          \/ Exchange(s)
    \/ InstrumentAnswers \/ PeerChanges

Spec == Init /\ [][Next]_vars

\* The event loop runs every session; asyncio.Lock wakes its waiters in turn, hence SF.
\* Nothing obliges a client or the instrument.
FairSpec == Spec /\ \A s \in Sessions : SF_vars(Exchange(s))

-----------------------------------------------------------------------------
(* Properties *)

\* "guarded by a lock - a real GPIB bus is one shared channel, not one-per-client"
\* (lines 61-62): only the session that holds the lock uses the link.  A second
\* reader of a StreamReader would raise, and a second dial would leak the first.
OneExchange == \A s \in Sessions : pc[s] \in {"dial", "reading"} => lock = s

\* With auto on, a query and its read are one hold of the lock (lines 190-194): while
\* the link lives, no other session's query comes behind that of the session that waits
\* for its reply, whatever late replies are before it.
OwnReplies ==
    LET sent == replies \o queries
    IN  \A s \in Sessions :
            (link = "open" /\ pc[s] = "reading" /\ job[s] = "query")
                => Last(sent) = s

\* Every line is dealt with, whatever the instrument and the other clients do:
\* no exchange waits for ever, or keeps the lock.
LinesEnd ==
    \A s \in Sessions : (pc[s] \in {"want", "dial", "reading"}) ~> (pc[s] \in {"line", "none"})

\* "a real adapter keeps working when the instrument behind it is power-cycled"
\* (lines 64-67): with an instrument that is up from some time on, and lines for it that
\* keep coming, there is a live link to it for good, however it was lost.
BackendHeals ==
    (/\ <>[](peer = "up")
     /\ []<>(\E s \in Sessions : pc[s] = "want" /\ job[s] # "read"))
        => <>[](link = "open")

=============================================================================
