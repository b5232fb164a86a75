---------------------------- MODULE PrologixProofs ----------------------------
(***************************************************************************)
(* Theorems of PrologixAdapter: types, the lock keeps the exchanges apart, *)
(* and a client's query stays the last one on the link while it waits for  *)
(* its reply, for any number of clients.                                   *)
(***************************************************************************)
EXTENDS PrologixAdapter, TLAPS

\* The parts of TypeOK.
QueueTypes ==
    /\ queries \in Seq(Sessions) /\ replies \in Seq(Sessions)
    /\ lock \in Sessions \cup {None}
    /\ pc \in [Sessions -> {"none", "line", "want", "dial", "reading"}]
    /\ job \in [Sessions -> Lines \cup {"none"}]

SettingTypes == wired \in BOOLEAN /\ auto \in BOOLEAN /\ peer \in {"up", "mute", "down"}

\* Nothing is on its way to an instrument without a live link to it, and nothing comes
\* back without one that can be read.
LinkTypes ==
    /\ link \in {"none", "open", "eof", "reset"}
    /\ link # "open" => queries = <<>>
    /\ link \in {"none", "reset"} => replies = <<>>

\* OwnReplies, as an index into the queries that are still on the link.
LastIsMine ==
    \A s \in Sessions :
        (link = "open" /\ pc[s] = "reading" /\ job[s] = "query") =>
            LET sent == replies \o queries
            IN  Len(sent) > 0 /\ sent[Len(sent)] = s

AdapterInv == QueueTypes /\ SettingTypes /\ LinkTypes /\ OneExchange /\ LastIsMine

-----------------------------------------------------------------------------

\* The holder of the lock is one session, so no other is in an exchange.
LEMMA HolderIsAlone ==
    ASSUME OneExchange, NEW s \in Sessions, lock = s \/ lock = None,
           NEW t \in Sessions, t # s, None \notin Sessions
    PROVE  pc[t] \notin {"dial", "reading"}
  BY DEF OneExchange

LEMMA InitEstablishes == Init => AdapterInv
<1>1. Init => QueueTypes /\ LinkTypes
  BY DEF Init, QueueTypes, LinkTypes
<1>2. Init => SettingTypes
  BY Zenon DEF Init, SettingTypes
<1>3. Init => OneExchange /\ LastIsMine
  BY DEF Init, OneExchange, LastIsMine
<1> QED
  BY <1>1, <1>2, <1>3 DEF AdapterInv

LEMMA QueueTypesPreserved ==
    ASSUME QueueTypes, [Next]_vars
    PROVE  QueueTypes'
<1> USE DEF QueueTypes, Lines
<1>0. <<>> \in Seq(Sessions)
  OBVIOUS
<1>1. ASSUME NEW s \in Sessions, Accept(s) \/ SessionEnds(s) \/ Setting(s)
      PROVE  QueueTypes'
  BY <1>1 DEF Accept, SessionEnds, Setting, linkVars, sessionVars
<1>2. ASSUME NEW s \in Sessions, NEW line \in Lines, Command(s, line)
      PROVE  QueueTypes'
  BY <1>2 DEF Command, linkVars
<1>3. ASSUME NEW s \in Sessions, TakesToRead(s) \/ TakesToDial(s) \/ ReadUnlinked(s)
      PROVE  QueueTypes'
  BY <1>3 DEF TakesToRead, TakesToDial, ReadUnlinked, Takes, Done, linkVars
<1>4. ASSUME NEW s \in Sessions, TakesToWrite(s) \/ Dialled(s)
      PROVE  QueueTypes'
  <2>1. Sent(s) \in Seq(Sessions) /\ queries \o Sent(s) \in Seq(Sessions)
    BY <1>0 DEF Sent
  <2>2. CASE Done(s) /\ Drop
    BY <2>2, <1>0 DEF Done, Drop
  <2>3. CASE ReadNext(s) /\ queries' \in {queries, queries \o Sent(s), Sent(s)}
                        /\ replies' \in {replies, <<>>}
    <3>1. queries' \in Seq(Sessions) /\ replies' \in Seq(Sessions)
      BY <2>1, <2>3, <1>0
    <3> QED
      BY <3>1, <2>3 DEF ReadNext, Done
  <2> QED
    BY <1>4, <2>2, <2>3 DEF TakesToWrite, Dialled, Written, WriteFails
<1>5. ASSUME NEW s \in Sessions, DialRefused(s) \/ ReadTimesOut(s) \/ ReadFails(s)
      PROVE  QueueTypes'
  BY <1>5, <1>0 DEF DialRefused, ReadTimesOut, ReadFails, Done, Drop, linkVars
<1>6. ASSUME NEW s \in Sessions, ReadReturns(s)
      PROVE  QueueTypes'
  <2>1. replies' \in Seq(Sessions)
    BY <1>6 DEF ReadReturns
  <2> QED
    BY <1>6, <2>1 DEF ReadReturns
<1>7. CASE InstrumentAnswers
  BY <1>7 DEF InstrumentAnswers, sessionVars
<1>8. CASE PeerChanges
  BY <1>8, <1>0 DEF PeerChanges, linkVars, sessionVars
<1>9. CASE UNCHANGED vars
  BY <1>9 DEF vars, linkVars, sessionVars
<1> QED
  BY <1>1, <1>2, <1>3, <1>4, <1>5, <1>6, <1>7, <1>8, <1>9 DEF Next, Exchange

LEMMA SettingTypesPreserved ==
    ASSUME SettingTypes, [Next]_vars
    PROVE  SettingTypes'
<1>1. \/ UNCHANGED <<wired, auto, peer>>
      \/ UNCHANGED peer /\ wired' \in BOOLEAN /\ auto' \in BOOLEAN
      \/ UNCHANGED <<wired, auto>> /\ peer' \in {"up", "mute", "down"}
  BY DEF Next, Accept, SessionEnds, Setting, Command, Exchange, TakesToRead, ReadUnlinked,
     TakesToDial, TakesToWrite, Takes, Dialled, DialRefused, ReadReturns, ReadTimesOut,
     ReadFails, InstrumentAnswers, PeerChanges, settingVars, vars
<1> QED
  BY <1>1 DEF SettingTypes

LEMMA LinkTypesPreserved ==
    ASSUME QueueTypes, LinkTypes, [Next]_vars
    PROVE  LinkTypes'
<1> USE DEF LinkTypes
<1>1. ASSUME NEW s \in Sessions, Exchange(s)
      PROVE  LinkTypes'
  <2>1. \/ UNCHANGED linkVars
        \/ link = "open" /\ UNCHANGED link
        \/ link' = "reset" /\ replies' = <<>> /\ UNCHANGED queries /\ link = "eof"
        \/ link' = "open"
        \/ Drop
        \/ UNCHANGED <<link, queries>> /\ replies # <<>>
    BY <1>1 DEF Exchange, TakesToRead, ReadUnlinked, TakesToDial, TakesToWrite, Takes,
       Dialled, DialRefused, ReadReturns, ReadTimesOut, ReadFails, Written, WriteFails,
       linkVars
  <2> QED
    BY <2>1 DEF linkVars, Drop
<1>2. CASE InstrumentAnswers
  BY <1>2 DEF InstrumentAnswers
<1>3. CASE PeerChanges
  BY <1>3 DEF PeerChanges, linkVars
<1>4. CASE UNCHANGED linkVars
  BY <1>4 DEF linkVars
<1> QED
  BY <1>1, <1>2, <1>3, <1>4
  DEF Next, Accept, SessionEnds, Setting, Command, vars, linkVars

-----------------------------------------------------------------------------

LEMMA ExchangesStayApart ==
    ASSUME AdapterInv, QueueTypes', [Next]_vars
    PROVE  OneExchange'
<1> USE DEF AdapterInv, QueueTypes, OneExchange
<1>1. ASSUME NEW s \in Sessions, Accept(s) \/ SessionEnds(s) \/ Setting(s)
      PROVE  OneExchange'
  BY <1>1 DEF Accept, SessionEnds, Setting, linkVars, sessionVars
<1>2. ASSUME NEW s \in Sessions, NEW line \in Lines, Command(s, line)
      PROVE  OneExchange'
  BY <1>2 DEF Command, linkVars
<1>3. ASSUME NEW s \in Sessions, Exchange(s)
      PROVE  OneExchange'
  <2>1. /\ lock = s \/ lock = None
        /\ \A t \in Sessions \ {s} : pc'[t] = pc[t]
        /\ lock' = s \/ pc'[s] \notin {"dial", "reading"}
    BY <1>3 DEF Exchange, TakesToRead, ReadUnlinked, TakesToDial, TakesToWrite, Takes,
       Dialled, DialRefused, ReadReturns, ReadTimesOut, ReadFails, Written, WriteFails,
       ReadNext, Done
  <2>2. \A t \in Sessions \ {s} : pc[t] \notin {"dial", "reading"}
    BY <2>1, HolderIsAlone, AdapterAssumption
  <2> QED
    BY <2>1, <2>2
<1>4. CASE InstrumentAnswers
  BY <1>4 DEF InstrumentAnswers, sessionVars
<1>5. CASE PeerChanges
  BY <1>5 DEF PeerChanges, sessionVars
<1>6. CASE UNCHANGED vars
  BY <1>6 DEF vars, sessionVars
<1> QED
  BY <1>1, <1>2, <1>3, <1>4, <1>5, <1>6 DEF Next

\* A query put behind others is the last one.
LEMMA PutLast ==
    ASSUME NEW r \in Seq(Sessions), NEW q \in Seq(Sessions), NEW s \in Sessions
    PROVE  LET sent == r \o (q \o <<s>>)
           IN  Len(sent) > 0 /\ sent[Len(sent)] = s
  OBVIOUS

\* An answer moves a query into the replies, and leaves the last one the last.
LEMMA AnswerKeepsLast ==
    ASSUME NEW r \in Seq(Sessions), NEW q \in Seq(Sessions), q # <<>>
    PROVE  LET sent == r \o q
               then == Append(r, Head(q)) \o Tail(q)
           IN  Len(then) = Len(sent) /\ Len(then) > 0 /\ then[Len(then)] = sent[Len(sent)]
  OBVIOUS

LEMMA LastStaysMine ==
    ASSUME AdapterInv, [Next]_vars
    PROVE  LastIsMine'
<1> USE DEF AdapterInv, QueueTypes
<1>1. ASSUME NEW s \in Sessions, Accept(s) \/ SessionEnds(s) \/ Setting(s)
      PROVE  LastIsMine'
  BY <1>1 DEF Accept, SessionEnds, Setting, linkVars, sessionVars, LastIsMine
<1>2. ASSUME NEW s \in Sessions, NEW line \in Lines, Command(s, line)
      PROVE  LastIsMine'
  BY <1>2 DEF Command, linkVars, LastIsMine
<1>3. ASSUME NEW s \in Sessions, Exchange(s)
      PROVE  LastIsMine'
  <2>1. /\ lock = s \/ lock = None
        /\ \A t \in Sessions \ {s} : pc'[t] = pc[t]
    BY <1>3 DEF Exchange, TakesToRead, ReadUnlinked, TakesToDial, TakesToWrite, Takes,
       Dialled, DialRefused, ReadReturns, ReadTimesOut, ReadFails, Written, WriteFails,
       ReadNext, Done, OneExchange
  <2>2. \A t \in Sessions \ {s} : pc'[t] # "reading"
    BY <2>1, HolderIsAlone, AdapterAssumption
  <2>3. SUFFICES ASSUME link' = "open", pc'[s] = "reading", job'[s] = "query"
                 PROVE  /\ Len(replies' \o queries') > 0
                        /\ (replies' \o queries')[Len(replies' \o queries')] = s
    BY <2>2 DEF LastIsMine
  <2>4. \/ /\ replies' = replies /\ queries' = queries \o <<s>>
        \/ /\ replies' = <<>> /\ queries' = <<s>>
    BY <1>3, <2>3 DEF Exchange, TakesToRead, ReadUnlinked, TakesToDial, TakesToWrite, Takes,
       Dialled, DialRefused, ReadReturns, ReadTimesOut, ReadFails, Written, WriteFails,
       ReadNext, Done, Drop, Sent
  <2>5. CASE replies' = replies /\ queries' = queries \o <<s>>
    BY <2>5, PutLast
  <2>6. CASE replies' = <<>> /\ queries' = <<s>>
    BY <2>6
  <2> QED
    BY <2>4, <2>5, <2>6
<1>4. CASE InstrumentAnswers
  <2>1. /\ Len(replies' \o queries') = Len(replies \o queries)
        /\ Len(replies' \o queries') > 0
        /\ (replies' \o queries')[Len(replies' \o queries')]
                = (replies \o queries)[Len(replies \o queries)]
    BY <1>4, AnswerKeepsLast DEF InstrumentAnswers
  <2> QED
    BY <1>4, <2>1 DEF InstrumentAnswers, sessionVars, LastIsMine
<1>5. CASE PeerChanges
  BY <1>5 DEF PeerChanges, linkVars, sessionVars, LastIsMine
<1>6. CASE UNCHANGED vars
  BY <1>6 DEF vars, linkVars, sessionVars, LastIsMine
<1> QED
  BY <1>1, <1>2, <1>3, <1>4, <1>5, <1>6 DEF Next

\* The inductive invariant: types, exchanges apart, and the newest query is that of
\* the session that waits.
LEMMA AdapterInvHolds == Spec => []AdapterInv
<1>1. AdapterInv /\ [Next]_vars => AdapterInv'
  BY QueueTypesPreserved, SettingTypesPreserved, LinkTypesPreserved, ExchangesStayApart, LastStaysMine DEF AdapterInv
<1> QED
  BY <1>1, InitEstablishes, PTL DEF Spec

-----------------------------------------------------------------------------

\* The adapter's variables keep their types: no query or reply without a link.
THEOREM AdapterTypeCorrect == Spec => []TypeOK
<1>1. AdapterInv => TypeOK
  BY DEF AdapterInv, TypeOK, QueueTypes, SettingTypes, LinkTypes
<1> QED
  BY <1>1, AdapterInvHolds, PTL

\* The backend link is used by the holder of Backend.lock only.
THEOREM AdapterExchangesApart == Spec => []OneExchange
<1>1. AdapterInv => OneExchange
  BY DEF AdapterInv
<1> QED
  BY <1>1, AdapterInvHolds, PTL

\* With auto on, no other client's query comes behind that of the session that waits
\* for its reply.
THEOREM AdapterRepliesAreOwn == Spec => []OwnReplies
<1>1. AdapterInv => OwnReplies
  BY DEF AdapterInv, LastIsMine, OwnReplies, Last
<1> QED
  BY <1>1, AdapterInvHolds, PTL

=============================================================================
