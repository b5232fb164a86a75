--------------------------- MODULE MCCeYagCamera ---------------------------
(***************************************************************************)
(* What TLC checks of CeYagCamera.  Two read loops that fight for one      *)
(* stream are too many states, so a behaviour has one client, with every   *)
(* Reconnect, Init and outage, and recv()s that split or workers that are  *)
(* slower than a connect; or it has two clients whose Reconnects overlap   *)
(* once, before a camera that is mute or down until that is over.  The     *)
(* proofs are about any clients, overlaps, workers and outages.            *)
(***************************************************************************)
EXTENDS CeYagCamera

CONSTANT Other      \* the second client

VARIABLE focus      \* "single", "overlap", or "overlapped" once Other has come

MCInit ==
    /\ Init /\ req[Other].pc = "idle"
    /\ \/ focus = "single"
       \/ focus = "overlap" /\ peer # "up"

Begins(r) == req[r].pc = "idle" /\ req'[r].pc # "idle"

WholeRecvs == \A w \in Workers : ~worker'[w].got

\* The second client's only Reconnect is over, and what it overlapped with.
Settled == focus = "overlapped" /\ ~mixed /\ req[Other].pc = "idle"

InFocus ==
    \/ /\ focus = "single" /\ focus' = focus
       /\ ~Begins(Other)
       /\ mixed' => WholeRecvs
    \/ /\ focus # "single"
       /\ focus' = IF Begins(Other) THEN "overlapped" ELSE focus
       /\ Begins(Other) => focus = "overlap"
       /\ \A r \in Reqs : Begins(r) => req'[r].kind = "reconnect"
       /\ WholeRecvs
       /\ peer' # peer => Settled /\ peer' = "up"

MCNext == Next /\ InFocus

\* A focus may put off a step of a task or a thread that has begun, but takes none away.
MCSpec ==
    /\ MCInit /\ [][MCNext]_<<vars, focus>>
    /\ CameraFairness

=============================================================================
