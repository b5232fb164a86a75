---------------------------- MODULE MCFaradayCup ----------------------------
(***************************************************************************)
(* What TLC checks of FaradayCup.  Two clients whose requests overlap each *)
(* other, and Inits too, are too many states for the liveness properties:  *)
(* a behaviour has two clients beside the poll task and Inits that no      *)
(* request overlaps, or one client whose reads, Reconnects and zero_check  *)
(* writes overlap Inits in every way, before an adapter that is up or      *)
(* down.  The proofs are about any clients and any overlap.                *)
(***************************************************************************)
EXTENDS FaradayCup

CONSTANT Overlapper    \* the client whose requests overlap Inits

VARIABLE focus

MCInit ==
    /\ Init /\ focus \in {"clients", "overlap"}
    /\ focus = "overlap" => peer # "mute"

Idle(c) == pc[c] \in {"idle", "unserved"}

Begins(c) == pc[c] = "idle" /\ pc'[c] # "idle"
InitBegins == pc[Init_] = "idle" /\ pc'[Init_] # "idle"

InFocus ==
    \/ /\ focus = "clients"
       /\ \A c \in Clients : Begins(c) => ~Initialising
       /\ InitBegins => \A c \in Clients : Idle(c)
    \/ /\ focus = "overlap"
       /\ \A c \in Clients : Begins(c) => c = Overlapper /\ pc'[c] # "wantOff"
       /\ peer' # "mute"

MCNext == Next /\ InFocus /\ UNCHANGED focus

\* Neither focus takes away the step of a task or of a request that has begun.
MCSpec ==
    /\ MCInit /\ [][MCNext]_<<vars, focus>>
    /\ CupFairness

=============================================================================
