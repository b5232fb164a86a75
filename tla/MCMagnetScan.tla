---------------------------- MODULE MCMagnetScan ----------------------------
(***************************************************************************)
(* What TLC checks of MagnetScan.  A behaviour has one of two things, for  *)
(* both at once are too many states: a serial line that is lost and writes *)
(* of cancelled ramps that come late, under requests one at a time; or     *)
(* requests that overlap each other and Init in every way, on a line that  *)
(* is there, and write one value beside Reset's.  The proofs are about     *)
(* both at once.                                                           *)
(***************************************************************************)
EXTENDS MagnetScan

VARIABLE focus

MCInit == ScanInit /\ focus \in {"line", "overlap"}

Begins ==
    \/ writer.pc = "idle" /\ writer'.pc = "allowed"
    \/ resetter = "idle" /\ resetter' = "allowed"
    \/ init = "idle" /\ init' = "delete"

InFocus ==
    /\ focus = "line" => (Begins => Quiet)
    /\ focus = "overlap" => link' /\ late' = {} /\ writer'.value \in {0, MAX_SETPOINT}

MCNext == ScanNext /\ InFocus /\ UNCHANGED focus

\* Neither focus takes away the step of a task or of a request that has begun.
MCSpec ==
    /\ MCInit /\ [][MCNext]_<<scanVars, focus>>
    /\ ScanFairness

=============================================================================
