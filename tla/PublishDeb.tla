----------------------------- MODULE PublishDeb -----------------------------
(***************************************************************************)
(* ci/publish-deb.sh: publishes the two packages of a version to the apt   *)
(* repository.  Jobs run one at a time (resource_group: release in         *)
(* .gitlab-ci.yml), but a job may be killed anywhere and be run again,     *)
(* with the same build or with another one, and beamline-publish, which    *)
(* runs as another user, may outlive the job that called it.               *)
(*                                                                         *)
(* beamline-publish (external) is modelled from how the script uses it: it *)
(* never publishes a version twice (line 9), it may fail before or after   *)
(* it has published, and its exit status is not trusted (lines 66-72).     *)
(***************************************************************************)
EXTENDS Naturals

CONSTANTS
    Builds,         \* builds of this version; no two have a file in common
    None,
    Mistagged,      \* those whose version is not the tag's
    MaxFaults       \* bound: kills, and failures of install and beamline-publish

Packages == {"devices", "simulators"}

ASSUME PublishAssumption ==
    /\ None \notin Builds
    /\ Mistagged \subseteq Builds
    /\ MaxFaults \in Nat

VARIABLES
    index,      \* each package: the build whose SHA256 the published index lists
    drop,       \* its file in the drop directory: "absent", the copy of "this"
                \* job, or one left by an "earlier" job
    pc,         \* where the job is, or how the last one ended
    build,      \* the build it publishes
    pkg,        \* the package the loop is at
    copy,       \* the shell variable: set, the trap removes drop[pkg]
    rc,         \* beamline-publish succeeded
    orphans,    \* <<package, build>> of each beamline-publish that outlived its job
    lied,       \* history: a beamline-publish has succeeded without publishing
    faults

jobVars == <<pc, build, pkg, copy, rc>>
vars == <<index, drop, jobVars, orphans, lied, faults>>

Ended == {"passed", "failed", "aborted"}
Running == {"lookup", "install", "copied", "publishing", "remove", "verify"}

TypeOK ==
    /\ index \in [Packages -> Builds \cup {None}]
    /\ drop \in [Packages -> {"absent", "this", "earlier"}]
    /\ pc \in Ended \cup Running
    /\ build \in Builds \cup {None} /\ (pc \in Running => build \in Builds)
    /\ pkg \in Packages /\ copy \in BOOLEAN /\ rc \in BOOLEAN
    /\ orphans \subseteq Packages \X Builds
    /\ lied \in BOOLEAN /\ faults \in 0..MaxFaults

Init ==
    /\ index = [p \in Packages |-> None]
    /\ drop = [p \in Packages |-> "absent"]
    /\ pc = "aborted" /\ build = None /\ pkg = "devices" /\ copy = FALSE /\ rc = FALSE
    /\ orphans = {} /\ lied = FALSE /\ faults = 0

Fault == faults < MaxFaults /\ faults' = faults + 1

\* The trap: rm -f -- "$copy"
AfterTrap == IF copy THEN [drop EXCEPT ![pkg] = "absent"] ELSE drop

\* The script ends, and bash runs the trap.
Exit(result) ==
    /\ pc' = result
    /\ drop' = AfterTrap
    /\ copy' = FALSE
    /\ UNCHANGED <<build, pkg, rc>>

-----------------------------------------------------------------------------
(* The script *)

\* A first run, a retry, or another pipeline's build of the same version.
Start(b) ==
    /\ pc \in Ended
    /\ pc' = "lookup" /\ build' = b /\ pkg' = "devices" /\ copy' = FALSE /\ rc' = FALSE
    /\ drop' = [p \in Packages |-> IF drop[p] = "this" THEN "earlier" ELSE drop[p]]
    /\ UNCHANGED <<index, orphans, lied, faults>>

\* The next turn of the loop, or the checks after it.
NextPackage ==
    /\ pc' = IF pkg = "devices" THEN "lookup" ELSE "verify"
    /\ pkg' = "simulators"

\* A published file is refused even if it is the built one.
LookupNeverSkips ==
    /\ pc = "lookup"
    /\ \/ /\ build \in Mistagged \/ index[pkg] # None
          /\ Exit("failed")
       \/ /\ build \notin Mistagged /\ index[pkg] = None
          /\ pc' = "install"
          /\ UNCHANGED <<drop, build, pkg, copy, rc>>
    /\ UNCHANGED <<index, orphans, lied, faults>>

\* The version against the tag, the built file against the published one.
Lookup ==
    /\ pc = "lookup"
    /\ \/ /\ build \in Mistagged \/ index[pkg] \notin {None, build}
          /\ Exit("failed")
       \/ /\ build \notin Mistagged /\ index[pkg] = build
          /\ NextPackage
          /\ UNCHANGED <<drop, build, copy, rc>>
       \/ /\ build \notin Mistagged /\ index[pkg] = None
          /\ pc' = "install"
          /\ UNCHANGED <<drop, build, pkg, copy, rc>>
    /\ UNCHANGED <<index, orphans, lied, faults>>

\* copy is set before it is known whose file is there.
InstallSetsCopyFirst ==
    /\ pc = "install"
    /\ IF drop[pkg] # "absent"
       THEN /\ drop' = [drop EXCEPT ![pkg] = "absent"] /\ pc' = "failed"
            /\ UNCHANGED <<build, pkg, copy, rc>>
       ELSE /\ drop' = [drop EXCEPT ![pkg] = "this"] /\ pc' = "copied"
            /\ UNCHANGED <<build, pkg, copy, rc>>
    /\ UNCHANGED <<index, orphans, lied, faults>>

\* A file of that name is refused; otherwise the built file is copied.
Install ==
    /\ pc = "install"
    /\ \/ drop[pkg] # "absent" /\ Exit("failed")
       \/ /\ drop[pkg] = "absent"
          /\ drop' = [drop EXCEPT ![pkg] = "this"]
          /\ pc' = "copied"
          /\ UNCHANGED <<build, pkg, copy, rc>>
    /\ UNCHANGED <<index, orphans, lied, faults>>

\* install fails, and set -e ends the script; a partial file may be there.
InstallFails ==
    /\ pc = "install" /\ drop[pkg] = "absent"
    /\ Fault
    /\ drop' \in {drop, [drop EXCEPT ![pkg] = "this"]}
    /\ pc' = "aborted"
    /\ UNCHANGED <<index, build, pkg, copy, rc, orphans, lied>>

SetCopy ==
    /\ pc = "copied"
    /\ copy' = TRUE
    /\ pc' = "publishing"
    /\ UNCHANGED <<index, drop, build, pkg, rc, orphans, lied, faults>>

\* beamline-publish ends; it publishes only what the index does not list yet.
Publishes ==
    /\ pc = "publishing"
    /\ pc' = "remove"
    /\ \/ index[pkg] = None /\ index' = [index EXCEPT ![pkg] = build]
          /\ rc' = TRUE /\ UNCHANGED <<lied, faults>>
       \/ index[pkg] # None /\ rc' = FALSE /\ UNCHANGED <<index, lied, faults>>
    /\ UNCHANGED <<drop, build, pkg, copy, orphans>>

\* It fails before or after it has published, or succeeds without.
PublishFails ==
    /\ pc = "publishing"
    /\ Fault
    /\ pc' = "remove"
    /\ \/ /\ index[pkg] = None
          /\ index' \in {index, [index EXCEPT ![pkg] = build]}
          /\ rc' = FALSE /\ UNCHANGED lied
       \/ rc' = TRUE /\ lied' = TRUE /\ UNCHANGED index
    /\ UNCHANGED <<drop, build, pkg, copy, orphans>>

\* The exit status is not looked at.
RemoveIgnoresStatus ==
    /\ pc = "remove"
    /\ drop' = [drop EXCEPT ![pkg] = "absent"] /\ copy' = FALSE
    /\ NextPackage
    /\ UNCHANGED <<index, build, rc, orphans, lied, faults>>

\* The copy is removed either way; only then the exit status is looked at.
Remove ==
    /\ pc = "remove"
    /\ drop' = [drop EXCEPT ![pkg] = "absent"] /\ copy' = FALSE
    /\ IF rc THEN NextPackage ELSE pc' = "failed" /\ UNCHANGED pkg
    /\ UNCHANGED <<index, build, rc, orphans, lied, faults>>

\* No check after the loop.
VerifyNothing ==
    /\ pc = "verify"
    /\ Exit("passed")
    /\ UNCHANGED <<index, orphans, lied, faults>>

\* The index must list both built files.
Verify ==
    /\ pc = "verify"
    /\ Exit(IF \A p \in Packages : index[p] = build THEN "passed" ELSE "failed")
    /\ UNCHANGED <<index, orphans, lied, faults>>

Script == Lookup \/ Install \/ SetCopy \/ Publishes \/ Remove \/ Verify

-----------------------------------------------------------------------------
(* Kills of the job, what survives it, and the people of the repository *)

\* beamline-publish may go on without its job.
Orphaned ==
    \/ UNCHANGED orphans
    \/ pc = "publishing" /\ orphans' = orphans \cup {<<pkg, build>>}

\* A signal that bash handles: the trap is run.
Terminate ==
    /\ pc \in Running /\ Fault
    /\ Exit("aborted")
    /\ Orphaned
    /\ UNCHANGED <<index, lied>>

\* SIGKILL or a power cut: it is not.
Kill ==
    /\ pc \in Running /\ Fault
    /\ pc' = "aborted" /\ copy' = FALSE
    /\ Orphaned
    /\ UNCHANGED <<index, drop, build, pkg, rc, lied>>

OrphanEnds(o) ==
    /\ o \in orphans
    /\ orphans' = orphans \ {o}
    /\ \/ UNCHANGED index
       \/ index[o[1]] = None /\ index' = [index EXCEPT ![o[1]] = o[2]]
    /\ UNCHANGED <<drop, jobVars, lied, faults>>

\* Somebody removes what "another job" left behind, as line 54 asks.
CleanUp(p) ==
    /\ drop[p] = "earlier"
    /\ drop' = [drop EXCEPT ![p] = "absent"]
    /\ UNCHANGED <<index, jobVars, orphans, lied, faults>>

Next ==
    \/ \E b \in Builds : Start(b)
    \/ Script
    \/ InstallFails \/ PublishFails
    \/ Terminate \/ Kill
    \/ \E o \in Packages \X Builds : OrphanEnds(o)
    \/ \E p \in Packages : CleanUp(p)

Spec == Init /\ [][Next]_vars

\* A job that runs goes on, as does a beamline-publish; nobody has to start one.
FairSpec == Spec /\ WF_vars(Script)

-----------------------------------------------------------------------------
(* Properties *)

\* "Devices first, then simulators" and "byte-identical ... otherwise the job
\* fails" (lines 6-8): whatever builds were tried, killed and retried, the
\* repository has simulators only beside the devices of the same build.  A
\* beamline-publish that says it published and did not would break this.
SimulatorsFollowDevices ==
    (~lied /\ index["simulators"] # None) => index["devices"] = index["simulators"]

\* "Afterwards the index must list both with the built files' hashes" (line 12):
\* a job that passed has its own build in the repository, for good.
GreenIsPublished == pc = "passed" => \A p \in Packages : index[p] = build

\* "Only a copy this job made is ever removed (by the trap too)" (line 55), so that
\* the file an orphaned beamline-publish may be reading stays.
OnlyOwnCopyRemoved ==
    [][\A p \in Packages :
          (drop[p] = "earlier" /\ drop'[p] = "absent") => UNCHANGED jobVars]_vars

\* A job that can publish: nothing of another build, nothing left behind.
Unhindered ==
    /\ pc = "lookup" /\ pkg = "devices"
    /\ build \notin Mistagged /\ faults = MaxFaults /\ orphans = {}
    /\ \A p \in Packages : index[p] \in {None, build} /\ drop[p] = "absent"

\* "That makes a re-run after a partial failure safe" (lines 8-9): from whatever
\* earlier jobs published, a job that nothing more hinders completes the release.
RerunCompletes == Unhindered ~> pc = "passed"

=============================================================================
