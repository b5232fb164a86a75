---------------------------- MODULE PublishProofs ----------------------------
(***************************************************************************)
(* Theorems about PublishDeb, for any number of builds, kills and retries: *)
(* its types, that what is published stays and belongs together, and that  *)
(* a job that passed has published its own build.                          *)
(***************************************************************************)
EXTENDS PublishDeb, TLAPS

USE DEF jobVars, Packages, Running, Ended

-----------------------------------------------------------------------------
(* Types *)

\* The end of the script keeps the types.
LEMMA ExitTypes ==
    ASSUME TypeOK, NEW result \in Ended, Exit(result)
    PROVE  /\ drop' \in [Packages -> {"absent", "this", "earlier"}]
           /\ pc' \in Ended /\ copy' \in BOOLEAN
           /\ UNCHANGED <<build, pkg, rc>>
BY DEF TypeOK, Exit, AfterTrap

\* A step of the script keeps the types.
LEMMA ScriptTypes == TypeOK /\ Script => TypeOK'
<1> SUFFICES ASSUME TypeOK, Script PROVE TypeOK'
  OBVIOUS
<1>1. CASE Lookup
  BY <1>1, ExitTypes DEF Lookup, NextPackage, TypeOK
<1>2. CASE Install
  BY <1>2, ExitTypes DEF Install, TypeOK
<1>3. CASE SetCopy
  BY <1>3 DEF SetCopy, TypeOK
<1>4. CASE Publishes
  BY <1>4 DEF Publishes, TypeOK
<1>5. CASE Remove
  BY <1>5 DEF Remove, NextPackage, TypeOK
<1>6. CASE Verify
  BY <1>6, ExitTypes DEF Verify, TypeOK
<1> QED
  BY <1>1, <1>2, <1>3, <1>4, <1>5, <1>6 DEF Script

\* A fault stays within its bound.
LEMMA FaultTypes == TypeOK /\ Fault => faults' \in 0..MaxFaults
BY PublishAssumption DEF TypeOK, Fault

LEMMA OrphanedTypes == TypeOK /\ build \in Builds /\ Orphaned => orphans' \subseteq Packages \X Builds
BY DEF TypeOK, Orphaned

LEMMA NextTypes == TypeOK /\ [Next]_vars => TypeOK'
<1> SUFFICES ASSUME TypeOK, [Next]_vars PROVE TypeOK'
  OBVIOUS
<1>1. CASE \E b \in Builds : Start(b)
  BY <1>1 DEF Start, TypeOK
<1>2. CASE Script
  BY <1>2, ScriptTypes
<1>3. CASE InstallFails
  BY <1>3, FaultTypes DEF InstallFails, TypeOK
<1>4. CASE PublishFails
  BY <1>4, FaultTypes DEF PublishFails, TypeOK
<1>5. CASE Terminate
  BY <1>5, FaultTypes, ExitTypes, OrphanedTypes DEF Terminate, TypeOK
<1>6. CASE Kill
  BY <1>6, FaultTypes, OrphanedTypes DEF Kill, TypeOK
<1>7. CASE \E o \in Packages \X Builds : OrphanEnds(o)
  BY <1>7 DEF OrphanEnds, TypeOK
<1>8. CASE \E p \in Packages : CleanUp(p)
  BY <1>8 DEF CleanUp, TypeOK
<1>9. CASE UNCHANGED vars
  BY <1>9 DEF vars, TypeOK
<1> QED
  BY <1>1, <1>2, <1>3, <1>4, <1>5, <1>6, <1>7, <1>8, <1>9 DEF Next

\* The repository, the drop directory and the job keep their types, whatever fails.
THEOREM PublishTypeCorrect == Spec => []TypeOK
<1>1. Init => TypeOK
  <2>1. 0 \in 0..MaxFaults
    BY PublishAssumption
  <2> QED
    BY <2>1 DEF Init, TypeOK
<1> QED
  BY <1>1, NextTypes, PTL DEF Spec

-----------------------------------------------------------------------------
(* What is published *)

\* What the repository has of a package, it keeps.
LEMMA PublishedStays ==
    ASSUME TypeOK, [Next]_vars, NEW p \in Packages, index[p] # None
    PROVE  index'[p] = index[p]
<1>1. CASE Script
  BY <1>1 DEF Script, Lookup, Install, SetCopy, Publishes, Remove, Verify, TypeOK
<1>2. CASE InstallFails \/ PublishFails \/ Terminate \/ Kill
  BY <1>2 DEF InstallFails, PublishFails, Terminate, Kill, TypeOK
<1>3. CASE \E o \in Packages \X Builds : OrphanEnds(o)
  BY <1>3 DEF OrphanEnds, TypeOK
<1> QED
  BY <1>1, <1>2, <1>3 DEF Next, Start, CleanUp, vars

\* A job that passed has its own build in the repository, for good.
GreenInv == pc = "passed" => build \in Builds /\ GreenIsPublished

THEOREM PublishGreenIsPublished == Spec => []GreenIsPublished
<1>1. Init => GreenInv
  BY DEF Init, GreenInv
<1>2. TypeOK /\ GreenInv /\ [Next]_vars => GreenInv'
  <2> SUFFICES ASSUME TypeOK, GreenInv, [Next]_vars, pc' = "passed"
               PROVE  build' \in Builds /\ \A p \in Packages : index'[p] = build'
    BY DEF GreenInv, GreenIsPublished
  <2>1. CASE Verify
    BY <2>1 DEF Verify, Exit, TypeOK
  <2>2. CASE ~Verify
    <3>1. pc = "passed" /\ build' = build
      BY <2>2 DEF Next, Start, Script, Lookup, NextPackage, Exit, Install, SetCopy,
                  Publishes, Remove, InstallFails, PublishFails, Terminate, Kill,
                  OrphanEnds, CleanUp, vars
    <3>2. build \in Builds /\ \A p \in Packages : index[p] = build
      BY <3>1 DEF GreenInv, GreenIsPublished
    <3> QED
      BY <3>1, <3>2, PublishedStays, PublishAssumption
  <2> QED
    BY <2>1, <2>2
<1>3. GreenInv => GreenIsPublished
  BY DEF GreenInv, GreenIsPublished
<1> QED
  BY <1>1, <1>2, <1>3, PublishTypeCorrect, PTL DEF Spec

-----------------------------------------------------------------------------
(* Devices first, then simulators *)

\* As long as no beamline-publish has lied: a job gets to the simulators, and leaves
\* a beamline-publish of them behind, only with its devices in the repository.
DevicesFirst ==
    ~lied =>
        /\ index["simulators"] # None => index["devices"] = index["simulators"]
        /\ pc \in Running /\ pkg = "simulators" => index["devices"] = build
        /\ pc = "remove" /\ rc => index[pkg] = build
        /\ \A b \in Builds : <<"simulators", b>> \in orphans => index["devices"] = b

\* A step of the script keeps devices first.
LEMMA ScriptDevicesFirst ==
    ASSUME TypeOK, DevicesFirst, Script
    PROVE  DevicesFirst'
<1> USE PublishAssumption DEF DevicesFirst, TypeOK
<1>1. CASE Lookup
  BY <1>1 DEF Lookup, NextPackage, Exit
<1>2. CASE Install
  BY <1>2 DEF Install, Exit
<1>3. CASE SetCopy
  BY <1>3 DEF SetCopy
<1>4. CASE Publishes
  BY <1>4 DEF Publishes
<1>5. CASE Remove
  BY <1>5 DEF Remove, NextPackage
<1>6. CASE Verify
  BY <1>6 DEF Verify, Exit
<1> QED
  BY <1>1, <1>2, <1>3, <1>4, <1>5, <1>6 DEF Script

LEMMA NextDevicesFirst ==
    ASSUME TypeOK, DevicesFirst, [Next]_vars
    PROVE  DevicesFirst'
<1> USE PublishAssumption DEF DevicesFirst, TypeOK
<1>1. CASE \E b \in Builds : Start(b)
  BY <1>1 DEF Start
<1>2. CASE Script
  BY <1>2, ScriptDevicesFirst
<1>3. CASE InstallFails
  BY <1>3 DEF InstallFails
<1>4. CASE PublishFails
  BY <1>4 DEF PublishFails
<1>5. CASE Terminate
  BY <1>5 DEF Terminate, Exit, Orphaned
<1>6. CASE Kill
  BY <1>6 DEF Kill, Orphaned
<1>7. CASE \E o \in Packages \X Builds : OrphanEnds(o)
  BY <1>7 DEF OrphanEnds
<1>8. CASE \E p \in Packages : CleanUp(p)
  BY <1>8 DEF CleanUp
<1>9. CASE UNCHANGED vars
  BY <1>9 DEF vars
<1> QED
  BY <1>1, <1>2, <1>3, <1>4, <1>5, <1>6, <1>7, <1>8, <1>9 DEF Next

\* Whatever builds are tried, killed and retried: simulators only beside the devices
\* of the same build.
THEOREM PublishSimulatorsFollowDevices == Spec => []SimulatorsFollowDevices
<1>1. Init => DevicesFirst
  BY DEF Init, DevicesFirst
<1>2. DevicesFirst => SimulatorsFollowDevices
  BY DEF DevicesFirst, SimulatorsFollowDevices
<1> QED
  BY <1>1, <1>2, NextDevicesFirst, PublishTypeCorrect, PTL DEF Spec

-----------------------------------------------------------------------------
(* The drop directory *)

\* What the job, or its trap, would remove is this job's.
OwnCopy ==
    /\ copy => pc \in {"publishing", "remove"}
    /\ pc \in {"copied", "publishing", "remove"} => drop[pkg] = "this"

LEMMA NextOwnCopy ==
    ASSUME TypeOK, OwnCopy, [Next]_vars
    PROVE  OwnCopy'
<1> USE DEF OwnCopy, TypeOK
<1>1. CASE \E b \in Builds : Start(b)
  BY <1>1 DEF Start
<1>2. CASE Script
  BY <1>2 DEF Script, Lookup, NextPackage, Exit, Install, SetCopy, Publishes, Remove, Verify
<1>3. CASE InstallFails \/ PublishFails
  BY <1>3 DEF InstallFails, PublishFails
<1>4. CASE Terminate \/ Kill
  BY <1>4 DEF Terminate, Kill, Exit
<1>5. CASE \E o \in Packages \X Builds : OrphanEnds(o)
  BY <1>5 DEF OrphanEnds
<1>6. CASE \E p \in Packages : CleanUp(p)
  BY <1>6 DEF CleanUp
<1>7. CASE UNCHANGED vars
  BY <1>7 DEF vars
<1> QED
  BY <1>1, <1>2, <1>3, <1>4, <1>5, <1>6, <1>7 DEF Next

\* Neither the script nor its trap removes what another job has left in the drop
\* directory.
THEOREM PublishOnlyOwnCopyRemoved == Spec => OnlyOwnCopyRemoved
<1>1. Init => OwnCopy
  BY DEF Init, OwnCopy
<1>2. ASSUME TypeOK, OwnCopy, [Next]_vars, NEW p \in Packages,
             drop[p] = "earlier", drop'[p] = "absent"
      PROVE  UNCHANGED jobVars
  <2> USE <1>2 DEF TypeOK, OwnCopy
  <2>1. ~Script
    BY DEF Script, Lookup, NextPackage, Exit, AfterTrap, Install, SetCopy, Publishes,
           Remove, Verify
  <2>2. ~InstallFails /\ ~PublishFails
    BY DEF InstallFails, PublishFails
  <2>3. ~Terminate /\ ~Kill
    BY DEF Terminate, Kill, Exit, AfterTrap
  <2>4. ~\E b \in Builds : Start(b)
    BY DEF Start
  <2> QED
    BY <2>1, <2>2, <2>3, <2>4 DEF Next, OrphanEnds, CleanUp, vars
<1>3. TypeOK /\ OwnCopy /\ [Next]_vars =>
        [\A p \in Packages :
            (drop[p] = "earlier" /\ drop'[p] = "absent") => UNCHANGED jobVars]_vars
  BY <1>2
<1> QED
  BY <1>1, <1>3, NextOwnCopy, PublishTypeCorrect, PTL DEF Spec, OnlyOwnCopyRemoved

=============================================================================
