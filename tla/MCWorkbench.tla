---------------------------- MODULE MCWorkbench ----------------------------
(***************************************************************************)
(* Small instances of the workbench's three machines for TLC. They share   *)
(* no variable, so each is explored with the others at rest.               *)
(***************************************************************************)
EXTENDS WorkbenchRuns, WorkbenchArtifacts, WorkbenchApprovals, TLC

CONSTANTS w1, w2, r1, r2, r3, r4, u1, a1, a2, b1

MCHome          == r1 :> w1 @@ r2 :> w1 @@ r3 :> w2
MCUsageRun      == u1 :> r3
MCUsageTokens   == u1 :> 1
MCUsageCompute  == u1 :> 1
MCArtifactRun   == a1 :> r3 @@ a2 :> r4 @@ b1 :> r3
MCSize          == a1 :> 1 @@ a2 :> 2 @@ b1 :> 1

VARIABLE machine

Init == /\ machine \in {"runs", "artifacts", "approvals"}
        /\ RunsInit /\ ArtifactsInit /\ ApprovalsInit

Next ==
    /\ UNCHANGED machine
    /\ \/ machine = "runs" /\ RunsNext /\ UNCHANGED <<artifactVars, approvalVars>>
       \/ machine = "artifacts" /\ ArtifactsNext /\ UNCHANGED <<runVars, approvalVars>>
       \/ machine = "approvals" /\ ApprovalsNext /\ UNCHANGED <<runVars, artifactVars>>

Spec == Init /\ [][Next]_<<machine, runVars, artifactVars, approvalVars>>

Symmetry == Permutations({r1, r2})
=============================================================================
