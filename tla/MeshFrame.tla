----------------------------- MODULE MeshFrame -----------------------------
(***************************************************************************)
(* Which way up a mesh is, from the engine to the Blender steps: execute   *)
(* and triposr_to_gltf.  TripoSR writes its own axes; a fleet holds        *)
(* reconstructions published by workers that turned them not at all, only  *)
(* upright, or as this worker does.  A mesh is what became of the axes     *)
(* <<1, 2, 3>> and the contract its GLB is marked with.  The executor may  *)
(* be killed anywhere; an offline run is repeated in the same directory,   *)
(* where the engine may exit without replacing the mesh of the last run.   *)
(* `revise` starts a new job from the mesh that the reconstruction          *)
(* committed, not from the one that Blender made of it.                    *)
(***************************************************************************)
EXTENDS Absent, Integers

CONSTANTS
    MeshEngines      \* engines: "triposr" and those that export glTF axes

VARIABLES
    scratch,         \* reconstruction/0/mesh.glb
    recon,           \* the committed reconstruction: mesh and provenance
    stage,           \* input.glb of the running Blender step, and whether it revises
    blended          \* mesh.glb of the last process step

frameVars == <<scratch, recon, stage, blended>>

Own == <<1, 2, 3>>
ViewerTurn(v) == <<-v[2], v[3], -v[1]>>
YawOnly(v) == <<v[3], v[2], -v[1]>>
UprightOnly(v) == <<v[1], v[3], -v[2]>>
Standard == ViewerTurn(Own)

\* What the engine writes, and what earlier workers published.
EngineMesh(c) == [axes |-> IF c = "triposr" THEN Own ELSE Standard, contract |-> "none"]
LegacyMeshes(c) == {EngineMesh(c)} \cup
    (IF c = "triposr" THEN {[axes |-> UprightOnly(Own), contract |-> "zup-to-yup"]} ELSE {})

TriposrTurnAgain(m) ==
    [axes |-> IF m.contract = "zup-to-yup" THEN YawOnly(m.axes) ELSE ViewerTurn(m.axes),
     contract |-> "viewer"]

\* A marked mesh is returned as it is.
TriposrToGltf(m) ==
    IF m.contract = "viewer" THEN m
    ELSE [axes |-> IF m.contract = "zup-to-yup" THEN YawOnly(m.axes) ELSE ViewerTurn(m.axes),
          contract |-> "viewer"]

FrameInit == scratch = None /\ recon = None /\ stage = None /\ blended = None

LegacyPublish(c) ==
    /\ recon = None
    /\ \E m \in LegacyMeshes(c) : recon' = [mesh |-> m, capability |-> c]
    /\ UNCHANGED <<scratch, stage, blended>>

RunEngine(c) ==
    /\ recon = None
    /\ scratch # None => scratch.capability = c
    /\ scratch' = [mesh |-> EngineMesh(c), capability |-> c, turned |-> FALSE]
    /\ UNCHANGED <<recon, stage, blended>>

\* The engine exits with 0 and the mesh of the run before it is still there.
RunStale ==
    /\ recon = None /\ scratch # None
    /\ scratch' = [scratch EXCEPT !.turned = FALSE]
    /\ UNCHANGED <<recon, stage, blended>>

\* The converted mesh replaces the file in one step.
Canonicalise ==
    /\ recon = None /\ scratch # None /\ ~scratch.turned
    /\ scratch' = [scratch EXCEPT !.turned = TRUE,
                     !.mesh = IF scratch.capability = "triposr" THEN TriposrToGltf(@) ELSE @]
    /\ UNCHANGED <<recon, stage, blended>>

\* Whoever commits first decides the task; a result is published once it is turned.
PublishMesh ==
    /\ recon = None /\ scratch # None /\ scratch.turned
    /\ recon' = [mesh |-> scratch.mesh, capability |-> scratch.capability]
    /\ UNCHANGED <<scratch, stage, blended>>

\* process: the parent's provenance decides whether the staged copy is turned.
StageParent ==
    /\ recon # None /\ stage = None
    /\ stage' = [mesh |-> IF recon.capability = "triposr" THEN TriposrToGltf(recon.mesh)
                          ELSE recon.mesh,
                 revised |-> FALSE]
    /\ UNCHANGED <<scratch, recon, blended>>

\* A completed process task is revised from the mesh of the reconstruction behind it;
\* the new task has no parent, so nothing tells the executor which engine wrote it.
StageRevision ==
    /\ blended # None /\ stage = None
    /\ stage' = [mesh |-> recon.mesh, revised |-> TRUE]
    /\ UNCHANGED <<scratch, recon, blended>>

\* Blender applies the turn of the scene root and writes an unmarked mesh.
Blend ==
    /\ stage # None
    /\ blended' = [axes |-> stage.mesh.axes, revised |-> stage.revised]
    /\ stage' = None
    /\ UNCHANGED <<scratch, recon>>

\* Killed: the temporary directory of a Blender step goes with it.
KillExecutor ==
    /\ stage # None
    /\ stage' = None
    /\ UNCHANGED <<scratch, recon, blended>>

FrameNext ==
    \/ \E c \in MeshEngines : LegacyPublish(c) \/ RunEngine(c)
    \/ RunStale \/ Canonicalise \/ PublishMesh
    \/ StageParent \/ StageRevision \/ Blend \/ KillExecutor

FrameSpec == FrameInit /\ [][FrameNext]_frameVars

\* A reconstruction that a worker before the viewer contract has committed.
UnmarkedTriposr == recon.capability = "triposr" /\ recon.mesh.contract # "viewer"

\* Whichever worker reconstructed a mesh, however often its run was repeated and
\* however many revisions followed, every mesh Blender produced here has been
\* turned to the axes of glTF exactly once; but for a revision of a mesh that an old
\* worker committed, which the executor cannot tell from one that needs no turn.
TurnedOnce ==
    blended # None => blended.axes = Standard \/ (blended.revised /\ UnmarkedTriposr)

\* What the executor's comment says of revisions: their input has the axes of glTF.
RevisionsStandard == stage # None /\ stage.revised => stage.mesh.axes = Standard
=============================================================================
