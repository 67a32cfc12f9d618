---------------------------- MODULE MCFarmQueue ----------------------------
(***************************************************************************)
(* Small plans for the queue.  Task and job ids are strings, so that the   *)
(* plans of the runs can live side by side.                                *)
(***************************************************************************)
EXTENDS FarmQueue

Row(j, position, parent, kind, slot, capability, priority) ==
    [job |-> j, position |-> position, parent |-> parent, kind |-> kind,
     slot |-> slot, capability |-> capability, priority |-> priority]

Reconstruct(j, position, capability) ==
    Row(j, position, None, "reconstruct", "gpu", capability, 80)
Process(j, position, parent) ==
    Row(j, position, parent, "process", "cpu", "blender", 90)
Preview(j, position, parent) ==
    Row(j, position, parent, "preview", "cpu", "blender", 100)

NoParentJob == [j \in Jobs |-> None]
OneEngineSet == {{"sf3d", "blender"}}
Ready(E) == [caps |-> E, paused |-> FALSE]
OneReport == {Ready({"sf3d", "blender"})}
NoRivals == {{}}
OneTick == [k \in AttemptNos |-> 1]

PassResults == [t \in Tasks |-> {"pass"}]
MixedResults == [t \in Tasks |-> {"pass", "unfit"}]

\* One process task on a staged mesh: what `revise' submits without views.
SinglePlan == [t \in {"proc"} |-> Process("j", 1, None)]

\* The same with one preview.
RevisionPlan ==
    [t \in {"proc", "view"} |->
        IF t = "proc" THEN Process("j", 1, None) ELSE Preview("j", 2, "proc")]

\* Two candidates in the shape of spec.plan, one of them down to its preview,
\* and a job whose only task names a parent of the other job.
DagTasks == {"recon1", "proc1", "view1", "recon2", "alien"}
DagPlan ==
    [t \in DagTasks |->
        CASE t = "recon1" -> Reconstruct("j", 1, "sf3d")
          [] t = "proc1" -> Process("j", 2, "recon1")
          [] t = "view1" -> Preview("j", 3, "proc1")
          [] t = "recon2" -> Reconstruct("j", 4, "triposr")
          [] t = "alien" -> Preview("x", 1, "proc1")]
DagResults ==
    [t \in DagTasks |-> CASE t = "proc1" -> {"pass", "unfit"}
                          [] t = "recon2" -> {"pass", "mock"}
                          [] OTHER -> {"pass"}]
DagReport == {Ready({"sf3d", "triposr", "blender"})}
============================================================================
