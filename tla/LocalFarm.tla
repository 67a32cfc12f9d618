----------------------------- MODULE LocalFarm -----------------------------
(***************************************************************************)
(* LocalBackend: the SQLite coordinator of the demo and of the tests, one  *)
(* immediate transaction per rpc.  It hand-translates the rules of the     *)
(* central queue, so it is held to the same promise, TaskOutcome.  One job *)
(* of one candidate: mesh, clean-up and two previews.  A lease is live or  *)
(* lapsed (renew keeps a live one live, which changes nothing here), and   *)
(* an attempt is its number: a call with another attempt or owner changes  *)
(* nothing and is left out.  Every worker declares every capability.       *)
(***************************************************************************)
EXTENDS Absent, Naturals

CONSTANTS
    LocalLoops,      \* the executor loops: <<worker, slot>>
    LocalViews,      \* the views of the spec
    LocalAttempts    \* max_attempts, 3 in the code

VARIABLES
    ljob,            \* the row of jobs: its plan, whether it asks for mocks, status
    ltask            \* the rows of tasks

localVars == <<ljob, ltask>>

Stages == {"mesh", "clean"} \cup LocalViews
Upstream == [s \in Stages |-> CASE s = "mesh" -> None [] s = "clean" -> "mesh"
                                [] OTHER -> "clean"]
SlotOf(s) == IF s = "mesh" THEN "gpu" ELSE "cpu"

Stage(status) == [status |-> status, attempts |-> 0, holder |-> None, lapsed |-> FALSE,
                  computed |-> FALSE, output |-> None]

ASSUME LocalAssumption ==
    /\ LocalAttempts \in Nat
    /\ None \notin Stages \cup Nat
    /\ None \notin [plan : Nat, mock : BOOLEAN, status : {"open", "cancelled", "approved"}]

UnfinishedStages == {s \in Stages : ltask[s].status \in {"queued", "running"}}

LocalInit ==
    /\ ljob = None
    /\ ltask = [s \in Stages |-> Stage("absent")]

\* The same plan again is answered, another one under the same id is refused.
LocalSubmit(plan, mock) ==
    IF ljob = None
    THEN /\ ljob' = [plan |-> plan, mock |-> mock, status |-> "open"]
         /\ ltask' = [s \in Stages |-> Stage("queued")]
    ELSE UNCHANGED localVars

ClosedStages == [s \in Stages |->
    IF s \in UnfinishedStages THEN [ltask[s] EXCEPT !.status = "cancelled"] ELSE ltask[s]]

\* Unlike the central queue, cancel does not ask for an open job.
LocalCancel ==
    /\ ljob # None
    /\ ljob' = [ljob EXCEPT !.status = "cancelled"]
    /\ ltask' = ClosedStages

MayApprove(s) ==
    /\ ljob # None /\ ljob.status = "open"
    /\ s = "clean" /\ ltask[s].status = "done"
    /\ ~ltask[s].output.mock
    /\ ltask[s].output.hard
    /\ \A c \in Stages : Upstream[c] = s => ltask[c].status = "done"

LocalApprove ==
    /\ MayApprove("clean")
    /\ ljob' = [ljob EXCEPT !.status = "approved"]
    /\ ltask' = ClosedStages

\* The sweep every claim and every peek begins with.
LocalExhausted(s) == /\ ltask[s].status = "running"
                     /\ ltask[s].lapsed
                     /\ ltask[s].attempts >= LocalAttempts
DoomedStages[s \in Stages] ==
    /\ s \in UnfinishedStages
    /\ \/ LocalExhausted(s)
       \/ /\ Upstream[s] # None
          /\ \/ ltask[Upstream[s]].status \in {"failed", "cancelled"}
             \/ DoomedStages[Upstream[s]]
LocalSwept == [s \in Stages |->
    IF DoomedStages[s] THEN [ltask[s] EXCEPT !.status = "failed"] ELSE ltask[s]]

LocalAvailable(rows, slot) == {s \in Stages :
    /\ SlotOf(s) = slot
    /\ ljob.status = "open"
    /\ rows[s].status = "queued" \/ (rows[s].status = "running" /\ rows[s].lapsed)
    /\ rows[s].attempts < LocalAttempts
    /\ Upstream[s] # None => rows[Upstream[s]].status = "done"}

LocalBusy(w, slot) == \E s \in Stages :
    /\ ltask[s].holder = w /\ ltask[s].status = "running" /\ SlotOf(s) = slot
    /\ ~ltask[s].computed /\ ~ltask[s].lapsed

LocalGranted(row, w) ==
    [row EXCEPT !.status = "running", !.computed = FALSE, !.holder = w, !.lapsed = FALSE,
                !.attempts = @ + 1]

\* Ties of created_at are broken by the random task id.
LocalClaim(w, slot) ==
    /\ ljob # None
    /\ IF LocalBusy(w, slot) \/ LocalAvailable(LocalSwept, slot) = {}
       THEN ltask' = LocalSwept
       ELSE \E s \in LocalAvailable(LocalSwept, slot) :
              ltask' = [LocalSwept EXCEPT ![s] = LocalGranted(@, w)]
    /\ UNCHANGED ljob

\* peek: the sweep alone.
LocalPeek == ljob # None /\ ltask' = LocalSwept /\ UNCHANGED ljob

HoldsUnlessDone(w, s) == /\ ltask[s].holder = w /\ ltask[s].status # "done"
                         /\ ljob.status = "open"
LocalHolds(w, s) == /\ ltask[s].holder = w
                    /\ ltask[s].status = "running"
                    /\ ~ltask[s].lapsed
                    /\ ljob.status = "open"

LocalComputed(w, s) ==
    /\ LocalHolds(w, s)
    /\ ltask' = [ltask EXCEPT ![s].computed = TRUE]
    /\ UNCHANGED ljob

\* Mock work never passes the checks, and its descendants are mock as well.
LocalOutputs(s) == {o \in [mock : BOOLEAN, hard : BOOLEAN] :
    /\ o.mock = (ljob.mock \/ (Upstream[s] # None /\ ltask[Upstream[s]].output.mock))
    /\ o.hard => s = "clean" /\ ~o.mock}

LocalFinish(w, s) ==
    /\ LocalHolds(w, s)
    /\ \E o \in LocalOutputs(s) :
         ltask' = [ltask EXCEPT ![s].status = "done", ![s].output = o]
    /\ UNCHANGED ljob

LocalFail(w, s) ==
    /\ LocalHolds(w, s)
    /\ ltask' = [ltask EXCEPT ![s].status =
                   IF ltask[s].attempts >= LocalAttempts THEN "failed" ELSE "queued"]
    /\ UNCHANGED ljob

LocalLapse(s) ==
    /\ ltask[s].status = "running" /\ ~ltask[s].lapsed
    /\ ltask' = [ltask EXCEPT ![s].lapsed = TRUE]
    /\ UNCHANGED ljob

LocalWork ==
    \/ \E l \in LocalLoops : LocalClaim(l[1], l[2])
    \/ \E w \in {l[1] : l \in LocalLoops}, s \in Stages :
         LocalComputed(w, s) \/ LocalFinish(w, s) \/ LocalFail(w, s)
    \/ LocalPeek
    \/ \E s \in Stages : LocalLapse(s)

\* What the coordinator is promised to implement, for the tasks of its job.
LocalTasks == INSTANCE TaskOutcome WITH
    Tasks <- Stages, Parent <- Upstream, MaxGrants <- LocalAttempts,
    phase <- [s \in Stages |->
                CASE ltask[s].status \in {"queued", "running"} -> "pending"
                  [] ltask[s].status = "done" -> "committed"
                  [] ltask[s].status \in {"failed", "cancelled"} -> "closed"
                  [] OTHER -> "absent"],
    grants <- [s \in Stages |-> ltask[s].attempts],
    winner <- [s \in Stages |-> IF ltask[s].status = "done" THEN ltask[s].attempts ELSE None]

\* The local coordinator decides every task as the central queue does: at most
\* once, by the last grant, after the task it depends on; a task given up or
\* failed never comes back, whatever late finish, fail or sweep arrives.
LocalOutcome == LocalTasks!Spec
=============================================================================
