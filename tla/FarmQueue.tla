----------------------------- MODULE FarmQueue -----------------------------
(***************************************************************************)
(* The central task queue: the state machine that PostgreSQL runs in       *)
(* queue_dispatch (jobs, tasks, attempts, workers) behind its two doors,   *)
(* control_rpc for device nodes and cf_rpc for legacy farm members.        *)
(*                                                                         *)
(* One action is one call, that is one transaction: a call that writes a   *)
(* task holds that task's row lock from its guard to its commit.  A call   *)
(* that is refused, or that only reads, changes nothing and is a           *)
(* stuttering step.  What other transactions see between the statements of *)
(* a call is in QueueLocks, for one task, and in SlotLocks, for the busy   *)
(* check of a claim, which locks no task: a renewal that is in time when   *)
(* it is checked may commit after the lease has passed.                    *)
(*                                                                         *)
(* Every timestamp is kept as the time left until it (a lease) or the time *)
(* since it (a heartbeat), so that Tick ages the rows and no clock bounds  *)
(* the behaviours.  A lease of 0 is lease_until = now, the instant at      *)
(* which the lease can neither be renewed nor taken over.                  *)
(***************************************************************************)
EXTENDS Integers, FiniteSets

CONSTANTS
    Jobs,           \* job ids
    Tasks,          \* task ids
    Nodes,          \* device nodes, which call control_rpc
    Members,        \* legacy worker members, who call cf_rpc
    ControlJobs,    \* the jobs submitted and operated through control_rpc
    ParentJob,      \* [Jobs -> Jobs or None]: the job a revision derives from
    Plan,           \* [Tasks -> PlanRow]: the task rows each submit call carries
    Results,        \* [Tasks -> SUBSET Grades]: what a task's executor may output
    EngineSets,     \* the values an administrator gives to node_engines
    Reports,        \* what a worker may report in a heartbeat
    Suspendable,    \* the workers that administration may suspend
    MaxAttempts,    \* cf_tasks.max_attempts
    MinLease,       \* the clamp on the requested lease: 15 ..
    MaxLease,       \* .. 600 seconds
    LeaseRequests,  \* the lease lengths workers ask for
    Targets,        \* the task_id arguments of a claim; None asks for any task
    HeartbeatLimit, \* a node that was silent for longer may not claim: 90 s
    Backoff,        \* [1..MaxAttempts -> Nat]: not_before after a failure
    RivalLocks,     \* the sets of task rows that rival transactions may lock
    ClaimPauses,    \* time that may pass between the statements of a claim
    None

Workers == Nodes \cup Members

Capabilities == {"sf3d", "triposr", "blender", "mock"}
Kinds == {"reconstruct", "process", "preview"}
Slots == {"cpu", "gpu"}
Grades == {"pass", "unfit", "mock"} \* of an output: hard_pass, not, or mock

PlanRow == [job: Jobs, position: 1..32, parent: Tasks \cup {None}, kind: Kinds,
            slot: Slots, capability: Capabilities, priority: 0..100]

AttemptNos == 1..MaxAttempts

Output == [attempt: AttemptNos, worker: Workers, grade: Grades]

ASSUME ConstantsAssumption ==
    /\ Nodes \cap Members = {}
    /\ None \notin Jobs \cup Tasks \cup Workers \cup Int \cup Output
    /\ ControlJobs \subseteq Jobs
    /\ ParentJob \in [Jobs -> Jobs \cup {None}]
    /\ Plan \in [Tasks -> PlanRow]
    /\ Results \in [Tasks -> SUBSET Grades]
    /\ EngineSets \subseteq SUBSET Capabilities
    /\ Reports \subseteq [caps: SUBSET Capabilities, paused: BOOLEAN]
    /\ Suspendable \subseteq Workers
    /\ MaxAttempts \in Nat \ {0}
    /\ MinLease \in Nat \ {0}
    /\ MaxLease \in Nat
    /\ MinLease <= MaxLease
    /\ LeaseRequests \subseteq Nat
    /\ Targets \subseteq Tasks \cup {None}
    /\ HeartbeatLimit \in Nat
    /\ Backoff \in [AttemptNos -> Nat]
    /\ RivalLocks \subseteq SUBSET Tasks
    /\ ClaimPauses \subseteq Nat

VARIABLES
    job,        \* cf_jobs
    task,       \* cf_tasks
    attempts,   \* cf_attempts: per task, the row of each attempt number
    worker,     \* cf_workers
    engines,    \* cf_control.node_engines
    active,     \* may the worker call: node and owner active, member active
    staged,     \* the jobs whose input object is in the bucket
    objects     \* the attempts whose result files are in the bucket

vars == <<job, task, attempts, worker, engines, active, staged, objects>>

----------------------------------------------------------------------------
(* Rows.  attempt_id is a fresh uuid for each attempt_no of a task, so the *)
(* attempt number is the token.                                            *)

LeaseTerms == MinLease..MaxLease
LeaseLeft == -1..MaxLease

JobRow == [status: {"absent", "open", "approved", "cancelled"},
           approved: Tasks \cup {None}]

TaskRow == [status: {"absent", "queued", "running", "done", "failed", "cancelled"},
            computed: BOOLEAN,
            attempt: 0..MaxAttempts,
            owner: Workers \cup {None},
            lease: LeaseLeft \cup {None},
            wait: Nat,
            output: Output \cup {None}]

AttemptRow == [state: {"absent", "running", "done", "failed", "expired"},
               worker: Workers \cup {None}]

WorkerRow == [known: BOOLEAN, caps: SUBSET Capabilities,
              silent: 0..(HeartbeatLimit + 1), paused: BOOLEAN]

NewTask == [status |-> "queued", computed |-> FALSE, attempt |-> 0,
            owner |-> None, lease |-> None, wait |-> 0, output |-> None]

Init ==
    /\ job = [j \in Jobs |-> [status |-> "absent", approved |-> None]]
    /\ task = [t \in Tasks |-> [NewTask EXCEPT !.status = "absent"]]
    /\ attempts = [t \in Tasks |-> [k \in AttemptNos |->
                      [state |-> "absent", worker |-> None]]]
    /\ worker = [w \in Workers |->
                    [known |-> FALSE, caps |-> {}, silent |-> 0, paused |-> FALSE]]
    /\ engines = [n \in Nodes |-> {}]
    /\ active = [w \in Workers |-> TRUE]
    /\ staged = {}
    /\ objects = {}

Live == {"queued", "running"}   \* the statuses that cancel and approve close
TasksOf(j) == {t \in Tasks : Plan[t].job = j}

----------------------------------------------------------------------------
(* The caller's side: stage the input, submit the plan, cancel, approve.   *)

ValidKind(p) ==
    \/ /\ p.kind = "reconstruct"
       /\ p.slot = "gpu"
       /\ p.capability \in {"sf3d", "triposr", "mock"}
    \/ /\ p.kind \in {"process", "preview"}
       /\ p.slot = "cpu"
       /\ p.capability \in {"blender", "mock"}

PrecedingParent(t) ==
    Plan[t].parent # None =>
        /\ Plan[Plan[t].parent].job = Plan[t].job
        /\ Plan[Plan[t].parent].position < Plan[t].position

ValidPlan(j) ==
    /\ TasksOf(j) # {}
    /\ \A t \in TasksOf(j) :
        /\ ValidKind(Plan[t])
        /\ PrecedingParent(t)
        /\ j \in ControlJobs => Plan[t].capability # "mock"

\* An input object under the job's id; immutable once the job exists.
StageInput(j) ==
    /\ job[j].status = "absent"
    /\ staged' = staged \cup {j}
    /\ UNCHANGED <<job, task, attempts, worker, engines, active, objects>>

\* Mutant: submit does not look for an existing job.
SubmitAgain(j) ==
    /\ j \in staged
    /\ ValidPlan(j)
    /\ job' = [job EXCEPT ![j].status = "open"]
    /\ task' = [t \in Tasks |-> IF Plan[t].job = j THEN NewTask ELSE task[t]]
    /\ UNCHANGED <<attempts, worker, engines, active, staged, objects>>

\* A repeated submit of an existing id is answered without a write.  For a control job
\* the paths of its inputs are looked up first (input_scope_denied, and
\* mock_revision_not_allowed for the output of a mock); a plan of this module is one that
\* passes them.
Submit(j) ==
    /\ job[j].status = "absent"
    /\ j \in staged
    /\ ParentJob[j] # None => job[ParentJob[j]].status # "absent"
    /\ ValidPlan(j)
    /\ job' = [job EXCEPT ![j].status = "open"]
    /\ task' = [t \in Tasks |-> IF Plan[t].job = j THEN NewTask ELSE task[t]]
    /\ UNCHANGED <<attempts, worker, engines, active, staged, objects>>

\* Mutants: running tasks are left alone; finished tasks are closed too.
ClosedQueued(j) ==
    [t \in Tasks |-> IF Plan[t].job = j /\ task[t].status = "queued"
                     THEN [task[t] EXCEPT !.status = "cancelled", !.lease = None]
                     ELSE task[t]]
ClosedAll(j) ==
    [t \in Tasks |-> IF Plan[t].job = j
                     THEN [task[t] EXCEPT !.status = "cancelled", !.lease = None]
                     ELSE task[t]]

\* The update that cancel and approve share.
Closed(j) ==
    [t \in Tasks |-> IF Plan[t].job = j /\ task[t].status \in Live
                     THEN [task[t] EXCEPT !.status = "cancelled", !.lease = None]
                     ELSE task[t]]

\* cancel looks at no status: an approved job can be cancelled too.
Cancel(j) ==
    /\ job[j].status # "absent"
    /\ job' = [job EXCEPT ![j].status = "cancelled"]
    /\ task' = Closed(j)
    /\ UNCHANGED <<attempts, worker, engines, active, staged, objects>>

NoMockOutput(j) ==
    \A t \in TasksOf(j) : task[t].output # None => task[t].output.grade # "mock"

\* Mutant: the previews are not looked at.
ApproveUnseen(j, t) ==
    /\ job[j].status = "open"
    /\ j \in ControlJobs => NoMockOutput(j)
    /\ Plan[t].job = j
    /\ Plan[t].kind = "process"
    /\ task[t].status = "done"
    /\ task[t].output.grade = "pass"
    /\ job' = [job EXCEPT ![j] = [status |-> "approved", approved |-> t]]
    /\ task' = Closed(j)
    /\ UNCHANGED <<attempts, worker, engines, active, staged, objects>>

Approve(j, t) ==
    /\ job[j].status = "open"
    /\ j \in ControlJobs => NoMockOutput(j)
    /\ Plan[t].job = j
    /\ Plan[t].kind = "process"
    /\ task[t].status = "done"
    /\ task[t].output.grade = "pass"
    /\ \A u \in Tasks : Plan[u].parent = t => task[u].status \in {"absent", "done"}
    /\ job' = [job EXCEPT ![j] = [status |-> "approved", approved |-> t]]
    /\ task' = Closed(j)
    /\ UNCHANGED <<attempts, worker, engines, active, staged, objects>>

----------------------------------------------------------------------------
(* Administration and worker presence.                                     *)

SetEngines(n, E) ==
    /\ engines' = [engines EXCEPT ![n] = E]
    /\ UNCHANGED <<job, task, attempts, worker, active, staged, objects>>

\* Suspension of a node, of its owner or of a member, and its lifting.
SetActive(w) ==
    /\ active' = [active EXCEPT ![w] = ~@]
    /\ UNCHANGED <<job, task, attempts, worker, engines, staged, objects>>

\* Mutant: the administrator's grant is not consulted.
GrantedAsReported(w, caps) == caps

\* What a report is worth: a node's is cut down to the engines it was granted.
Granted(w, caps) == IF w \in Nodes THEN caps \cap engines[w] ELSE caps

Heartbeat(w, report) ==
    /\ active[w]
    /\ worker' = [worker EXCEPT ![w] =
                    [known |-> TRUE, caps |-> Granted(w, report.caps),
                     silent |-> 0, paused |-> report.paused]]
    /\ UNCHANGED <<job, task, attempts, engines, active, staged, objects>>

----------------------------------------------------------------------------
(* Time.                                                                   *)

Sooner(n, d) == IF n > d THEN n - d ELSE 0

AgedTask(row, d) ==
    [row EXCEPT !.lease = IF @ = None THEN None ELSE Sooner(@ + 1, d) - 1,
                !.wait = Sooner(@, d)]

AgedWorker(row, d) ==
    [row EXCEPT !.silent = IF @ + d > HeartbeatLimit THEN HeartbeatLimit + 1
                           ELSE @ + d]

AgedTasks(rows, d) == [t \in Tasks |-> AgedTask(rows[t], d)]
\* Only a node's last_seen is ever read.
AgedWorkers(rows, d) ==
    [w \in Workers |-> IF w \in Nodes THEN AgedWorker(rows[w], d) ELSE rows[w]]

Tick ==
    /\ task' = AgedTasks(task, 1)
    /\ worker' = AgedWorkers(worker, 1)
    /\ UNCHANGED <<job, attempts, engines, active, staged, objects>>

----------------------------------------------------------------------------
(* The sweep every claim (and every legacy peek) begins with.              *)

\* lease_until < clock_timestamp(): strictly in the past.
Expired(row) == row.lease # None /\ row.lease < 0
\* lease_until > clock_timestamp(): still ahead.
Unexpired(row) == row.lease # None /\ row.lease > 0

Lapsed(row) == row.status = "running" /\ Expired(row)

SweptAttempts ==
    [t \in Tasks |-> [k \in AttemptNos |->
        IF /\ Lapsed(task[t])
           /\ task[t].attempt = k
           /\ attempts[t][k].state = "running"
        THEN [attempts[t][k] EXCEPT !.state = "expired"]
        ELSE attempts[t][k]]]

\* Mutant: the limit is taken one too high.
ExhaustedLate(row) == Lapsed(row) /\ row.attempt > MaxAttempts

Exhausted(row) == Lapsed(row) /\ row.attempt >= MaxAttempts

FailedIf(row, condition) ==
    IF condition THEN [row EXCEPT !.status = "failed"] ELSE row

AfterExhaustion == [t \in Tasks |-> FailedIf(task[t], Exhausted(task[t]))]

Dependents(rows) ==
    {t \in Tasks : rows[t].status \in Live /\ Plan[t].parent # None}

\* Mutant: a parent that is not done yet counts as dead.
InheritsUnfinished(rows, S) ==
    \A t \in Dependents(rows) :
        \/ rows[Plan[t].parent].status # "done"
        \/ Plan[t].parent \in S
        => t \in S

\* S holds every live task whose parent is dead or is in S.
Inherits(rows, S) ==
    \A t \in Dependents(rows) :
        \/ rows[Plan[t].parent].status \in {"failed", "cancelled"}
        \/ Plan[t].parent \in S
        => t \in S

\* The live tasks that the recursive query "bad" reaches: the least such set.
Doomed(rows) ==
    {t \in Dependents(rows) :
        \A S \in SUBSET Dependents(rows) : Inherits(rows, S) => t \in S}

SweptTasks ==
    LET rows == AfterExhaustion
    IN  [t \in Tasks |-> FailedIf(rows[t], t \in Doomed(rows))]

\* The legacy peek; a node's peek is answered [] without reaching the queue.
Peek(m) ==
    /\ active[m]
    /\ worker[m].known
    /\ task' = SweptTasks
    /\ attempts' = SweptAttempts
    /\ UNCHANGED <<job, worker, engines, active, staged, objects>>

----------------------------------------------------------------------------
(* claim                                                                   *)

Clamped(seconds) ==
    IF seconds < MinLease THEN MinLease
    ELSE IF seconds > MaxLease THEN MaxLease ELSE seconds

\* The worker computes a task of this slot under a live lease.
Computing(rows, w, slots) ==
    \E t \in Tasks :
        /\ rows[t].owner = w
        /\ Plan[t].slot \in slots
        /\ rows[t].status = "running"
        /\ ~rows[t].computed
        /\ Unexpired(rows[t])

\* Mutants: the attempt limit, or the parent, is left to the sweep.
ClaimableBeyondLimit(rows, t, caps, slot, only) ==
    /\ job[Plan[t].job].status = "open"
    /\ Plan[t].slot = slot
    /\ Plan[t].capability \in caps
    /\ rows[t].status = "queued" \/ Lapsed(rows[t])
    /\ rows[t].wait = 0
    /\ Plan[t].parent # None => rows[Plan[t].parent].status = "done"
    /\ only \in {None, t}
ClaimableEarly(rows, t, caps, slot, only) ==
    /\ job[Plan[t].job].status = "open"
    /\ Plan[t].slot = slot
    /\ Plan[t].capability \in caps
    /\ rows[t].status = "queued" \/ Lapsed(rows[t])
    /\ rows[t].attempt < MaxAttempts
    /\ rows[t].wait = 0
    /\ only \in {None, t}

Claimable(rows, t, caps, slot, only) ==
    /\ job[Plan[t].job].status = "open"
    /\ Plan[t].slot = slot
    /\ Plan[t].capability \in caps
    /\ rows[t].status = "queued" \/ Lapsed(rows[t])
    /\ rows[t].attempt < MaxAttempts
    /\ rows[t].wait = 0
    /\ Plan[t].parent # None => rows[Plan[t].parent].status = "done"
    /\ only \in {None, t}

\* (p.lease_owner = me) desc nulls last
Affinity(rows, w, t) ==
    IF Plan[t].parent = None THEN 0
    ELSE IF rows[Plan[t].parent].owner = w THEN 2 ELSE 1

Before(rows, w, t, u) ==
    \/ Plan[t].priority > Plan[u].priority
    \/ /\ Plan[t].priority = Plan[u].priority
       /\ Affinity(rows, w, t) > Affinity(rows, w, u)

\* The ties that remain are broken by creation time and random ids.
First(rows, w, S) == {t \in S : \A u \in S : ~Before(rows, w, u, t)}

\* Mutant: a takeover goes on under the number of the lapsed attempt.
LeasedInPlace(row, w, seconds) ==
    [row EXCEPT !.status = "running", !.computed = FALSE, !.owner = w,
                !.attempt = IF row.status = "running" THEN @ ELSE @ + 1,
                !.lease = Clamped(seconds)]

Leased(row, w, seconds) ==
    [row EXCEPT !.status = "running", !.computed = FALSE, !.owner = w,
                !.attempt = @ + 1, !.lease = Clamped(seconds)]

\* Rows that rivals hold locked are skipped.  `pause' is the time between the
\* sweep and the selection: each statement reads clock_timestamp() anew.
QueueClaim(w, caps, slot, only, seconds, rivals, pause) ==
    LET rows == AgedTasks(SweptTasks, pause)
        ledger == SweptAttempts
        candidates == {t \in Tasks \ rivals : Claimable(rows, t, caps, slot, only)}
    IN  \/ /\ Computing(rows, w, {slot}) \/ candidates = {}
           /\ task' = rows
           /\ attempts' = ledger
        \/ /\ ~Computing(rows, w, {slot})
           /\ \E t \in First(rows, w, candidates) :
                /\ task' = [rows EXCEPT ![t] = Leased(@, w, seconds)]
                /\ attempts' = [ledger EXCEPT ![t][rows[t].attempt + 1] =
                                  [state |-> "running", worker |-> w]]

MemberClaim(m, slot, only, seconds, rivals, pause) ==
    /\ active[m]
    /\ worker[m].known
    /\ QueueClaim(m, worker[m].caps, slot, only, seconds, rivals, pause)
    /\ worker' = AgedWorkers(worker, pause)
    /\ UNCHANGED <<job, engines, active, staged, objects>>

\* control_rpc narrows the capabilities again, refuses a silent node, and lets
\* a node compute one task over both slots.
NodeClaim(n, slot, only, seconds, rivals, pause) ==
    LET caps == Granted(n, worker[n].caps)
        narrowed == [worker EXCEPT ![n].caps = caps]
    IN  /\ active[n]
        /\ worker[n].known
        /\ worker[n].silent <= HeartbeatLimit
        /\ \/ /\ worker[n].paused \/ Computing(task, n, Slots)
              /\ worker' = narrowed
              /\ UNCHANGED <<task, attempts>>
           \/ /\ ~worker[n].paused
              /\ ~Computing(task, n, Slots)
              /\ QueueClaim(n, caps, slot, only, seconds, rivals, pause)
              /\ worker' = AgedWorkers(narrowed, pause)
        /\ UNCHANGED <<job, engines, active, staged, objects>>

----------------------------------------------------------------------------
(* The calls about a claimed task.  w presents the token of attempt k.     *)

\* Mutant: any token of the owner will do.
HoldsAnyToken(w, t, k) ==
    /\ task[t].status = "running"
    /\ task[t].owner = w
    /\ Unexpired(task[t])
    /\ job[Plan[t].job].status = "open"

Holds(w, t, k) ==
    /\ task[t].status = "running"
    /\ task[t].owner = w
    /\ task[t].attempt = k
    /\ Unexpired(task[t])
    /\ job[Plan[t].job].status = "open"

Renew(w, t, k, seconds) ==
    /\ active[w]
    /\ Holds(w, t, k)
    /\ task' = [task EXCEPT ![t].lease = Clamped(seconds)]
    /\ UNCHANGED <<job, attempts, worker, engines, active, staged, objects>>

Computed(w, t, k) ==
    /\ active[w]
    /\ Holds(w, t, k)
    /\ task' = [task EXCEPT ![t].computed = TRUE]
    /\ UNCHANGED <<job, attempts, worker, engines, active, staged, objects>>

Fail(w, t, k) ==
    /\ active[w]
    /\ Holds(w, t, k)
    /\ task' = [task EXCEPT ![t].status = IF task[t].attempt >= MaxAttempts
                                          THEN "failed" ELSE "queued",
                            ![t].lease = None,
                            ![t].wait = Backoff[task[t].attempt]]
    /\ attempts' = [attempts EXCEPT ![t][k].state = "failed"]
    /\ UNCHANGED <<job, worker, engines, active, staged, objects>>

\* A result file under farm/user/task/attempt.  control_storage asks for the
\* live attempt; the legacy bucket policy only for the member's own folder, in
\* which the worker writes for the attempts it was granted.
Upload(w, t, k) ==
    /\ active[w]
    /\ \/ w \in Nodes /\ Holds(w, t, k)
       \/ w \in Members /\ attempts[t][k].worker = w
    /\ objects' = objects \cup {<<t, k>>}
    /\ UNCHANGED <<job, task, attempts, worker, engines, active, staged>>

\* A repeated finish of the committed attempt is answered without a write.
Finish(w, t, k, grade) ==
    /\ active[w]
    /\ Holds(w, t, k)
    /\ <<t, k>> \in objects
    /\ task' = [task EXCEPT ![t].status = "done",
                            ![t].output = [attempt |-> k, worker |-> w,
                                           grade |-> grade],
                            ![t].lease = None]
    /\ attempts' = [attempts EXCEPT ![t][k].state = "done"]
    /\ UNCHANGED <<job, worker, engines, active, staged, objects>>

----------------------------------------------------------------------------

CallerStep(j) ==
    \/ StageInput(j)
    \/ Submit(j)
    \/ Cancel(j)
    \/ \E t \in Tasks : Approve(j, t)

ClaimStep(w) ==
    \E slot \in Slots, only \in Targets, seconds \in LeaseRequests,
       rivals \in RivalLocks, pause \in ClaimPauses :
        \/ w \in Members /\ MemberClaim(w, slot, only, seconds, rivals, pause)
        \/ w \in Nodes /\ NodeClaim(w, slot, only, seconds, rivals, pause)

AttemptStep(w, t, k) ==
    \/ \E seconds \in LeaseRequests : Renew(w, t, k, seconds)
    \/ Computed(w, t, k)
    \/ Fail(w, t, k)
    \/ Upload(w, t, k)
    \/ \E grade \in Results[t] : Finish(w, t, k, grade)

Next ==
    \/ \E j \in Jobs : CallerStep(j)
    \/ \E n \in Nodes, E \in EngineSets : SetEngines(n, E)
    \/ \E w \in Suspendable : SetActive(w)
    \/ \E w \in Workers, report \in Reports : Heartbeat(w, report)
    \/ \E m \in Members : Peek(m)
    \/ \E w \in Workers : ClaimStep(w)
    \/ \E w \in Workers, t \in Tasks, k \in AttemptNos : AttemptStep(w, t, k)
    \/ Tick

Spec == Init /\ [][Next]_vars

(* The queue is live while its workers are: each member keeps polling each   *)
(* slot for work (Worker.run_forever, every few seconds, and no rival keeps  *)
(* a row locked for good), time passes, and a worker that goes on renewing a *)
(* lease ends its bounded computation with a report.  A worker may crash for *)
(* good: then its leases lapse.                                              *)
Report(w) ==
    \E t \in Tasks, k \in AttemptNos :
        Fail(w, t, k) \/ \E grade \in Results[t] : Finish(w, t, k, grade)

Poll(m, slot) ==
    \E seconds \in LeaseRequests, pause \in ClaimPauses :
        MemberClaim(m, slot, None, seconds, {}, pause)

Fairness ==
    /\ WF_vars(Tick)
    /\ \A m \in Members :
        /\ WF_vars(\E report \in Reports : ~worker[m].known /\ Heartbeat(m, report))
        /\ \A slot \in Slots : WF_vars(Poll(m, slot))
    /\ \A w \in Workers : WF_vars(Report(w))

FairSpec == Spec /\ Fairness

----------------------------------------------------------------------------
(* Properties.                                                             *)

\* Every table has the columns and values its schema allows; a running row
\* always carries an owner, a lease and an attempt.
TypeOK ==
    /\ job \in [Jobs -> JobRow]
    /\ task \in [Tasks -> TaskRow]
    /\ attempts \in [Tasks -> [AttemptNos -> AttemptRow]]
    /\ worker \in [Workers -> WorkerRow]
    /\ engines \in [Nodes -> SUBSET Capabilities]
    /\ active \in [Workers -> BOOLEAN]
    /\ staged \subseteq Jobs
    /\ objects \subseteq Tasks \X AttemptNos
    /\ \A t \in Tasks : task[t].status = "running" =>
          /\ task[t].owner # None
          /\ task[t].lease # None
          /\ task[t].attempt # 0

\* A task has at most one committed result, and it is the result of the last
\* attempt handed out: a done row names the attempt and the worker that
\* finished it, whose files are in the bucket, and no other attempt row of the
\* task is done.  A lapsed holder, a cancelled task and a re-claimed task never
\* contribute a second or a stale result.
SingleCommit ==
    \A t \in Tasks :
        /\ task[t].status = "done" <=> task[t].output # None
        /\ task[t].output # None =>
              /\ task[t].output.attempt = task[t].attempt
              /\ task[t].output.worker = task[t].owner
              /\ <<t, task[t].attempt>> \in objects
        /\ \A k \in AttemptNos :
              attempts[t][k].state = "done"
                 <=> task[t].status = "done" /\ task[t].attempt = k

\* The attempt table records exactly the attempts that were handed out, and the
\* row of the current attempt names the task's lease owner, through sweeps,
\* failures, cancellations and takeovers.
AttemptLedger ==
    \A t \in Tasks :
        /\ \A k \in AttemptNos :
              k <= task[t].attempt <=> attempts[t][k].state # "absent"
        /\ task[t].attempt # 0 =>
              attempts[t][task[t].attempt].worker = task[t].owner

\* The DAG is respected: while a task runs, and once it is done, its parent is
\* done, whatever expires, fails or is cancelled around it.
ParentFirst ==
    \A t \in Tasks :
        task[t].status \in {"running", "done"} /\ Plan[t].parent # None
            => task[Plan[t].parent].status = "done"

\* A job that is not open has no task left to claim, to renew or to finish.
ClosedJobsQuiet ==
    \A t \in Tasks :
        task[t].status \in Live => job[Plan[t].job].status = "open"

\* A task only fails for a reason the queue defines: its attempts are used up,
\* or the task it depends on failed.  No single lapse or reported failure, and
\* no sweep, ends a task that has attempts and a parent left.
FailedForCause ==
    \A t \in Tasks :
        task[t].status = "failed" =>
            \/ task[t].attempt = MaxAttempts
            \/ Plan[t].parent # None /\ task[Plan[t].parent].status = "failed"

\* An approval stands on a complete, passing candidate of the same job: the
\* approved process task is done and fit, every preview of it is done, and in a
\* control job no output is a mock. It stays true after a later cancel.
ApprovedComplete ==
    \A j \in Jobs :
        LET t == job[j].approved
        IN  t # None =>
              /\ Plan[t].job = j
              /\ Plan[t].kind = "process"
              /\ task[t].status = "done"
              /\ task[t].output.grade = "pass"
              /\ \A u \in Tasks :
                    Plan[u].parent = t => task[u].status \in {"absent", "done"}
              /\ j \in ControlJobs => NoMockOutput(j)

\* A committed result is final: no call and no sweep changes the status, the
\* attempt, the owner or the output of a done task, not even a cancel.
ResultStable ==
    [][\A t \in Tasks : task[t].status = "done" =>
          /\ task'[t].status = "done"
          /\ task'[t].output = task[t].output
          /\ task'[t].attempt = task[t].attempt
          /\ task'[t].owner = task[t].owner]_vars


\* A node is only ever handed work it is entitled to at that moment, however
\* stale its last report is: it is active, its heartbeat is recent, it has not
\* reported a pause, and the engine is still granted by the administrator.
NodeEntitled ==
    [][\A t \in Tasks :
          task'[t].attempt # task[t].attempt /\ task'[t].owner \in Nodes =>
              LET n == task'[t].owner
              IN  /\ active[n]
                  /\ worker[n].silent <= HeartbeatLimit
                  /\ ~worker[n].paused
                  /\ Plan[t].capability \in engines[n]]_vars

\* The refinement mapping to the abstract specification of task outcomes.
Phase(row) ==
    CASE row.status = "absent" -> "absent"
      [] row.status \in Live -> "pending"
      [] row.status = "done" -> "committed"
      [] row.status \in {"failed", "cancelled"} -> "closed"

Outcome == INSTANCE TaskOutcome WITH
    Parent <- [t \in Tasks |-> Plan[t].parent],
    MaxGrants <- MaxAttempts,
    phase <- [t \in Tasks |-> Phase(task[t])],
    grants <- [t \in Tasks |-> task[t].attempt],
    winner <- [t \in Tasks |-> IF task[t].output = None THEN None
                               ELSE task[t].output.attempt]

\* The queue implements at-least-once execution with one fenced result per
\* task: each call, with the sweep inside it, is one step of TaskOutcome or
\* leaves the outcomes alone.
OutcomeRefined == Outcome!Spec

\* While members keep polling, no task of the queue waits for ever: it is
\* finished, failed or cancelled whatever crashes, lapses and failures happen.
EveryTaskSettles ==
    \A t \in Tasks : task[t].status \in Live ~> task[t].status \notin Live
============================================================================
