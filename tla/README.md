# ClayFarm in TLA+

ClayFarm turns 2D concept images into game assets on a farm of worker machines. A
caller submits a job, a plan of tasks (reconstruct, process, preview) whose rows live in
PostgreSQL; workers claim tasks under a lease, compute, upload result files and commit.
This directory models the parts of that program in which order, time, failure and
concurrency decide what happens, checks the models with TLC, and proves the central ones
with TLAPS. Paths below are relative to the root of the repository.

## 1. Inventory

| Component | Code | State it keeps | Operations |
|---|---|---|---|
| Central task queue | `supabase/migrations/20260912101300_control_queue_bridge.sql` (the same body as `sql/bootstrap.sql`) | `cf_jobs`, `cf_tasks`, `cf_attempts`, `cf_workers`, `cf_control.node_engines` | `submit`, `get`, `cancel`, `approve`, `heartbeat`, `peek`, `claim`, `renew`, `computed`, `fail`, `finish`; authorisation by `control_member`, `control_storage`, `control_readable`, `control_committed` |
| Worker and outbox | `src/clayfarm/worker.py`, `journal.py`, `src/clayfarm_control/central_worker.py` | the SQLite journal, work directories, cache, per-task locks | `step`, `execute_task`, `flush`, `recover`, `prefetch`, `offline_step`, lease guard |
| Gateway | `src/clayfarm_control/bridge.py`, `bridge_client.py` | `bridge_artifacts` (upload receipts), the object bucket | `rpc`, `upload`, `download`, `set_engines`, validation of a finish |
| Control-plane access | `src/clayfarm_control/service.py`, `api.py`, `db.py`, `auth.py`, `mfa.py` | users, nodes, requests, revocations; at home the vault | sign-in, join requests, decisions, member and node status, revocation, second factor |
| Development queue | `service.py` (`claim`, `finish`), `api.py`, `agent.py` | `jobs` table and artifact files, the agent's `pending.json` outbox | submit, claim, renew, upload, finish, flush, cancel |
| Model store | `models.py` | `models/<profile>`: current, pending, ledger, and `models.lock` | sync, verify, activate, generate |
| Device proofs | `src/clayfarm_control/device.py`, `api.py` | the nonce table | signed requests |
| Updates and releases | `updates.py`, `releases.py`, `cli.py` | `update-state.json`, staged wheels, the Python environments | check, download, apply; `install.sh`, `install.ps1` |
| Notifications | `notification.py`, `db.py` | `events.delivered_at` | at-least-once mail |
| Caller commands | `src/clayfarm/cli.py`, `spec.py`, `local.py` | `intent.json`, `request.json`, `report.json`; the SQLite coordinator of the demo | submit and retry, result, approve, cancel |
| Resumable transfer | `src/clayfarm/remote.py` | `.part` files, `<key>.tus.json` | TUS upload, ranged download |
| Executors and runtime | `executors.py`, `blender_script.py`, `runtime.py`, `process.py` | work directory of an attempt | engines and Blender in subprocesses |
| Media and setup | `sound_direction.py`, `audio.py`, `png.py`, ... | the request file, `direction-manifest.json` | draft, validate, compile, generate |
| Resource admission | `resources.py`, `inventory.py`, `registry.py` | none | `can_run`, `memory_admission`, `plan` |

How they interact: callers and workers call the queue either through `cf_rpc` (legacy
members, with their own identity) or through the gateway and `control_rpc` (people and
device nodes). Every call is one database transaction. Workers never talk to each other;
they meet in the rows of the queue and in the bucket. The worker's threads (executor per
slot, uploader, lease guards, maintenance) meet in the journal. The development queue is a
second, smaller queue of the control plane with its own agent; the agent and its operator meet
in the node's model store. Every request of a person or a device is authenticated by the
control plane in a transaction of its own before the transaction that acts.

What is hard here, component by component, and what makes it correct:

* **Queue.** At-least-once execution with one fenced result (`docs/legacy/ARCHITECTURE.md:28`).
  Nothing runs on a schedule: lapsed leases, exhausted attempts and orphaned children are
  cleaned up by whoever claims next. Leases end at an instant that is compared with `<` in
  one place and `<=` in another, by a clock that moves on inside a call. Cancel and approve
  close a job under running workers.
* **Worker.** Crashes between computing, journalling, uploading and committing; results
  whose lease was lost; an uploader and an executor that meet the same task.
* **Gateway.** An upload is authorised, written and authorised again; a finish whose answer
  was lost is repeated after the lease, even after the job, is gone. A committed result must
  stand on uploads of its own attempt.
* **Control plane.** Requests decided twice, statuses read before the transaction that
  writes them, sessions revoked while in use. A node must follow the decision on its request.
* **Development queue and model store.** The agent dies between the model's answer, the
  outbox file and the server's answer; a call given up as lost arrives later; `models.lock` is
  released by a death; the operator activates a release under a running agent. Receipts must
  be true, served files must be the ones that were committed, releases must not go back.
* **Device proofs.** A captured request is sent again; its nonce must outlive its stamp.
* **Updates.** A command is killed between two writes; the recorded sequence must cover what
  runs, or a later update could go below it.
* **Caller.** A submission is killed anywhere and retried; the retry must be the same plan.
* **Transfer.** Connections break, the server forgets an upload or ignores a range.
* **Notifications.** A mail is out before its row says so.
* **Meshes and sounds.** Turned exactly once through a fleet of old and new workers; what a
  validator accepts must compile, whatever edits the request went through.

The hazards, each with its line and the properties that cover it, are in `PROJECT.json`.

## 2. Modules

| Module | What it is |
|---|---|
| `TaskOutcome` | The abstract specification: what a queue promises about the outcome of its tasks. |
| `FarmQueue` | The central queue, one action per call, its properties and the refinement mapping. |
| `QueueLocks` | One task of the queue, its calls statement by statement: row locks, snapshots, aborts. |
| `SlotLocks` | The slots of one worker over several tasks, its calls statement by statement: the worker's row lock and the unlocked busy check. |
| `FarmWorker` | One worker process, thread by thread, composed with the queue it calls. |
| `Access` | People and devices: sign-in, requests, decisions, statuses, revocation. |
| `Gateway` | EXTENDS `Access`: transfers to the bucket and calls of the queue under that access. |
| `ModelStore` | The models of one profile on one node, and their lock. |
| `DevQueue` | EXTENDS `ModelStore`: the development queue. |
| `DevFarm` | EXTENDS `DevQueue`: the agent, composed with its store, its queue and its rivals. |
| `LocalFarm` | The SQLite coordinator, shown to implement `TaskOutcome`. |
| `Caller` | EXTENDS `LocalFarm`: the caller's commands. |
| `Updates`, `NodeProof`, `Transfer`, `MfaSetup`, `MeshFrame`, `SoundDirection`, `Mailer` | One part each, see below. |
| `Absent` | The constant `None` that the small modules share. |
| `MCFarmQueue`, `MCFarmWorker`, `MCGateway`, `MCDevFarm`, `MCQueueOutbox`, `MCParts` | Plans and constants for the runs. `MCQueueOutbox` puts the queue with a deep plan beside a worker with two results, and `MCParts` the smaller parts, each into one state space, in which a behaviour is one of a single part. |
| `FarmQueue_proofs` | The inductive invariant and the theorems about `FarmQueue`. |
| `FarmQueueRefinement` | The proof that `FarmQueue` implements `TaskOutcome`. |
| `FarmWorker_proofs` | The worker's invariant, and that the worker uses the queue as `FarmQueue` allows. |
| `NodeProof_proofs` | No signed request is let in twice. |
| `Gateway_proofs` | The invariant and the theorems about access and the gateway. |
| `DevFarm_proofs` | The invariant and the theorems about the development farm. |
| `QueueLocks_proofs` | The invariants about open transactions: that the record survives them, that the task keeps to `TaskOutcome`, and what the busy check of a claim is worth. |
| `Parts_proofs` | The theorems about the parts beside the queues, and that `LocalFarm` implements `TaskOutcome`. |

### FarmQueue

| State | Code |
|---|---|
| `job[j]` | `cf_jobs`: status, approved_task |
| `task[t]` | `cf_tasks`: status, compute_done, attempt_no, lease_owner, lease_until, not_before, output |
| `attempts[t][k]` | `cf_attempts`: the row of attempt number `k` of task `t` |
| `worker[w]` | `cf_workers`: presence, capabilities, age of last_seen, paused (or on battery) |
| `engines[n]` | `cf_control.node_engines` |
| `active[w]` | what `control_member` and `dispatch` check before anything else |
| `staged`, `objects` | the objects in the bucket: job inputs, result files of attempts |

| Action | Code |
|---|---|
| `StageInput`, `Upload` | `control_storage`, write branch (people; workers), with the write itself |
| `Submit`, `Cancel`, `Approve` | the three caller actions of `queue_dispatch`, with the checks `control_rpc` puts before them |
| `Heartbeat`, `SetEngines`, `SetActive` | `heartbeat`; `Bridge.set_engines`; suspension of a node, its owner or a member |
| `Peek`, `MemberClaim`, `NodeClaim` | the sweep (`SweptTasks`, `SweptAttempts`), then the selection (`Claimable`, `First`) and the lease (`Leased`); `NodeClaim` with everything `control_rpc` does first |
| `Renew`, `Computed`, `Fail`, `Finish` | the calls about a held task, guarded by `Holds` |
| `Tick` | time |

Decisions a reader should know:

* **One call, one step.** A call that writes a task holds the row lock from its check to its
  commit, so calls about one task are serial. What that leaves out is the subject of `QueueLocks` and
  `SlotLocks`: above all, a renewal is committed later than it is checked. In `FarmQueue` the lease is
  valid when `Renew` extends it; in the code it may have passed meanwhile, and a claim of the same
  worker may have read it as passed. So `FarmQueue` states no property of how many tasks a worker
  computes at once; `SlotLocks` does.
* **Time is relative.** `lease_until` is kept as the time left (0 is the very instant of the
  deadline, -1 is past), `last_seen` as its age, `not_before` as the wait left. No clock
  bounds the behaviours, and the state space is finite. `clock_timestamp()` moves on between
  the statements of a claim: `ClaimPauses` lets time pass between the sweep and the
  selection. A pause is not put between other statements.
* **Tokens.** `attempt_id` is a fresh uuid per attempt number, so the number is the token. A
  caller may present any number, which covers every late, duplicated or reordered call.
* **Refused calls** (errors and `accepted: false`) change nothing and are stuttering steps;
  so are repeated submits and finishes, answered without a write.
* **Refusals left out of `Submit`**: `input_scope_denied` and `mock_revision_not_allowed`
  (SQL 328-336) only refuse more; no property depends on them.
* **Ties** in the claim's order are broken by creation time and random ids in the code, and
  nondeterministically in `First`. `SKIP LOCKED` skips any set of rows in `RivalLocks`.
* **The recursive query** `bad` is the least set of live tasks closed under "my parent is
  dead or in the set" (`Doomed`), written without recursion so that it can be proved about.
* **Widths.** Attempt numbers and priorities are bounded by their table checks; no integer
  of the queue can overflow.

### FarmWorker

`FarmWorker` EXTENDS `FarmQueue`: every call of the modelled worker `Self` is the queue's own
action, taken together with what the worker does with the answer. The callers, the
administrators, time and every other worker (`Surroundings`) may do whatever `FarmQueue`
lets them.

| State | Code |
|---|---|
| `journal[t]`, `older[t]` | table `work` of `worker.sqlite`: state, attempt and result of a row, and which rows were updated before it |
| `marker[t][k]` | `work/<task>/<attempt or "offline">/result.json` |
| `executor[s]` | where the loop of a slot is, with the task, the attempt and the result it holds |
| `uploader` | the flush pass that holds `sync_lock`: by whom, the rows left, the row at hand, the guard's cancel |
| `peeked` | tasks whose input a prefetch is fetching |
| `stopped` | threads that ended with an error they do not catch |
| `faults` | lost calls and crashes so far, bounded by `MaxFaults` |

| Action | Code |
|---|---|
| `Check`, `Claim`, `Speculate` | `step`: the outbox limit, the claim, `offline_step` when it is lost |
| `Begin` | `execute_task`, under the task's lock: adopt a journalled result or write `running` |
| `Load`, `Compute`, `Record`, `ReportComputed` | `_execute_task`: input, execution and marker, journal row, `computed`; `FailLocally` is its handler |
| `FlushFailure`, `FlushedFailure` | the flush after a failure, which is skipped when another is under way |
| `BeginPass`, `TakeRow`, `EndPass` | `flush`, called by the uploader every five seconds |
| `GetRow`, `RenewRow`, `ClaimRow`, `ComputedRow`, `UploadRow`, `FinishRow`, `FailRow` | `flush_one`, one action per call |
| `BreakPass` | a lost call, or an error, ends the pass |
| `GuardExecution`, `GuardUpload` | the two uses of `LeaseGuard` |
| `PeekWork`, `CacheRow` | `prefetch`, from either loop or from maintenance |
| `Crash` | the process dies at any point and restarts with `recover` |

Decisions a reader should know:

* **Steps.** An action is one call or one write to the local disk. The journal's writes are
  transactions with `synchronous=FULL`, so each is one step that a crash cannot split;
  `recover` is repeatable row by row and is part of `Crash`.
* **Lost calls.** `Lose` covers a lost request and a lost answer: the queue's step happens or
  does not, and the worker sees an `OfflineError` either way.
* **Locks.** The executor of `s` holds its task's lock from `Begin` to its last
  step (`Locked`), the uploader holds that of the row at hand; the flush after a failure runs in
  the executor's own thread, whose lock is reentrant.
* **Refused files.** A file that is empty or too large is refused before anything is sent
  (`Unsendable`, `Sendable`): a member's upload raises a `FarmError` (`remote.py:126`), which ends the pass, as it
  does every later one; a node's raises a plain `CFError` (`bridge_client.py:34`), which the thread that
  makes the pass does not catch. Such a row stays for ever, is renewed in every pass, and blocks the rows
  behind it; `OutboxDrains` says exactly that and no more.
* **A guard** whose thread outlives its block, as the join has a timeout, is not modelled: it can
  renew or cancel once more, and its cancel goes to nobody.
* **A guard's cancel** of an execution makes it fail, unless it has just ended; as an
  execution may fail at any time, `GuardExecution` only needs the renewals that are granted.
* **Fingerprints.** A task's payload and its parent's output never change once it is claimable
  (`ResultStable`), so two claims of a task agree; the branch `cached_input_changed` cannot
  be taken and is left out.
* **Members and nodes.** The gateway answers a device node with an error where `cf_rpc`
  answers a member with `accepted: false`, and hides jobs in which a node owns no task
  (`Visible`). A central worker has neither prefetch nor offline speculation
  (`central_worker.py:27-28`), which `WorkerAssumption` states.

### Access and Gateway

| State | Code |
|---|---|
| `member`, `request`, `node`, `revoked` | tables `users`, `requests`, `nodes` (status), `revocations` |
| `handler[h]` | what one HTTP request carries from one transaction to the next: who it authenticated as, or the status it is about to write, or the transfer under way |
| `turn`, `submitted` | one task of the queue: its attempt, its holder, whether the lease is valid; whether the job of a staged input exists |
| `stored`, `receipt`, `output` | the bucket, `bridge_artifacts`, the committed manifest |

| Action | Code |
|---|---|
| `SignIn`, `DeviceIn` | `principal`; `device_any` and `device` |
| `RequestAccess`, `Decide`, `UserChange`, `BootstrapAdmin`, `RevokeSession` | the routes and service methods of these names |
| `ReadNode`, `WriteNode` | `change_node_status`, which reads the node in one transaction and writes in another |
| `BeginTransfer`, `Store`, `StoreCut`, `RecordReceipt` | `CentralBridge.upload`: authorise, write, authorise again and record; `StoreCut` loses the answer of the bucket |
| `Submit`, `Claim`, `Finish`, `Cancel`, `Lapse` | the calls of the queue that a transfer can meet |
| `Leave` | a read, a refusal, a replay, an error: the transaction rolls back |

A transfer keeps share locks on the rows of its user, its node and its task until its transaction
ends (`UserLocked`, `NodeLocked`, `TaskLocked`); an action that updates such a row waits. Time
does not wait: `Lapse` is always possible, so the second authorisation can fail. An object key
carries the digest of its bytes, so a file stands for its content.

### ModelStore, DevQueue and DevFarm

| State | Code |
|---|---|
| `current`, `pending`, `ledger` | `current.json`, `pending.json`, `release-ledger.json` of a profile |
| `core` | the adapter, environment and files as they are now; `Drift` is an upgrade or a damage |
| `work` | who holds `models.lock`, for which operation, at which of its writes |
| `job[j]`, `file[j][k]` | table `jobs`; the stored artifact of attempt `k` |
| `agent`, `outbox[j][k]` | where the loop of the agent is; `pending.json`, `committed.json`, `stale.json` |
| `wire` | calls the agent has given up, which the server may still execute |

| Action | Code |
|---|---|
| `BuiltinSync`, `SyncBegin`, `SyncEnd`, `VerifyBegin`, `VerifyActivate`, `VerifyEnd`, `Abandon` | `Models.builtin_sync`, `sync_recipe`, `verify`, with a step per durable write, and the death of their process |
| `Submit`, `Cancel`, `ClaimJob`, `ClaimNothing`, `Renew`, `Upload`, `Finish`, `FinishError`, `Tick` | `Service.submit`, `cancel`, `claim`, `finish` and the artifact routes |
| `Reconcile`, `ReconcileVerify`, `Heartbeat`, `AgentClaim`, `GenerateBegin`, `GenerateEnd`, `GenerateFails`, `RenewLease` | `Agent.reconcile`, `heartbeat`, `step`, `run` and the renewal thread |
| `FlushUpload`, `FlushFinish`, `FlushUnlink`, `FlushDone` | `Agent.flush` |
| `Crash`, `Arrive`, `Rival` | death of the agent; a late call; another node |

An artifact route is one action, although it checks the job in one transaction and then writes or
reads the file (`api.py:238-261`): an attempt has one content, so what comes between makes no difference.
`GenerateBegin` waits for `models.lock`; the code does not, and an agent that finds it taken raises an error nobody
catches and dies, which is a `Crash` here, within `MaxFaults`. After a death between receipt and unlink
the code sends upload and finish again before it unlinks; the answer is the one it had, and `FlushUnlink` goes on directly.

A job's `left` distinguishes the very end of its lease (0), when a claim sees neither an active nor
an expired job but a finish is still accepted, from later.

### The parts beside the queues

* `LocalFarm`, `Caller`: the SQLite coordinator, which translates the queue's rules by hand,
  and the caller's commands. `submit` and `retry-submit` are separate processes that may be
  killed between uploading, writing `request.json` and calling; `CollectResult` reads the view as
  `result` does.
* `Updates`: the server's shelf, one home's recorded manifest and staged wheels, and the release in
  each Python environment from which that home is used. A step per write; `StopUpdate` is a failure
  or a kill. `InstallScript` is `install.sh` and `install.ps1`: a new environment with the unsigned release of
  the checkout, wherever no directory exists yet, whatever the home has on record; the user may delete an
  environment. So an old release may run again, but only an unsigned one: the property is about signed
  releases. `apply_update` also answers "Use the previous signed wheel and run clayfarm update apply"
  as a way to roll back (`updates.py:213`); `verify_manifest` refuses the previous wheel's lower sequence, so
  that way does not exist, and the property is not at odds with it.
* `NodeProof`: time stamps of devices whose clocks are off by up to `MaxSkew`, replays, requests
  that wait up to `MaxWait` between the check of the signature and the nonce's transaction.
* `Transfer`: chunks of one upload (TUS) and of one download through `.part`.
* `MfaSetup`: commands of a home between the authentication service and the vault; the vault's entry is
  read and deleted in two steps (`FindSecret`, `ForgetSecret`).
* `MeshFrame`: the axes of a mesh, from engines and legacy workers through Blender to
  revisions, which begin from the mesh of the reconstruction and have no parent to tell its engine.
  A turn is a permutation with signs of the axes `<<1, 2, 3>>`.
* `SoundDirection`: a request file under edits, its validator and its compiler.
* `Mailer`: the event table and one delivery as one transaction whose mail cannot be undone.
* `QueueLocks`: transactions `qcall` on the row of one task (`qtask`) and its ledger (`qledger`).
  A call writes into its own record, which holds the row locks, and `CommitCall` applies it; a
  statement reads what is committed, waits for its row (`TaskFree`, `AttemptFree`) and looks
  again. `AbortCall` is a broken connection or the victim of a deadlock: the cycle between the
  sweep, which locks the attempt before the task, and a finish or fail, which lock the task
  before the attempt, is reachable, and both may be aborted while others go on.
* `SlotLocks`: claims (`claiming`) and other calls (`changing`) of the daemons of one worker over several tasks.
  `BeginClaim` waits for the worker's row, `BusyAnywhere` and `BusyInSlot` read committed tasks without a lock,
  `CheckHeld` and `CommitChange` are the two ends of a renewal, computed, finish or fail. `revived` remembers
  leases that had passed by the time their renewal committed.

## 3. Properties and runs

Each property has a comment at its definition, and a mutant in `PROJECT.json`: a plausible
mistake in the code (a dropped guard, `<=` for `<`, a takeover that keeps the attempt number, a
nonce forgotten too early, ...) under which TLC finds the property violated. Mutated operators
stand just before the definition they mutate; where their name does not say so they are marked
"Mutant".

| Run | Instance | Distinct states | Shows |
|---|---|---|---|
| `queue_takeover` | one task, a node and a member, 3 attempts, leases of 1 and 2, pauses of 0 and 1 inside a claim, fairness | 50,680 | `TypeOK`, `SingleCommit`, `AttemptLedger`, `EveryTaskSettles` |
| `queue_dag` | two candidates, one of three levels, plus a job with a foreign parent (never accepted), one member, 1 attempt; beside it a member's worker with two results that may be refused, no fault, fairness | 114,092 | `ParentFirst`, `ClosedJobsQuiet`, `ApprovedComplete`, `FailedForCause`, `ResultStable`, `OutcomeRefined`, `OutboxInOrder` |
| `worker_member` | one task, the worker a member with prefetch and offline work, a rival member, 2 attempts, any fault, fairness | 123,152 | `FarmTypeOK`, `ResultKept`, `OutboxAgrees`, `RowAtHand`, `CommitWrittenAhead`, `OutboxDrains` |
| `worker_node` | one task, the worker a device node, which may be suspended, a rival member, both slots, 2 attempts, results that may be refused, any 2 faults | 396,328 | `ResultKept` |
| `gateway` | an administrator, a member and a device, two concurrent requests, 2 attempts, 2 files | 880,393 | `GatewayTypeOK`, `NodeFollowsDecision`, `TransferAuthorised`, `CommitBacked`, `RevocationSettles`, `CommitImmutable` |
| `dev_farm` | one job, the agent and a rival, three signed recipes, 2 attempts, 1 fault, 1 drift | 1,524,549 | `ArtifactServed`, `ReceiptsAgree`, `NeverDowngraded`, `FinalIsFinal` |
| `parts` | the parts beside the queues, `QueueLocks`, `SlotLocks`, and one node of the queue between two jobs and both slots while engines, reports and suspension change and rivals lock rows; one at a time | 538,550 | `RetrySamePlan`, `ReadyApprovable`, `UpdateCovered`, `ProofOnce`, `TransferExact`, `SecretPaired`, `TurnedOnce`, `AcceptedCompiles`, `ResultsOnRecord`, `SlotShared`, `LocalOutcome`, `NodeEntitled` |
| `worker_late` | a node and a rival member, no faults, fairness | violated | `LateResultSuperseded`, finding 1 |
| `worker_stale` | as `worker_member` | violated | `DurableOutputReused`, finding 2 |
| `dev_pinned` | as `dev_farm`, two recipes | violated | `PinnedRelease`, finding 3 |
| `mail_starves` | batches of 2, 3 events, fairness | violated | `AtLeastOnce`, finding 4 |
| `revision_axes` | meshes of old and new workers, revisions | violated | `RevisionsStandard`, finding 5 |

**Bounds of the queue and the worker.** `MaxAttempts` is 3 in `queue_takeover`, the value of the
schema, so a first, a middle and a last attempt differ; it is smaller elsewhere, where the
limit itself has to be reached beside other tasks. `MaxLease` is 2, `MinLease` is 1: a
lease is seen with time left, at its deadline and past it, and requests fall below and
above the clamp. `HeartbeatLimit` 0 makes a node stale after one tick. Every call by every
worker with every attempt number is enabled in every state, so more workers add
symmetric rivals only; the theorems hold for any number. The instances are small because the
theorems of section 5 cover the rest.

The worker's runs have one task, since threads interfere through the row, the lock and the
lease of one task; what rows do to each other is the order in which a pass takes them, and the worker of
`queue_dag` has two for it, with either result, both or none refused, and no faults.
Both slots run in `worker_node` (`RunSlots`); elsewhere a shortage keeps
the slot that has no task from running. The two faults of `worker_node`
let a call be lost and the process then crash, or crash in the recovery of a crash.
`MaxPending` is 2 where an executor is to meet a row that waits for the uploader, and 1 in
`worker_node`, where the limit itself is reached. `MaxAttempts` 2 leaves one attempt for the
result's publication after the one it was computed under.

**Bounds of the gateway.** `MaxCalls` 6 requests are authenticated: enough for two
administrators' or owner's changes and a finish around one transfer, or for a
request, its decision and the device's upload. Two handlers, because each race listed is one of
two requests; `MaxTurns` 2 for a takeover; two files, so that a repeated finish may name
another manifest. The behaviours start both from an empty farm and from one with an administrator and
an approved device, which the first states lead to in more calls than the bound allows with a transfer.

**Bounds of the development farm.** One job, since the outbox and the fencing are by job and attempt;
`Lease` 1 tick, so that a lease is valid, at its end, and past it; 2 attempts for the agent's and
the rival's, in either order. The three recipes are two sequences and an equivocation of the first.
`MaxFaults` 1 is one call given up (and executed later, or never) or one death of the agent.

**Bounds of the parts.** Tolerance 1 and wait 1 with retention 3 is the smallest retention
`ProofAssumption` allows, so an off-by-one shows; the theorem of section 5 covers the real values.
Two terminals and three plans for submissions; three loops of two workers for the local coordinator;
three manifests that share a sequence, a version or a file name, and two environments; objects of two and three
chunks that share a prefix; three factors; an engine that needs the turn and one that does not; two notes and
every set of the words the drafter knows. Two transactions in `QueueLocks`, because its races and its
deadlock are of two calls, and two attempts, so that one is the last and one is not. Two daemons in `SlotLocks`
with two tasks of one slot and one of the other, at the member's door and at the node's.

**What `QueueLocks` shows beyond `FarmQueue`.** `AttemptLedger` holds call by call. With statements
between calls, a renewal that is checked before the deadline and commits after it meets a sweep that
has already read the row: the task goes on running, under a valid lease, while its row in `cf_attempts`
says expired until it reports. `ResultsOnRecord` is what survives: the report still counts, the
ledger names it, and no other attempt is recorded as done.

**What `SlotLocks` shows beyond `FarmQueue`.** The comments of the source say that a node leases at most one
task per slot, as locks on its worker row serialize competing claims (SQL 223-224), and one across both slots
(366). The lock keeps two claims apart; it does not keep a claim and a renewal apart. A renewal that is checked
just before the deadline (255) and commits after it is not seen by the busy check of a claim in between (226,
367), and the worker has two tasks under live leases. `SlotShared` states what does hold: that this is the only way.
The window is the time between two statements of one transaction, and both tasks keep a fenced result of their own.

**Deadlock.** The queue never stops: `Tick` is always enabled, so no run of the queue or the
worker switches the deadlock check off. `gateway`, `dev_farm`, `dev_pinned`, `parts` and
`mail_starves` do: their calls, faults and plans are used up, and a part may simply be done.

**Findings.** Five came out of these runs.

1. `worker_late`: a device node that lost its task to another worker can no longer `get` the job,
   so every pass ends at that row: it is never marked superseded, and rows behind it wait for ever.
2. `worker_stale`: an executor that claims a task for which a result waits, and then waits for the
   task's lock longer than a lease, runs the task again although its result has been committed
   meanwhile. The committed result itself is safe (`ResultStable`); what is lost is the work, and
   the journal then calls the worker's own commit superseded. `CommitWrittenAhead` is stated for
   the moment of the commit for that reason.
3. `dev_pinned`: a job pins a release, and the node that claims it generates with whatever
   `current.json` holds by the time it has `models.lock`; neither the agent nor the server
   compares the release of the result with the one that was pinned.
4. `mail_starves`: an event without an active recipient is skipped and stays undelivered, so a
   batch full of events to members who were rejected or suspended keeps every later event from
   being mailed.
5. `revision_axes`: `revise` starts from the mesh that the reconstruction committed and submits it without
   a parent, so `execute` finds no provenance and turns nothing. If an old worker published that mesh, a
   revision reaches Blender with the axes of TripoSR. The comment in `execute` says that revisions
   already use standard glTF. `TurnedOnce` holds for everything else and names this case as its exception.

## 4. Fairness

`queue_takeover`, `queue_dag` (its pair of results only), `worker_member`, `worker_late` and `mail_starves`
assume fairness.

For the queue (`Fairness`): time passes. A member keeps polling: `Worker.run_forever`
runs one loop per slot that claims every few seconds (`src/clayfarm/worker.py:253`), and a
maintenance loop that keeps its heartbeat (`:235`). A worker that holds a task for ever, with
its guard renewing the lease, ends its computation with a report, because executors run with
a timeout (`src/clayfarm/executors.py:104`). A worker whose upload is refused for good is outside this: it renews
for ever, and its task stays live with it (see `FarmWorker`). Nothing is assumed of a worker that loses its
lease: it may crash between any two calls and never come back, as long as the member goes on
polling. No fairness is put on `Finish` alone: a computation may fail.

For the worker (`FarmFairness`): the uploader begins a pass every five seconds and goes on
with it (`worker.py:247`), unless its thread has ended; an executor goes on with what it began, but need not begin
anything, since pause files and resource limits may stop it; maintenance sends heartbeats;
time passes; and another worker that holds a task for ever ends with a report, as above.
Calls may be lost up to `MaxFaults` times and the process may crash; an endless outage is
not assumed away but by that bound.

For the mailer: the operator's timer runs the delivery again and again. All fairness is weak.

## 5. Proofs

The theorems about the queue are about `Spec`, for every value of the constants that
`ConstantsAssumption` allows: any plans, any sets of workers, jobs and engines, any limits.
The assumption is the types of the constants, that nodes are not members, that `None` is no
task, worker, number or output, and `1 <= MinLease <= MaxLease`.

* `InductiveInvariant`: `IInv` holds in every reachable state. `IInv` is the conjunction of
  all invariants with three facts none of them is inductive without. `RowsOfJobs`: rows
  exist exactly for submitted jobs (or `Submit` could reset a finished task, and
  `SingleCommit` would not survive it). `SoundPlans`: a submitted task's parent is a
  task of the same job (or a parent could be cancelled alone, and the sweep would fail a
  child without a cause). `ClosedJobs`: a cancelled task's job is closed, and so is an
  approved job (or a finish could add a mock output under an approval).
* From it: `TypeCorrect`, `ResultIsFenced`, `LedgerIsExact`, `DependenciesRespected`,
  `ClosedJobsStayQuiet`, `FailuresHaveCauses`, `ApprovalsStand`, and
  the action properties `ResultsAreFinal` and `GrantsAreEntitled`.
* `QueueImplementsOutcome`: `Spec => OutcomeRefined`, the refinement of `TaskOutcome`.

The argument. Three lemmas say what sweeping and aging do to one row. `DoomedParent` shows
that the least fixed point behind `bad` is one: a doomed task's parent is dead or doomed; no
induction is needed, since removing an unjustified task leaves a smaller closed set.
`SweepCause` derives from it that the sweep fails a task only for a cause. `StepCases`
then classifies every step, action by action: a *keeping step* (heartbeats, time, peeks,
renewals, claims that find nothing), a *grant*, or one of submit, cancel, approve, fail and
finish. Each class preserves each conjunct of the invariant (`KeepingPreserves`, ...,
`FinishPreserves`), and each is a step or a stutter of `TaskOutcome`.

The theorems about the worker are about `FarmSpec`, for any plan, any rivals, any bounds, and
a worker of either kind with or without prefetch and offline work; they also assume
`WorkerAssumption`.

* `FarmInvariant`: `FarmInv` is the queue's `IInv` and `LocalInv`, which adds to `FarmTypeOK` and
  `RowAtHand` what makes them inductive. `RowSound` and `MarkersSound`: a result in the
  journal or in a marker is one that the task's executor outputs (or a finish of the row would not be
  a step of the queue). `ThreadSound` and `PassSound`: a thread that makes a call about a
  task has an attempt to present. `Flushing`: a pass made by an executor is made while that
  executor waits (or its reentrant lock would let it write the row at hand).
* `FarmTypeCorrect` and `RowsLocked` follow at once.
* `WorkerIsClient`: `FarmSpec => Spec`. Every step of the farm is a step of `FarmQueue` or
  leaves its variables alone (`FarmStepIsQueueStep`), so that every theorem about the queue
  holds with this worker, its crashes and its late results in it: `FarmResultIsFenced` and
  `FarmResultsAreFinal` are two of them, spelled out.
* `CommitsWrittenAhead`: by `CallCommits` only a finish commits, in the name of its caller,
  and the only finish this worker sends is for the row at hand, which `RowAtHand` says is
  pending with the pass's attempt.
* `OutcomeInvariant`: `OutcomeInv` adds to `FarmInv` what the worker knows of the queue. `RowTrue`: a
  row names an attempt that was handed to this worker; a running row has its thread; a pending row
  whose attempt is the committed one holds the committed result; `committed` is the task's output,
  `superseded` is settled without it. `MarkersKept`: a task that is still live and of which a marker
  exists can be recovered. `ThreadTrue`: a thread that starts or works has an attempt
  that is not committed (or a computation could overwrite the row of a committed result).
* `ResultsKept` and `OutboxAgreesWithQueue` are `ResultKept` and `OutboxAgrees`.

The argument: a step of a thread (`ThreadMove`) writes no row that the pass has at hand and
takes no lock that the pass holds; a step of the pass (`PassMove`) leaves the threads alone
and ends with a row that is as the pass takes it to be. Both preserve `LocalInv`, and one lemma
per action shows which of the two it is. For `OutcomeInv` the steps are cut the other way: first what
the queue's step leaves of the worker's tasks (attempts of this worker stay its own, an output
stays once it is there, a settled task stays settled), then what the step does to one row, its
markers and its thread; only the tasks that a step names need an argument of their own.

The theorems about overlapping transactions are about `LocksSpec == LocksInit /\ [][LocksNext]_lockVars`,
for any number of connections and attempts; they assume `LocksAssumption` (there is an attempt, and `None`
is no state of one).

* `LocksInvariant`: `LocksInv`. Until a transaction commits, what it is about to write is right for the
  row and the ledger as they are committed *now*. With the task's lock it is granting, renewing,
  finishing, failing or ending (`WriteSound`), and what it has marked in the ledger fits that
  (`MarkSound`); without the lock it can only mark an attempt expired that the ledger says is running.
  No two transactions have the task's lock, and no two have marked the same attempt.
* `RecordKept`: `ResultsOnRecord`, a conjunct of the invariant.
* `LocksKeepOutcome`: `LocksSpec => LockedOutcome`, every step is a step or a stutter of `TaskOutcome` for
  one task without a parent (`LockedTask`). It is a theorem about steps, since `TaskOutcome` starts
  before the task has been submitted and `QueueLocks` after. With `QueueImplementsOutcome` and
  `LocalImplementsOutcome` all three models of a queue of tasks implement the one abstract specification,
  and what `FarmQueue` takes for granted with one step per call costs the outcome nothing.
* `SlotsShared`: `SlotsSpec => []SlotShared`, for any tasks, slots and daemons. Its invariant adds that at most one
  claim is under way, and that from its busy check on a claim excludes no computation but those whose
  renewal has committed since, past the deadline.

The argument: a statement changes only its own call, so it needs to be right once, when it reads. A
commit changes the row under the feet of all others; `OthersSound` shows that they stay sound, since
those with something at stake hold a lock that the committing one would have needed. `ResultsOnRecord`
survives because an attempt marked expired meanwhile is overwritten by its own report.

The theorem about device proofs is about `ProofSpec`, for any set of requests and any tolerance,
wait, skew and retention with `2 * Tolerance + MaxWait <= Retention`, which is 180 s twice and a
wait of up to 240 s within the 600 s of the code.

* `RequestsNotReplayed`: `ProofSpec => []ProofOnce`. `ProofOnce` is not inductive; `ProofInv` adds
  `WaitingSound` (a verified request waits a short time, and its stamp was tolerated when it was
  verified) and `UsedSound` (a proof that let a request in is remembered since not long before its
  stamp, or is so old that no verified request can carry it). `RecordKeeps` is where the
  assumption is needed: a nonce that has been purged belongs to an expired proof.

The theorems about access and the gateway are about `GatewaySpec`, for any members, sessions,
requests, concurrent handlers, files and attempts; they assume `AccessAssumption` and
`GatewayAssumption` (types, every session has its user, `None` is no request and no output file).

* `GatewayInvariant`: `GatewayInv` adds to the four invariants of the run what makes them
  inductive. `RequestSound`: a request that exists carries its payload. `ChangeSound`: a handler
  that is about to write a node's status has seen the request approved, and a decision is never
  taken back (or the second transaction of `change_node_status` could activate a rejected node).
  `Written`: what a transfer is about to record is in the bucket.
* `GatewayTypeCorrect`, `NodesFollowDecisions`, `TransfersStayAuthorised` and `CommitsAreBacked`
  follow; `RevocationsSettle` and `CommitsAreImmutable` are action properties, by cases on the step.

The argument: the share locks of a transfer are stated once, as what no step may do to a locked
row (`LocksRespected`), and each action is shown to respect them; from there `TransferAuthorised`
needs no case by case reasoning. A decision is disturbed only by `Decide` and `WriteNode`, a commit
only by `Finish`, and one lemma per conjunct says what any other step has to leave alone.

The theorems about the development farm are about its `FarmSpec`, for any recipes, jobs, nodes,
lease, limit of attempts and number of faults; they assume `StoreAssumption`, `QueueAssumption` and
`FarmAssumption` (types, the bundled release is no signed recipe, `None` is nothing else).

* `FarmInvariant`: `FarmInv` has four parts. `StoreInv`: the signed releases go up from
  `current.json` over `pending.json` to the ledger (`ReleasesOrdered`), and what a verification read
  before its self-test still lies between them when it activates (`WorkOrdered`). `QueueInv`: a
  job that was submitted pins a release, and `ArtifactServed`. `AgentInv`: of the attempt the agent
  holds, its outbox knows nothing yet. `OutboxInv`: what a box and the calls given up say of an
  attempt; a stale attempt can never finish again, and a finish under way carries the very
  content that waits in the outbox (or a late finish could contradict the receipt of its repetition).
* `FarmTypeCorrect` (the type invariant, which no run repeats), `ArtifactsAreServed` and
  `ReceiptsTellTheTruth` follow; `FinalStaysFinal` and
  `ReleasesGoUp` are the action properties `FinalIsFinal` and `NeverDowngraded`.

The argument: every call of the queue replaces one row by one that *goes on* (`RowGoesOn`), or ages or
fails rows; all of them are `Onward`: attempts never decrease, a final job stays, and nobody regains
an attempt that was lost. `BoxKept` shows that this is all a box needs unless a finish of its own
arrives, so only `FlushFinish` and `Arrive` need more. The agent's steps that leave its outbox alone
are one lemma (`IdleStep`).

The theorems of `Parts_proofs` are each about one part by itself: `MfaSpec`, `FrameSpec`, `UpdatesSpec`,
`TransferSpec`, `CallerSpec`, `SoundSpec`, the part's `Init` and `[][Next]`. A behaviour of the
run `parts` is one of a single part, so it is a behaviour of that specification; `CallerSpec` allows
more than the run, which explores submissions and reviews separately. The theorems hold for any homes,
factors, capabilities, manifests, files, commands, loops, notes and cards. What they assume of them is
named beside the constants: that `None` is nothing else, sequence numbers and attempts are natural numbers, a
file is a sequence of chunks, and a card is a record of the shape `validate_direction` requires, with
words of `Vocabulary`, which holds those that the draft and the compiler say.

* `SecretStaysPaired` (`SecretPaired`) and `TurnedExactlyOnce` (`TurnedOnce`, but for revisions of meshes that
  were committed unmarked). `FrameInv` says in which axes a mesh can be at each stage;
  `FramesTurn` that the conversion takes the two that a mesh of TripoSR
  can have to the same one, and leaves the other engines' alone.
* `UpdatesCovered` (`UpdateCovered`). `UpdatesInv` adds that the sequence on record is that of the release
  pip is about to install, and that a release that is about to be recorded as downloaded is not below it.
* `TransfersExact` (`TransferExact`). `TransferInv` adds that what the server holds of an upload is
  always a beginning of the local file; the download needs no such fact, since the digest of the whole
  decides in `EndDownload`.
* `CallerInvariant`: `CallerInv` is `LocalInv` (what a row of the coordinator may say), `SpoolInv`,
  `SingleInv` (unless two submissions ran at once, a plan is stored before the call that sends it, and
  the coordinator knows no other) and `ReportInv` (what a report offers was complete, and done stages
  stay done). `PlanKept` and `OfferHolds` are `RetrySamePlan` and `ReadyApprovable`.
* `LocalImplementsOutcome` (`LocalOutcome`): every step of the coordinator keeps all rows as they are or
  requeues or closes some, grants one stage, finishes one, or creates all, and each kind is a step or a
  stutter of `TaskOutcome`. The sweep closes the descendants of a dead stage; `DoomedStages` recurses over
  the stages, and because their tree has three levels the proof unfolds it that often instead of
  using an induction.
* `SoundsCompile` (`AcceptedCompiles`). `SoundInv`: what was heard is what the request compiles to as it
  stands, and what was drafted is valid. The proof follows the validator and the compiler through a
  card and shows that what `FitDirection` accepts, `RefusedDirection` does not refuse.

Only model-checked:

* `EveryTaskSettles`, `OutboxDrains` and `OutboxInOrder`: liveness is out of the prover's reach.
* The properties of the runs that expect a violation: they do not hold.

## 6. What is not modelled, and why

* **Statements inside a call of the queue** are modelled for one task without children
  (`QueueLocks`). Left out there: `computed`, which takes the locks of a renewal; `approve`, which closes
  tasks as `cancel` does; the lock on the worker's row; and PostgreSQL's choice of a
  deadlock's victim, for which any call may be aborted at any time. `SlotLocks` has the worker's row and
  `computed`, and in turn no attempts: a task that is due is any task of the slot.
* **Reads** (`get`, `list`, `me`, `workers`, a node's `peek`) change nothing; what they let
  a caller do next belongs to the modules of the caller and the worker.
* **Payload validation** (sizes, hashes, path prefixes) is left out: an object of attempt
  `k` of task `t` can only be named by its prefix, which `objects` keeps.
* **One farm.** Every row carries the same `farm_id`.
* `created_by`: each job has one caller, and only that caller's calls are modelled.
* **Resource admission**: thresholds over measured memory and battery, evaluated once per claim.
  A claim may be refused at any time in `FarmWorker` and `DevFarm`, which covers every outcome.
* **Identity**: the provider, tokens and their refresh (also the one refresh on a 401 in
  `remote.py`); `SignIn` is a login whose token verified.
* **Desired profiles and policies of a node**, inventories, names, audit rows.
* **Executors, codecs, setup**: what engines and Blender do inside their process, signal
  processing, image encoding and interactive installation keep no protocol state. The queue takes
  the outcome of a task from the constant `Results`.
* **Two submissions of one job at the same time**: nothing locks the spool, and two plans may be
  drawn up; `RetrySamePlan` excludes that case explicitly (`overlapped`). **Two update commands
  at the same time** are not modelled either: one home has one operator, whichever of its environments runs it.
* **Release publication** (`api.py:262-275`): the signed manifests are constants.
* **Two worker processes of one home** exclude each other by a lock of the operating system;
  two with different homes are `Self` and another client of the queue.
* **The disk.** Writes of the journal and of markers succeed; a result file that has gone
  missing (it is as a refused one for a member), a full disk and an `sqlite3` error that ends a thread are left out
  (the last is a listed hazard). So is a node's input that fails its check on download
  (`bridge_client.py:44`, `:49`): it ends the thread of its slot and leaves the row `running` until the restart,
  from where on it is a `Crash`. The outbox limit is a guard of `Check`, but no property.

## 7. Plan

1. *(done)* `FarmQueue`, `TaskOutcome`, their runs, the inductive invariant, the refinement.
2. *(done)* `FarmWorker`, composed with the queue; its invariant, `WorkerIsClient` and
   `CommitsWrittenAhead` as theorems.
3. *(done)* `Access` and `Gateway`; `ModelStore`, `DevQueue` and `DevFarm`.
4. *(done)* The parts: `LocalFarm` with `Caller`, `Updates`, `NodeProof`, `Transfer`, `MfaSetup`,
   `MeshFrame`, `SoundDirection`, `Mailer`; the theorem about `NodeProof`.
5. *(done)* Theorems about `GatewaySpec` and about the `FarmSpec` of `DevFarm`: all properties their
   runs check.
6. *(done)* Theorems about `FarmWorker` on top of `FarmInv`: `ResultKept` and `OutboxAgrees`.
7. *(done)* `QueueLocks`: statements and row locks of the queue's calls about one task.
8. *(done)* Theorems about `QueueLocks` and about the parts; `LocalFarm` implements `TaskOutcome`.
9. *(done)* `SlotLocks`; a worker with several results, refused files and ended threads.
10. The limit of four waiting results (`Check` of `FarmWorker`, a hazard without a property yet).
