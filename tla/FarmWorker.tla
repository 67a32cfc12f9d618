----------------------------- MODULE FarmWorker -----------------------------
(***************************************************************************)
(* One worker process of the farm, composed with the queue it calls.       *)
(*                                                                         *)
(* A worker runs two executor threads, one for each slot, and an uploader. *)
(* They meet in the journal, a local database that survives a crash.  An   *)
(* executor claims a task, computes it, writes the result to a marker file *)
(* and then to the journal; the uploader brings the journal's pending rows *)
(* to the queue: it looks at the task, renews its lease or claims it anew, *)
(* uploads the files and finishes the task.                                *)
(*                                                                         *)
(* An action is one call with the handling of its answer, or one write to  *)
(* the local disk.  A call may also be lost, as a request or as an answer, *)
(* and the process may crash and recover between any two actions.          *)
(***************************************************************************)
EXTENDS FarmQueue

CONSTANTS
    Self,               \* this worker
    Seconds,            \* lease_seconds, the lease it asks for
    MaxPending,         \* max_pending_results
    RunSlots,           \* the slots that can_run lets run
    Prefetch,           \* does it peek at work ahead of its claims?
    OfflineSpeculation, \* does it compute without a lease when it is offline?
    Unsendable,         \* the results with a file that is empty or too large
    MaxFaults           \* a bound on lost calls and crashes

ASSUME WorkerAssumption ==
    /\ Self \in Workers
    /\ Seconds \in LeaseRequests
    /\ None \notin Grades
    /\ Targets = Tasks \cup {None}
    /\ MaxPending \in Nat \ {0}
    /\ RunSlots \subseteq Slots
    /\ Prefetch \in BOOLEAN
    /\ OfflineSpeculation \in BOOLEAN
    /\ Self \in Nodes => ~Prefetch /\ ~OfflineSpeculation
    /\ Unsendable \subseteq Grades
    /\ MaxFaults \in Nat

VARIABLES
    journal,    \* the table work: one row per task
    older,      \* per row, the rows that were updated before it
    marker,     \* work/<task>/<attempt or offline>/result.json
    executor,   \* per slot, the thread that claims and computes
    uploader,   \* the flush pass that holds sync_lock
    peeked,     \* tasks that a prefetch is fetching the input of
    stopped,    \* the threads that an error ended which they do not catch
    faults      \* how many calls were lost and how often the process crashed

queueVars == vars
localVars == <<journal, older, marker, executor, uploader, peeked, stopped>>
farmVars == <<queueVars, localVars, faults>>

----------------------------------------------------------------------------
(* The journal.  Attempt 0 is a row without an attempt_id, as a task that   *)
(* was computed offline has.  An error is not a result.                     *)

Offline == 0
AttemptIds == AttemptNos \cup {Offline}
Outbox == {"pending", "failure_pending"}

JournalRow ==
    [state: {"none", "cached", "running", "failed", "committed", "superseded"}
            \cup Outbox,
     attempt: AttemptIds,
     result: Grades \cup {None}]

Written == {t \in Tasks : journal[t].state # "none"}

Save(t, state, attempt, result) ==
    /\ journal' = [journal EXCEPT ![t] =
                    [state |-> state, attempt |-> attempt, result |-> result]]
    /\ older' = [u \in Tasks |-> IF u = t THEN Written \ {t} ELSE older[u] \ {t}]

Entries(states) == {t \in Tasks : journal[t].state \in states}

(* The threads.                                                            *)

ExecutorRow ==
    [pc: {"idle", "claim", "speculate", "start", "load", "compute", "record",
          "report", "adopt", "flush", "flushing"},
     task: Tasks \cup {None},
     attempt: AttemptIds,
     result: Grades \cup {None}]

PassRow ==
    [pc: {"idle", "next", "get", "renew", "claim", "computed", "upload",
          "finish", "fail"},
     by: Slots \cup {"uploader"},
     rest: SUBSET Tasks,
     before: [Tasks -> SUBSET Tasks],
     task: Tasks \cup {None},
     attempt: AttemptIds,
     cancel: BOOLEAN]

Resting == [pc |-> "idle", task |-> None, attempt |-> Offline, result |-> None]
Starting(t, k) == [pc |-> "start", task |-> t, attempt |-> k, result |-> None]
NoPass == [pc |-> "idle", by |-> "uploader", rest |-> {}, before |-> [t \in Tasks |-> {}],
           task |-> None, attempt |-> Offline, cancel |-> FALSE]

FarmInit ==
    /\ Init
    /\ journal = [t \in Tasks |->
                    [state |-> "none", attempt |-> Offline, result |-> None]]
    /\ older = [t \in Tasks |-> {}]
    /\ marker = [t \in Tasks |-> [k \in AttemptIds |-> None]]
    /\ executor = [s \in Slots |-> Resting]
    /\ uploader = NoPass
    /\ peeked = {}
    /\ stopped = {}
    /\ faults = 0

----------------------------------------------------------------------------
(* Calls.                                                                  *)

\* The call never arrives, or its answer does not: OfflineError.
Lose(call) ==
    /\ faults < MaxFaults
    /\ faults' = faults + 1
    /\ call \/ UNCHANGED queueVars

\* The queue answers and writes nothing.
Answered == active[Self] /\ UNCHANGED <<queueVars, faults>>
\* The queue raises an error: the worker or its owner is suspended.
Denied == ~active[Self] /\ UNCHANGED <<queueVars, faults>>

CallClaim(slot, only) ==
    \E rivals \in RivalLocks, pause \in ClaimPauses :
        \/ Self \in Nodes /\ NodeClaim(Self, slot, only, Seconds, rivals, pause)
        \/ Self \in Members /\ MemberClaim(Self, slot, only, Seconds, rivals, pause)

Handed == {t \in Tasks : task'[t].attempt # task[t].attempt}

\* A node that was silent for too long gets an error; a member that never
\* sent a heartbeat gets no task.
ClaimRefused ==
    /\ Answered
    /\ \/ ~worker[Self].known
       \/ Self \in Nodes /\ worker[Self].silent > HeartbeatLimit

----------------------------------------------------------------------------
(* The executor of a slot.                                                 *)

Becomes(s, pc) == executor' = [executor EXCEPT ![s].pc = pc]
Rests(s) == executor' = [executor EXCEPT ![s] = Resting]

\* Pause files and passing shortages may keep a thread from checking, too.
Check(s) ==
    /\ executor[s].pc = "idle"
    /\ s \in RunSlots \ stopped
    /\ Cardinality(Entries({"pending"})) < MaxPending
    /\ Becomes(s, "claim")
    /\ UNCHANGED <<queueVars, journal, older, marker, uploader, peeked, stopped, faults>>

Claim(s) ==
    /\ executor[s].pc = "claim"
    /\ \/ /\ CallClaim(s, None)
          /\ UNCHANGED faults
          /\ \/ Handed = {} /\ Rests(s)
             \/ \E t \in Handed :
                    executor' = [executor EXCEPT ![s] = Starting(t, task'[t].attempt)]
       \/ (ClaimRefused \/ Denied) /\ Rests(s)
       \/ /\ Lose(CallClaim(s, None))
          /\ IF OfflineSpeculation THEN Becomes(s, "speculate") ELSE Rests(s)
    /\ UNCHANGED <<journal, older, marker, uploader, peeked, stopped>>

\* Rows that are too old or whose input is gone are passed over.
Speculate(s) ==
    /\ executor[s].pc = "speculate"
    /\ \/ Rests(s)
       \/ \E t \in Tasks :
            /\ journal[t].state = "cached"
            /\ Plan[t].slot = s
            /\ executor' = [executor EXCEPT ![s] = Starting(t, Offline)]
    /\ UNCHANGED <<queueVars, journal, older, marker, uploader, peeked, stopped, faults>>

\* Mutant: a result that is already in the outbox is computed again.
BeginAfresh(s) ==
    LET t == executor[s].task
        k == executor[s].attempt
    IN  /\ executor[s].pc = "start"
        /\ uploader.task # t
        /\ Save(t, "running", k, None)
        /\ Becomes(s, IF k = Offline THEN "compute" ELSE "load")
        /\ UNCHANGED <<queueVars, marker, uploader, peeked, stopped, faults>>

\* Mutant: the task's lock is not asked for.
BeginUnlocked(s) ==
    LET t == executor[s].task
        k == executor[s].attempt
    IN  /\ executor[s].pc = "start"
        /\ \/ /\ journal[t].state = "pending"
              /\ IF k = Offline
                 THEN Rests(s) /\ UNCHANGED <<journal, older>>
                 ELSE Becomes(s, "adopt") /\ Save(t, "pending", k, journal[t].result)
           \/ /\ journal[t].state # "pending"
              /\ Save(t, "running", k, None)
              /\ Becomes(s, IF k = Offline THEN "compute" ELSE "load")
        /\ UNCHANGED <<queueVars, marker, uploader, peeked, stopped, faults>>

\* Under the task's lock.  The fingerprints of two claims of a task agree: a
\* task's payload and its parent's output never change.
Begin(s) ==
    LET t == executor[s].task
        k == executor[s].attempt
    IN  /\ executor[s].pc = "start"
        /\ uploader.task # t
        /\ \/ /\ journal[t].state = "pending"
              /\ IF k = Offline
                 THEN Rests(s) /\ UNCHANGED <<journal, older>>
                 ELSE Becomes(s, "adopt") /\ Save(t, "pending", k, journal[t].result)
           \/ /\ journal[t].state # "pending"
              /\ Save(t, "running", k, None)
              /\ Becomes(s, IF k = Offline THEN "compute" ELSE "load")
        /\ UNCHANGED <<queueVars, marker, uploader, peeked, stopped, faults>>

\* Mutant: a failure without an attempt is put into the outbox.
FailAnyway(s) ==
    /\ Save(executor[s].task, "failure_pending", executor[s].attempt, None)
    /\ Becomes(s, "flush")

\* The handler of FarmError, OSError and ValueError before there is a result.
FailLocally(s) ==
    LET t == executor[s].task
        k == executor[s].attempt
    IN  \/ /\ k # Offline
           /\ Save(t, "failure_pending", k, None)
           /\ Becomes(s, "flush")
        \/ /\ k = Offline
           /\ Save(t, "failed", k, None)
           /\ Rests(s)

\* Fetch the input.
Load(s) ==
    /\ executor[s].pc = "load"
    /\ \/ /\ Becomes(s, "compute")
          /\ UNCHANGED <<journal, older, faults>>
       \/ FailLocally(s) /\ UNCHANGED faults
       \/ /\ faults < MaxFaults
          /\ faults' = faults + 1
          /\ Save(executor[s].task, "cached", executor[s].attempt, None)
          /\ Rests(s)
    /\ UNCHANGED <<queueVars, marker, uploader, peeked, stopped>>

\* Execution ends with the marker on the disk, or fails.  The lease guard's
\* cancel makes it fail, but it may just have ended before.
Compute(s) ==
    LET t == executor[s].task
        k == executor[s].attempt
    IN  /\ executor[s].pc = "compute"
        /\ \/ \E grade \in Results[t] :
                /\ marker' = [marker EXCEPT ![t][k] = grade]
                /\ executor' = [executor EXCEPT ![s].pc = "record",
                                                ![s].result = grade]
                /\ UNCHANGED <<journal, older>>
           \/ FailLocally(s) /\ UNCHANGED marker
        /\ UNCHANGED <<queueVars, uploader, peeked, stopped, faults>>

Record(s) ==
    LET t == executor[s].task
        k == executor[s].attempt
    IN  /\ executor[s].pc = "record"
        /\ Save(t, "pending", k, executor[s].result)
        /\ IF k = Offline THEN Rests(s) ELSE Becomes(s, "report")
        /\ UNCHANGED <<queueVars, marker, uploader, peeked, stopped, faults>>

\* Copy the files to the cache, then tell the queue that the slot is free.
\* Whatever fails or is answered, the result waits in the outbox.
ReportComputed(s) ==
    LET t == executor[s].task
        k == executor[s].attempt
    IN  /\ executor[s].pc \in {"report", "adopt"}
        /\ \/ Computed(Self, t, k) /\ UNCHANGED faults
           \/ Answered /\ ~Holds(Self, t, k)
           \/ Denied
           \/ Lose(Computed(Self, t, k))
           \/ executor[s].pc = "report" /\ UNCHANGED <<queueVars, faults>>
        /\ Rests(s)
        /\ UNCHANGED <<journal, older, marker, uploader, peeked, stopped>>

\* The lease guard's renewal.  A refused one cancels the execution.
GuardExecution(s) ==
    /\ executor[s].pc \in {"load", "compute", "record", "report"}
    /\ executor[s].attempt # Offline
    /\ Renew(Self, executor[s].task, executor[s].attempt, Seconds)
    /\ UNCHANGED <<localVars, faults>>

\* The tasks whose lock the executor holds.
Locked(s) ==
    IF executor[s].pc \in {"idle", "claim", "speculate", "start"} THEN {}
    ELSE {executor[s].task}

----------------------------------------------------------------------------
(* A flush pass: by the uploader thread, or by an executor after a failure. *)

At(pc) == uploader.pc = pc
Go(pc) == uploader' = [uploader EXCEPT !.pc = pc]
NextRow == uploader' = [uploader EXCEPT !.pc = "next", !.task = None,
                                        !.attempt = Offline, !.cancel = FALSE]
\* An exception ends the pass and releases its locks.
Abort == uploader' = NoPass

\* The rows are listed once, and worked off in the order of the list.
Pass(by) == [pc |-> "next", by |-> by, rest |-> Entries(Outbox), before |-> older,
             task |-> None, attempt |-> Offline, cancel |-> FALSE]

BeginPass ==
    /\ At("idle")
    /\ "uploader" \notin stopped
    /\ uploader' = Pass("uploader")
    /\ UNCHANGED <<queueVars, journal, older, marker, executor, peeked, stopped, faults>>

\* After a failure the executor flushes, unless a pass is under way.
FlushFailure(s) ==
    /\ executor[s].pc = "flush"
    /\ \/ At("idle") /\ uploader' = Pass(s) /\ Becomes(s, "flushing")
       \/ ~At("idle") /\ Rests(s) /\ UNCHANGED uploader
    /\ UNCHANGED <<queueVars, journal, older, marker, peeked, stopped, faults>>

FlushedFailure(s) ==
    /\ executor[s].pc = "flushing"
    /\ uploader.by # s
    /\ Rests(s)
    /\ UNCHANGED <<queueVars, journal, older, marker, uploader, peeked, stopped, faults>>

EndPass ==
    /\ At("next")
    /\ uploader.rest = {}
    /\ uploader' = NoPass
    /\ UNCHANGED <<queueVars, journal, older, marker, executor, peeked, stopped, faults>>

\* Lock the next row's task and read the row again.
TakeRow ==
    /\ At("next")
    /\ \E t \in uploader.rest :
        LET left == [uploader EXCEPT !.rest = @ \ {t}]
            taken == [left EXCEPT !.task = t, !.attempt = journal[t].attempt]
        IN /\ uploader.before[t] \cap uploader.rest = {}
           /\ \A s \in Slots : t \in Locked(s) => uploader.by = s
           /\ \/ /\ journal[t].state = "pending"
                 /\ uploader' = [taken EXCEPT !.pc = "get"]
              \/ /\ journal[t].state = "failure_pending"
                 /\ uploader' = [taken EXCEPT !.pc = "fail"]
              \/ /\ journal[t].state \notin Outbox
                 /\ uploader' = left
    /\ UNCHANGED <<queueVars, journal, older, marker, executor, peeked, stopped, faults>>

\* get shows a node only the jobs in which it owns a task, a member all.
Visible(t) ==
    Self \in Nodes => \E u \in TasksOf(Plan[t].job) : task[u].owner = Self

Settled(t) ==
    \/ task[t].status \in {"done", "failed", "cancelled"}
    \/ job[Plan[t].job].status # "open"

\* Mutant: any committed result of the task passes for this one.
VerdictOfTask(t, k) ==
    IF task[t].status = "done" THEN "committed" ELSE "superseded"

Verdict(t, k) ==
    IF task[t].status = "done" /\ task[t].attempt = k
    THEN "committed" ELSE "superseded"

GetRow ==
    LET t == uploader.task
        k == uploader.attempt
    IN  /\ At("get")
        /\ \/ /\ Answered /\ Visible(t) /\ Settled(t)
              /\ Save(t, Verdict(t, k), k, journal[t].result)
              /\ NextRow
           \/ /\ Answered /\ Visible(t) /\ ~Settled(t)
              /\ Go(IF k = Offline THEN "claim" ELSE "renew")
              /\ UNCHANGED <<journal, older>>
           \/ /\ Answered /\ ~Visible(t)
              /\ Abort
              /\ UNCHANGED <<journal, older>>
        /\ UNCHANGED <<marker, executor, peeked, stopped>>

\* Mutants: without the lease the row is left as it is, or given up.
RenewRowOnly ==
    LET t == uploader.task
        k == uploader.attempt
    IN  /\ At("renew")
        /\ \/ Renew(Self, t, k, Seconds) /\ UNCHANGED faults /\ Go("computed")
           \/ Answered /\ ~Holds(Self, t, k) /\ NextRow
        /\ UNCHANGED <<journal, older, marker, executor, peeked, stopped>>

RenewRowOrGiveUp ==
    LET t == uploader.task
        k == uploader.attempt
    IN  /\ At("renew")
        /\ \/ /\ Renew(Self, t, k, Seconds)
              /\ Go("computed")
              /\ UNCHANGED <<journal, older, faults>>
           \/ /\ Answered /\ ~Holds(Self, t, k)
              /\ Save(t, "superseded", k, journal[t].result)
              /\ NextRow
        /\ UNCHANGED <<marker, executor, peeked, stopped>>

RenewRow ==
    LET t == uploader.task
        k == uploader.attempt
    IN  /\ At("renew")
        /\ \/ Renew(Self, t, k, Seconds) /\ UNCHANGED faults /\ Go("computed")
           \/ Answered /\ ~Holds(Self, t, k) /\ Go("claim")
        /\ UNCHANGED <<journal, older, marker, executor, peeked, stopped>>

\* Mutant: the new attempt is not written to the journal.
ClaimRowUnsaved ==
    LET t == uploader.task
    IN  /\ At("claim")
        /\ \/ /\ CallClaim(Plan[t].slot, t)
              /\ UNCHANGED <<journal, older, faults>>
              /\ \/ Handed = {} /\ NextRow
                 \/ /\ t \in Handed
                    /\ uploader' = [uploader EXCEPT !.pc = "computed",
                                                    !.attempt = task'[t].attempt]
           \/ ClaimRefused /\ Abort /\ UNCHANGED <<journal, older>>
        /\ UNCHANGED <<marker, executor, peeked, stopped>>

\* Claim the task again, in order to publish the result that is already there.
ClaimRow ==
    LET t == uploader.task
    IN  /\ At("claim")
        /\ \/ /\ CallClaim(Plan[t].slot, t)
              /\ UNCHANGED faults
              /\ \/ /\ Handed = {}
                    /\ NextRow
                    /\ UNCHANGED <<journal, older>>
                 \/ /\ t \in Handed
                    /\ Save(t, "pending", task'[t].attempt, journal[t].result)
                    /\ uploader' = [uploader EXCEPT !.pc = "computed",
                                                    !.attempt = task'[t].attempt]
           \/ /\ ClaimRefused
              /\ IF Self \in Nodes THEN Abort ELSE NextRow
              /\ UNCHANGED <<journal, older>>
        /\ UNCHANGED <<marker, executor, peeked, stopped>>

ComputedRow ==
    LET t == uploader.task
        k == uploader.attempt
    IN  /\ At("computed")
        /\ \/ Computed(Self, t, k) /\ UNCHANGED faults
           \/ Answered /\ ~Holds(Self, t, k)
        /\ Go("upload")
        /\ UNCHANGED <<journal, older, marker, executor, peeked, stopped>>

Sendable(t) == journal[t].result \notin Unsendable

\* All files of the result.  The bucket of the gateway refuses a node whose
\* lease is gone with an error.  A file that is empty or too large is refused
\* before anything of it is sent: when the error is caught the row is tried again
\* in the next pass, and otherwise it ends the thread that makes the pass.
SendRow(caught) ==
    LET t == uploader.task
        k == uploader.attempt
    IN  /\ At("upload")
        /\ \/ uploader.cancel /\ NextRow /\ UNCHANGED <<queueVars, stopped, faults>>
           \/ /\ ~uploader.cancel /\ Sendable(t)
              /\ Upload(Self, t, k)
              /\ Go("finish")
              /\ UNCHANGED <<stopped, faults>>
           \/ /\ ~uploader.cancel /\ Sendable(t)
              /\ Answered /\ Self \in Nodes /\ ~Holds(Self, t, k)
              /\ Abort
              /\ UNCHANGED stopped
           \/ /\ ~uploader.cancel /\ ~Sendable(t)
              /\ Abort
              /\ stopped' = IF caught THEN stopped ELSE stopped \cup {uploader.by}
              /\ UNCHANGED <<queueVars, faults>>
        /\ UNCHANGED <<journal, older, marker, executor, peeked>>

\* Mutant: the uploader of a member does not catch the error, either.
UploadRowUncaught == SendRow(FALSE)

\* A member's upload raises a FarmError, which its threads catch; a node's
\* raises a CFError, which they do not.
UploadRow == SendRow(Self \in Members)

\* Without the lease the queue answers a member that the finish is not
\* accepted, while the gateway answers a node with an error.
FinishRow ==
    LET t == uploader.task
        k == uploader.attempt
    IN  /\ At("finish")
        /\ \/ /\ Finish(Self, t, k, journal[t].result)
              /\ UNCHANGED faults
              /\ Save(t, "committed", k, journal[t].result)
              /\ NextRow
           \/ /\ Answered /\ ~Holds(Self, t, k)
              /\ IF Self \in Nodes THEN Abort ELSE NextRow
              /\ UNCHANGED <<journal, older>>
        /\ UNCHANGED <<marker, executor, peeked, stopped>>

\* The failure is reported, and done with even if the lease is gone.
FailRow ==
    LET t == uploader.task
        k == uploader.attempt
    IN  /\ At("fail")
        /\ \/ Fail(Self, t, k) /\ UNCHANGED faults
           \/ Answered /\ ~Holds(Self, t, k)
        /\ Save(t, "failed", k, None)
        /\ NextRow
        /\ UNCHANGED <<marker, executor, peeked, stopped>>

\* The call that the pass makes at each of its points; get only reads.
RowCall ==
    LET t == uploader.task
        k == uploader.attempt
    IN  \/ At("renew") /\ Renew(Self, t, k, Seconds)
        \/ At("claim") /\ CallClaim(Plan[t].slot, t)
        \/ At("computed") /\ Computed(Self, t, k)
        \/ At("upload") /\ Sendable(t) /\ Upload(Self, t, k)
        \/ At("finish") /\ Finish(Self, t, k, journal[t].result)
        \/ At("fail") /\ Fail(Self, t, k)

BreakPass ==
    /\ uploader.task # None
    /\ Lose(RowCall) \/ Denied
    /\ Abort
    /\ UNCHANGED <<journal, older, marker, executor, peeked, stopped>>

\* The lease guard of the upload.  Without the lease it cancels.  A renewal that
\* is under way when the block ends may arrive after it: it is refused, or renews
\* a lease that is still held, as it could have done just before.
GuardUpload ==
    LET t == uploader.task
        k == uploader.attempt
    IN  /\ uploader.pc \in {"upload", "finish"}
        /\ ~uploader.cancel
        /\ \/ Renew(Self, t, k, Seconds) /\ UNCHANGED <<uploader, faults>>
           \/ /\ Denied \/ (Answered /\ ~Holds(Self, t, k))
              /\ uploader' = [uploader EXCEPT !.cancel = TRUE]
        /\ UNCHANGED <<journal, older, marker, executor, peeked, stopped>>

----------------------------------------------------------------------------
(* Prefetch, crash, and the rest of the farm.                              *)

\* What peek shows: two of the tasks that could be claimed, none on a lease.
Peekable(slot) ==
    {t \in Tasks :
        /\ SweptTasks[t].status = "queued"
        /\ Claimable(SweptTasks, t, worker[Self].caps, slot, None)}

PeekWork ==
    /\ Prefetch
    /\ Peek(Self)
    /\ \E slot \in Slots, S \in SUBSET Tasks :
        /\ S \subseteq Peekable(slot)
        /\ Cardinality(S) <= 2
        /\ peeked' = peeked \cup S
    /\ UNCHANGED <<journal, older, marker, executor, uploader, stopped, faults>>

\* Mutant: the row is written without a look at its state.
CacheRowBlindly(t) ==
    /\ t \in peeked
    /\ Save(t, "cached", Offline, None)
    /\ peeked' = peeked \ {t}
    /\ UNCHANGED <<queueVars, marker, executor, uploader, stopped, faults>>

\* The input has arrived: cache_if_safe.  No one reads a cached row's attempt.
CacheRow(t) ==
    /\ t \in peeked
    /\ \/ /\ journal[t].state \in {"none", "cached"}
          /\ Save(t, "cached", Offline, None)
       \/ /\ journal[t].state \notin {"none", "cached"}
          /\ UNCHANGED <<journal, older>>
    /\ peeked' = peeked \ {t}
    /\ UNCHANGED <<queueVars, marker, executor, uploader, stopped, faults>>

Recovered(row, result) ==
    IF row.state # "running" THEN row
    ELSE [row EXCEPT !.state = IF result # None THEN "pending" ELSE "cached",
                     !.result = result]

\* The process dies, and recovers the rows it was computing when it restarts.
Crash ==
    /\ faults < MaxFaults
    /\ faults' = faults + 1
    /\ journal' = [t \in Tasks |->
                    Recovered(journal[t], marker[t][journal[t].attempt])]
    /\ older' = LET R == Entries({"running"})
                IN  [t \in Tasks |-> IF t \in R THEN (Written \ R) \cup (older[t] \cap R)
                                     ELSE older[t] \ R]
    /\ executor' = [s \in Slots |-> Resting]
    /\ uploader' = NoPass
    /\ peeked' = {}
    /\ stopped' = {}
    /\ UNCHANGED <<queueVars, marker>>

\* The callers, administration, the other workers, time, and heartbeats.
Surroundings ==
    /\ \/ \E j \in Jobs : CallerStep(j)
       \/ \E n \in Nodes, E \in EngineSets : SetEngines(n, E)
       \/ \E w \in Suspendable : SetActive(w)
       \/ \E w \in Workers, report \in Reports : Heartbeat(w, report)
       \/ \E w \in Workers \ {Self} :
            \/ ClaimStep(w)
            \/ w \in Members /\ Peek(w)
            \/ \E t \in Tasks, k \in AttemptNos : AttemptStep(w, t, k)
       \/ Tick
    /\ UNCHANGED <<localVars, faults>>

ExecutorStep(s) ==
    \/ Check(s)
    \/ Claim(s)
    \/ Speculate(s)
    \/ Begin(s)
    \/ Load(s)
    \/ Compute(s)
    \/ Record(s)
    \/ ReportComputed(s)
    \/ FlushFailure(s)
    \/ FlushedFailure(s)

PassStep ==
    \/ EndPass
    \/ TakeRow
    \/ GetRow
    \/ RenewRow
    \/ ClaimRow
    \/ ComputedRow
    \/ UploadRow
    \/ FinishRow
    \/ FailRow

FarmNext ==
    \/ \E s \in Slots : ExecutorStep(s) \/ GuardExecution(s)
    \/ BeginPass
    \/ PassStep
    \/ BreakPass
    \/ GuardUpload
    \/ PeekWork
    \/ \E t \in Tasks : CacheRow(t)
    \/ Crash
    \/ Surroundings

FarmSpec == FarmInit /\ [][FarmNext]_farmVars

(* A thread goes on with what it began, the uploader starts a pass every    *)
(* five seconds, the maintenance thread sends heartbeats, time passes, and  *)
(* the other workers report what they compute.                              *)
Alone == UNCHANGED <<localVars, faults>>

Beat == \E report \in Reports :
    (~worker[Self].known \/ worker[Self].silent > 0) /\ Heartbeat(Self, report)

FarmFairness ==
    /\ WF_farmVars(BeginPass \/ PassStep)
    /\ \A s \in Slots : WF_farmVars(executor[s].pc # "idle" /\ ExecutorStep(s))
    /\ WF_farmVars(Tick /\ Alone)
    /\ WF_farmVars(Beat /\ Alone)
    /\ \A w \in Workers \ {Self} : WF_farmVars(Report(w) /\ Alone)

FarmFairSpec == FarmSpec /\ FarmFairness

----------------------------------------------------------------------------
(* Properties.                                                             *)

\* The journal and the threads keep their shapes; every failure in the outbox
\* has an attempt to report it for, every pending row has its result, and a
\* thread at work has a task.
FarmTypeOK ==
    /\ journal \in [Tasks -> JournalRow]
    /\ older \in [Tasks -> SUBSET Tasks]
    /\ marker \in [Tasks -> [AttemptIds -> Grades \cup {None}]]
    /\ executor \in [Slots -> ExecutorRow]
    /\ uploader \in PassRow
    /\ peeked \subseteq Tasks
    /\ stopped \subseteq Slots \cup {"uploader"}
    /\ faults \in 0..MaxFaults
    /\ \A t \in Tasks :
        /\ journal[t].state = "failure_pending" => journal[t].attempt # Offline
        /\ journal[t].state = "pending" => journal[t].result # None
    /\ \A s \in Slots :
        executor[s].pc \in {"idle", "claim", "speculate"} \/ executor[s].task # None

\* While a pass works on a row, no executor and no prefetch changes it: through
\* all the calls of the pass the row is still what the pass read, under the
\* attempt that the pass presents, and only the executor that flushes its own
\* failure holds the lock of the row's task.
RowAtHand ==
    /\ uploader.pc \in {"idle", "next"} <=> uploader.task = None
    /\ uploader.task # None =>
        LET row == journal[uploader.task]
        IN  /\ row.state = IF At("fail") THEN "failure_pending" ELSE "pending"
            /\ row.attempt = uploader.attempt
            /\ \A s \in Slots : uploader.task \in Locked(s) => uploader.by = s

\* A result that was computed is never lost or computed again while its task
\* is unsettled: from the moment its marker is on the disk it is in the outbox,
\* or in a running row from which a restart puts it there.  Crashes, lost
\* answers, new claims of the same task and prefetches do not remove it.
ResultKept ==
    \A t \in Tasks :
        /\ task[t].status \in Live
        /\ \E k \in AttemptIds : marker[t][k] # None
        =>
           \/ journal[t].state = "pending"
           \/ /\ journal[t].state = "running"
              /\ marker[t][journal[t].attempt] # None

\* What the outbox says of a result is so: a committed row is the canonical
\* result of its task, by this worker and under the row's attempt; a superseded
\* row's task is settled, and not by that row.
OutboxAgrees ==
    \A t \in Tasks :
        LET mine == /\ task[t].output # None
                    /\ task[t].output.worker = Self
                    /\ task[t].output.attempt = journal[t].attempt
                    /\ task[t].output.grade = journal[t].result
        IN  /\ journal[t].state = "committed" => mine
            /\ journal[t].state = "superseded" => task[t].status \notin Live /\ ~mine

\* Nothing is committed that the worker could not find out after a crash or a
\* lost answer: when the queue takes a result from it, the journal holds that
\* result, pending, under the very attempt that is committed.
CommitWrittenAhead ==
    [][\A t \in Tasks :
        /\ task[t].output = None
        /\ task'[t].output # None
        /\ task'[t].output.worker = Self
        => journal[t] = [state |-> "pending",
                         attempt |-> task'[t].output.attempt,
                         result |-> task'[t].output.grade]]_farmVars

\* A task whose result is in the journal is not run again when it is claimed
\* again: the result is reused.
DurableOutputReused ==
    [][\A t \in Tasks :
        journal[t].state \in {"pending", "committed"}
            => journal'[t].state # "running"]_farmVars

\* Every pending result whose files can be sent leaves the outbox: it is
\* committed, or superseded because its task was settled without it.  What may
\* keep it there is a row before it whose files are refused: that row ends every
\* pass, and no pass reaches the rows behind it.
Behind(t) == \E u \in older[t] : journal[u].state = "pending" /\ ~Sendable(u)

OutboxDrains ==
    \A t \in Tasks :
        journal[t].state = "pending" /\ Sendable(t)
            ~> journal[t].state # "pending" \/ Behind(t)

\* A result that comes too late, as another worker has finished the task, is
\* eventually kept as superseded.
LateResultSuperseded ==
    \A t \in Tasks :
        /\ journal[t].state = "pending"
        /\ task[t].output # None
        /\ task[t].output.worker # Self
        ~> journal[t].state = "superseded"
=============================================================================
