-------------------------- MODULE FarmQueue_proofs --------------------------
(***************************************************************************)
(* Theorems about the central queue, for every plan, every set of workers  *)
(* and every value of the limits that ConstantsAssumption allows.          *)
(***************************************************************************)
EXTENDS FarmQueue, TLAPS

----------------------------------------------------------------------------
(* What the sweep and the passing of time do to one row.                   *)

\* Tick and the pause inside a claim only touch a row's lease and its wait,
\* and no lease comes back to life.
LEMMA AgedTaskEffect ==
    ASSUME NEW row \in TaskRow, NEW d \in Nat
    PROVE  /\ AgedTask(row, d) \in TaskRow
           /\ AgedTask(row, d).status = row.status
           /\ AgedTask(row, d).computed = row.computed
           /\ AgedTask(row, d).attempt = row.attempt
           /\ AgedTask(row, d).owner = row.owner
           /\ AgedTask(row, d).output = row.output
           /\ AgedTask(row, d).lease = None <=> row.lease = None
           /\ Unexpired(AgedTask(row, d)) => Unexpired(row)
  <1>1. row.lease \in LeaseLeft \cup {None} /\ row.wait \in Nat
    BY DEF TaskRow
  <1>2. Sooner(row.wait, d) \in Nat
    BY <1>1 DEF Sooner
  <1>3. CASE row.lease = None
    BY <1>2, <1>3 DEF AgedTask, TaskRow, Unexpired
  <1>4. CASE row.lease \in LeaseLeft
    <2>1. None \notin Int /\ MaxLease \in Nat
      BY ConstantsAssumption DEF ConstantsAssumption
    <2>2. /\ Sooner(row.lease + 1, d) - 1 \in LeaseLeft
          /\ Sooner(row.lease + 1, d) - 1 > 0 => row.lease > 0
      BY <1>4, <2>1 DEF Sooner, LeaseLeft
    <2>3. row.lease # None /\ Sooner(row.lease + 1, d) - 1 # None
      BY <1>4, <2>1, <2>2 DEF LeaseLeft
    <2> QED
      BY <1>2, <1>4, <2>2, <2>3 DEF AgedTask, TaskRow, Unexpired
  <1> QED
    BY <1>1, <1>3, <1>4

\* The sweep fails live rows and does nothing else to a row.
LEMMA SweptTaskEffect ==
    ASSUME TypeOK, NEW t \in Tasks
    PROVE  \/ SweptTasks[t] = task[t]
           \/ /\ task[t].status \in Live
              /\ SweptTasks[t] = [task[t] EXCEPT !.status = "failed"]
  <1> DEFINE rows == AfterExhaustion
  <1>1. rows[t] = FailedIf(task[t], Exhausted(task[t]))
    BY DEF AfterExhaustion
  <1>2. SweptTasks[t] = FailedIf(rows[t], t \in Doomed(rows))
    BY DEF SweptTasks
  <1>3. t \in Doomed(rows) => rows[t].status \in Live
    BY DEF Doomed, Dependents
  <1>4. Exhausted(task[t]) => task[t].status \in Live
    BY DEF Exhausted, Lapsed, Live
  <1>5. task[t] \in TaskRow
    BY DEF TypeOK
  <1>6. Exhausted(task[t]) => rows[t].status = "failed"
    BY <1>1, <1>5 DEF FailedIf, TaskRow
  <1>7. CASE Exhausted(task[t])
    <2>1. t \notin Doomed(rows)
      BY <1>3, <1>6, <1>7 DEF Live
    <2> QED
      BY <1>1, <1>2, <1>4, <1>7, <2>1 DEF FailedIf
  <1>8. CASE ~Exhausted(task[t])
    <2>1. rows[t] = task[t]
      BY <1>1, <1>8 DEF FailedIf
    <2> QED
      BY <1>2, <1>3, <2>1 DEF FailedIf
  <1> QED
    BY <1>7, <1>8

\* The rows a claim selects from: swept, then aged by the pause.
LEMMA SweptAgedEffect ==
    ASSUME TypeOK, NEW d \in Nat, NEW t \in Tasks
    PROVE  LET row == AgedTasks(SweptTasks, d)[t]
           IN  /\ row \in TaskRow
               /\ \/ row.status = task[t].status
                  \/ row.status = "failed" /\ task[t].status \in Live
               /\ row.computed = task[t].computed
               /\ row.attempt = task[t].attempt
               /\ row.owner = task[t].owner
               /\ row.output = task[t].output
               /\ row.lease = None <=> task[t].lease = None
               /\ Unexpired(row) => Unexpired(task[t])
  <1> DEFINE swept == SweptTasks[t]
  <1>1. AgedTasks(SweptTasks, d)[t] = AgedTask(swept, d)
    BY DEF AgedTasks
  <1>2. task[t] \in TaskRow
    BY DEF TypeOK
  <1>3. /\ swept \in TaskRow
        /\ \/ swept.status = task[t].status
           \/ swept.status = "failed" /\ task[t].status \in Live
        /\ swept.computed = task[t].computed
        /\ swept.attempt = task[t].attempt
        /\ swept.owner = task[t].owner
        /\ swept.output = task[t].output
        /\ swept.lease = task[t].lease
    <2>1. CASE swept = task[t]
      BY <1>2, <2>1
    <2>2. CASE /\ task[t].status \in Live
               /\ swept = [task[t] EXCEPT !.status = "failed"]
      BY <1>2, <2>2 DEF TaskRow
    <2> HIDE DEF swept
    <2> QED
      BY <2>1, <2>2, SweptTaskEffect DEF swept
  <1>4. Unexpired(swept) => Unexpired(task[t])
    BY <1>3 DEF Unexpired
  <1> QED
    BY <1>1, <1>3, <1>4, AgedTaskEffect

----------------------------------------------------------------------------
(* The inductive invariant: the invariants of FarmQueue and the facts they *)
(* rest on.                                                                *)

\* Task rows and attempts exist for submitted jobs only, so that Submit never
\* meets a row.
RowsOfJobs ==
    \A t \in Tasks :
        /\ task[t].status = "absent" <=> job[Plan[t].job].status = "absent"
        /\ task[t].status = "absent" => task[t].attempt = 0

\* A submitted task's parent is another task of the same job.
SoundPlans ==
    \A t \in Tasks : task[t].status # "absent" => PrecedingParent(t)

\* A cancelled task belongs to a job that was closed, and so does an approval.
ClosedJobs ==
    /\ \A t \in Tasks :
          task[t].status = "cancelled" => job[Plan[t].job].status # "open"
    /\ \A j \in Jobs :
          job[j].approved # None => job[j].status \in {"approved", "cancelled"}

IInv ==
    /\ TypeOK
    /\ RowsOfJobs
    /\ SoundPlans
    /\ ClosedJobs
    /\ SingleCommit
    /\ AttemptLedger
    /\ ParentFirst
    /\ ClosedJobsQuiet
    /\ FailedForCause
    /\ ApprovedComplete

----------------------------------------------------------------------------
(* Why the sweep fails a row.                                              *)

\* The least fixed point is one: the doomed tasks are exactly the live tasks
\* whose parent is dead or doomed, which is what "bad" computes step by step.
LEMMA DoomedParent ==
    ASSUME NEW rows, NEW t \in Doomed(rows)
    PROVE  \/ rows[Plan[t].parent].status \in {"failed", "cancelled"}
           \/ Plan[t].parent \in Doomed(rows)
  <1> DEFINE D == Doomed(rows)
             S == D \ {t}
  <1> SUFFICES ASSUME rows[Plan[t].parent].status \notin {"failed", "cancelled"},
                      Plan[t].parent \notin D
               PROVE  FALSE
    OBVIOUS
  <1>1. S \in SUBSET Dependents(rows)
    BY DEF Doomed
  <1>2. ASSUME NEW u \in Dependents(rows),
               \/ rows[Plan[u].parent].status \in {"failed", "cancelled"}
               \/ Plan[u].parent \in S
        PROVE  u \in S
    <2>1. u # t
      BY <1>2
    <2>2. ASSUME NEW Q \in SUBSET Dependents(rows), Inherits(rows, Q)
          PROVE  u \in Q
      <3>1. Plan[u].parent \in S => Plan[u].parent \in Q
        BY <2>2 DEF Doomed
      <3> QED
        BY <1>2, <2>2, <3>1 DEF Inherits
    <2>3. u \in D
      BY <2>2 DEF Doomed
    <2> QED
      BY <2>1, <2>3
  <1>3. Inherits(rows, S)
    BY <1>2 DEF Inherits
  <1>4. t \in S
    BY <1>1, <1>3 DEF Doomed
  <1> QED
    BY <1>4

\* A row that the sweep fails has used up its attempts, or its parent is failed
\* when the sweep is over.
LEMMA SweepCause ==
    ASSUME TypeOK, SoundPlans, ClosedJobs, ClosedJobsQuiet,
           NEW t \in Tasks, task[t].status \in Live, SweptTasks[t].status = "failed"
    PROVE  \/ task[t].attempt = MaxAttempts
           \/ /\ Plan[t].parent \in Tasks
              /\ SweptTasks[Plan[t].parent].status = "failed"
  <1> DEFINE rows == AfterExhaustion
             p == Plan[t].parent
  <1>1. \A u \in Tasks : rows[u] = FailedIf(task[u], Exhausted(task[u]))
    BY DEF AfterExhaustion
  <1>2. \A u \in Tasks : SweptTasks[u] = FailedIf(rows[u], u \in Doomed(rows))
    BY DEF SweptTasks
  <1>3. \A u \in Tasks : task[u] \in TaskRow
    BY DEF TypeOK
  <1>4. MaxAttempts \in Nat
    BY ConstantsAssumption DEF ConstantsAssumption
  <1>5. CASE Exhausted(task[t])
    <2>1. task[t].attempt \in 0..MaxAttempts /\ task[t].attempt >= MaxAttempts
      BY <1>3, <1>5 DEF Exhausted, TaskRow
    <2> QED
      BY <1>4, <2>1
  <1>6. CASE ~Exhausted(task[t])
    <2>1. t \in Doomed(rows)
      BY <1>1, <1>2, <1>6 DEF FailedIf, Live
    <2>2. p # None
      BY <2>1 DEF Doomed, Dependents
    <2>3. p \in Tasks
      BY <2>2, ConstantsAssumption DEF ConstantsAssumption, PlanRow
    <2>4. CASE p \in Doomed(rows)
      <3>1. SweptTasks[p] = [rows[p] EXCEPT !.status = "failed"]
        BY <1>2, <2>3, <2>4 DEF FailedIf
      <3>2. rows[p] \in TaskRow
        <4>1. [task[p] EXCEPT !.status = "failed"] \in TaskRow
          BY <1>3, <2>3 DEF TaskRow
        <4> QED
          BY <1>1, <1>3, <2>3, <4>1 DEF FailedIf
      <3> QED
        BY <2>3, <3>1, <3>2 DEF TaskRow
    <2>5. CASE p \notin Doomed(rows)
      <3>1. rows[p].status \in {"failed", "cancelled"}
        BY <2>1, <2>5, DoomedParent
      <3>2. SweptTasks[p] = rows[p]
        BY <1>2, <2>3, <2>5 DEF FailedIf
      <3>3. rows[p].status # "failed" => rows[p] = task[p]
        <4>1. CASE Exhausted(task[p])
          BY <1>1, <1>3, <2>3, <4>1 DEF FailedIf, TaskRow
        <4>2. CASE ~Exhausted(task[p])
          BY <1>1, <2>3, <4>2 DEF FailedIf
        <4> QED
          BY <4>1, <4>2
      <3>4. task[p].status # "cancelled"
        <4>1. Plan[p].job = Plan[t].job
          BY <2>2 DEF SoundPlans, PrecedingParent, Live
        <4>2. job[Plan[t].job].status = "open"
          BY DEF ClosedJobsQuiet
        <4> QED
          BY <2>3, <4>1, <4>2 DEF ClosedJobs
      <3> QED
        BY <2>3, <3>1, <3>2, <3>3, <3>4
    <2> QED
      BY <2>4, <2>5
  <1> QED
    BY <1>5, <1>6

----------------------------------------------------------------------------
(* What the steps have in common.  A step of the queue either keeps every  *)
(* task's attempt and result (it may fail tasks that are due to fail, and  *)
(* it may shorten leases), or it grants one task, or it is one of the few  *)
(* calls that decide about a task: submit, cancel, approve, fail, finish.  *)

Kept(t) ==
    /\ \/ task'[t].status = task[t].status
       \/ task'[t].status = "failed" /\ task[t].status \in Live
    /\ task[t].computed => task'[t].computed
    /\ task'[t].attempt = task[t].attempt
    /\ task'[t].owner = task[t].owner
    /\ task'[t].output = task[t].output
    /\ task'[t].lease = None <=> task[t].lease = None
    /\ Unexpired(task'[t]) => Unexpired(task[t])

\* If t has just failed it has used up its attempts, or its parent is failed.
CauseKept(t) ==
    task'[t].status = "failed" /\ task[t].status # "failed" =>
        \/ task[t].attempt = MaxAttempts
        \/ Plan[t].parent \in Tasks /\ task'[Plan[t].parent].status = "failed"

AttemptKept(t, k) ==
    /\ attempts'[t][k].worker = attempts[t][k].worker
    /\ \/ attempts'[t][k].state = attempts[t][k].state
       \/ attempts[t][k].state = "running" /\ attempts'[t][k].state = "expired"

Typed ==
    /\ task \in [Tasks -> TaskRow]
    /\ attempts \in [Tasks -> [AttemptNos -> AttemptRow]]

KeepingStep ==
    /\ Typed'
    /\ \A t \in Tasks : Kept(t) /\ CauseKept(t)
    /\ \A t \in Tasks, k \in AttemptNos : AttemptKept(t, k)
    /\ job' = job
    /\ objects \subseteq objects'

GrantedRow(w, t) ==
    /\ task'[t].status = "running"
    /\ ~task'[t].computed
    /\ task'[t].attempt = task[t].attempt + 1
    /\ task'[t].owner = w
    /\ task'[t].output = task[t].output
    /\ task'[t].lease # None

GrantStep(w, t) ==
    /\ Typed'
    /\ \A u \in Tasks \ {t} : Kept(u) /\ CauseKept(u)
    /\ GrantedRow(w, t)
    /\ \A u \in Tasks, k \in AttemptNos :
          IF u = t /\ k = task[t].attempt + 1
          THEN attempts'[u][k] = [state |-> "running", worker |-> w]
          ELSE AttemptKept(u, k)
    /\ job' = job
    /\ objects' = objects
    /\ task[t].status \in Live
    /\ task[t].attempt < MaxAttempts
    /\ job[Plan[t].job].status = "open"
    /\ Plan[t].parent # None =>
          Plan[t].parent # t /\ task[Plan[t].parent].status = "done"

\* What NodeEntitled asks for at the moment of a grant.
Entitled(n, t) ==
    /\ active[n]
    /\ worker[n].silent <= HeartbeatLimit
    /\ ~worker[n].paused
    /\ Plan[t].capability \in engines[n]

\* The sweep changes an attempt's row only from running to expired.
LEMMA SweptAttemptsEffect ==
    ASSUME TypeOK
    PROVE  /\ SweptAttempts \in [Tasks -> [AttemptNos -> AttemptRow]]
           /\ \A t \in Tasks, k \in AttemptNos :
                 /\ SweptAttempts[t][k].worker = attempts[t][k].worker
                 /\ \/ SweptAttempts[t][k].state = attempts[t][k].state
                    \/ /\ attempts[t][k].state = "running"
                       /\ SweptAttempts[t][k].state = "expired"
  <1> SUFFICES ASSUME NEW t \in Tasks, NEW k \in AttemptNos
               PROVE  /\ SweptAttempts[t][k] \in AttemptRow
                      /\ SweptAttempts[t][k].worker = attempts[t][k].worker
                      /\ \/ SweptAttempts[t][k].state = attempts[t][k].state
                         \/ /\ attempts[t][k].state = "running"
                            /\ SweptAttempts[t][k].state = "expired"
    BY DEF SweptAttempts
  <1>1. attempts[t][k] \in AttemptRow
    BY DEF TypeOK
  <1>2. [attempts[t][k] EXCEPT !.state = "expired"] \in AttemptRow
    BY <1>1 DEF AttemptRow
  <1> QED
    BY <1>1, <1>2 DEF SweptAttempts, AttemptRow

\* A call that only sweeps, with a pause of d, is a keeping step.
LEMMA SweepKeeps ==
    ASSUME IInv, NEW d \in Nat,
           task' = AgedTasks(SweptTasks, d), attempts' = SweptAttempts,
           job' = job, objects' = objects
    PROVE  KeepingStep
  <1>1. TypeOK
    BY DEF IInv
  <1>2. ASSUME NEW t \in Tasks
        PROVE  task'[t] \in TaskRow /\ Kept(t)
    BY <1>1, SweptAgedEffect DEF Kept
  <1>3. task' \in [Tasks -> TaskRow]
    BY <1>2 DEF AgedTasks
  <1>4. \A t \in Tasks : task'[t].status = SweptTasks[t].status
    <2> SUFFICES ASSUME NEW t \in Tasks
                 PROVE  task'[t].status = SweptTasks[t].status
      OBVIOUS
    <2>1. task[t] \in TaskRow
      BY <1>1 DEF TypeOK
    <2>2. [task[t] EXCEPT !.status = "failed"] \in TaskRow
      BY <2>1 DEF TaskRow
    <2>3. SweptTasks[t] \in TaskRow
      BY <1>1, <2>1, <2>2, SweptTaskEffect
    <2>4. task'[t] = AgedTask(SweptTasks[t], d)
      BY DEF AgedTasks
    <2> QED
      BY <2>3, <2>4, AgedTaskEffect
  <1>5. ASSUME NEW t \in Tasks, task'[t].status = "failed", task[t].status # "failed"
        PROVE  \/ task[t].attempt = MaxAttempts
               \/ Plan[t].parent \in Tasks /\ task'[Plan[t].parent].status = "failed"
    <2>1. task[t].status \in Live
      BY <1>2, <1>5 DEF Kept
    <2> QED
      BY <1>4, <1>5, <2>1, SweepCause DEF IInv
  <1>6. \A t \in Tasks : CauseKept(t)
    BY <1>5 DEF CauseKept
  <1>7. \A t \in Tasks, k \in AttemptNos : AttemptKept(t, k)
    BY <1>1, SweptAttemptsEffect DEF AttemptKept
  <1>8. attempts' \in [Tasks -> [AttemptNos -> AttemptRow]]
    BY <1>1, SweptAttemptsEffect
  <1> QED
    BY <1>2, <1>3, <1>6, <1>7, <1>8 DEF KeepingStep, Typed

\* The lease a claim or a renewal sets lies between the two limits.
LEMMA ClampedTerm ==
    ASSUME NEW seconds \in Nat
    PROVE  Clamped(seconds) \in 1..MaxLease
  BY ConstantsAssumption DEF ConstantsAssumption, Clamped

\* A granted row is well typed, runs under the next attempt and its new owner.
LEMMA LeasedEffect ==
    ASSUME NEW row \in TaskRow, NEW w \in Workers, NEW seconds \in Nat,
           row.attempt < MaxAttempts
    PROVE  /\ Leased(row, w, seconds) \in TaskRow
           /\ Leased(row, w, seconds).status = "running"
           /\ ~Leased(row, w, seconds).computed
           /\ Leased(row, w, seconds).attempt = row.attempt + 1
           /\ Leased(row, w, seconds).owner = w
           /\ Leased(row, w, seconds).output = row.output
           /\ Leased(row, w, seconds).lease # None
  <1>1. MaxAttempts \in Nat /\ MaxLease \in Nat /\ None \notin Int
    BY ConstantsAssumption DEF ConstantsAssumption
  <1>2. /\ Clamped(seconds) \in LeaseLeft
        /\ Clamped(seconds) # None
    BY <1>1, ClampedTerm DEF LeaseLeft
  <1>3. row.attempt + 1 \in 0..MaxAttempts
    BY <1>1 DEF TaskRow
  <1> QED
    BY <1>2, <1>3 DEF Leased, TaskRow

\* A claim sweeps, and then grants at most one task.
LEMMA QueueClaimEffect ==
    ASSUME IInv,
           NEW w \in Workers, NEW caps, NEW slot, NEW only,
           NEW seconds \in Nat, NEW rivals, NEW pause \in Nat,
           QueueClaim(w, caps, slot, only, seconds, rivals, pause),
           job' = job, objects' = objects
    PROVE  \/ KeepingStep
           \/ \E t \in Tasks : GrantStep(w, t) /\ Plan[t].capability \in caps
  <1> DEFINE rows == AgedTasks(SweptTasks, pause)
             ledger == SweptAttempts
             candidates ==
                {t \in Tasks \ rivals : Claimable(rows, t, caps, slot, only)}
  <1>1. CASE task' = rows /\ attempts' = ledger
    BY <1>1, SweepKeeps
  <1>2. ASSUME NEW t \in First(rows, w, candidates),
               task' = [rows EXCEPT ![t] = Leased(@, w, seconds)],
               attempts' = [ledger EXCEPT ![t][rows[t].attempt + 1] =
                              [state |-> "running", worker |-> w]]
        PROVE  GrantStep(w, t) /\ Plan[t].capability \in caps
    <2> DEFINE p == Plan[t].parent
               k == task[t].attempt + 1
    <2>1. t \in Tasks /\ Claimable(rows, t, caps, slot, only)
      BY <1>2 DEF First
    <2>2. TypeOK
      BY DEF IInv
    <2>3. \A u \in Tasks :
            /\ rows[u] \in TaskRow
            /\ \/ rows[u].status = task[u].status
               \/ rows[u].status = "failed" /\ task[u].status \in Live
            /\ rows[u].computed = task[u].computed
            /\ rows[u].attempt = task[u].attempt
            /\ rows[u].owner = task[u].owner
            /\ rows[u].output = task[u].output
            /\ rows[u].lease = None <=> task[u].lease = None
            /\ Unexpired(rows[u]) => Unexpired(task[u])
      BY <2>2, SweptAgedEffect
    <2>4. rows = [u \in Tasks |-> rows[u]]
      BY DEF AgedTasks
    <2> HIDE DEF rows
    <2>5. /\ task'[t] = Leased(rows[t], w, seconds)
          /\ \A u \in Tasks \ {t} : task'[u] = rows[u]
          /\ task' = [u \in Tasks |-> task'[u]]
      BY <1>2, <2>1, <2>4
    <2>6. rows[t].attempt < MaxAttempts
      BY <2>1 DEF Claimable
    <2>7. GrantedRow(w, t) /\ task'[t] \in TaskRow
      BY <2>1, <2>3, <2>5, <2>6, LeasedEffect DEF GrantedRow
    <2>8. task' \in [Tasks -> TaskRow]
      BY <2>3, <2>5, <2>7
    <2>9. \A u \in Tasks \ {t} : Kept(u)
      BY <2>3, <2>5 DEF Kept
    <2>10. task[t].status \in Live /\ job[Plan[t].job].status = "open"
      BY <2>1, <2>3 DEF Claimable, Lapsed, Live
    <2>11. p # None => p # t /\ p \in Tasks /\ task[p].status = "done"
      <3>1. p # None => p \in Tasks
        BY <2>1, ConstantsAssumption DEF ConstantsAssumption, PlanRow
      <3>2. p # None => rows[p].status = "done"
        BY <2>1 DEF Claimable
      <3> QED
        BY <2>1, <2>3, <3>1, <3>2 DEF Claimable, Lapsed
    <2>12. ASSUME NEW u \in Tasks \ {t},
                  rows[u].status = "failed", task[u].status # "failed"
           PROVE  \/ task[u].attempt = MaxAttempts
                  \/ /\ Plan[u].parent \in Tasks
                     /\ rows[Plan[u].parent].status = "failed"
      <3> DEFINE q == Plan[u].parent
      <3>1. \A x \in Tasks : rows[x].status = SweptTasks[x].status
        <4> SUFFICES ASSUME NEW x \in Tasks
                     PROVE  rows[x].status = SweptTasks[x].status
          OBVIOUS
        <4>1. task[x] \in TaskRow
          BY <2>2 DEF TypeOK
        <4>2. [task[x] EXCEPT !.status = "failed"] \in TaskRow
          BY <4>1 DEF TaskRow
        <4>3. SweptTasks[x] \in TaskRow
          BY <2>2, <4>1, <4>2, SweptTaskEffect
        <4>4. rows[x] = AgedTask(SweptTasks[x], pause)
          BY DEF rows, AgedTasks
        <4> QED
          BY <4>3, <4>4, AgedTaskEffect
      <3>2. task[u].status \in Live
        BY <2>3, <2>12
      <3> QED
        BY <2>12, <3>1, <3>2, SweepCause DEF IInv
    <2>13. \A u \in Tasks \ {t} : CauseKept(u)
      <3> SUFFICES ASSUME NEW u \in Tasks \ {t},
                          task'[u].status = "failed", task[u].status # "failed"
                   PROVE  \/ task[u].attempt = MaxAttempts
                          \/ /\ Plan[u].parent \in Tasks
                             /\ task'[Plan[u].parent].status = "failed"
        BY DEF CauseKept
      <3>1. CASE task[u].attempt = MaxAttempts
        BY <3>1
      <3>2. CASE /\ Plan[u].parent \in Tasks
                 /\ rows[Plan[u].parent].status = "failed"
        <4>1. Plan[u].parent # t
          BY <2>1, <3>2 DEF Claimable, Lapsed
        <4> QED
          BY <2>5, <3>2, <4>1
      <3> QED
        BY <2>5, <2>12, <3>1, <3>2
    <2>14. k \in AttemptNos /\ rows[t].attempt + 1 = k
      <3>1. MaxAttempts \in Nat /\ rows[t].attempt \in 0..MaxAttempts
        BY <2>1, <2>3, ConstantsAssumption DEF ConstantsAssumption, TaskRow
      <3> QED
        BY <2>1, <2>3, <2>6, <3>1 DEF AttemptNos
    <2>15. /\ attempts' \in [Tasks -> [AttemptNos -> AttemptRow]]
           /\ \A u \in Tasks, i \in AttemptNos :
                IF u = t /\ i = k
                THEN attempts'[u][i] = [state |-> "running", worker |-> w]
                ELSE AttemptKept(u, i)
      <3>1. /\ ledger \in [Tasks -> [AttemptNos -> AttemptRow]]
            /\ \A u \in Tasks, i \in AttemptNos :
                  /\ ledger[u][i].worker = attempts[u][i].worker
                  /\ \/ ledger[u][i].state = attempts[u][i].state
                     \/ /\ attempts[u][i].state = "running"
                        /\ ledger[u][i].state = "expired"
        BY <2>2, SweptAttemptsEffect
      <3> HIDE DEF ledger
      <3>2. attempts' = [ledger EXCEPT ![t][k] = [state |-> "running", worker |-> w]]
        BY <1>2, <2>14
      <3>3. [state |-> "running", worker |-> w] \in AttemptRow
        BY DEF AttemptRow
      <3>4. attempts' \in [Tasks -> [AttemptNos -> AttemptRow]]
        BY <2>1, <2>14, <3>1, <3>2, <3>3
      <3>5. \A u \in Tasks, i \in AttemptNos :
                attempts'[u][i] = IF u = t /\ i = k
                                  THEN [state |-> "running", worker |-> w]
                                  ELSE ledger[u][i]
        BY <2>1, <2>14, <3>1, <3>2
      <3> QED
        BY <3>1, <3>4, <3>5 DEF AttemptKept
    <2>16. Plan[t].capability \in caps
      BY <2>1 DEF Claimable
    <2> QED
      BY <2>1, <2>3, <2>6, <2>7, <2>8, <2>9, <2>10, <2>11, <2>13, <2>15, <2>16
         DEF GrantStep, Typed
  <1>3. First(rows, w, candidates) \subseteq Tasks
    BY DEF First
  <1> QED
    BY <1>1, <1>2, <1>3 DEF QueueClaim

----------------------------------------------------------------------------
(* The steps, action by action.                                            *)

\* A step that writes no task, attempt or job row is a keeping step.
LEMMA UnchangedKeeps ==
    ASSUME IInv, UNCHANGED <<task, attempts, job>>, objects \subseteq objects'
    PROVE  KeepingStep
  <1>1. Typed'
    BY DEF IInv, TypeOK, Typed
  <1>2. \A t \in Tasks : Kept(t) /\ CauseKept(t)
    BY DEF Kept, CauseKept
  <1>3. \A t \in Tasks, k \in AttemptNos : AttemptKept(t, k)
    BY DEF AttemptKept
  <1> QED
    BY <1>1, <1>2, <1>3 DEF KeepingStep

\* Time ages leases and waits only.
LEMMA TickKeeps ==
    ASSUME IInv, Tick
    PROVE  KeepingStep
  <1>1. \A t \in Tasks : task[t] \in TaskRow
    BY DEF IInv, TypeOK
  <1>2. \A t \in Tasks : task'[t] = AgedTask(task[t], 1)
    BY DEF Tick, AgedTasks
  <1>3. \A t \in Tasks : task'[t] \in TaskRow /\ Kept(t) /\ CauseKept(t)
    BY <1>1, <1>2, AgedTaskEffect DEF Kept, CauseKept
  <1>4. task' \in [Tasks -> TaskRow]
    BY <1>3 DEF Tick, AgedTasks
  <1>5. attempts' \in [Tasks -> [AttemptNos -> AttemptRow]]
    BY DEF IInv, TypeOK, Tick
  <1>6. \A t \in Tasks, k \in AttemptNos : AttemptKept(t, k)
    BY DEF AttemptKept, Tick
  <1> QED
    BY <1>3, <1>4, <1>5, <1>6 DEF KeepingStep, Typed, Tick

\* A peek sweeps without a pause.
LEMMA PeekKeeps ==
    ASSUME IInv, NEW m \in Members, Peek(m)
    PROVE  KeepingStep
  <1>1. TypeOK
    BY DEF IInv
  <1>2. \A t \in Tasks : task[t] \in TaskRow
    BY <1>1 DEF TypeOK
  <1>3. \A t \in Tasks : [task[t] EXCEPT !.status = "failed"] \in TaskRow
    BY <1>2 DEF TaskRow
  <1>4. \A t \in Tasks : task'[t] = SweptTasks[t]
    BY DEF Peek
  <1>5. ASSUME NEW t \in Tasks
        PROVE  task'[t] \in TaskRow /\ Kept(t)
    <2>1. CASE task'[t] = task[t]
      BY <1>2, <2>1 DEF Kept
    <2>2. CASE /\ task[t].status \in Live
               /\ task'[t] = [task[t] EXCEPT !.status = "failed"]
      BY <1>2, <1>3, <2>2 DEF Kept, TaskRow, Unexpired
    <2> QED
      BY <1>1, <1>4, <2>1, <2>2, SweptTaskEffect
  <1>6. task' \in [Tasks -> TaskRow]
    BY <1>5 DEF Peek, SweptTasks
  <1>7. ASSUME NEW t \in Tasks, task'[t].status = "failed", task[t].status # "failed"
        PROVE  \/ task[t].attempt = MaxAttempts
               \/ Plan[t].parent \in Tasks /\ task'[Plan[t].parent].status = "failed"
    <2>1. task[t].status \in Live
      BY <1>5, <1>7 DEF Kept
    <2> QED
      BY <1>4, <1>7, <2>1, SweepCause DEF IInv
  <1>8. \A t \in Tasks : CauseKept(t)
    BY <1>7 DEF CauseKept
  <1>9. /\ attempts' \in [Tasks -> [AttemptNos -> AttemptRow]]
        /\ \A t \in Tasks, k \in AttemptNos : AttemptKept(t, k)
    BY <1>1, SweptAttemptsEffect DEF AttemptKept, Peek
  <1> QED
    BY <1>5, <1>6, <1>8, <1>9 DEF KeepingStep, Typed, Peek

\* A claim answers nothing, and then is a sweep, or grants exactly one task;
\* a node's grant is one its engines entitle it to.
LEMMA ClaimCases ==
    ASSUME IInv, NEW w \in Workers, ClaimStep(w)
    PROVE  \/ KeepingStep
           \/ \E t \in Tasks : GrantStep(w, t) /\ (w \in Nodes => Entitled(w, t))
  <1>1. PICK slot \in Slots, only \in Targets, seconds \in LeaseRequests,
             rivals \in RivalLocks, pause \in ClaimPauses :
                \/ w \in Members /\ MemberClaim(w, slot, only, seconds, rivals, pause)
                \/ w \in Nodes /\ NodeClaim(w, slot, only, seconds, rivals, pause)
    BY DEF ClaimStep
  <1>2. seconds \in Nat /\ pause \in Nat /\ Nodes \cap Members = {}
    BY ConstantsAssumption DEF ConstantsAssumption
  <1>3. CASE w \in Members /\ MemberClaim(w, slot, only, seconds, rivals, pause)
    BY <1>2, <1>3, QueueClaimEffect DEF MemberClaim
  <1>4. CASE w \in Nodes /\ NodeClaim(w, slot, only, seconds, rivals, pause)
    <2>1. CASE UNCHANGED <<task, attempts>>
      BY <1>4, <2>1, UnchangedKeeps DEF NodeClaim
    <2>2. CASE QueueClaim(w, Granted(w, worker[w].caps), slot, only, seconds,
                          rivals, pause)
      <3>1. KeepingStep \/ \E t \in Tasks :
                GrantStep(w, t) /\ Plan[t].capability \in Granted(w, worker[w].caps)
        BY <1>2, <1>4, <2>2, QueueClaimEffect DEF NodeClaim
      <3>2. active[w] /\ worker[w].silent <= HeartbeatLimit
        BY <1>4 DEF NodeClaim
      <3>3. KeepingStep \/ ~worker[w].paused
        BY <1>4, UnchangedKeeps DEF NodeClaim
      <3>4. \A t : Plan[t].capability \in Granted(w, worker[w].caps)
                     => Plan[t].capability \in engines[w]
        BY <1>4 DEF Granted
      <3> QED
        BY <3>1, <3>2, <3>3, <3>4 DEF Entitled
    <2> QED
      BY <1>4, <2>1, <2>2 DEF NodeClaim
  <1> QED
    BY <1>1, <1>3, <1>4

\* Renewing a lease keeps everything: it was valid before.
LEMMA RenewKeeps ==
    ASSUME IInv, NEW w \in Workers, NEW t \in Tasks, NEW k \in AttemptNos,
           NEW seconds \in LeaseRequests, Renew(w, t, k, seconds)
    PROVE  KeepingStep
  <1>1. task \in [Tasks -> TaskRow]
    BY DEF IInv, TypeOK
  <1>2. Clamped(seconds) \in LeaseLeft /\ Clamped(seconds) # None
    BY ClampedTerm, ConstantsAssumption DEF ConstantsAssumption, LeaseLeft
  <1>3. [task[t] EXCEPT !.lease = Clamped(seconds)] \in TaskRow
    BY <1>1, <1>2 DEF TaskRow
  <1>4. task' = [task EXCEPT ![t] = [task[t] EXCEPT !.lease = Clamped(seconds)]]
    BY <1>1 DEF Renew
  <1>5. task' \in [Tasks -> TaskRow]
    BY <1>1, <1>3, <1>4
  <1>6. Unexpired(task[t]) /\ task[t].lease # None
    BY DEF Renew, Holds, Unexpired
  <1>7. ASSUME NEW u \in Tasks
        PROVE  Kept(u) /\ CauseKept(u)
    <2>1. CASE u = t
      <3>1. task'[t] = [task[t] EXCEPT !.lease = Clamped(seconds)]
        BY <1>1, <1>4
      <3>2. task[t] \in TaskRow
        BY <1>1
      <3> QED
        BY <1>2, <1>6, <2>1, <3>1, <3>2 DEF Kept, CauseKept, TaskRow
    <2>2. CASE u # t
      BY <1>1, <1>4, <2>2 DEF Kept, CauseKept
    <2> QED
      BY <2>1, <2>2
  <1>8. /\ attempts' \in [Tasks -> [AttemptNos -> AttemptRow]]
        /\ \A u \in Tasks, i \in AttemptNos : AttemptKept(u, i)
    BY DEF IInv, TypeOK, Renew, AttemptKept
  <1> QED
    BY <1>5, <1>7, <1>8 DEF KeepingStep, Typed, Renew

\* Reporting a task computed frees the slot and changes nothing else.
LEMMA ComputedKeeps ==
    ASSUME IInv, NEW w \in Workers, NEW t \in Tasks, NEW k \in AttemptNos,
           Computed(w, t, k)
    PROVE  KeepingStep
  <1>1. task \in [Tasks -> TaskRow]
    BY DEF IInv, TypeOK
  <1>2. [task[t] EXCEPT !.computed = TRUE] \in TaskRow
    BY <1>1 DEF TaskRow
  <1>3. task' = [task EXCEPT ![t] = [task[t] EXCEPT !.computed = TRUE]]
    BY <1>1 DEF Computed
  <1>4. task' \in [Tasks -> TaskRow]
    BY <1>1, <1>2, <1>3
  <1>5. ASSUME NEW u \in Tasks
        PROVE  Kept(u) /\ CauseKept(u)
    <2>1. CASE u = t
      <3>1. task'[t] = [task[t] EXCEPT !.computed = TRUE]
        BY <1>1, <1>3
      <3>2. task[t] \in TaskRow
        BY <1>1
      <3> QED
        BY <2>1, <3>1, <3>2 DEF Kept, CauseKept, TaskRow, Unexpired
    <2>2. CASE u # t
      BY <1>1, <1>3, <2>2 DEF Kept, CauseKept
    <2> QED
      BY <2>1, <2>2
  <1>6. /\ attempts' \in [Tasks -> [AttemptNos -> AttemptRow]]
        /\ \A u \in Tasks, i \in AttemptNos : AttemptKept(u, i)
    BY DEF IInv, TypeOK, Computed, AttemptKept
  <1> QED
    BY <1>4, <1>5, <1>6 DEF KeepingStep, Typed, Computed

StepCase ==
    \/ KeepingStep
    \/ \E w \in Workers, t \in Tasks :
          GrantStep(w, t) /\ (w \in Nodes => Entitled(w, t))
    \/ \E j \in Jobs : Submit(j)
    \/ \E j \in Jobs : Cancel(j)
    \/ \E j \in Jobs, t \in Tasks : Approve(j, t)
    \/ \E w \in Workers, t \in Tasks, k \in AttemptNos : Fail(w, t, k)
    \/ \E w \in Workers, t \in Tasks, k \in AttemptNos, grade \in Grades :
          Finish(w, t, k, grade)

\* Every step of the queue is one of the kinds StepCase lists.
LEMMA StepCases ==
    ASSUME IInv, [Next]_vars
    PROVE  StepCase
  <1>1. ASSUME NEW j \in Jobs, CallerStep(j)
        PROVE  StepCase
    <2>1. CASE StageInput(j)
      BY <2>1, UnchangedKeeps DEF StageInput, StepCase
    <2> QED
      BY <1>1, <2>1 DEF CallerStep, StepCase
  <1>2. ASSUME NEW n \in Nodes, NEW E \in EngineSets, SetEngines(n, E)
        PROVE  StepCase
    BY <1>2, UnchangedKeeps DEF SetEngines, StepCase
  <1>3. ASSUME NEW w \in Suspendable, SetActive(w)
        PROVE  StepCase
    BY <1>3, UnchangedKeeps DEF SetActive, StepCase
  <1>4. ASSUME NEW w \in Workers, NEW report \in Reports, Heartbeat(w, report)
        PROVE  StepCase
    BY <1>4, UnchangedKeeps DEF Heartbeat, StepCase
  <1>5. ASSUME NEW m \in Members, Peek(m)
        PROVE  StepCase
    BY <1>5, PeekKeeps DEF StepCase
  <1>6. ASSUME NEW w \in Workers, ClaimStep(w)
        PROVE  StepCase
    BY <1>6, ClaimCases DEF StepCase
  <1>7. ASSUME NEW w \in Workers, NEW t \in Tasks, NEW k \in AttemptNos,
               AttemptStep(w, t, k)
        PROVE  StepCase
    <2>1. ASSUME NEW seconds \in LeaseRequests, Renew(w, t, k, seconds)
          PROVE  StepCase
      BY <2>1, RenewKeeps DEF StepCase
    <2>2. CASE Computed(w, t, k)
      BY <2>2, ComputedKeeps DEF StepCase
    <2>3. CASE Fail(w, t, k)
      BY <2>3 DEF StepCase
    <2>4. CASE Upload(w, t, k)
      BY <2>4, UnchangedKeeps DEF Upload, StepCase
    <2>5. ASSUME NEW grade \in Results[t], Finish(w, t, k, grade)
          PROVE  StepCase
      BY <2>5, ConstantsAssumption DEF ConstantsAssumption, StepCase
    <2> QED
      BY <1>7, <2>1, <2>2, <2>3, <2>4, <2>5 DEF AttemptStep
  <1>8. CASE Tick
    BY <1>8, TickKeeps DEF StepCase
  <1>9. CASE UNCHANGED vars
    BY <1>9, UnchangedKeeps DEF vars, StepCase
  <1> QED
    BY <1>1, <1>2, <1>3, <1>4, <1>5, <1>6, <1>7, <1>8, <1>9 DEF Next

----------------------------------------------------------------------------
(* The types of everything but the task and attempt rows.                  *)

WorldTyped ==
    /\ job \in [Jobs -> JobRow]
    /\ worker \in [Workers -> WorkerRow]
    /\ engines \in [Nodes -> SUBSET Capabilities]
    /\ active \in [Workers -> BOOLEAN]
    /\ staged \subseteq Jobs
    /\ objects \subseteq Tasks \X AttemptNos

RunningRows ==
    \A t \in Tasks : task[t].status = "running" =>
        /\ task[t].owner # None
        /\ task[t].lease # None
        /\ task[t].attempt # 0

\* TypeOK, split into the parts that different lemmas preserve.
LEMMA TypeParts == TypeOK <=> Typed /\ WorldTyped /\ RunningRows
  BY DEF TypeOK, Typed, WorldTyped, RunningRows

\* Ageing keeps the heartbeat counters in range.
LEMMA AgedWorkersTyped ==
    ASSUME NEW rows \in [Workers -> WorkerRow], NEW d \in Nat
    PROVE  AgedWorkers(rows, d) \in [Workers -> WorkerRow]
  <1>1. HeartbeatLimit \in Nat
    BY ConstantsAssumption DEF ConstantsAssumption
  <1>2. ASSUME NEW w \in Workers
        PROVE  AgedWorker(rows[w], d) \in WorkerRow
    <2>1. rows[w] \in WorkerRow
      OBVIOUS
    <2>2. (IF rows[w].silent + d > HeartbeatLimit THEN HeartbeatLimit + 1
           ELSE rows[w].silent + d) \in 0..(HeartbeatLimit + 1)
      BY <1>1, <2>1 DEF WorkerRow
    <2> QED
      BY <2>1, <2>2 DEF AgedWorker, WorkerRow
  <1> QED
    BY <1>2 DEF AgedWorkers

\* The capabilities a report is worth are capabilities.
LEMMA GrantedCapabilities ==
    ASSUME TypeOK, NEW w \in Workers, NEW caps \in SUBSET Capabilities
    PROVE  Granted(w, caps) \in SUBSET Capabilities
  BY DEF Granted, TypeOK

\* No step breaks the types of workers, engines, activity and the bucket.
LEMMA WorldStep ==
    ASSUME TypeOK, [Next]_vars
    PROVE  WorldTyped'
  <1> USE DEF WorldTyped, TypeOK
  <1>1. ASSUME NEW j \in Jobs, CallerStep(j)
        PROVE  WorldTyped'
    <2>1. CASE StageInput(j)
      BY <2>1 DEF StageInput
    <2>2. ASSUME NEW s \in {"open", "cancelled"},
                 job' = [job EXCEPT ![j].status = s],
                 UNCHANGED <<worker, engines, active, staged, objects>>
          PROVE  WorldTyped'
      <3>1. [job[j] EXCEPT !.status = s] \in JobRow
        BY DEF JobRow
      <3>2. job' = [job EXCEPT ![j] = [job[j] EXCEPT !.status = s]]
        BY <2>2
      <3>3. job' \in [Jobs -> JobRow]
        BY <3>1, <3>2
      <3> QED
        BY <2>2, <3>3
    <2>3. CASE Submit(j)
      BY <2>2, <2>3 DEF Submit
    <2>4. CASE Cancel(j)
      BY <2>2, <2>4 DEF Cancel
    <2>5. ASSUME NEW t \in Tasks, Approve(j, t)
          PROVE  WorldTyped'
      BY <2>5 DEF Approve, JobRow
    <2> QED
      BY <1>1, <2>1, <2>3, <2>4, <2>5 DEF CallerStep
  <1>2. ASSUME NEW n \in Nodes, NEW E \in EngineSets, SetEngines(n, E)
        PROVE  WorldTyped'
    BY <1>2, ConstantsAssumption DEF ConstantsAssumption, SetEngines
  <1>3. ASSUME NEW w \in Suspendable, SetActive(w)
        PROVE  WorldTyped'
    BY <1>3, ConstantsAssumption DEF ConstantsAssumption, SetActive
  <1>4. ASSUME NEW w \in Workers, NEW report \in Reports, Heartbeat(w, report)
        PROVE  WorldTyped'
    <2>1. /\ report.caps \in SUBSET Capabilities
          /\ report.paused \in BOOLEAN
          /\ HeartbeatLimit \in Nat
      BY ConstantsAssumption DEF ConstantsAssumption
    <2>2. [known |-> TRUE, caps |-> Granted(w, report.caps),
           silent |-> 0, paused |-> report.paused] \in WorkerRow
      BY <2>1, GrantedCapabilities DEF WorkerRow
    <2> QED
      BY <1>4, <2>2 DEF Heartbeat
  <1>5. ASSUME NEW m \in Members, Peek(m)
        PROVE  WorldTyped'
    BY <1>5 DEF Peek
  <1>6. ASSUME NEW w \in Workers, ClaimStep(w)
        PROVE  WorldTyped'
    <2>1. PICK slot \in Slots, only \in Targets, seconds \in LeaseRequests,
               rivals \in RivalLocks, pause \in ClaimPauses :
                  \/ w \in Members /\ MemberClaim(w, slot, only, seconds, rivals, pause)
                  \/ w \in Nodes /\ NodeClaim(w, slot, only, seconds, rivals, pause)
      BY <1>6 DEF ClaimStep
    <2>2. pause \in Nat
      BY ConstantsAssumption DEF ConstantsAssumption
    <2>3. CASE MemberClaim(w, slot, only, seconds, rivals, pause)
      BY <2>2, <2>3, AgedWorkersTyped DEF MemberClaim
    <2>4. CASE NodeClaim(w, slot, only, seconds, rivals, pause)
      <3> DEFINE narrowed == [worker EXCEPT ![w].caps = Granted(w, worker[w].caps)]
      <3>1. Granted(w, worker[w].caps) \in SUBSET Capabilities
        BY GrantedCapabilities DEF WorkerRow
      <3>2. [worker[w] EXCEPT !.caps = Granted(w, worker[w].caps)] \in WorkerRow
        BY <3>1 DEF WorkerRow
      <3>3. narrowed \in [Workers -> WorkerRow]
        BY <3>2
      <3>4. worker' = narrowed \/ worker' = AgedWorkers(narrowed, pause)
        BY <2>4 DEF NodeClaim
      <3> HIDE DEF narrowed
      <3>5. worker' \in [Workers -> WorkerRow]
        BY <2>2, <3>3, <3>4, AgedWorkersTyped
      <3> QED
        BY <2>4, <3>5 DEF NodeClaim
    <2> QED
      BY <2>1, <2>3, <2>4
  <1>7. ASSUME NEW w \in Workers, NEW t \in Tasks, NEW k \in AttemptNos,
               AttemptStep(w, t, k)
        PROVE  WorldTyped'
    <2>1. UNCHANGED <<job, worker, engines, active, staged>>
      BY <1>7 DEF AttemptStep, Renew, Computed, Fail, Upload, Finish
    <2>2. objects' = objects \/ objects' = objects \cup {<<t, k>>}
      BY <1>7 DEF AttemptStep, Renew, Computed, Fail, Upload, Finish
    <2> QED
      BY <2>1, <2>2
  <1>8. CASE Tick
    BY <1>8, AgedWorkersTyped DEF Tick
  <1>9. CASE UNCHANGED vars
    BY <1>9 DEF vars
  <1> QED
    BY <1>1, <1>2, <1>3, <1>4, <1>5, <1>6, <1>7, <1>8, <1>9 DEF Next

----------------------------------------------------------------------------
(* Each kind of step preserves the invariant.                              *)

Rows ==
    /\ Typed
    /\ RunningRows
    /\ RowsOfJobs
    /\ SoundPlans
    /\ ClosedJobs
    /\ SingleCommit
    /\ AttemptLedger
    /\ ParentFirst
    /\ ClosedJobsQuiet
    /\ FailedForCause
    /\ ApprovedComplete

\* The invariant, split the way its preservation is proved.
LEMMA InvParts == IInv <=> Rows /\ WorldTyped
  BY TypeParts DEF IInv, Rows

\* The parent of a task is a task.
LEMMA ParentIsTask ==
    ASSUME NEW t \in Tasks
    PROVE  /\ Plan[t].job \in Jobs
           /\ Plan[t].parent # None => Plan[t].parent \in Tasks
  BY ConstantsAssumption DEF ConstantsAssumption, PlanRow

\* One job's part of ApprovedComplete.
ApprovalStands(j, t) ==
    /\ Plan[t].job = j
    /\ Plan[t].kind = "process"
    /\ task[t].status = "done"
    /\ task[t].output.grade = "pass"
    /\ \A u \in Tasks : Plan[u].parent = t => task[u].status \in {"absent", "done"}
    /\ j \in ControlJobs => NoMockOutput(j)

\* One task's part of SingleCommit and of AttemptLedger.
Committed(t) ==
    /\ task[t].status = "done" <=> task[t].output # None
    /\ task[t].output # None =>
          /\ task[t].output.attempt = task[t].attempt
          /\ task[t].output.worker = task[t].owner
          /\ <<t, task[t].attempt>> \in objects
    /\ \A k \in AttemptNos :
          attempts[t][k].state = "done"
             <=> task[t].status = "done" /\ task[t].attempt = k

Recorded(t) ==
    /\ \A k \in AttemptNos :
          k <= task[t].attempt <=> attempts[t][k].state # "absent"
    /\ task[t].attempt # 0 =>
          attempts[t][task[t].attempt].worker = task[t].owner

\* A keeping step (sweep, renewal, computed, time) preserves the invariant.
LEMMA KeepingPreserves ==
    ASSUME IInv, KeepingStep
    PROVE  Rows'
  <1> USE DEF IInv
  <1>1. /\ \A t \in Tasks : Kept(t) /\ CauseKept(t)
        /\ \A t \in Tasks, k \in AttemptNos : AttemptKept(t, k)
        /\ job' = job
        /\ objects \subseteq objects'
        /\ Typed'
    BY DEF KeepingStep
  <1>2. RunningRows'
    BY <1>1, TypeParts DEF Kept, RunningRows, Live
  <1>3. RowsOfJobs'
    BY <1>1 DEF Kept, RowsOfJobs, Live
  <1>4. SoundPlans'
    BY <1>1 DEF Kept, SoundPlans, PrecedingParent, Live
  <1>5. ClosedJobs'
    BY <1>1 DEF Kept, ClosedJobs
  <1>6. SingleCommit'
    BY <1>1 DEF Kept, AttemptKept, SingleCommit, Live
  <1>7. AttemptLedger'
    <2>1. \A t \in Tasks : task[t].attempt \in 0..MaxAttempts
      BY DEF TypeOK, TaskRow
    <2>2. MaxAttempts \in Nat
      BY ConstantsAssumption DEF ConstantsAssumption
    <2>3. \A t \in Tasks : task[t].attempt # 0 => task[t].attempt \in AttemptNos
      BY <2>1, <2>2 DEF AttemptNos
    <2> QED
      BY <1>1, <2>3 DEF Kept, AttemptKept, AttemptLedger
  <1>8. ParentFirst'
    BY <1>1, ParentIsTask DEF Kept, ParentFirst, Live
  <1>9. ClosedJobsQuiet'
    BY <1>1 DEF Kept, ClosedJobsQuiet, Live
  <1>10. FailedForCause'
    <2> SUFFICES ASSUME NEW t \in Tasks, task'[t].status = "failed"
                 PROVE  \/ task'[t].attempt = MaxAttempts
                        \/ /\ Plan[t].parent # None
                           /\ task'[Plan[t].parent].status = "failed"
      BY DEF FailedForCause
    <2>1. None \notin Tasks
      BY ConstantsAssumption DEF ConstantsAssumption
    <2>2. CASE task[t].status = "failed"
      BY <1>1, <2>2, ParentIsTask DEF Kept, FailedForCause, Live
    <2>3. CASE task[t].status # "failed"
      BY <1>1, <2>1, <2>3 DEF Kept, CauseKept
    <2> QED
      BY <2>2, <2>3
  <1>12. ApprovedComplete'
    <2> SUFFICES ASSUME NEW j \in Jobs, NEW t \in Tasks, job[j].approved = t, t # None
                 PROVE  ApprovalStands(j, t)'
      BY <1>1 DEF ApprovedComplete, ApprovalStands, TypeOK, JobRow
    <2>1. ApprovalStands(j, t)
      BY DEF ApprovedComplete, ApprovalStands
    <2>2. \A u \in Tasks : task[u].status = "done" =>
             task'[u].status = "done" /\ task'[u].output = task[u].output
      BY <1>1 DEF Kept, Live
    <2>3. \A u \in Tasks : task[u].status = "absent" => task'[u].status = "absent"
      BY <1>1 DEF Kept, Live
    <2>4. NoMockOutput(j) => NoMockOutput(j)'
      BY <1>1 DEF Kept, NoMockOutput, TasksOf
    <2> QED
      BY <2>1, <2>2, <2>3, <2>4 DEF ApprovalStands
  <1> QED
    BY <1>1, <1>2, <1>3, <1>4, <1>5, <1>6, <1>7, <1>8, <1>9, <1>10, <1>12
       DEF Rows

\* A claim that grants a task preserves the invariant: the parent is done, the
\* job is open and the ledger gains exactly the new attempt.
LEMMA GrantPreserves ==
    ASSUME IInv, NEW w \in Workers, NEW t \in Tasks, GrantStep(w, t)
    PROVE  Rows'
  <1> USE DEF IInv
  <1>1. /\ \A u \in Tasks \ {t} : Kept(u) /\ CauseKept(u)
        /\ GrantedRow(w, t)
        /\ job' = job
        /\ objects' = objects
        /\ Typed'
        /\ task[t].status \in Live
        /\ job[Plan[t].job].status = "open"
    BY DEF GrantStep
  <1>2. /\ MaxAttempts \in Nat
        /\ \A u \in Tasks : task[u].attempt \in 0..MaxAttempts
        /\ None \notin Workers
    BY ConstantsAssumption DEF ConstantsAssumption, TypeOK, TaskRow
  <1>3. /\ \A u \in Tasks, k \in AttemptNos :
              u # t \/ k # task[t].attempt + 1 => AttemptKept(u, k)
        /\ attempts'[t][task[t].attempt + 1] = [state |-> "running", worker |-> w]
        /\ task[t].attempt + 1 \in AttemptNos
    <2>1. task[t].attempt + 1 \in AttemptNos
      BY <1>2 DEF GrantStep, AttemptNos
    <2> QED
      BY <2>1 DEF GrantStep
  <1>4. RunningRows'
    BY <1>1, <1>2, TypeParts DEF Kept, GrantedRow, RunningRows, Live
  <1>5. RowsOfJobs'
    BY <1>1 DEF Kept, GrantedRow, RowsOfJobs, Live
  <1>6. SoundPlans'
    BY <1>1 DEF Kept, GrantedRow, SoundPlans, PrecedingParent, Live
  <1>7. ClosedJobs'
    BY <1>1 DEF Kept, GrantedRow, ClosedJobs, Live
  <1>8. SingleCommit'
    <2>1. \A u \in Tasks \ {t} : Committed(u)'
      BY <1>1, <1>3 DEF Kept, AttemptKept, SingleCommit, Committed, Live
    <2>2. Committed(t)'
      <3>1. task[t].output = None /\ \A k \in AttemptNos : attempts[t][k].state # "done"
        BY <1>1 DEF SingleCommit, Live
      <3>2. \A k \in AttemptNos : attempts'[t][k].state # "done"
        <4> SUFFICES ASSUME NEW k \in AttemptNos
                     PROVE  attempts'[t][k].state # "done"
          OBVIOUS
        <4>1. CASE k = task[t].attempt + 1
          BY <1>3, <4>1
        <4>2. CASE k # task[t].attempt + 1
          BY <1>3, <3>1, <4>2 DEF AttemptKept
        <4> QED
          BY <4>1, <4>2
      <3> QED
        BY <1>1, <3>1, <3>2 DEF GrantedRow, Committed
    <2> QED
      BY <2>1, <2>2 DEF SingleCommit, Committed
  <1>9. AttemptLedger'
    <2>1. \A u \in Tasks : task[u].attempt # 0 => task[u].attempt \in AttemptNos
      BY <1>2 DEF AttemptNos
    <2>2. ASSUME NEW u \in Tasks \ {t}
          PROVE  Recorded(u)'
      BY <1>1, <1>3, <2>1 DEF Kept, AttemptKept, AttemptLedger, Recorded
    <2>3. Recorded(t)'
      <3>1. \A k \in AttemptNos :
                k # task[t].attempt + 1 =>
                   (attempts'[t][k].state # "absent" <=> k <= task[t].attempt)
        BY <1>3 DEF AttemptKept, AttemptLedger
      <3>2. \A k \in AttemptNos : k <= task[t].attempt + 1
                <=> k <= task[t].attempt \/ k = task[t].attempt + 1
        BY <1>2 DEF AttemptNos
      <3>3. task[t].attempt + 1 # 0 /\ ~(task[t].attempt + 1 <= task[t].attempt)
        BY <1>2
      <3> QED
        BY <1>1, <1>3, <3>1, <3>2, <3>3 DEF GrantedRow, Recorded
    <2> QED
      BY <2>2, <2>3 DEF AttemptLedger, Recorded
  <1>10. ParentFirst'
    <2> SUFFICES ASSUME NEW u \in Tasks, Plan[u].parent # None,
                        task'[u].status \in {"running", "done"}
                 PROVE  task'[Plan[u].parent].status = "done"
      BY DEF ParentFirst
    <2>1. Plan[u].parent \in Tasks
      BY ParentIsTask
    <2>2. task[Plan[u].parent].status = "done"
      <3>1. CASE u = t
        BY <3>1 DEF GrantStep
      <3>2. CASE u # t
        BY <1>1, <3>2 DEF Kept, ParentFirst, Live
      <3> QED
        BY <3>1, <3>2
    <2>3. Plan[u].parent # t
      BY <1>1, <2>2 DEF Live
    <2> QED
      BY <1>1, <2>1, <2>2, <2>3 DEF Kept, Live
  <1>11. ClosedJobsQuiet'
    BY <1>1 DEF Kept, GrantedRow, ClosedJobsQuiet, Live
  <1>12. FailedForCause'
    <2> SUFFICES ASSUME NEW u \in Tasks, task'[u].status = "failed"
                 PROVE  \/ task'[u].attempt = MaxAttempts
                        \/ /\ Plan[u].parent # None
                           /\ task'[Plan[u].parent].status = "failed"
      BY DEF FailedForCause
    <2>1. None \notin Tasks
      BY ConstantsAssumption DEF ConstantsAssumption
    <2>2. u # t
      BY <1>1 DEF GrantedRow
    <2>3. CASE task[u].status = "failed"
      <3>1. CASE task[u].attempt = MaxAttempts
        BY <1>1, <2>2, <3>1 DEF Kept
      <3>2. CASE /\ Plan[u].parent # None
                 /\ task[Plan[u].parent].status = "failed"
        <4>1. Plan[u].parent \in Tasks \ {t}
          BY <1>1, <3>2, ParentIsTask DEF Live
        <4> QED
          BY <1>1, <3>2, <4>1 DEF Kept, Live
      <3> QED
        BY <2>3, <3>1, <3>2 DEF FailedForCause
    <2>4. CASE task[u].status # "failed"
      BY <1>1, <2>1, <2>2, <2>4 DEF Kept, CauseKept
    <2> QED
      BY <2>3, <2>4
  <1>14. ApprovedComplete'
    <2> SUFFICES ASSUME NEW j \in Jobs, NEW a \in Tasks, job[j].approved = a, a # None
                 PROVE  ApprovalStands(j, a)'
      BY <1>1 DEF ApprovedComplete, ApprovalStands, TypeOK, JobRow
    <2>1. ApprovalStands(j, a)
      BY DEF ApprovedComplete, ApprovalStands
    <2>2. \A u \in Tasks : task[u].status = "done" =>
             task'[u].status = "done" /\ task'[u].output = task[u].output
      BY <1>1 DEF Kept, Live
    <2>3. \A u \in Tasks : task[u].status = "absent" => task'[u].status = "absent"
      BY <1>1 DEF Kept, Live
    <2>4. NoMockOutput(j) => NoMockOutput(j)'
      BY <1>1 DEF Kept, GrantedRow, NoMockOutput, TasksOf
    <2> QED
      BY <2>1, <2>2, <2>3, <2>4 DEF ApprovalStands
  <1> QED
    BY <1>1, <1>4, <1>5, <1>6, <1>7, <1>8, <1>9, <1>10, <1>11, <1>12, <1>14
       DEF Rows

\* New rows satisfy the invariant, and no older row refers to them.
LEMMA SubmitPreserves ==
    ASSUME IInv, NEW j \in Jobs, Submit(j)
    PROVE  Rows'
  <1> USE DEF IInv
  <1>1. /\ job[j].status = "absent"
        /\ job' = [job EXCEPT ![j].status = "open"]
        /\ task' = [t \in Tasks |-> IF Plan[t].job = j THEN NewTask ELSE task[t]]
        /\ attempts' = attempts /\ objects' = objects
        /\ \A t \in TasksOf(j) : PrecedingParent(t)
    BY DEF Submit, ValidPlan
  <1>2. /\ job \in [Jobs -> JobRow]
        /\ task \in [Tasks -> TaskRow]
        /\ attempts \in [Tasks -> [AttemptNos -> AttemptRow]]
    BY DEF TypeOK
  <1>3. /\ \A i \in Jobs \ {j} : job'[i] = job[i]
        /\ job'[j].status = "open" /\ job'[j].approved = job[j].approved
    BY <1>1, <1>2 DEF JobRow
  <1>4. MaxAttempts \in Nat /\ None \notin Tasks \cup Workers \cup Int
    BY ConstantsAssumption DEF ConstantsAssumption
  <1>5. \A t \in TasksOf(j) : task[t].status = "absent" /\ task[t].attempt = 0
    BY <1>1 DEF RowsOfJobs, TasksOf
  <1>6. /\ \A t \in TasksOf(j) : task'[t] = NewTask
        /\ \A t \in Tasks \ TasksOf(j) : task'[t] = task[t]
        /\ TasksOf(j) \subseteq Tasks
    BY <1>1 DEF TasksOf
  <1>7. \A t \in Tasks : t \in TasksOf(j) <=> Plan[t].job = j
    BY DEF TasksOf
  <1>8. /\ NewTask \in TaskRow
        /\ NewTask.status = "queued" /\ NewTask.attempt = 0
        /\ NewTask.output = None
    BY <1>4 DEF NewTask, TaskRow
  <1>9. Typed'
    BY <1>1, <1>2, <1>8 DEF Typed
  <1>10. \A t \in Tasks : task[t].status \notin {"absent"} => t \notin TasksOf(j)
    BY <1>5
  <1>11. RunningRows'
    BY <1>6, <1>8, TypeParts DEF RunningRows
  <1>12. RowsOfJobs'
    <2>1. \A t \in TasksOf(j) : Plan[t].job = j
      BY DEF TasksOf
    <2>2. \A t \in Tasks \ TasksOf(j) : Plan[t].job \in Jobs \ {j}
      BY <1>7, ParentIsTask
    <2> QED
      BY <1>3, <1>6, <1>8, <2>1, <2>2 DEF RowsOfJobs
  <1>13. SoundPlans'
    BY <1>1, <1>6 DEF SoundPlans, PrecedingParent
  <1>14. ClosedJobs'
    <2>1. \A t \in Tasks \ TasksOf(j) : Plan[t].job \in Jobs \ {j}
      BY <1>7, ParentIsTask
    <2> QED
      BY <1>1, <1>3, <1>6, <1>8, <2>1 DEF ClosedJobs
  <1>15. SingleCommit'
    <2>1. \A t \in TasksOf(j) : Committed(t)'
      BY <1>1, <1>5, <1>6, <1>8 DEF SingleCommit, Committed
    <2>2. \A t \in Tasks \ TasksOf(j) : Committed(t)'
      BY <1>1, <1>6 DEF SingleCommit, Committed
    <2> QED
      BY <2>1, <2>2 DEF SingleCommit, Committed
  <1>16. AttemptLedger'
    <2>1. \A t \in Tasks : task'[t].attempt = task[t].attempt
      BY <1>5, <1>6, <1>8
    <2>2. \A t \in Tasks : task[t].attempt # 0 => task'[t].owner = task[t].owner
      BY <1>5, <1>6
    <2> QED
      BY <1>1, <2>1, <2>2 DEF AttemptLedger
  <1>17. ParentFirst'
    BY <1>6, <1>8, <1>10, ParentIsTask DEF ParentFirst
  <1>18. ClosedJobsQuiet'
    <2>1. \A t \in Tasks \ TasksOf(j) : Plan[t].job \in Jobs \ {j}
      BY <1>7, ParentIsTask
    <2> QED
      BY <1>3, <1>6, <1>7, <2>1 DEF ClosedJobsQuiet
  <1>19. FailedForCause'
    BY <1>6, <1>8, <1>10, ParentIsTask DEF FailedForCause
  <1>21. ApprovedComplete'
    <2> SUFFICES ASSUME NEW i \in Jobs, NEW a \in Tasks, job[i].approved = a, a # None
                 PROVE  ApprovalStands(i, a)'
      BY <1>3, <1>2 DEF ApprovedComplete, ApprovalStands, JobRow
    <2>1. ApprovalStands(i, a) /\ i # j
      BY <1>1 DEF ApprovedComplete, ApprovalStands, ClosedJobs
    <2>2. \A u \in Tasks : task[u].status = "done" => task'[u] = task[u]
      BY <1>6, <1>10
    <2>3. \A u \in Tasks : Plan[u].parent = a => u \notin TasksOf(j)
      BY <1>1, <1>7, <2>1 DEF ApprovalStands, PrecedingParent
    <2>4. NoMockOutput(i) => NoMockOutput(i)'
      BY <1>6, <1>8 DEF NoMockOutput, TasksOf
    <2> QED
      BY <1>6, <2>1, <2>2, <2>3, <2>4 DEF ApprovalStands
  <1> QED
    BY <1>9, <1>11, <1>12, <1>13, <1>14, <1>15, <1>16, <1>17, <1>18, <1>19,
       <1>21 DEF Rows

\* cancel and approve: the job is closed together with its live tasks.
ClosingStep(j) ==
    /\ task' = Closed(j)
    /\ UNCHANGED <<attempts, objects>>
    /\ job[j].status # "absent"
    /\ job'[j].status \in {"approved", "cancelled"}
    /\ job'[j].approved \in Tasks \cup {None}
    /\ \A i \in Jobs \ {j} : job'[i] = job[i]
    /\ \A a \in Tasks :
          job'[j].approved = a => job[j].approved = a \/ ApprovalStands(j, a)

\* Cancel closes the live tasks of the job and approves nothing.
LEMMA CancelCloses ==
    ASSUME IInv, NEW j \in Jobs, Cancel(j)
    PROVE  ClosingStep(j)
  <1>1. job \in [Jobs -> JobRow]
    BY DEF IInv, TypeOK
  <1>2. /\ job' = [job EXCEPT ![j].status = "cancelled"]
        /\ job[j].status # "absent"
    BY DEF Cancel
  <1>3. /\ job'[j].status = "cancelled" /\ job'[j].approved = job[j].approved
        /\ \A i \in Jobs \ {j} : job'[i] = job[i]
    BY <1>1, <1>2 DEF JobRow
  <1>4. job'[j].approved \in Tasks \cup {None}
    BY <1>1, <1>3 DEF JobRow
  <1> QED
    BY <1>2, <1>3, <1>4 DEF Cancel, ClosingStep

\* Approve closes the live tasks of the job; what it approves is complete.
LEMMA ApproveCloses ==
    ASSUME IInv, NEW j \in Jobs, NEW t \in Tasks, Approve(j, t)
    PROVE  ClosingStep(j)
  <1>1. job \in [Jobs -> JobRow]
    BY DEF IInv, TypeOK
  <1>2. /\ job[j].status = "open"
        /\ job' = [job EXCEPT ![j] = [status |-> "approved", approved |-> t]]
    BY DEF Approve
  <1>3. /\ job'[j].status = "approved" /\ job'[j].approved = t
        /\ \A i \in Jobs \ {j} : job'[i] = job[i]
    BY <1>1, <1>2
  <1>4. ApprovalStands(j, t)
    BY DEF Approve, ApprovalStands
  <1> QED
    BY <1>2, <1>3, <1>4 DEF Approve, ClosingStep

\* Closing a job preserves the invariant.
LEMMA ClosingPreserves ==
    ASSUME IInv, NEW j \in Jobs, ClosingStep(j)
    PROVE  Rows'
  <1> USE DEF IInv
  <1> DEFINE Shut == {t \in Tasks : Plan[t].job = j /\ task[t].status \in Live}
  <1>1. /\ job \in [Jobs -> JobRow]
        /\ task \in [Tasks -> TaskRow]
        /\ attempts \in [Tasks -> [AttemptNos -> AttemptRow]]
    BY DEF TypeOK
  <1>2. \A t \in Tasks : task'[t] = IF t \in Shut
                THEN [task[t] EXCEPT !.status = "cancelled", !.lease = None]
                ELSE task[t]
    BY DEF ClosingStep, Closed
  <1>3. \A t \in Tasks : task[t] \in TaskRow
    BY <1>1
  <1>4. \A t \in Shut : [task[t] EXCEPT !.status = "cancelled", !.lease = None]
                            \in TaskRow
    BY <1>3 DEF TaskRow
  <1>5. /\ \A t \in Shut : /\ task'[t].status = "cancelled"
                           /\ task'[t].attempt = task[t].attempt
                           /\ task'[t].owner = task[t].owner
                           /\ task'[t].output = task[t].output
        /\ \A t \in Tasks \ Shut : task'[t] = task[t]
        /\ Shut \subseteq Tasks
        /\ \A t \in Shut : Plan[t].job = j /\ task[t].status \in Live
    BY <1>2, <1>3 DEF TaskRow
  <1>6. Typed'
    <2>1. \A t \in Tasks : task'[t] \in TaskRow
      BY <1>2, <1>3, <1>4
    <2> QED
      BY <1>1, <2>1 DEF Typed, ClosingStep, Closed
  <1> HIDE DEF Shut
  <1>7. /\ attempts' = attempts /\ objects' = objects
        /\ job'[j].status \in {"approved", "cancelled"} /\ job[j].status # "absent"
        /\ \A i \in Jobs \ {j} : job'[i] = job[i]
    BY DEF ClosingStep
  <1>8. \A t \in Tasks : Plan[t].job \in Jobs
    BY ParentIsTask
  <1>9. \A t \in Tasks : task[t].status \in {"done", "absent", "failed"} => t \notin Shut
    BY <1>5 DEF Live
  <1>10. RunningRows'
    BY <1>5, TypeParts DEF RunningRows
  <1>11. RowsOfJobs'
    BY <1>5, <1>7, <1>8 DEF RowsOfJobs, Live
  <1>12. SoundPlans'
    BY <1>5 DEF SoundPlans, PrecedingParent, Live
  <1>13. ClosedJobs'
    <2>1. \A t \in Tasks : task'[t].status = "cancelled" =>
             job'[Plan[t].job].status # "open"
      BY <1>5, <1>7, <1>8 DEF ClosedJobs
    <2>2. \A i \in Jobs : job'[i].approved # None =>
             job'[i].status \in {"approved", "cancelled"}
      BY <1>7 DEF ClosedJobs
    <2> QED
      BY <2>1, <2>2 DEF ClosedJobs
  <1>14. SingleCommit'
    <2>1. \A t \in Shut : Committed(t)'
      BY <1>5, <1>7 DEF SingleCommit, Committed, Live
    <2>2. \A t \in Tasks \ Shut : Committed(t)'
      BY <1>5, <1>7 DEF SingleCommit, Committed
    <2> QED
      BY <1>5, <2>1, <2>2 DEF SingleCommit, Committed
  <1>15. AttemptLedger'
    <2>1. \A t \in Tasks : task'[t].attempt = task[t].attempt
                        /\ task'[t].owner = task[t].owner
      BY <1>5
    <2> QED
      BY <1>7, <2>1 DEF AttemptLedger
  <1>16. ParentFirst'
    BY <1>5, <1>9, ParentIsTask DEF ParentFirst
  <1>17. ClosedJobsQuiet'
    <2> SUFFICES ASSUME NEW t \in Tasks, task'[t].status \in Live
                 PROVE  job'[Plan[t].job].status = "open"
      BY DEF ClosedJobsQuiet
    <2>1. t \notin Shut /\ task[t].status \in Live
      BY <1>5 DEF Live
    <2>2. Plan[t].job # j
      BY <2>1 DEF Shut
    <2> QED
      BY <1>7, <1>8, <2>1, <2>2 DEF ClosedJobsQuiet
  <1>18. FailedForCause'
    BY <1>5, <1>9, ParentIsTask DEF FailedForCause
  <1>20. ApprovedComplete'
    <2> SUFFICES ASSUME NEW i \in Jobs, NEW a \in Tasks, job'[i].approved = a, a # None
                 PROVE  ApprovalStands(i, a)'
      <3>1. \A i \in Jobs : job'[i].approved \in Tasks \cup {None}
        BY <1>1, <1>7 DEF ClosingStep, JobRow
      <3> QED
        BY <3>1 DEF ApprovedComplete, ApprovalStands
    <2>1. ApprovalStands(i, a)
      <3>1. CASE i = j
        BY <3>1 DEF ClosingStep, ApprovedComplete, ApprovalStands
      <3>2. CASE i # j
        BY <1>7, <3>2 DEF ApprovedComplete, ApprovalStands
      <3> QED
        BY <3>1, <3>2
    <2>2. \A u \in Tasks : task[u].status \in {"absent", "done"} => task'[u] = task[u]
      BY <1>5, <1>9
    <2>3. NoMockOutput(i) => NoMockOutput(i)'
      BY <1>5 DEF NoMockOutput, TasksOf
    <2> QED
      BY <2>1, <2>2, <2>3 DEF ApprovalStands
  <1> QED
    BY <1>6, <1>10, <1>11, <1>12, <1>13, <1>14, <1>15, <1>16, <1>17, <1>18,
       <1>20 DEF Rows

\* What fail and finish have in common: they change the row and the attempt
\* that the caller holds.
LEMMA HeldRow ==
    ASSUME IInv, NEW w \in Workers, NEW t \in Tasks, NEW k \in AttemptNos,
           Holds(w, t, k)
    PROVE  /\ task[t].status = "running"
           /\ task[t].attempt = k
           /\ task[t].owner = w
           /\ task[t].output = None
           /\ job[Plan[t].job].status = "open"
           /\ \A i \in AttemptNos : attempts[t][i].state # "done"
           /\ attempts[t][k].state # "absent"
           /\ k # 0
  <1>1. k \in Nat /\ k # 0
    BY ConstantsAssumption DEF ConstantsAssumption, AttemptNos
  <1>2. /\ task[t].status = "running"
        /\ task[t].attempt = k
        /\ task[t].owner = w
        /\ job[Plan[t].job].status = "open"
    BY DEF Holds
  <1>3. task[t].output = None /\ \A i \in AttemptNos : attempts[t][i].state # "done"
    BY <1>2 DEF IInv, SingleCommit
  <1>4. k <= k
    BY <1>1
  <1>5. attempts[t][k].state # "absent"
    BY <1>2, <1>4 DEF IInv, AttemptLedger
  <1> QED
    BY <1>1, <1>2, <1>3, <1>5

\* A reported failure preserves the invariant, whether the task is queued
\* again or has used its last attempt.
LEMMA FailPreserves ==
    ASSUME IInv, NEW w \in Workers, NEW t \in Tasks, NEW k \in AttemptNos,
           Fail(w, t, k)
    PROVE  Rows'
  <1> USE DEF IInv
  <1> DEFINE verdict == IF task[t].attempt >= MaxAttempts THEN "failed" ELSE "queued"
  <1>1. Holds(w, t, k)
    BY DEF Fail
  <1>2. /\ task[t].status = "running"
        /\ task[t].attempt = k
        /\ task[t].owner = w
        /\ task[t].output = None
        /\ job[Plan[t].job].status = "open"
        /\ \A i \in AttemptNos : attempts[t][i].state # "done"
        /\ attempts[t][k].state # "absent"
        /\ k # 0
    BY <1>1, HeldRow
  <1>3. /\ job \in [Jobs -> JobRow]
        /\ task \in [Tasks -> TaskRow]
        /\ attempts \in [Tasks -> [AttemptNos -> AttemptRow]]
    BY DEF TypeOK
  <1>4. task' = [task EXCEPT ![t] = [task[t] EXCEPT !.status = verdict,
                                        !.lease = None, !.wait = Backoff[k]]]
    BY <1>2, <1>3 DEF Fail
  <1>5. [task[t] EXCEPT !.status = verdict, !.lease = None, !.wait = Backoff[k]]
            \in TaskRow
    <2>1. Backoff[k] \in Nat
      BY ConstantsAssumption DEF ConstantsAssumption
    <2>2. task[t] \in TaskRow
      BY <1>3
    <2> QED
      BY <2>1, <2>2 DEF TaskRow
  <1>6. /\ task'[t].status = verdict
        /\ task'[t].attempt = k
        /\ task'[t].owner = w
        /\ task'[t].output = None
        /\ \A u \in Tasks \ {t} : task'[u] = task[u]
        /\ task' \in [Tasks -> TaskRow]
    <2>1. task[t] \in TaskRow
      BY <1>3
    <2>2. task'[t] = [task[t] EXCEPT !.status = verdict, !.lease = None,
                                     !.wait = Backoff[k]]
      BY <1>3, <1>4
    <2> QED
      BY <1>2, <1>3, <1>4, <1>5, <2>1, <2>2 DEF TaskRow
  <1>7. /\ attempts' \in [Tasks -> [AttemptNos -> AttemptRow]]
        /\ \A u \in Tasks, i \in AttemptNos :
              u # t \/ i # k => attempts'[u][i] = attempts[u][i]
        /\ attempts'[t][k].state = "failed"
        /\ attempts'[t][k].worker = attempts[t][k].worker
    <2>1. attempts[t][k] \in AttemptRow
      BY <1>3
    <2>2. [attempts[t][k] EXCEPT !.state = "failed"] \in AttemptRow
      BY <2>1 DEF AttemptRow
    <2>3. attempts' = [attempts EXCEPT ![t][k] =
                          [attempts[t][k] EXCEPT !.state = "failed"]]
      BY <1>3 DEF Fail
    <2> QED
      BY <1>3, <2>1, <2>2, <2>3 DEF AttemptRow
  <1>8. job' = job /\ objects' = objects
    BY DEF Fail
  <1>9. verdict \in {"failed", "queued"}
    OBVIOUS
  <1>10. verdict = "failed" => k = MaxAttempts
    BY <1>2, ConstantsAssumption DEF ConstantsAssumption, AttemptNos
  <1> HIDE DEF verdict
  <1>11. Typed' /\ RunningRows'
    BY <1>6, <1>7, <1>9, TypeParts DEF Typed, RunningRows
  <1>12. RowsOfJobs' /\ SoundPlans' /\ ClosedJobs' /\ ClosedJobsQuiet'
    BY <1>2, <1>6, <1>8, <1>9
       DEF RowsOfJobs, SoundPlans, PrecedingParent, ClosedJobs, ClosedJobsQuiet, Live
  <1>13. SingleCommit'
    <2>1. Committed(t)'
      <3>1. \A i \in AttemptNos : attempts'[t][i].state # "done"
        BY <1>2, <1>7
      <3> QED
        BY <1>6, <1>9, <3>1 DEF Committed
    <2>2. ASSUME NEW u \in Tasks \ {t}
          PROVE  Committed(u)'
      <3>1. Committed(u)
        BY DEF SingleCommit, Committed
      <3>2. \A i \in AttemptNos : attempts'[u][i] = attempts[u][i]
        BY <1>7
      <3> QED
        BY <1>6, <1>8, <3>1, <3>2 DEF Committed
    <2> QED
      BY <2>1, <2>2 DEF SingleCommit, Committed
  <1>14. AttemptLedger'
    <2>1. Recorded(t)'
      BY <1>2, <1>6, <1>7 DEF AttemptLedger, Recorded
    <2>2. \A u \in Tasks \ {t} : Recorded(u)'
      <3>1. \A u \in Tasks : task[u].attempt # 0 => task[u].attempt \in AttemptNos
        BY <1>3, ConstantsAssumption DEF ConstantsAssumption, TaskRow, AttemptNos
      <3> QED
        BY <1>6, <1>7, <3>1 DEF AttemptLedger, Recorded
    <2> QED
      BY <2>1, <2>2 DEF AttemptLedger, Recorded
  <1>15. ParentFirst'
    BY <1>2, <1>6, <1>9, ParentIsTask DEF ParentFirst
  <1>16. FailedForCause'
    BY <1>2, <1>6, <1>9, <1>10, ParentIsTask DEF FailedForCause
  <1>18. ApprovedComplete'
    <2> SUFFICES ASSUME NEW j \in Jobs, NEW a \in Tasks, job[j].approved = a, a # None
                 PROVE  ApprovalStands(j, a)'
      BY <1>3, <1>8 DEF ApprovedComplete, ApprovalStands, JobRow
    <2>1. ApprovalStands(j, a)
      BY DEF ApprovedComplete, ApprovalStands
    <2>2. \A u \in Tasks : task[u].status \in {"absent", "done"} => task'[u] = task[u]
      BY <1>2, <1>6
    <2>3. NoMockOutput(j) => NoMockOutput(j)'
      BY <1>6 DEF NoMockOutput, TasksOf
    <2> QED
      BY <2>1, <2>2, <2>3 DEF ApprovalStands
  <1> QED
    BY <1>11, <1>12, <1>13, <1>14, <1>15, <1>16, <1>18 DEF Rows

\* A committed result preserves the invariant: it is fenced by the attempt that
\* holds the task, and its objects are in the bucket.
LEMMA FinishPreserves ==
    ASSUME IInv, NEW w \in Workers, NEW t \in Tasks, NEW k \in AttemptNos,
           NEW grade \in Grades, Finish(w, t, k, grade)
    PROVE  Rows'
  <1> USE DEF IInv
  <1> DEFINE result == [attempt |-> k, worker |-> w, grade |-> grade]
  <1>1. Holds(w, t, k)
    BY DEF Finish
  <1>2. /\ task[t].status = "running"
        /\ task[t].attempt = k
        /\ task[t].owner = w
        /\ task[t].output = None
        /\ job[Plan[t].job].status = "open"
        /\ \A i \in AttemptNos : attempts[t][i].state # "done"
        /\ attempts[t][k].state # "absent"
        /\ k # 0
    BY <1>1, HeldRow
  <1>3. /\ job \in [Jobs -> JobRow]
        /\ task \in [Tasks -> TaskRow]
        /\ attempts \in [Tasks -> [AttemptNos -> AttemptRow]]
    BY DEF TypeOK
  <1>4. task' = [task EXCEPT ![t] = [task[t] EXCEPT !.status = "done",
                                        !.output = result, !.lease = None]]
    BY <1>3 DEF Finish
  <1>5. result \in Output
    BY DEF Output
  <1>6. result # None
    BY <1>5, ConstantsAssumption DEF ConstantsAssumption
  <1>7. [task[t] EXCEPT !.status = "done", !.output = result, !.lease = None]
            \in TaskRow
    <2>1. task[t] \in TaskRow
      BY <1>3
    <2> HIDE DEF result
    <2> QED
      BY <1>5, <2>1 DEF TaskRow
  <1>8. /\ task'[t].status = "done"
        /\ task'[t].attempt = k
        /\ task'[t].owner = w
        /\ task'[t].output = result
        /\ \A u \in Tasks \ {t} : task'[u] = task[u]
        /\ task' \in [Tasks -> TaskRow]
    <2> HIDE DEF result
    <2>1. task[t] \in TaskRow
      BY <1>3
    <2>2. task'[t] = [task[t] EXCEPT !.status = "done", !.output = result,
                                     !.lease = None]
      BY <1>3, <1>4
    <2> QED
      BY <1>2, <1>3, <1>4, <1>7, <2>1, <2>2 DEF TaskRow
  <1>9. /\ attempts' \in [Tasks -> [AttemptNos -> AttemptRow]]
        /\ \A u \in Tasks, i \in AttemptNos :
              u # t \/ i # k => attempts'[u][i] = attempts[u][i]
        /\ attempts'[t][k].state = "done"
        /\ attempts'[t][k].worker = attempts[t][k].worker
    <2>1. attempts[t][k] \in AttemptRow
      BY <1>3
    <2>2. [attempts[t][k] EXCEPT !.state = "done"] \in AttemptRow
      BY <2>1 DEF AttemptRow
    <2>3. attempts' = [attempts EXCEPT ![t][k] =
                          [attempts[t][k] EXCEPT !.state = "done"]]
      BY <1>3 DEF Finish
    <2> QED
      BY <1>3, <2>1, <2>2, <2>3 DEF AttemptRow
  <1>10. job' = job /\ objects' = objects /\ <<t, k>> \in objects
    BY DEF Finish
  <1>11. result.attempt = k /\ result.worker = w
    OBVIOUS
  <1> HIDE DEF result
  <1>12. Typed' /\ RunningRows'
    BY <1>8, <1>9, TypeParts DEF Typed, RunningRows
  <1>13. RowsOfJobs' /\ SoundPlans' /\ ClosedJobs' /\ ClosedJobsQuiet'
    BY <1>2, <1>8, <1>10
       DEF RowsOfJobs, SoundPlans, PrecedingParent, ClosedJobs, ClosedJobsQuiet, Live
  <1>14. SingleCommit'
    <2>1. Committed(t)'
      <3>1. \A i \in AttemptNos : attempts'[t][i].state = "done" <=> i = k
        BY <1>2, <1>9
      <3> QED
        BY <1>6, <1>8, <1>10, <1>11, <3>1 DEF Committed
    <2>2. ASSUME NEW u \in Tasks \ {t}
          PROVE  Committed(u)'
      <3>1. Committed(u)
        BY DEF SingleCommit, Committed
      <3>2. \A i \in AttemptNos : attempts'[u][i] = attempts[u][i]
        BY <1>9
      <3> QED
        BY <1>8, <1>10, <3>1, <3>2 DEF Committed
    <2> QED
      BY <2>1, <2>2 DEF SingleCommit, Committed
  <1>15. AttemptLedger'
    <2>1. Recorded(t)'
      BY <1>2, <1>8, <1>9 DEF AttemptLedger, Recorded
    <2>2. \A u \in Tasks \ {t} : Recorded(u)'
      <3>1. \A u \in Tasks : task[u].attempt # 0 => task[u].attempt \in AttemptNos
        BY <1>3, ConstantsAssumption DEF ConstantsAssumption, TaskRow, AttemptNos
      <3> QED
        BY <1>8, <1>9, <3>1 DEF AttemptLedger, Recorded
    <2> QED
      BY <2>1, <2>2 DEF AttemptLedger, Recorded
  <1>16. ParentFirst'
    BY <1>2, <1>8, ParentIsTask DEF ParentFirst
  <1>17. FailedForCause'
    BY <1>2, <1>8, ParentIsTask DEF FailedForCause
  <1>19. ApprovedComplete'
    <2> SUFFICES ASSUME NEW j \in Jobs, NEW a \in Tasks, job[j].approved = a, a # None
                 PROVE  ApprovalStands(j, a)'
      BY <1>3, <1>10 DEF ApprovedComplete, ApprovalStands, JobRow
    <2>1. ApprovalStands(j, a) /\ j # Plan[t].job
      BY <1>2 DEF ApprovedComplete, ApprovalStands, ClosedJobs
    <2>2. \A u \in Tasks : task[u].status \in {"absent", "done"} => task'[u] = task[u]
      BY <1>2, <1>8
    <2>3. NoMockOutput(j) => NoMockOutput(j)'
      BY <1>8, <2>1 DEF NoMockOutput, TasksOf
    <2> QED
      BY <2>1, <2>2, <2>3 DEF ApprovalStands
  <1> QED
    BY <1>12, <1>13, <1>14, <1>15, <1>16, <1>17, <1>19 DEF Rows

----------------------------------------------------------------------------
(* The theorems.                                                           *)

\* The empty database satisfies the invariant.
LEMMA InitHolds ==
    ASSUME Init
    PROVE  IInv
  <1>1. /\ MaxAttempts \in Nat /\ HeartbeatLimit \in Nat
        /\ None \notin Tasks
      BY ConstantsAssumption DEF ConstantsAssumption
  <1>2. \A t \in Tasks : /\ task[t] \in TaskRow
                         /\ task[t].status = "absent"
                         /\ task[t].attempt = 0
                         /\ task[t].output = None
    <2>1. NewTask \in TaskRow
      BY <1>1 DEF NewTask, TaskRow
    <2>2. /\ [NewTask EXCEPT !.status = "absent"] \in TaskRow
          /\ [NewTask EXCEPT !.status = "absent"].status = "absent"
          /\ [NewTask EXCEPT !.status = "absent"].attempt = 0
          /\ [NewTask EXCEPT !.status = "absent"].output = None
      BY <2>1 DEF TaskRow, NewTask
    <2> QED
      BY <2>2 DEF Init
  <1>3. \A j \in Jobs : job[j].status = "absent" /\ job[j].approved = None
    BY DEF Init
  <1>4. \A t \in Tasks, k \in AttemptNos :
            attempts[t][k] = [state |-> "absent", worker |-> None]
    BY DEF Init
  <1>5. Typed
    BY <1>2 DEF Init, Typed, AttemptRow
  <1>6. WorldTyped
    BY <1>1 DEF Init, WorldTyped, JobRow, WorkerRow
  <1>7. RunningRows /\ SoundPlans /\ ClosedJobs /\ ParentFirst /\ ClosedJobsQuiet
    BY <1>2, <1>3 DEF RunningRows, SoundPlans, ClosedJobs, ParentFirst,
                      ClosedJobsQuiet, Live
  <1>8. RowsOfJobs
    BY <1>2, <1>3, ParentIsTask DEF RowsOfJobs
  <1>9. SingleCommit
    BY <1>2, <1>4 DEF SingleCommit
  <1>10. AttemptLedger
    BY <1>2, <1>4 DEF AttemptLedger, AttemptNos
  <1>11. FailedForCause
    BY <1>2 DEF FailedForCause
  <1>12. ApprovedComplete
    BY <1>3 DEF ApprovedComplete
  <1> QED
    BY <1>5, <1>6, <1>7, <1>8, <1>9, <1>10, <1>11, <1>12, InvParts DEF Rows

\* Every step preserves the invariant.
LEMMA NextPreserves ==
    ASSUME IInv, [Next]_vars
    PROVE  IInv'
  <1>1. TypeOK
    BY DEF IInv
  <1>2. WorldTyped'
    BY <1>1, WorldStep
  <1>3. ASSUME KeepingStep
        PROVE  Rows'
    BY <1>3, KeepingPreserves
  <1>4. ASSUME NEW w \in Workers, NEW t \in Tasks, GrantStep(w, t)
        PROVE  Rows'
    BY <1>4, GrantPreserves
  <1>5. ASSUME NEW j \in Jobs, Submit(j)
        PROVE  Rows'
    BY <1>5, SubmitPreserves
  <1>6. ASSUME NEW j \in Jobs, Cancel(j)
        PROVE  Rows'
    BY <1>6, CancelCloses, ClosingPreserves
  <1>7. ASSUME NEW j \in Jobs, NEW t \in Tasks, Approve(j, t)
        PROVE  Rows'
    BY <1>7, ApproveCloses, ClosingPreserves
  <1>8. ASSUME NEW w \in Workers, NEW t \in Tasks, NEW k \in AttemptNos, Fail(w, t, k)
        PROVE  Rows'
    BY <1>8, FailPreserves
  <1>9. ASSUME NEW w \in Workers, NEW t \in Tasks, NEW k \in AttemptNos,
               NEW grade \in Grades, Finish(w, t, k, grade)
        PROVE  Rows'
    BY <1>9, FinishPreserves
  <1>10. Rows'
    BY <1>3, <1>4, <1>5, <1>6, <1>7, <1>8, <1>9, StepCases DEF StepCase
  <1>11. IInv' <=> Rows' /\ WorldTyped'
    BY TypeParts, InvParts, PTL
  <1> QED
    BY <1>2, <1>10, <1>11

\* Every reachable state of the queue satisfies the inductive invariant.
THEOREM InductiveInvariant == Spec => []IInv
  <1>1. Init => IInv
    BY InitHolds
  <1>2. IInv /\ [Next]_vars => IInv'
    BY NextPreserves
  <1> QED
    BY <1>1, <1>2, PTL DEF Spec

\* The rows of the tables are well typed in every reachable state.
THEOREM TypeCorrect == Spec => []TypeOK
  BY InductiveInvariant, PTL DEF IInv

\* At most one committed result per task, and it is the last attempt's.
THEOREM ResultIsFenced == Spec => []SingleCommit
  BY InductiveInvariant, PTL DEF IInv

\* cf_attempts is an exact record of the attempts handed out.
THEOREM LedgerIsExact == Spec => []AttemptLedger
  BY InductiveInvariant, PTL DEF IInv

\* No task runs or is done before its parent is done.
THEOREM DependenciesRespected == Spec => []ParentFirst
  BY InductiveInvariant, PTL DEF IInv

\* A closed job has no live task.
THEOREM ClosedJobsStayQuiet == Spec => []ClosedJobsQuiet
  BY InductiveInvariant, PTL DEF IInv

\* Tasks fail only when attempts are used up or their parent failed.
THEOREM FailuresHaveCauses == Spec => []FailedForCause
  BY InductiveInvariant, PTL DEF IInv

\* An approval stands on a complete, passing candidate.
THEOREM ApprovalsStand == Spec => []ApprovedComplete
  BY InductiveInvariant, PTL DEF IInv

----------------------------------------------------------------------------
(* Action properties.                                                      *)

\* No step changes the result, the attempt or the owner of a finished task.
LEMMA DoneRowKept ==
    ASSUME IInv, [Next]_vars, NEW t \in Tasks, task[t].status = "done"
    PROVE  /\ task'[t].status = "done"
           /\ task'[t].output = task[t].output
           /\ task'[t].attempt = task[t].attempt
           /\ task'[t].owner = task[t].owner
  <1>1. \A x : x \in Live => x # "done"
    BY DEF Live
  <1>2. CASE KeepingStep
    BY <1>1, <1>2 DEF KeepingStep, Kept
  <1>3. ASSUME NEW w \in Workers, NEW u \in Tasks, GrantStep(w, u)
        PROVE  Kept(t)
    BY <1>1, <1>3 DEF GrantStep
  <1>4. ASSUME NEW j \in Jobs, Submit(j)
        PROVE  task'[t] = task[t]
    BY <1>4 DEF Submit, IInv, RowsOfJobs
  <1>5. ASSUME NEW j \in Jobs, task' = Closed(j)
        PROVE  task'[t] = task[t]
    BY <1>1, <1>5 DEF Closed
  <1>6. ASSUME NEW w \in Workers, NEW u \in Tasks, NEW k \in AttemptNos, Fail(w, u, k)
        PROVE  task'[t] = task[t]
    BY <1>6 DEF Fail, Holds, IInv, TypeOK
  <1>7. ASSUME NEW w \in Workers, NEW u \in Tasks, NEW k \in AttemptNos,
               NEW grade \in Grades, Finish(w, u, k, grade)
        PROVE  task'[t] = task[t]
    BY <1>7 DEF Finish, Holds, IInv, TypeOK
  <1>8. (\E j \in Jobs : Cancel(j)) => \E j \in Jobs : task' = Closed(j)
    BY DEF Cancel
  <1>9. (\E j \in Jobs, u \in Tasks : Approve(j, u)) => \E j \in Jobs : task' = Closed(j)
    BY DEF Approve
  <1>10. Kept(t) => /\ task'[t].status = "done"
                    /\ task'[t].output = task[t].output
                    /\ task'[t].attempt = task[t].attempt
                    /\ task'[t].owner = task[t].owner
    BY <1>1 DEF Kept
  <1> QED
    BY <1>2, <1>3, <1>4, <1>5, <1>6, <1>7, <1>8, <1>9, <1>10, StepCases DEF StepCase

\* A committed result is final.
THEOREM ResultsAreFinal == Spec => ResultStable
  <1>1. IInv /\ [Next]_vars =>
            [\A t \in Tasks : task[t].status = "done" =>
                /\ task'[t].status = "done"
                /\ task'[t].output = task[t].output
                /\ task'[t].attempt = task[t].attempt
                /\ task'[t].owner = task[t].owner]_vars
    BY DoneRowKept
  <1> QED
    BY <1>1, InductiveInvariant, PTL DEF Spec, ResultStable

\* Only a grant moves the attempt number of a task.
LEMMA AttemptMoves ==
    ASSUME IInv, [Next]_vars, NEW t \in Tasks,
           task'[t].attempt # task[t].attempt, task'[t].owner \in Nodes
    PROVE  Entitled(task'[t].owner, t)
  <1> USE DEF IInv
  <1>1. /\ task \in [Tasks -> TaskRow]
        /\ \A u \in Tasks : task[u] \in TaskRow
    BY DEF TypeOK
  <1>2. ~KeepingStep
    BY DEF KeepingStep, Kept
  <1>3. ASSUME NEW w \in Workers, NEW u \in Tasks, GrantStep(w, u),
               w \in Nodes => Entitled(w, u)
        PROVE  Entitled(task'[t].owner, t)
    BY <1>3 DEF GrantStep, Kept, GrantedRow
  <1>4. ASSUME NEW j \in Jobs, Submit(j)
        PROVE  FALSE
    BY <1>4 DEF Submit, RowsOfJobs, NewTask
  <1>5. ASSUME NEW j \in Jobs, task' = Closed(j)
        PROVE  FALSE
    <2>1. [task[t] EXCEPT !.status = "cancelled", !.lease = None].attempt
              = task[t].attempt
      BY <1>1 DEF TaskRow
    <2> QED
      BY <1>5, <2>1 DEF Closed
  <1>6. ASSUME NEW w \in Workers, NEW u \in Tasks, NEW k \in AttemptNos, Fail(w, u, k)
        PROVE  FALSE
    BY <1>1, <1>6 DEF Fail, TaskRow
  <1>7. ASSUME NEW w \in Workers, NEW u \in Tasks, NEW k \in AttemptNos,
               NEW grade \in Grades, Finish(w, u, k, grade)
        PROVE  FALSE
    BY <1>1, <1>7 DEF Finish, TaskRow
  <1>8. (\E j \in Jobs : Cancel(j)) => \E j \in Jobs : task' = Closed(j)
    BY DEF Cancel
  <1>9. (\E j \in Jobs, u \in Tasks : Approve(j, u)) => \E j \in Jobs : task' = Closed(j)
    BY DEF Approve
  <1> QED
    BY <1>2, <1>3, <1>4, <1>5, <1>6, <1>7, <1>8, <1>9, StepCases DEF StepCase

\* A node is only handed work it is entitled to at that moment.
THEOREM GrantsAreEntitled == Spec => NodeEntitled
  <1>1. IInv /\ [Next]_vars =>
            [\A t \in Tasks :
                task'[t].attempt # task[t].attempt /\ task'[t].owner \in Nodes =>
                    LET n == task'[t].owner
                    IN  /\ active[n]
                        /\ worker[n].silent <= HeartbeatLimit
                        /\ ~worker[n].paused
                        /\ Plan[t].capability \in engines[n]]_vars
    BY AttemptMoves DEF Entitled
  <1> QED
    BY <1>1, InductiveInvariant, PTL DEF Spec, NodeEntitled
=============================================================================
