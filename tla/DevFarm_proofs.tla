--------------------------- MODULE DevFarm_proofs ---------------------------
(***************************************************************************)
(* The development farm for every value of the constants: any recipes,     *)
(* jobs and nodes, any lease and limit of attempts, any number of faults.  *)
(* The invariant has four parts: the store, whose releases only go up      *)
(* (StoreInv), the queue (QueueInv), where the agent is (AgentInv), and    *)
(* what its outbox and its late calls may say (OutboxInv).                 *)
(***************************************************************************)
EXTENDS DevFarm, TLAPS

----------------------------------------------------------------------------
(* The invariant.                                                          *)

\* Release s may replace release r.
UpTo(r, s) == r = s \/ r.sequence < s.sequence

StoreTypes ==
    /\ builtin \in BOOLEAN
    /\ core \in 0..MaxDrift
    /\ current \in Installed \cup {None}
    /\ pending \in Installed \cup {None}
    /\ ledger \in Recipes \cup {None}
    /\ work \in Work \cup {None}

\* Signed releases go up from current.json over pending.json to the ledger.  What
\* is being verified lies where it was read, whatever pending.json holds later.
ReleasesOrdered ==
    /\ pending # None => /\ pending.release \in Recipes /\ ledger # None
                         /\ UpTo(pending.release, ledger)
    /\ Known(current) => ledger # None /\ UpTo(current.release, ledger)
    /\ Known(current) /\ pending # None => UpTo(current.release, pending.release)
    /\ builtin => pending = None /\ ~Known(current)

\* Under models.lock the files are as they were when the lock was taken.
WorkOrdered ==
    /\ work # None /\ work.op = "sync" => work.release = ledger /\ ~builtin
    /\ work # None /\ work.op \in {"verify", "activated"} =>
          /\ pending # None => work.row.release = pending.release
          /\ Known(current) => UpTo(current.release, work.row.release)
          /\ work.row.release # Bundled =>
                ~builtin /\ ledger # None /\ UpTo(work.row.release, ledger)
    /\ work # None /\ work.op = "activated" =>
          current # None /\ current.release = work.row.release

StoreInv == StoreTypes /\ ReleasesOrdered /\ WorkOrdered

QueueTypes ==
    /\ job \in [Jobs -> JobRow]
    /\ file \in [Jobs -> [Attempts -> Contents \cup {None}]]

\* A job that was submitted pins a release; one that runs is at an attempt.
RequestsPinned ==
    \A j \in Jobs : /\ job[j].state # "absent" => job[j].wants \in Wanted
                    /\ job[j].state = "running" => job[j].attempts \in Attempts

QueueInv == QueueTypes /\ RequestsPinned /\ ArtifactServed

AgentTypes ==
    /\ agent \in AgentRow
    /\ outbox \in [Jobs -> [Attempts -> Box]]
    /\ wire \subseteq Call
    /\ faults \in 0..MaxFaults

\* The agent holds an attempt while it waits for the lock or computes; of an
\* attempt it holds, the outbox knows nothing yet.
HoldsFresh ==
    /\ Holds <=> agent.at \in {"lock", "compute"}
    /\ Holds => /\ agent.attempt # None
                /\ outbox[agent.job][agent.attempt] = NoBox
                /\ agent.attempt <= job[agent.job].attempts
    /\ agent.at = "compute" => work # None /\ work.by = "agent" /\ work.op = "generate"

AgentInv == AgentTypes /\ HoldsFresh

Mine(j, k) == job[j].state = "done" /\ job[j].attempts = k /\ job[j].node = Self

\* What the outbox and the calls under way say of an attempt.
BoxSound(j, k) ==
    LET box == outbox[j][k]
    IN  /\ box # NoBox => k <= job[j].attempts
        /\ box.committed => Mine(j, k)
        /\ box.stale => ~Mine(j, k) /\ ~MayFinish(Self, j, k)
        /\ Mine(j, k) => /\ box.uploaded
                         /\ box.pending # None => job[j].output = box.pending
        /\ \A call \in wire : (call.kind = "finish" /\ call.job = j /\ call.attempt = k) =>
              /\ box.uploaded
              /\ box.pending # None => call.content = box.pending

OutboxInv == \A j \in Jobs, k \in Attempts : BoxSound(j, k)

FarmInv == StoreInv /\ QueueInv /\ AgentInv /\ OutboxInv

----------------------------------------------------------------------------
(* The store.                                                              *)

\* Where an update of a built-in profile leads.
LEMMA BuiltinSyncStore == StoreInv /\ BuiltinSync => StoreInv'
<1> SUFFICES ASSUME StoreInv, BuiltinSync PROVE StoreInv'
    OBVIOUS
<1> USE StoreAssumption DEF StoreInv, BuiltinSync, Unlocked
<1>1. Unverified(Bundled) \in Installed /\ Unverified(Bundled).release = Bundled
    BY DEF Unverified, Installed, Releases, StoreTypes
<1>2. StoreTypes'
    BY <1>1 DEF StoreTypes
<1>3. ~Known(current')
    BY <1>1 DEF ReleasesOrdered, Known
<1>4. ReleasesOrdered'
    BY <1>3 DEF ReleasesOrdered, Known
<1>5. WorkOrdered'
    BY DEF WorkOrdered
<1> QED BY <1>2, <1>4, <1>5

\* A manifest is accepted only above the ledger, or when it is the ledger's.
LEMMA SyncBeginStore ==
    ASSUME NEW recipe \in Recipes, StoreInv, SyncBegin(recipe) PROVE StoreInv'
<1> USE StoreAssumption DEF StoreInv, SyncBegin, Unlocked
<1> DEFINE w == [by |-> "operator", op |-> "sync", release |-> recipe]
<1>1. w \in Work /\ w # None /\ w.op = "sync" /\ w.release = recipe /\ work' = w
    BY DEF Work
<1> HIDE DEF w
<1>2. StoreTypes'
    BY <1>1 DEF StoreTypes
<1>3. ledger # None => UpTo(ledger, recipe)
    BY DEF Accepts, UpTo
<1>4. ledger' = recipe /\ recipe # None
    OBVIOUS
<1>5. \A r : ledger # None /\ UpTo(r, ledger) /\ r.sequence \in Nat => UpTo(r, recipe)
    BY <1>3 DEF UpTo, StoreTypes
<1>6. Known(current) => current.release \in Recipes
    BY DEF Known, StoreTypes, Installed, Releases
<1>7. ReleasesOrdered'
    BY <1>4, <1>5, <1>6 DEF ReleasesOrdered, Known
<1>8. WorkOrdered'
    BY <1>1, <1>4 DEF WorkOrdered
<1> QED BY <1>2, <1>7, <1>8

\* What is installed is the release the ledger names.
LEMMA SyncEndStore == StoreInv /\ SyncEnd => StoreInv'
<1> SUFFICES ASSUME StoreInv, SyncEnd PROVE StoreInv'
    OBVIOUS
<1> USE StoreAssumption DEF StoreInv, SyncEnd
<1>1. work.release = ledger /\ ~builtin /\ work.release \in Recipes
    BY DEF WorkOrdered, StoreTypes, Work
<1>2. /\ Unverified(work.release) \in Installed
      /\ Unverified(work.release).release = work.release
    BY <1>1 DEF Unverified, Installed, Releases, StoreTypes
<1>3. StoreTypes'
    BY <1>2 DEF StoreTypes
<1>4. ReleasesOrdered'
    BY <1>1, <1>2 DEF ReleasesOrdered, Known, UpTo
<1>5. WorkOrdered'
    BY DEF WorkOrdered
<1> QED BY <1>3, <1>4, <1>5

\* A verification takes pending.json, or what is active already.
LEMMA VerifyBeginStore ==
    ASSUME NEW by \in Processes, StoreInv, VerifyBegin(by) PROVE StoreInv'
<1> USE StoreAssumption DEF StoreInv, VerifyBegin, Unlocked
<1> DEFINE row == IF pending # None THEN pending ELSE current
           w == [by |-> by, op |-> "verify", row |-> row]
<1>1. row \in Installed
    BY DEF StoreTypes
<1>2. w \in Work /\ w # None /\ w.op = "verify" /\ w.row = row /\ work' = w
    BY <1>1 DEF Work
<1>3. StoreTypes'
    BY <1>2 DEF StoreTypes
<1>4. ReleasesOrdered'
    BY DEF ReleasesOrdered, Known
<1>5. /\ pending # None => row.release = pending.release
      /\ Known(current) => UpTo(current.release, row.release)
      /\ row.release # Bundled => ~builtin /\ ledger # None /\ UpTo(row.release, ledger)
    BY <1>1 DEF ReleasesOrdered, Known, UpTo
<1> HIDE DEF w, row
<1>6. WorkOrdered'
    BY <1>2, <1>5 DEF WorkOrdered, Known
<1> QED BY <1>3, <1>4, <1>6

\* Activation goes up, or again to the release that is active.
LEMMA VerifyActivateStore == StoreInv /\ VerifyActivate => StoreInv'
<1> SUFFICES ASSUME StoreInv, VerifyActivate PROVE StoreInv'
    OBVIOUS
<1> USE StoreAssumption DEF StoreInv, VerifyActivate
<1> DEFINE row == [work.row EXCEPT !.verified = TRUE]
           w == [work EXCEPT !.op = "activated"]
<1>1. work.row \in Installed
    BY DEF StoreTypes, Work
<1>2. row \in Installed /\ row.release = work.row.release /\ current' = row /\ row # None
    BY <1>1 DEF Installed
<1>3. w \in Work /\ w # None /\ w.op = "activated" /\ w.row = work.row /\ work' = w
    BY DEF StoreTypes, Work
<1> HIDE DEF row, w
<1>4. StoreTypes'
    BY <1>2, <1>3 DEF StoreTypes
<1>5. /\ pending # None => work.row.release = pending.release
      /\ work.row.release # Bundled => ~builtin /\ ledger # None /\ UpTo(work.row.release, ledger)
    BY DEF WorkOrdered
<1>6. ReleasesOrdered'
    BY <1>2, <1>5 DEF ReleasesOrdered, Known, UpTo
<1>7. WorkOrdered'
    BY <1>2, <1>3, <1>5 DEF WorkOrdered, Known, UpTo
<1> QED BY <1>4, <1>6, <1>7

\* The last step of a verification forgets pending.json.
LEMMA VerifyEndStore == StoreInv /\ VerifyEnd => StoreInv'
BY DEF StoreInv, VerifyEnd, StoreTypes, ReleasesOrdered, WorkOrdered, Known

\* The lock is free again, and every file as it is.
LEMMA FreedStore ==
    ASSUME StoreInv, work' = None, UNCHANGED <<builtin, core, current, pending, ledger>>
    PROVE  StoreInv'
BY DEF StoreInv, StoreTypes, ReleasesOrdered, WorkOrdered, Known

\* A generation holds the lock and reads current.json.
LEMMA GenerateStore ==
    ASSUME StoreInv, current # None,
           work' = [by |-> "agent", op |-> "generate", row |-> current],
           UNCHANGED <<builtin, core, current, pending, ledger>>
    PROVE  /\ StoreInv'
           /\ work' # None /\ work'.by = "agent" /\ work'.op = "generate"
<1>1. /\ work' \in Work /\ work' # None
      /\ work'.by = "agent" /\ work'.op = "generate"
    BY StoreAssumption DEF StoreInv, StoreTypes, Work
<1> QED BY <1>1 DEF StoreInv, StoreTypes, ReleasesOrdered, WorkOrdered, Known

\* A drift changes no file that names a release.
LEMMA DriftStore == StoreInv /\ Drift => StoreInv'
BY StoreAssumption
   DEF StoreInv, Drift, StoreTypes, ReleasesOrdered, WorkOrdered, Known

\* Nor does anything that leaves the store alone.
LEMMA SameStore == StoreInv /\ UNCHANGED storeVars => StoreInv'
BY DEF StoreInv, storeVars, StoreTypes, ReleasesOrdered, WorkOrdered, Known

\* The operator's commands keep the store, and the agent's lock its own.
LEMMA OperatorStore ==
    ASSUME StoreInv, OperatorNext
    PROVE  /\ StoreInv'
           /\ work # None /\ work.by = "agent" => work' = work
<1>1. CASE BuiltinSync
    BY <1>1, BuiltinSyncStore DEF BuiltinSync
<1>2. ASSUME NEW recipe \in Recipes, SyncBegin(recipe)
      PROVE  StoreInv' /\ (work # None /\ work.by = "agent" => work' = work)
    BY <1>2, SyncBeginStore DEF SyncBegin, Unlocked
<1>3. CASE SyncEnd
    BY <1>3, SyncEndStore DEF SyncEnd, StoreInv, StoreTypes, Work
<1>4. CASE VerifyBegin("operator")
    BY <1>4, VerifyBeginStore DEF VerifyBegin, Unlocked, Processes
<1>5. CASE work # None /\ work.by = "operator" /\ (VerifyActivate \/ VerifyEnd)
    BY <1>5, VerifyActivateStore, VerifyEndStore
<1>6. CASE Abandon("operator")
    BY <1>6, FreedStore DEF Abandon
<1>7. CASE Drift
    BY <1>7, DriftStore DEF Drift
<1> QED BY <1>1, <1>2, <1>3, <1>4, <1>5, <1>6, <1>7 DEF OperatorNext

----------------------------------------------------------------------------
(* The queue.                                                              *)

Final == {"done", "failed", "cancelled"}

\* No call takes an attempt back, reopens a job, or gives a node back what it lost.
Onward ==
    /\ \A j \in Jobs : job[j].attempts <= job'[j].attempts
    /\ \A j \in Jobs : job[j].state \in Final => job'[j] = job[j]
    /\ \A j \in Jobs, k \in Attempts :
          k <= job[j].attempts /\ MayFinish(Self, j, k)' => MayFinish(Self, j, k)

NoCommit == \A j \in Jobs : job'[j].state = "done" => job[j].state = "done"

LEMMA SameQueue ==
    QueueInv /\ UNCHANGED queueVars => QueueInv' /\ Onward /\ NoCommit
<1> SUFFICES ASSUME QueueInv, UNCHANGED queueVars PROVE QueueInv' /\ Onward /\ NoCommit
    OBVIOUS
<1>1. QueueInv'
    BY DEF queueVars, QueueInv, QueueTypes, RequestsPinned, ArtifactServed
<1>2. \A j \in Jobs : job[j].attempts \in Nat
    BY QueueAssumption DEF QueueInv, QueueTypes, JobRow
<1>3. Onward /\ NoCommit
    BY <1>2 DEF queueVars, Onward, NoCommit, MayFinish, Owns, Running
<1> QED BY <1>1, <1>3

\* What a call may make of the row of a job.
RowGoesOn(j, row) ==
    /\ job[j].state \notin Final
    /\ job[j].attempts <= row.attempts
    /\ row.wants \in Wanted
    /\ row.state = "running" => row.attempts \in Attempts
    /\ row.state = "done" => row.output # None /\ file[j][row.attempts] = row.output
    /\ \A k \in Attempts :
          (/\ k <= job[j].attempts
           /\ row.node = Self /\ row.attempts = k
           /\ row.state = "running" /\ row.left <= Lease) => MayFinish(Self, j, k)

\* A row that goes on, and all others as they are: what the queue's calls do.
LEMMA RowStep ==
    ASSUME NEW j \in Jobs, NEW row \in JobRow, QueueInv,
           job' = [job EXCEPT ![j] = row], UNCHANGED file, RowGoesOn(j, row)
    PROVE  QueueInv' /\ Onward
<1>1. job'[j] = row /\ \A i \in Jobs : i # j => job'[i] = job[i]
    BY DEF QueueInv, QueueTypes
<1>2. \A i \in Jobs : job[i].attempts \in Nat
    BY QueueAssumption DEF QueueInv, QueueTypes, JobRow
<1>3. QueueTypes'
    BY DEF QueueInv, QueueTypes
<1>4. RequestsPinned' /\ ArtifactServed'
    BY <1>1 DEF QueueInv, RequestsPinned, ArtifactServed, RowGoesOn
<1>5. Onward
    BY <1>1, <1>2 DEF Onward, RowGoesOn, MayFinish, Owns, Running
<1> QED BY <1>3, <1>4, <1>5 DEF QueueInv

\* A new job is queued.
LEMMA SubmitQueue ==
    ASSUME NEW j \in Jobs, NEW content \in Wanted, QueueInv, Submit(j, content)
    PROVE  QueueInv' /\ Onward /\ NoCommit
<1> DEFINE row == [job[j] EXCEPT !.state = "queued", !.wants = content]
<1>1. job[j] \in JobRow /\ job[j].state = "absent" /\ job[j].attempts \in Nat
    BY QueueAssumption DEF QueueInv, QueueTypes, Submit, JobRow
<1>2. /\ row \in JobRow /\ row.state = "queued" /\ row.wants = content
      /\ row.attempts = job[j].attempts
    BY <1>1 DEF JobRow
<1>3. job' = [job EXCEPT ![j] = row] /\ UNCHANGED file
    BY DEF Submit, QueueInv, QueueTypes
<1> HIDE DEF row
<1>4. RowGoesOn(j, row)
    BY <1>1, <1>2 DEF RowGoesOn, Final
<1>5. QueueInv' /\ Onward
    BY <1>2, <1>3, <1>4, RowStep
<1>6. NoCommit
    BY <1>2, <1>3 DEF NoCommit, QueueInv, QueueTypes
<1> QED BY <1>5, <1>6

\* A job that has not ended is cancelled.
LEMMA CancelQueue ==
    ASSUME NEW j \in Jobs, QueueInv, Cancel(j)
    PROVE  QueueInv' /\ Onward /\ NoCommit
<1> DEFINE row == [job[j] EXCEPT !.state = "cancelled"]
<1>1. /\ job[j] \in JobRow /\ job[j].state \in {"queued", "running"}
      /\ job[j].attempts \in Nat /\ job[j].wants \in Wanted
    BY QueueAssumption
       DEF QueueInv, QueueTypes, Cancel, Unfinished, JobRow, RequestsPinned
<1>2. /\ row \in JobRow /\ row.state = "cancelled" /\ row.wants = job[j].wants
      /\ row.attempts = job[j].attempts
    BY <1>1 DEF JobRow
<1>3. job' = [job EXCEPT ![j] = row] /\ UNCHANGED file
    BY DEF Cancel, QueueInv, QueueTypes
<1> HIDE DEF row
<1>4. RowGoesOn(j, row)
    BY <1>1, <1>2 DEF RowGoesOn, Final
<1>5. QueueInv' /\ Onward
    BY <1>2, <1>3, <1>4, RowStep
<1>6. NoCommit
    BY <1>2, <1>3 DEF NoCommit, QueueInv, QueueTypes
<1> QED BY <1>5, <1>6

\* A claim gives the job a new attempt, which nobody has worked for.
LEMMA ClaimJobQueue ==
    ASSUME NEW n \in Nodes, NEW j \in Jobs, NEW contents, QueueInv, ClaimJob(n, j, contents)
    PROVE  /\ QueueInv' /\ Onward /\ NoCommit
           /\ job'[j].attempts = job[j].attempts + 1
           /\ job'[j].attempts \in Attempts
<1> DEFINE row == [job[j] EXCEPT !.state = "running", !.node = n,
                                 !.attempts = @ + 1, !.left = Lease]
<1>1. /\ job[j] \in JobRow /\ job[j].state \in {"queued", "running"}
      /\ job[j].attempts \in Nat /\ job[j].attempts < MaxAttempts /\ job[j].wants \in Wanted
    BY QueueAssumption
       DEF QueueInv, QueueTypes, ClaimJob, Claimable, Expired, Running, JobRow, RequestsPinned
<1>2. /\ row \in JobRow /\ row.state = "running" /\ row.wants = job[j].wants
      /\ row.attempts = job[j].attempts + 1 /\ row.attempts \in Attempts
    <2>1. job[j].attempts + 1 \in 0..MaxAttempts /\ job[j].attempts + 1 \in Attempts
        BY <1>1, QueueAssumption DEF Attempts
    <2>2. Lease \in 0..Lapsed
        BY QueueAssumption DEF Lapsed
    <2>3. row \in JobRow
        BY <1>1, <2>1, <2>2 DEF JobRow
    <2>4. /\ row.state = "running" /\ row.wants = job[j].wants
          /\ row.attempts = job[j].attempts + 1
        BY <1>1 DEF JobRow
    <2> QED BY <2>1, <2>3, <2>4
<1>3. job' = [job EXCEPT ![j] = row] /\ UNCHANGED file
    BY DEF ClaimJob, QueueInv, QueueTypes
<1> HIDE DEF row
<1>4. RowGoesOn(j, row)
    BY <1>1, <1>2 DEF RowGoesOn, Final, Attempts
<1>5. QueueInv' /\ Onward
    BY <1>2, <1>3, <1>4, RowStep
<1>6. NoCommit
    BY <1>2, <1>3 DEF NoCommit, QueueInv, QueueTypes
<1> QED BY <1>2, <1>3, <1>5, <1>6 DEF QueueInv, QueueTypes

\* The cleanup ends attempts that came to nothing.
LEMMA ClaimNothingQueue ==
    ASSUME NEW n \in Nodes, NEW contents, QueueInv, ClaimNothing(n, contents)
    PROVE  QueueInv' /\ Onward /\ NoCommit
<1>1. \A j \in Jobs : /\ job[j] \in JobRow /\ job[j].attempts \in Nat
                      /\ [job[j] EXCEPT !.state = "failed"] \in JobRow
    <2> TAKE j \in Jobs
    <2>1. job[j] \in JobRow
        BY DEF QueueInv, QueueTypes
    <2>2. [job[j] EXCEPT !.state = "failed"] \in JobRow
        BY <2>1 DEF JobRow
    <2>3. job[j].attempts \in Nat
        BY <2>1, QueueAssumption DEF JobRow
    <2> QED BY <2>1, <2>2, <2>3
<1>2. \A j \in Jobs : \/ job'[j] = job[j]
                      \/ /\ job[j].state = "running" /\ job'[j].state = "failed"
                         /\ job'[j].wants = job[j].wants
                         /\ job'[j].attempts = job[j].attempts
    <2> TAKE j \in Jobs
    <2>1. \/ job'[j] = job[j]
          \/ job[j].state = "running" /\ job'[j] = [job[j] EXCEPT !.state = "failed"]
        BY DEF ClaimNothing, Expired, Running
    <2>2. LET row == [job[j] EXCEPT !.state = "failed"]
          IN  row.state = "failed" /\ row.wants = job[j].wants /\ row.attempts = job[j].attempts
        BY <1>1 DEF JobRow
    <2> QED BY <2>1, <2>2
<1>3. QueueTypes'
    BY <1>1 DEF ClaimNothing, QueueInv, QueueTypes
<1>4. RequestsPinned' /\ ArtifactServed'
    <2>1. file' = file
        BY DEF ClaimNothing
    <2>2. \A j \in Jobs : job'[j].state = "done" => job'[j] = job[j]
        BY <1>2
    <2>3. \A j \in Jobs : /\ job'[j].wants = job[j].wants
                          /\ job[j].state = "absent" => job'[j].state = "absent"
                          /\ job'[j].state = "running" => job'[j] = job[j]
        BY <1>2
    <2> QED BY <2>1, <2>2, <2>3 DEF QueueInv, RequestsPinned, ArtifactServed
<1>5. Onward /\ NoCommit
    <2>1. \A j \in Jobs : job[j].attempts <= job'[j].attempts
        <3> TAKE j \in Jobs
        <3>1. job'[j].attempts = job[j].attempts
            BY <1>2
        <3>2. job[j].attempts \in Nat
            BY <1>1
        <3> QED BY <3>1, <3>2
    <2>2. \A j \in Jobs : job[j].state \in Final => job'[j] = job[j]
        BY <1>2 DEF Final
    <2>3. \A j \in Jobs : job'[j].state \in {"running", "done"} => job'[j] = job[j]
        BY <1>2
    <2> QED BY <2>1, <2>2, <2>3 DEF Onward, NoCommit, MayFinish, Owns, Running
<1> QED BY <1>3, <1>4, <1>5 DEF QueueInv

\* A renewal is for a lease that is still good for a finish.
LEMMA RenewQueue ==
    ASSUME NEW n \in Nodes, NEW j \in Jobs, NEW k, QueueInv, Renew(n, j, k)
    PROVE  QueueInv' /\ Onward /\ NoCommit
<1> DEFINE row == [job[j] EXCEPT !.left = Lease]
<1>1. /\ job[j] \in JobRow /\ job[j].state = "running" /\ job[j].left <= Lease
      /\ job[j].attempts \in Nat /\ job[j].attempts \in Attempts /\ job[j].wants \in Wanted
    BY QueueAssumption
       DEF QueueInv, QueueTypes, Renew, MayFinish, Running, JobRow, RequestsPinned
<1>2. /\ row \in JobRow /\ row.state = "running" /\ row.wants = job[j].wants
      /\ row.attempts = job[j].attempts /\ row.node = job[j].node
    BY <1>1, QueueAssumption DEF JobRow, Lapsed
<1>3. job' = [job EXCEPT ![j] = row] /\ UNCHANGED file
    BY DEF Renew, QueueInv, QueueTypes
<1> HIDE DEF row
<1>4. RowGoesOn(j, row)
    BY <1>1, <1>2 DEF RowGoesOn, Final, MayFinish, Owns, Running
<1>5. QueueInv' /\ Onward
    BY <1>2, <1>3, <1>4, RowStep
<1>6. NoCommit
    BY <1>2, <1>3 DEF NoCommit, QueueInv, QueueTypes
<1> QED BY <1>5, <1>6

\* An upload writes the file of a running attempt, so none that is served.
LEMMA UploadQueue ==
    ASSUME NEW n \in Nodes, NEW j \in Jobs, NEW k \in Attempts, NEW content \in Contents,
           QueueInv, Upload(n, j, k, content)
    PROVE  QueueInv' /\ Onward /\ NoCommit
<1>1. /\ job[j].state = "running"
      /\ file' = [file EXCEPT ![j][k] = content] /\ job' = job
    BY DEF Upload, MayUpload, MayFinish, Running
<1>2. QueueTypes' /\ RequestsPinned'
    BY <1>1 DEF QueueInv, QueueTypes, RequestsPinned
<1>3. ArtifactServed'
    BY <1>1 DEF QueueInv, QueueTypes, ArtifactServed
<1>4. Onward /\ NoCommit
    <2>1. \A i \in Jobs : job[i].attempts \in Nat
        BY QueueAssumption DEF QueueInv, QueueTypes, JobRow
    <2> QED BY <1>1, <2>1 DEF Onward, NoCommit, MayFinish, Owns, Running
<1> QED BY <1>2, <1>3, <1>4 DEF QueueInv

\* A finish names what the file of its own attempt holds.
LEMMA FinishQueue ==
    ASSUME NEW n \in Nodes, NEW j \in Jobs, NEW k \in Attempts, NEW content \in Contents,
           QueueInv, Finish(n, j, k, content)
    PROVE  /\ QueueInv' /\ Onward
           /\ MayFinish(n, j, k)
           /\ \A i \in Jobs : i # j => job'[i] = job[i]
           /\ job'[j].state = "done" /\ job'[j].output = content
           /\ job'[j].node = n /\ job'[j].attempts = k
<1> DEFINE row == [job[j] EXCEPT !.state = "done", !.output = content]
<1>1. /\ job[j] \in JobRow /\ job[j].state = "running" /\ job[j].attempts = k
      /\ job[j].node = n /\ job[j].attempts \in Nat /\ job[j].wants \in Wanted
      /\ file[j][k] = content
    BY QueueAssumption
       DEF QueueInv, QueueTypes, Finish, MayFinish, Owns, Running, JobRow, RequestsPinned
<1>2. /\ row \in JobRow /\ row.state = "done" /\ row.wants = job[j].wants
      /\ row.attempts = k /\ row.output = content /\ row.node = n
    BY <1>1 DEF JobRow
<1>3. job' = [job EXCEPT ![j] = row] /\ UNCHANGED file
    BY DEF Finish, QueueInv, QueueTypes
<1>4. content # None
    BY QueueAssumption
<1> HIDE DEF row
<1>5. QueueInv' /\ Onward
    <2>1. RowGoesOn(j, row)
        BY <1>1, <1>2, <1>4 DEF RowGoesOn, Final
    <2> QED BY <1>2, <1>3, <2>1, RowStep
<1>6. job'[j] = row /\ \A i \in Jobs : i # j => job'[i] = job[i]
    BY <1>3 DEF QueueInv, QueueTypes
<1> QED BY <1>2, <1>5, <1>6 DEF Finish

\* An error ends the job of the attempt that runs.
LEMMA FinishErrorQueue ==
    ASSUME NEW n \in Nodes, NEW j \in Jobs, NEW k, QueueInv, FinishError(n, j, k)
    PROVE  QueueInv' /\ Onward /\ NoCommit
<1> DEFINE row == [job[j] EXCEPT !.state = "failed"]
<1>1. /\ job[j] \in JobRow /\ job[j].state = "running"
      /\ job[j].attempts \in Nat /\ job[j].wants \in Wanted
    BY QueueAssumption
       DEF QueueInv, QueueTypes, FinishError, MayFinish, Running, JobRow, RequestsPinned
<1>2. /\ row \in JobRow /\ row.state = "failed" /\ row.wants = job[j].wants
      /\ row.attempts = job[j].attempts
    BY <1>1 DEF JobRow
<1>3. job' = [job EXCEPT ![j] = row] /\ UNCHANGED file
    BY DEF FinishError, QueueInv, QueueTypes
<1> HIDE DEF row
<1>4. RowGoesOn(j, row)
    BY <1>1, <1>2 DEF RowGoesOn, Final
<1>5. QueueInv' /\ Onward
    BY <1>2, <1>3, <1>4, RowStep
<1>6. NoCommit
    BY <1>2, <1>3 DEF NoCommit, QueueInv, QueueTypes
<1> QED BY <1>5, <1>6

\* Time only takes from what a lease has left.
LEMMA TickQueue == QueueInv /\ Tick => QueueInv' /\ Onward /\ NoCommit
<1> SUFFICES ASSUME QueueInv, Tick PROVE QueueInv' /\ Onward /\ NoCommit
    OBVIOUS
<1> USE QueueAssumption
<1> DEFINE aged(j) == [job[j] EXCEPT !.left = IF @ = 0 THEN Lapsed ELSE @ - 1]
<1>1. \A j \in Jobs : job[j] \in JobRow /\ job[j].attempts \in Nat /\ job[j].left \in Nat
    BY DEF QueueInv, QueueTypes, JobRow
<1>2. \A j \in Jobs : /\ aged(j) \in JobRow
                      /\ aged(j).state = job[j].state /\ aged(j).wants = job[j].wants
                      /\ aged(j).node = job[j].node /\ aged(j).attempts = job[j].attempts
                      /\ aged(j).output = job[j].output
                      /\ aged(j).left <= Lease => job[j].left <= Lease + 1
    BY <1>1 DEF JobRow, Lapsed
<1>3. \A j \in Jobs : \/ job'[j] = job[j]
                      \/ /\ job[j].state = "running" /\ job[j].left # Lapsed
                         /\ job'[j] = aged(j)
    BY DEF Tick, Expired, Running
<1>4. \A j \in Jobs : job'[j] \in JobRow
    BY <1>1, <1>2, <1>3
<1>5. QueueTypes'
    <2>1. job' = [j \in Jobs |-> job'[j]]
        BY DEF Tick
    <2>2. job' \in [Jobs -> JobRow]
        BY <1>4, <2>1
    <2> QED BY <2>2 DEF Tick, QueueInv, QueueTypes
<1> HIDE DEF aged
<1>6. RequestsPinned' /\ ArtifactServed'
    BY <1>2, <1>3 DEF Tick, QueueInv, RequestsPinned, ArtifactServed
<1>7. Onward
    BY <1>1, <1>2, <1>3 DEF Onward, Final, MayFinish, Owns, Running, Lapsed
<1>8. NoCommit
    BY <1>2, <1>3 DEF NoCommit
<1> QED BY <1>5, <1>6, <1>7, <1>8 DEF QueueInv

----------------------------------------------------------------------------
(* What leaves the agent's side alone.                                     *)

FinishFor(call, j, k) == call.kind = "finish" /\ call.job = j /\ call.attempt = k

NoNewFinish(j, k) == \A call \in wire' : FinishFor(call, j, k) => call \in wire

\* What is said of an attempt stays true while no finish of it arrives.
LEMMA BoxKept ==
    ASSUME NEW j \in Jobs, NEW k \in Attempts, QueueInv, QueueInv', BoxSound(j, k), Onward,
           Mine(j, k)' => Mine(j, k),
           outbox'[j][k] = outbox[j][k],
           NoNewFinish(j, k)
    PROVE  BoxSound(j, k)'
<1> DEFINE box == outbox[j][k]
<1>1. Mine(j, k) => job'[j] = job[j] /\ Mine(j, k)'
    BY DEF Onward, Mine, Final
<1>2. job[j].attempts \in Nat /\ job'[j].attempts \in Nat /\ k \in Nat
    BY QueueAssumption DEF QueueInv, QueueTypes, JobRow, Attempts
<1>3. box # NoBox => k <= job'[j].attempts
    <2>1. job[j].attempts <= job'[j].attempts
        BY DEF Onward
    <2>2. box # NoBox => k <= job[j].attempts
        BY DEF BoxSound
    <2> QED BY <1>2, <2>1, <2>2
<1>4. box.committed => Mine(j, k)'
    BY <1>1 DEF BoxSound
<1>5. box.stale => ~Mine(j, k)' /\ ~MayFinish(Self, j, k)'
    <2>1. box.stale => box # NoBox
        BY DEF NoBox
    <2> QED BY <2>1 DEF BoxSound, Onward
<1>6. Mine(j, k)' => /\ box.uploaded
                     /\ box.pending # None => job'[j].output = box.pending
    BY <1>1 DEF BoxSound
<1>7. \A call \in wire' : FinishFor(call, j, k) =>
          /\ box.uploaded
          /\ box.pending # None => call.content = box.pending
    BY DEF NoNewFinish, BoxSound, FinishFor
<1> HIDE DEF box
<1> QED BY <1>3, <1>4, <1>5, <1>6, <1>7 DEF BoxSound, FinishFor, box

LEMMA OutboxStays ==
    ASSUME QueueInv, QueueInv', OutboxInv, Onward, UNCHANGED outbox,
           \A j \in Jobs, k \in Attempts : /\ Mine(j, k)' => Mine(j, k)
                                           /\ NoNewFinish(j, k)
    PROVE  OutboxInv'
<1> SUFFICES ASSUME NEW j \in Jobs, NEW k \in Attempts PROVE BoxSound(j, k)'
    BY DEF OutboxInv
<1>1. BoxSound(j, k) /\ outbox'[j][k] = outbox[j][k]
    BY DEF OutboxInv
<1> QED BY <1>1, BoxKept

\* Where nothing is committed, nothing new is the agent's.
LEMMA NoneMine ==
    ASSUME QueueInv, Onward, NoCommit
    PROVE  \A j \in Jobs, k \in Attempts : Mine(j, k)' => Mine(j, k)
BY DEF Onward, NoCommit, Mine, Final

\* The agent stays where it is and the lock it holds is its own.
LEMMA AgentStays ==
    ASSUME AgentInv, AgentTypes', QueueInv, QueueInv', Onward, UNCHANGED <<agent, outbox>>,
           agent.at = "compute" => work' = work
    PROVE  AgentInv'
<1>1. Holds => agent.attempt <= job'[agent.job].attempts
    <2> SUFFICES ASSUME Holds PROVE agent.attempt <= job'[agent.job].attempts
        OBVIOUS
    <2>1. agent.job \in Jobs /\ agent.attempt \in Attempts
        BY DEF AgentInv, AgentTypes, HoldsFresh, Holds, AgentRow
    <2>2. /\ agent.attempt \in Nat
          /\ job[agent.job].attempts \in Nat /\ job'[agent.job].attempts \in Nat
        BY <2>1, QueueAssumption DEF QueueInv, QueueTypes, JobRow, Attempts
    <2>3. agent.attempt <= job[agent.job].attempts
        BY DEF AgentInv, HoldsFresh
    <2>4. job[agent.job].attempts <= job'[agent.job].attempts
        BY <2>1 DEF Onward
    <2> QED BY <2>2, <2>3, <2>4
<1>2. HoldsFresh'
    BY <1>1 DEF AgentInv, HoldsFresh, Holds
<1> QED BY <1>2 DEF AgentInv

\* Away from the lock and the model the agent holds nothing.
LEMMA AgentRests ==
    ASSUME AgentTypes', agent'.job = None, agent'.at \notin {"lock", "compute"}
    PROVE  AgentInv'
BY DEF AgentInv, HoldsFresh, Holds

\* Steps of others: the operator, rivals, callers, time.
LEMMA OthersKeep ==
    ASSUME FarmInv, StoreInv', QueueInv', Onward, UNCHANGED agentVars,
           agent.at = "compute" => work' = work,
           \A j \in Jobs, k \in Attempts : Mine(j, k)' => Mine(j, k)
    PROVE  FarmInv'
<1>1. AgentInv'
    BY AgentStays DEF FarmInv, AgentInv, AgentTypes, agentVars
<1>2. OutboxInv'
    <2>1. UNCHANGED outbox /\ \A j \in Jobs, k \in Attempts : NoNewFinish(j, k)
        BY DEF NoNewFinish, agentVars
    <2> QED BY <2>1, OutboxStays DEF FarmInv
<1> QED BY <1>1, <1>2 DEF FarmInv

\* The operator cannot take the lock of a generation.
LEMMA OperatorKeeps ==
    ASSUME FarmInv, OperatorNext, UNCHANGED <<queueVars, agentVars>> PROVE FarmInv'
<1>1. StoreInv' /\ (agent.at = "compute" => work' = work)
    BY OperatorStore DEF FarmInv, AgentInv, HoldsFresh
<1>2. QueueInv' /\ Onward /\ NoCommit
    BY SameQueue DEF FarmInv
<1>3. \A j \in Jobs, k \in Attempts : Mine(j, k)' => Mine(j, k)
    BY <1>2, NoneMine DEF FarmInv
<1> QED BY <1>1, <1>2, <1>3, OthersKeep

\* Callers and time.
LEMMA CallersKeep ==
    ASSUME FarmInv, UNCHANGED <<storeVars, agentVars>>,
           \/ \E j \in Jobs : Cancel(j) \/ \E content \in Wanted : Submit(j, content)
           \/ Tick
    PROVE  FarmInv'
<1>1. StoreInv' /\ (agent.at = "compute" => work' = work)
    BY SameStore DEF FarmInv, storeVars
<1>2. QueueInv' /\ Onward /\ NoCommit
    BY SubmitQueue, CancelQueue, TickQueue DEF FarmInv
<1>3. \A j \in Jobs, k \in Attempts : Mine(j, k)' => Mine(j, k)
    BY <1>2, NoneMine DEF FarmInv
<1> QED BY <1>1, <1>2, <1>3, OthersKeep

\* A rival commits in its own name only.
LEMMA RivalKeeps ==
    ASSUME NEW n \in Rivals, NEW j \in Jobs, FarmInv, Rival(n, j) PROVE FarmInv'
<1> DEFINE k == job[j].attempts
           wants == job[j].wants
<1>1. n \in Nodes /\ n # Self
    BY DEF Rivals
<1>2. QueueInv
    BY DEF FarmInv
<1>3. Running(j) => wants \in Contents
    BY <1>2, QueueAssumption DEF QueueInv, RequestsPinned, Running
<1>4. QueueInv' /\ Onward /\ \A i \in Jobs, m \in Attempts : Mine(i, m)' => Mine(i, m)
    <2>1. CASE ClaimJob(n, j, Contents)
        BY <1>1, <1>2, <2>1, ClaimJobQueue, NoneMine
    <2>2. CASE ClaimNothing(n, Contents)
        BY <1>1, <1>2, <2>2, ClaimNothingQueue, NoneMine
    <2>3. CASE Renew(n, j, k)
        BY <1>1, <1>2, <2>3, RenewQueue, NoneMine
    <2>4. CASE Running(j) /\ k \in Attempts /\ Upload(n, j, k, wants)
        BY <1>1, <1>2, <1>3, <2>4, UploadQueue, NoneMine
    <2>5. CASE Running(j) /\ k \in Attempts /\ Finish(n, j, k, wants)
        <3>1. /\ QueueInv' /\ Onward /\ job'[j].node = n
              /\ \A i \in Jobs : i # j => job'[i] = job[i]
            BY <1>1, <1>2, <1>3, <2>5, FinishQueue
        <3> QED BY <1>1, <3>1 DEF Mine
    <2>6. CASE FinishError(n, j, k)
        BY <1>1, <1>2, <2>6, FinishErrorQueue, NoneMine
    <2>7. Running(j) => k \in Attempts
        BY <1>2 DEF QueueInv, RequestsPinned, Running
    <2> QED BY <2>1, <2>2, <2>3, <2>4, <2>5, <2>6, <2>7 DEF Rival
<1>5. StoreInv' /\ UNCHANGED agentVars /\ work' = work
    BY SameStore DEF FarmInv, Rival, storeVars
<1> QED BY <1>4, <1>5, OthersKeep

----------------------------------------------------------------------------
(* The agent outside its outbox.                                           *)

LEMMA GoesRow ==
    ASSUME NEW to \in At, AgentTypes, Goes(to)
    PROVE  /\ agent' \in AgentRow /\ agent'.at = to
           /\ agent'.job = agent.job /\ agent'.attempt = agent.attempt
BY DEF AgentTypes, AgentRow, Goes

LEMMA RestingRow ==
    ASSUME NEW at \in At, AgentTypes, Resting(at)
    PROVE  agent' \in AgentRow /\ agent'.at = at /\ agent'.job = None
BY DEF AgentTypes, AgentRow, Resting

LEMMA FaultCount == FarmInv /\ (Fault \/ UNCHANGED faults) => faults' \in 0..MaxFaults
BY FarmAssumption DEF FarmInv, AgentInv, AgentTypes, Fault

\* Where the agent is not at an attempt, it holds none.
LEMMA HoldsNone == FarmInv /\ agent.at \notin {"lock", "compute"} => agent.job = None
BY DEF FarmInv, AgentInv, HoldsFresh, Holds

\* A step after which the agent holds nothing, and its outbox is as it was.
LEMMA IdleStep ==
    ASSUME FarmInv, StoreInv', QueueInv', Onward,
           \A j \in Jobs, k \in Attempts : Mine(j, k)' => Mine(j, k),
           UNCHANGED outbox,
           wire' \subseteq Call, \A j \in Jobs, k \in Attempts : NoNewFinish(j, k),
           Fault \/ UNCHANGED faults,
           agent' \in AgentRow, agent'.job = None, agent'.at \notin {"lock", "compute"}
    PROVE  FarmInv'
<1>1. AgentTypes'
    BY FaultCount DEF FarmInv, AgentInv, AgentTypes
<1>2. AgentInv'
    BY <1>1, AgentRests
<1>3. OutboxInv'
    BY OutboxStays DEF FarmInv
<1> QED BY <1>2, <1>3 DEF FarmInv

\* The same, where the queue and the calls given up are as they were.
LEMMA QuietStep ==
    ASSUME FarmInv, StoreInv', UNCHANGED <<queueVars, outbox, wire>>,
           Fault \/ UNCHANGED faults,
           agent' \in AgentRow, agent'.job = None, agent'.at \notin {"lock", "compute"}
    PROVE  FarmInv'
<1>1. QueueInv' /\ Onward /\ NoCommit
    BY SameQueue DEF FarmInv
<1>2. \A j \in Jobs, k \in Attempts : (Mine(j, k)' => Mine(j, k)) /\ NoNewFinish(j, k)
    BY <1>1, NoneMine DEF FarmInv, NoNewFinish
<1>3. wire' \subseteq Call
    BY DEF FarmInv, AgentInv, AgentTypes
<1> QED BY <1>1, <1>2, <1>3, IdleStep

LEMMA StartKeeps == FarmInv /\ Start => FarmInv'
<1> SUFFICES ASSUME FarmInv, Start PROVE FarmInv'
    OBVIOUS
<1>1. StoreInv'
    BY SameStore DEF FarmInv, Start, storeVars
<1>2. agent' \in AgentRow /\ agent'.job = None /\ agent'.at = "top"
    BY GoesRow, HoldsNone DEF FarmInv, AgentInv, Start, At
<1> QED BY <1>1, <1>2, QuietStep DEF Start

LEMMA ReconcileKeeps == FarmInv /\ Reconcile => FarmInv'
<1> SUFFICES ASSUME FarmInv, Reconcile PROVE FarmInv'
    OBVIOUS
<1>1. StoreInv'
    BY SameStore, BuiltinSyncStore DEF FarmInv, Reconcile
<1>2. agent' \in AgentRow /\ agent'.job = None /\ agent'.at \in {"flush", "checking"}
    BY GoesRow, HoldsNone DEF FarmInv, AgentInv, Reconcile, At
<1> QED BY <1>1, <1>2, QuietStep DEF Reconcile

LEMMA ReconcileVerifyKeeps == FarmInv /\ ReconcileVerify => FarmInv'
<1> SUFFICES ASSUME FarmInv, ReconcileVerify PROVE FarmInv'
    OBVIOUS
<1>1. StoreInv'
    <2>1. CASE VerifyBegin("agent")
        BY <2>1, VerifyBeginStore DEF FarmInv, Processes
    <2>2. CASE VerifyActivate
        BY <2>2, VerifyActivateStore DEF FarmInv
    <2>3. CASE VerifyEnd
        BY <2>3, VerifyEndStore DEF FarmInv
    <2>4. CASE Abandon("agent")
        BY <2>4, FreedStore DEF FarmInv, Abandon
    <2>5. CASE UNCHANGED storeVars
        BY <2>5, SameStore DEF FarmInv
    <2> QED BY <2>1, <2>2, <2>3, <2>4, <2>5 DEF ReconcileVerify
<1>2. agent \in AgentRow /\ agent.at = "checking" /\ agent.job = None
    BY HoldsNone DEF FarmInv, AgentInv, AgentTypes, ReconcileVerify
<1>3. agent' = agent \/ Goes("flush") \/ Goes("down")
    BY DEF ReconcileVerify
<1>4. agent' \in AgentRow /\ agent'.job = None /\ agent'.at \in {"checking", "flush", "down"}
    BY <1>2, <1>3, GoesRow DEF FarmInv, AgentInv, At
<1> QED BY <1>1, <1>4, QuietStep DEF ReconcileVerify

LEMMA HeartbeatKeeps == FarmInv /\ Heartbeat => FarmInv'
<1> SUFFICES ASSUME FarmInv, Heartbeat PROVE FarmInv'
    OBVIOUS
<1>1. StoreInv'
    BY SameStore DEF FarmInv, Heartbeat
<1>2. agent \in AgentRow /\ agent.job = None
    BY HoldsNone DEF FarmInv, AgentInv, AgentTypes, Heartbeat
<1>3. Ready => current.release.content \in Contents
    BY StoreAssumption DEF FarmInv, StoreInv, StoreTypes, Ready, Installed, Contents
<1> DEFINE offers == IF Ready /\ Intact(current) THEN {current.release.content} ELSE {}
<1>4. offers \subseteq Contents /\ agent' = [agent EXCEPT !.at = "claim", !.offers = offers]
    BY <1>3 DEF Heartbeat
<1> HIDE DEF offers
<1>5. agent' \in AgentRow /\ agent'.job = None /\ agent'.at = "claim"
    BY <1>2, <1>4 DEF AgentRow, At
<1> QED BY <1>1, <1>5, QuietStep DEF Heartbeat

LEMMA FlushDoneKeeps == FarmInv /\ FlushDone => FarmInv'
<1> SUFFICES ASSUME FarmInv, FlushDone PROVE FarmInv'
    OBVIOUS
<1>1. StoreInv'
    BY SameStore DEF FarmInv, FlushDone
<1>2. agent' \in AgentRow /\ agent'.job = None /\ agent'.at \in {"beat", "top"}
    BY GoesRow, HoldsNone DEF FarmInv, AgentInv, FlushDone, Flushing, At
<1> QED BY <1>1, <1>2, QuietStep DEF FlushDone

LEMMA CrashKeeps == FarmInv /\ Crash => FarmInv'
<1> SUFFICES ASSUME FarmInv, Crash PROVE FarmInv'
    OBVIOUS
<1>1. StoreInv'
    BY SameStore, FreedStore DEF FarmInv, Crash, Abandon
<1>2. agent' \in AgentRow /\ agent'.job = None /\ agent'.at = "down"
    BY RestingRow DEF FarmInv, AgentInv, Crash, At
<1> QED BY <1>1, <1>2, QuietStep DEF Crash

\* The attempt of a claim is above all the outbox knows.
LEMMA AgentClaimKeeps == FarmInv /\ AgentClaim => FarmInv'
<1> SUFFICES ASSUME FarmInv, AgentClaim PROVE FarmInv'
    OBVIOUS
<1> USE FarmAssumption
<1>1. StoreInv'
    BY SameStore DEF FarmInv, AgentClaim
<1>2. CASE \/ ClaimNothing(Self, agent.offers) /\ Goes("top")
           \/ Occupied(Self) /\ Goes("top") /\ UNCHANGED queueVars
    <2>1. QueueInv' /\ Onward /\ NoCommit
        BY <1>2, SameQueue, ClaimNothingQueue DEF FarmInv
    <2>2. \A j \in Jobs, k \in Attempts : (Mine(j, k)' => Mine(j, k)) /\ NoNewFinish(j, k)
        BY <2>1, NoneMine DEF FarmInv, NoNewFinish, AgentClaim
    <2>3. agent' \in AgentRow /\ agent'.job = None /\ agent'.at = "top"
        BY <1>2, GoesRow, HoldsNone DEF FarmInv, AgentInv, AgentClaim, At
    <2>4. UNCHANGED <<outbox, wire, faults>> /\ wire' \subseteq Call
        BY DEF AgentClaim, FarmInv, AgentInv, AgentTypes
    <2> QED BY <1>1, <2>1, <2>2, <2>3, <2>4, IdleStep
<1>3. ASSUME NEW j \in Jobs, ClaimJob(Self, j, agent.offers),
             agent' = [agent EXCEPT !.at = "lock", !.job = j, !.attempt = job'[j].attempts]
      PROVE  FarmInv'
    <2> DEFINE k == job'[j].attempts
    <2>1. /\ QueueInv' /\ Onward /\ NoCommit
          /\ k = job[j].attempts + 1 /\ k \in Attempts
        BY <1>3, ClaimJobQueue DEF FarmInv
    <2>2. job[j].attempts \in Nat /\ k \in Nat
        BY <2>1, QueueAssumption DEF FarmInv, QueueInv, QueueTypes, JobRow, Attempts
    <2>3. outbox' = outbox /\ wire' = wire /\ faults' = faults
        BY DEF AgentClaim
    <2>4. outbox[j][k] = NoBox
        <3>1. outbox[j][k] # NoBox => k <= job[j].attempts
            BY <2>1 DEF FarmInv, OutboxInv, BoxSound
        <3> QED BY <2>1, <2>2, <3>1
    <2>5. /\ agent' \in AgentRow /\ agent'.at = "lock"
          /\ agent'.job = j /\ agent'.attempt = k
        BY <1>3, <2>1 DEF FarmInv, AgentInv, AgentTypes, AgentRow, At
    <2>6. j # None /\ k # None
        BY <2>1, QueueAssumption
    <2>7. k <= job'[j].attempts
        BY <2>2
    <2> HIDE DEF k
    <2>8. AgentInv'
        BY <2>3, <2>4, <2>5, <2>6, <2>7
           DEF FarmInv, AgentInv, AgentTypes, HoldsFresh, Holds
    <2>9. OutboxInv'
        <3>1. \A i \in Jobs, m \in Attempts : (Mine(i, m)' => Mine(i, m)) /\ NoNewFinish(i, m)
            BY <2>1, <2>3, NoneMine DEF FarmInv, NoNewFinish
        <3> QED BY <2>1, <2>3, <3>1, OutboxStays DEF FarmInv
    <2> QED BY <1>1, <2>1, <2>8, <2>9 DEF FarmInv
<1> QED BY <1>2, <1>3 DEF AgentClaim

LEMMA GenerateBeginKeeps == FarmInv /\ GenerateBegin => FarmInv'
<1> SUFFICES ASSUME FarmInv, GenerateBegin PROVE FarmInv'
    OBVIOUS
<1>1. StoreInv' /\ work' # None /\ work'.by = "agent" /\ work'.op = "generate"
    BY GenerateStore DEF FarmInv, GenerateBegin, Ready
<1>2. QueueInv' /\ Onward /\ NoCommit
    BY SameQueue DEF FarmInv, GenerateBegin
<1>3. /\ agent' \in AgentRow /\ agent'.at = "compute"
      /\ agent'.job = agent.job /\ agent'.attempt = agent.attempt
    BY GoesRow DEF FarmInv, AgentInv, GenerateBegin, At
<1>4. /\ Holds /\ agent.attempt # None
      /\ outbox[agent.job][agent.attempt] = NoBox
      /\ agent.attempt <= job[agent.job].attempts
    BY DEF FarmInv, AgentInv, HoldsFresh, GenerateBegin
<1>5. job' = job /\ outbox' = outbox /\ wire' = wire /\ faults' = faults
    BY DEF GenerateBegin, queueVars
<1>6. AgentInv'
    BY <1>1, <1>3, <1>4, <1>5 DEF FarmInv, AgentInv, AgentTypes, HoldsFresh, Holds
<1>7. OutboxInv'
    <2>1. \A i \in Jobs, m \in Attempts : (Mine(i, m)' => Mine(i, m)) /\ NoNewFinish(i, m)
        BY <1>2, <1>5, NoneMine DEF FarmInv, NoNewFinish
    <2> QED BY <1>2, <1>5, <2>1, OutboxStays DEF FarmInv
<1> QED BY <1>1, <1>2, <1>6, <1>7 DEF FarmInv

\* The error of an attempt is no finish of it.
LEMMA GenerateFailsKeeps == FarmInv /\ GenerateFails => FarmInv'
<1> SUFFICES ASSUME FarmInv, GenerateFails PROVE FarmInv'
    OBVIOUS
<1>1. StoreInv'
    <2>1. UNCHANGED storeVars \/ work' = None
        BY DEF GenerateFails, storeVars
    <2> QED BY <2>1, SameStore, FreedStore DEF FarmInv, GenerateFails
<1>2. agent.job \in Jobs /\ agent.attempt \in Attempts
    BY DEF FarmInv, AgentInv, AgentTypes, HoldsFresh, Holds, AgentRow, GenerateFails
<1>3. QueueInv' /\ Onward /\ NoCommit
    BY <1>2, FarmAssumption, SameQueue, FinishErrorQueue DEF FarmInv, GenerateFails
<1>4. wire' \subseteq Call /\ \A j \in Jobs, k \in Attempts : NoNewFinish(j, k)
    <2> DEFINE call == [kind |-> "error", job |-> agent.job, attempt |-> agent.attempt]
    <2>1. call \in Call /\ call.kind = "error"
        BY <1>2 DEF Call
    <2>2. wire' = wire \/ wire' = wire \cup {call}
        BY DEF GenerateFails
    <2> HIDE DEF call
    <2> QED BY <2>1, <2>2 DEF NoNewFinish, FinishFor, FarmInv, AgentInv, AgentTypes
<1>5. agent' \in AgentRow /\ agent'.job = None /\ agent'.at = "down"
    BY RestingRow DEF FarmInv, AgentInv, GenerateFails, At
<1>6. \A j \in Jobs, k \in Attempts : Mine(j, k)' => Mine(j, k)
    BY <1>3, NoneMine DEF FarmInv
<1> QED BY <1>1, <1>3, <1>4, <1>5, <1>6, IdleStep DEF GenerateFails

LEMMA RenewLeaseKeeps == FarmInv /\ RenewLease => FarmInv'
<1> SUFFICES ASSUME FarmInv, RenewLease PROVE FarmInv'
    OBVIOUS
<1>1. StoreInv' /\ work' = work
    BY SameStore DEF FarmInv, RenewLease, storeVars
<1>2. agent.job \in Jobs /\ agent.attempt \in Attempts
    BY DEF FarmInv, AgentInv, AgentTypes, HoldsFresh, Holds, AgentRow, RenewLease
<1>3. QueueInv' /\ Onward /\ NoCommit
    BY <1>2, FarmAssumption, SameQueue, RenewQueue DEF FarmInv, RenewLease
<1>4. wire' \subseteq Call /\ \A j \in Jobs, k \in Attempts : NoNewFinish(j, k)
    <2> DEFINE call == [kind |-> "renew", job |-> agent.job, attempt |-> agent.attempt]
    <2>1. call \in Call /\ call.kind = "renew"
        BY <1>2 DEF Call
    <2>2. wire' = wire \/ wire' = wire \cup {call}
        BY DEF RenewLease
    <2> HIDE DEF call
    <2> QED BY <2>1, <2>2 DEF NoNewFinish, FinishFor, FarmInv, AgentInv, AgentTypes
<1>5. UNCHANGED <<agent, outbox>> /\ AgentTypes'
    BY <1>4, FaultCount DEF RenewLease, FarmInv, AgentInv, AgentTypes
<1>6. AgentInv'
    BY <1>1, <1>3, <1>5, AgentStays DEF FarmInv
<1>7. OutboxInv'
    BY <1>3, <1>4, <1>5, NoneMine, OutboxStays DEF FarmInv
<1> QED BY <1>1, <1>3, <1>6, <1>7 DEF FarmInv

----------------------------------------------------------------------------
(* The outbox and the late calls.                                          *)

LEMMA BoxWrite ==
    ASSUME NEW j \in Jobs, NEW k \in Attempts, NEW b \in Box, AgentTypes,
           outbox' = [outbox EXCEPT ![j][k] = b]
    PROVE  /\ outbox' \in [Jobs -> [Attempts -> Box]]
           /\ outbox'[j][k] = b
           /\ \A i \in Jobs, m \in Attempts : i # j \/ m # k => outbox'[i][m] = outbox[i][m]
BY DEF AgentTypes

\* One box and what is said of it change; of the others nothing new is said.
LEMMA BoxStep ==
    ASSUME NEW j \in Jobs, NEW k \in Attempts, QueueInv, QueueInv', OutboxInv, Onward,
           BoxSound(j, k)',
           \A i \in Jobs, m \in Attempts : i # j \/ m # k =>
               /\ outbox'[i][m] = outbox[i][m]
               /\ Mine(i, m)' => Mine(i, m)
               /\ NoNewFinish(i, m)
    PROVE  OutboxInv'
<1> SUFFICES ASSUME NEW i \in Jobs, NEW m \in Attempts PROVE BoxSound(i, m)'
    BY DEF OutboxInv
<1>1. CASE i = j /\ m = k
    BY <1>1
<1>2. CASE i # j \/ m # k
    BY <1>2, BoxKept DEF OutboxInv
<1> QED BY <1>1, <1>2

\* Where the agent flushes it holds nothing, and keeps still.
LEMMA FlushingRests ==
    ASSUME FarmInv, Flushing, UNCHANGED <<agent, wire, faults>>,
           outbox' \in [Jobs -> [Attempts -> Box]]
    PROVE  AgentInv'
<1>1. AgentTypes'
    BY DEF FarmInv, AgentInv, AgentTypes
<1>2. agent'.job = None /\ agent'.at \notin {"lock", "compute"}
    BY HoldsNone DEF Flushing
<1> QED BY <1>1, <1>2, AgentRests

\* Of an answer that is only now written nothing was said.
LEMMA GenerateEndKeeps == FarmInv /\ GenerateEnd => FarmInv'
<1> SUFFICES ASSUME FarmInv, GenerateEnd PROVE FarmInv'
    OBVIOUS
<1>0. PICK j \in Jobs, k \in Attempts : j = agent.job /\ k = agent.attempt
    BY DEF FarmInv, AgentInv, AgentTypes, HoldsFresh, Holds, AgentRow, GenerateEnd
<1>1. outbox[j][k] = NoBox /\ k <= job[j].attempts
    BY <1>0 DEF FarmInv, AgentInv, HoldsFresh, GenerateEnd
<1>2. work.row.release.content \in Contents
    <2>1. work # None /\ work.op = "generate" /\ work \in Work
        BY DEF FarmInv, AgentInv, HoldsFresh, GenerateEnd, StoreInv, StoreTypes
    <2>2. work.row \in Installed
        BY <2>1 DEF Work
    <2> QED BY <2>2 DEF Installed, Contents
<1> DEFINE answer == [NoBox EXCEPT !.pending = work.row.release.content]
<1>3. PICK b \in Box : b = answer /\ ~b.uploaded /\ ~b.committed /\ ~b.stale
    <2>1. answer \in Box /\ ~answer.uploaded /\ ~answer.committed /\ ~answer.stale
        BY <1>2 DEF Box, NoBox
    <2> HIDE DEF answer
    <2> QED BY <2>1
<1>4. outbox' = [outbox EXCEPT ![j][k] = b]
    BY <1>0, <1>1, <1>3 DEF GenerateEnd, FarmInv, AgentInv, AgentTypes
<1>5. ~outbox[j][k].uploaded
    BY <1>1 DEF NoBox
<1>6. StoreInv'
    BY FreedStore DEF FarmInv, GenerateEnd
<1>7. QueueInv' /\ Onward /\ NoCommit /\ UNCHANGED <<queueVars, wire, faults>>
    BY SameQueue DEF FarmInv, GenerateEnd
<1>8. agent' \in AgentRow /\ agent'.at = "deliver" /\ agent'.job = None
    BY RestingRow DEF FarmInv, AgentInv, GenerateEnd, At
<1> HIDE DEF answer
<1>9. /\ outbox' \in [Jobs -> [Attempts -> Box]]
      /\ outbox'[j][k] = b
      /\ \A i \in Jobs, m \in Attempts : i # j \/ m # k => outbox'[i][m] = outbox[i][m]
    BY <1>1, <1>3, <1>4, BoxWrite DEF FarmInv, AgentInv
<1>10. AgentInv'
    <2>1. AgentTypes'
        BY <1>7, <1>8, <1>9 DEF FarmInv, AgentInv, AgentTypes
    <2> QED BY <1>8, <2>1, AgentRests
<1>11. ~Mine(j, k) /\ \A call \in wire : ~FinishFor(call, j, k)
    BY <1>1, <1>5 DEF FarmInv, OutboxInv, BoxSound, FinishFor
<1>12. BoxSound(j, k)'
    BY <1>1, <1>3, <1>7, <1>9, <1>11 DEF BoxSound, Mine, FinishFor, queueVars
<1>13. OutboxInv'
    <2>1. \A i \in Jobs, m \in Attempts : (Mine(i, m)' => Mine(i, m)) /\ NoNewFinish(i, m)
        BY <1>7, NoneMine DEF FarmInv, NoNewFinish
    <2> QED BY <1>1, <1>7, <1>9, <1>12, <2>1, BoxStep DEF FarmInv
<1> QED BY <1>6, <1>7, <1>10, <1>13 DEF FarmInv

\* An upload is repeated until its answer comes or the attempt is stale.
LEMMA FlushUploadKeeps ==
    ASSUME NEW j \in Jobs, NEW k \in Attempts, FarmInv, FlushUpload(j, k)
    PROVE  FarmInv'
<1> DEFINE box == outbox[j][k]
<1> USE FarmAssumption
<1>1. /\ box \in Box /\ box.pending # None /\ box.pending \in Contents
      /\ ~box.uploaded /\ ~box.committed /\ ~box.stale /\ box # NoBox
    BY DEF FarmInv, AgentInv, AgentTypes, FlushUpload, Box, NoBox
<1>2. StoreInv' /\ wire' = wire /\ Flushing
    BY SameStore DEF FarmInv, FlushUpload
<1>3. QueueInv' /\ Onward /\ NoCommit /\ job' = job
    <2>1. Upload(Self, j, k, box.pending) \/ UNCHANGED queueVars
        BY DEF FlushUpload
    <2>2. QueueInv' /\ Onward /\ NoCommit
        BY <1>1, <2>1, SameQueue, UploadQueue DEF FarmInv
    <2> QED BY <2>1, <2>2 DEF Upload, queueVars
<1>4. \A i \in Jobs, m \in Attempts : (Mine(i, m)' => Mine(i, m)) /\ NoNewFinish(i, m)
    BY <1>2, <1>3, NoneMine DEF FarmInv, NoNewFinish
<1>5. /\ ~Mine(j, k) /\ k <= job[j].attempts
      /\ \A call \in wire : ~FinishFor(call, j, k)
    BY <1>1 DEF FarmInv, OutboxInv, BoxSound, FinishFor
<1>6. CASE Fault /\ Resting("top") /\ UNCHANGED outbox
    <2>1. agent' \in AgentRow /\ agent'.at = "top" /\ agent'.job = None
        BY <1>6, RestingRow DEF FarmInv, AgentInv, At
    <2>2. wire' \subseteq Call
        BY <1>2 DEF FarmInv, AgentInv, AgentTypes
    <2> QED BY <1>2, <1>3, <1>4, <1>6, <2>1, <2>2, IdleStep
<1>7. ASSUME NEW b \in Box, outbox' = [outbox EXCEPT ![j][k] = b], UNCHANGED <<agent, faults>>,
             b.pending = box.pending, ~b.committed,
             b.stale => ~MayFinish(Self, j, k)
      PROVE  FarmInv'
    <2>1. /\ outbox' \in [Jobs -> [Attempts -> Box]]
          /\ outbox'[j][k] = b
          /\ \A i \in Jobs, m \in Attempts : i # j \/ m # k => outbox'[i][m] = outbox[i][m]
        BY <1>7, BoxWrite DEF FarmInv, AgentInv
    <2>2. AgentInv'
        BY <1>2, <1>7, <2>1, FlushingRests
    <2>3. BoxSound(j, k)'
        <3>1. ~Mine(j, k)' /\ k <= job'[j].attempts /\ (b.stale => ~MayFinish(Self, j, k)')
            BY <1>3, <1>5, <1>7 DEF Mine, MayFinish, Owns, Running
        <3>2. \A call \in wire' : ~FinishFor(call, j, k)
            BY <1>2, <1>5
        <3> QED BY <1>7, <2>1, <3>1, <3>2 DEF BoxSound, FinishFor
    <2>4. OutboxInv'
        <3>1. QueueInv /\ OutboxInv
            BY DEF FarmInv
        <3> QED BY <1>3, <1>4, <2>1, <2>3, <3>1, BoxStep
    <2> QED BY <1>2, <1>3, <2>2, <2>4 DEF FarmInv
<1>8. CASE outbox' = [outbox EXCEPT ![j][k].uploaded = TRUE] /\ UNCHANGED <<agent, faults>>
    <2> DEFINE b == [box EXCEPT !.uploaded = TRUE]
    <2>1. /\ b \in Box /\ b.pending = box.pending /\ ~b.committed /\ ~b.stale
        BY <1>1 DEF Box
    <2>2. outbox' = [outbox EXCEPT ![j][k] = b]
        BY <1>8 DEF FarmInv, AgentInv, AgentTypes
    <2> HIDE DEF b, box
    <2> QED BY <1>7, <1>8, <2>1, <2>2
<1>9. CASE /\ ~MayUpload(Self, j, k) /\ UNCHANGED <<agent, faults>>
           /\ outbox' = [outbox EXCEPT ![j][k].stale = TRUE]
    <2> DEFINE b == [box EXCEPT !.stale = TRUE]
    <2>1. /\ b \in Box /\ b.pending = box.pending /\ ~b.committed
        BY <1>1 DEF Box
    <2>2. outbox' = [outbox EXCEPT ![j][k] = b]
        BY <1>9 DEF FarmInv, AgentInv, AgentTypes
    <2> HIDE DEF b, box
    <2> QED BY <1>7, <1>9, <2>1, <2>2 DEF MayUpload
<1> QED BY <1>6, <1>8, <1>9 DEF FlushUpload

\* A finish is accepted, or was; is refused as stale; or is given up.
LEMMA FlushFinishKeeps ==
    ASSUME NEW j \in Jobs, NEW k \in Attempts, FarmInv, FlushFinish(j, k)
    PROVE  FarmInv'
<1> USE FarmAssumption
<1>1. PICK box \in Box : box = outbox[j][k]
    BY DEF FarmInv, AgentInv, AgentTypes
<1>2. /\ box.pending # None /\ box.pending \in Contents
      /\ box.uploaded /\ ~box.committed /\ ~box.stale /\ box # NoBox
    BY <1>1 DEF FlushFinish, Box, NoBox
<1>3. StoreInv' /\ Flushing
    BY SameStore DEF FarmInv, FlushFinish
<1>4. /\ k <= job[j].attempts
      /\ Mine(j, k) => job[j].output = box.pending
      /\ \A call \in wire : FinishFor(call, j, k) => call.content = box.pending
    BY <1>1, <1>2 DEF FarmInv, OutboxInv, BoxSound, FinishFor
<1>5. QueueInv /\ OutboxInv
    BY DEF FarmInv
<1>6. CASE /\ \/ Finish(Self, j, k, box.pending)
              \/ Replayed(Self, j, k, box.pending) /\ UNCHANGED queueVars
           /\ outbox' = [outbox EXCEPT ![j][k].committed = TRUE]
           /\ UNCHANGED <<agent, wire, faults>>
    <2>1. /\ QueueInv' /\ Onward /\ Mine(j, k)' /\ job'[j].output = box.pending
          /\ \A i \in Jobs, m \in Attempts : i # j \/ m # k => (Mine(i, m)' => Mine(i, m))
        <3>1. CASE Finish(Self, j, k, box.pending)
            <4>1. /\ QueueInv' /\ Onward
                  /\ \A i \in Jobs : i # j => job'[i] = job[i]
                  /\ job'[j].state = "done" /\ job'[j].output = box.pending
                  /\ job'[j].node = Self /\ job'[j].attempts = k
                BY <1>2, <1>5, <3>1, FinishQueue
            <4> QED BY <4>1 DEF Mine
        <3>2. CASE Replayed(Self, j, k, box.pending) /\ UNCHANGED queueVars
            <4>1. QueueInv' /\ Onward /\ job' = job
                BY <1>5, <3>2, SameQueue DEF queueVars
            <4> QED BY <3>2, <4>1 DEF Mine, Replayed, Owns
        <3> QED BY <1>6, <3>1, <3>2
    <2>2. PICK b \in Box : /\ b = [box EXCEPT !.committed = TRUE]
                           /\ b.pending = box.pending /\ b.uploaded /\ b.committed /\ ~b.stale
        <3> DEFINE done == [box EXCEPT !.committed = TRUE]
        <3>1. /\ done \in Box /\ done.pending = box.pending
              /\ done.uploaded /\ done.committed /\ ~done.stale
            BY <1>2 DEF Box
        <3> HIDE DEF done
        <3>2. \E b \in Box : /\ b = done
                             /\ b.pending = box.pending /\ b.uploaded /\ b.committed /\ ~b.stale
            BY <3>1
        <3> QED BY <3>2 DEF done
    <2>3. outbox' = [outbox EXCEPT ![j][k] = b]
        BY <1>1, <1>6, <2>2 DEF FarmInv, AgentInv, AgentTypes
    <2>4. /\ outbox' \in [Jobs -> [Attempts -> Box]]
          /\ outbox'[j][k] = b
          /\ \A i \in Jobs, m \in Attempts : i # j \/ m # k => outbox'[i][m] = outbox[i][m]
        BY <2>3, BoxWrite DEF FarmInv, AgentInv
    <2>5. AgentInv'
        BY <1>3, <1>6, <2>4, FlushingRests
    <2>6. BoxSound(j, k)'
        <3>1. k <= job'[j].attempts
            BY <2>1, QueueAssumption DEF Mine, Attempts
        <3>2. \A call \in wire' : FinishFor(call, j, k) => call.content = box.pending
            BY <1>4, <1>6
        <3> QED BY <2>1, <2>2, <2>4, <3>1, <3>2 DEF BoxSound, FinishFor
    <2>7. OutboxInv'
        <3>1. \A i \in Jobs, m \in Attempts : NoNewFinish(i, m)
            BY <1>6 DEF NoNewFinish
        <3> QED BY <1>5, <2>1, <2>4, <2>6, <3>1, BoxStep
    <2> QED BY <1>3, <2>1, <2>5, <2>7 DEF FarmInv
<1>7. CASE /\ ~MayFinish(Self, j, k) /\ ~Replayed(Self, j, k, box.pending)
           /\ outbox' = [outbox EXCEPT ![j][k].stale = TRUE]
           /\ UNCHANGED <<queueVars, agent, wire, faults>>
    <2>1. /\ QueueInv' /\ Onward /\ NoCommit /\ job' = job
          /\ \A i \in Jobs, m \in Attempts : (Mine(i, m)' => Mine(i, m)) /\ NoNewFinish(i, m)
        BY <1>5, <1>7, SameQueue, NoneMine DEF queueVars, NoNewFinish
    <2>2. ~Mine(j, k)
        BY <1>4, <1>7 DEF Replayed, Owns, Mine
    <2>3. PICK b \in Box : /\ b = [box EXCEPT !.stale = TRUE]
                           /\ b.pending = box.pending /\ b.uploaded /\ ~b.committed
        <3> DEFINE late == [box EXCEPT !.stale = TRUE]
        <3>1. late \in Box /\ late.pending = box.pending /\ late.uploaded /\ ~late.committed
            BY <1>2 DEF Box
        <3> HIDE DEF late
        <3>2. \E b \in Box : b = late /\ b.pending = box.pending /\ b.uploaded /\ ~b.committed
            BY <3>1
        <3> QED BY <3>2 DEF late
    <2>4. outbox' = [outbox EXCEPT ![j][k] = b]
        BY <1>1, <1>7, <2>3 DEF FarmInv, AgentInv, AgentTypes
    <2>5. /\ outbox' \in [Jobs -> [Attempts -> Box]]
          /\ outbox'[j][k] = b
          /\ \A i \in Jobs, m \in Attempts : i # j \/ m # k => outbox'[i][m] = outbox[i][m]
        BY <2>4, BoxWrite DEF FarmInv, AgentInv
    <2>6. AgentInv'
        BY <1>3, <1>7, <2>5, FlushingRests
    <2>7. BoxSound(j, k)'
        <3>1. ~Mine(j, k)' /\ ~MayFinish(Self, j, k)' /\ k <= job'[j].attempts
            BY <1>4, <1>7, <2>1, <2>2 DEF Mine, MayFinish, Owns, Running
        <3>2. \A call \in wire' : FinishFor(call, j, k) => call.content = box.pending
            BY <1>4, <1>7
        <3> QED BY <2>3, <2>5, <3>1, <3>2 DEF BoxSound, FinishFor
    <2>8. OutboxInv'
        BY <1>5, <2>1, <2>5, <2>7, BoxStep
    <2> QED BY <1>3, <2>1, <2>6, <2>8 DEF FarmInv
<1>8. CASE /\ Fault
           /\ wire' = wire \cup {[kind |-> "finish", job |-> j, attempt |-> k,
                                  content |-> box.pending]}
           /\ Resting("top") /\ UNCHANGED <<queueVars, outbox>>
    <2>1. PICK call : /\ call = [kind |-> "finish", job |-> j, attempt |-> k,
                                 content |-> box.pending]
                      /\ call \in Call /\ call.kind = "finish" /\ call.job = j
                      /\ call.attempt = k /\ call.content = box.pending
        <3> DEFINE sent == [kind |-> "finish", job |-> j, attempt |-> k,
                            content |-> box.pending]
        <3>1. /\ sent \in Call /\ sent.kind = "finish" /\ sent.job = j
              /\ sent.attempt = k /\ sent.content = box.pending
            BY <1>2 DEF Call
        <3> HIDE DEF sent
        <3>2. \E call : /\ call = sent
                        /\ call \in Call /\ call.kind = "finish" /\ call.job = j
                        /\ call.attempt = k /\ call.content = box.pending
            BY <3>1
        <3> QED BY <3>2 DEF sent
    <2>2. wire' = wire \cup {call}
        BY <1>8, <2>1
    <2>3. /\ QueueInv' /\ Onward /\ NoCommit /\ job' = job /\ outbox' = outbox
          /\ \A i \in Jobs, m \in Attempts : Mine(i, m)' => Mine(i, m)
        BY <1>5, <1>8, SameQueue, NoneMine DEF queueVars
    <2>4. AgentInv'
        <3>1. agent' \in AgentRow /\ agent'.at = "top" /\ agent'.job = None
            BY <1>8, RestingRow DEF FarmInv, AgentInv, At
        <3>2. AgentTypes'
            BY <1>8, <2>1, <2>2, <2>3, <3>1, FaultCount DEF FarmInv, AgentInv, AgentTypes
        <3> QED BY <3>1, <3>2, AgentRests
    <2>5. BoxSound(j, k)'
        <3>1. BoxSound(j, k)
            BY <1>5 DEF OutboxInv
        <3>2. \A c \in wire' : FinishFor(c, j, k) => c.content = box.pending
            BY <1>4, <2>1, <2>2
        <3>3. /\ (Mine(j, k)' <=> Mine(j, k))
              /\ (MayFinish(Self, j, k)' <=> MayFinish(Self, j, k))
              /\ job'[j] = job[j] /\ outbox'[j][k] = box
            BY <1>1, <2>3 DEF Mine, MayFinish, Owns, Running
        <3> QED BY <1>1, <1>2, <1>4, <3>1, <3>2, <3>3 DEF BoxSound, FinishFor
    <2>6. OutboxInv'
        <3>1. \A i \in Jobs, m \in Attempts : i # j \/ m # k => NoNewFinish(i, m)
            BY <2>1, <2>2 DEF NoNewFinish, FinishFor
        <3> QED BY <1>5, <2>3, <2>5, <3>1, BoxStep
    <2> QED BY <1>3, <2>3, <2>4, <2>6 DEF FarmInv
<1> QED BY <1>1, <1>6, <1>7, <1>8 DEF FlushFinish

\* What has its receipt is forgotten.
LEMMA FlushUnlinkKeeps ==
    ASSUME NEW j \in Jobs, NEW k \in Attempts, FarmInv, FlushUnlink(j, k)
    PROVE  FarmInv'
<1>1. PICK box \in Box : box = outbox[j][k]
    BY DEF FarmInv, AgentInv, AgentTypes
<1>2. box.committed \/ box.stale
    BY <1>1 DEF FlushUnlink
<1>3. PICK b \in Box : /\ b = [box EXCEPT !.pending = None] /\ b.pending = None
                       /\ b.uploaded = box.uploaded /\ b.committed = box.committed
                       /\ b.stale = box.stale
    <2> DEFINE sent == [box EXCEPT !.pending = None]
    <2>1. /\ sent \in Box /\ sent.pending = None /\ sent.uploaded = box.uploaded
          /\ sent.committed = box.committed /\ sent.stale = box.stale
        BY DEF Box
    <2> HIDE DEF sent
    <2>2. \E b \in Box : /\ b = sent /\ b.pending = None
                         /\ b.uploaded = box.uploaded /\ b.committed = box.committed
                         /\ b.stale = box.stale
        BY <2>1
    <2> QED BY <2>2 DEF sent
<1>4. outbox' = [outbox EXCEPT ![j][k] = b]
    BY <1>1, <1>3 DEF FlushUnlink, FarmInv, AgentInv, AgentTypes
<1>5. /\ outbox' \in [Jobs -> [Attempts -> Box]]
      /\ outbox'[j][k] = b
      /\ \A i \in Jobs, m \in Attempts : i # j \/ m # k => outbox'[i][m] = outbox[i][m]
    BY <1>4, BoxWrite DEF FarmInv, AgentInv
<1>6. StoreInv' /\ Flushing /\ UNCHANGED <<agent, wire, faults>>
    BY SameStore DEF FarmInv, FlushUnlink
<1>7. /\ QueueInv /\ OutboxInv /\ QueueInv' /\ Onward /\ NoCommit /\ job' = job
      /\ \A i \in Jobs, m \in Attempts : (Mine(i, m)' => Mine(i, m)) /\ NoNewFinish(i, m)
    BY SameQueue, NoneMine DEF FarmInv, FlushUnlink, queueVars, NoNewFinish
<1>8. AgentInv'
    BY <1>5, <1>6, FlushingRests
<1>9. BoxSound(j, k)'
    <2>1. BoxSound(j, k) /\ box # NoBox
        BY <1>2, <1>7 DEF OutboxInv, NoBox
    <2>2. /\ (Mine(j, k)' <=> Mine(j, k))
          /\ (MayFinish(Self, j, k)' <=> MayFinish(Self, j, k))
          /\ job'[j] = job[j] /\ wire' = wire
        BY <1>6, <1>7 DEF Mine, MayFinish, Owns, Running
    <2> QED BY <1>1, <1>3, <1>5, <2>1, <2>2 DEF BoxSound
<1>10. OutboxInv'
    BY <1>5, <1>7, <1>9, BoxStep
<1> QED BY <1>6, <1>7, <1>8, <1>10 DEF FarmInv

\* A call that was given up arrives late, and may be the finish that counts.
LEMMA ArriveKeeps ==
    ASSUME NEW call \in wire, FarmInv, Arrive(call)
    PROVE  FarmInv'
<1> USE FarmAssumption
<1>1. call \in Call
    BY DEF FarmInv, AgentInv, AgentTypes
<1>2. PICK j \in Jobs, k \in Attempts : j = call.job /\ k = call.attempt
    BY <1>1 DEF Call
<1>3. /\ StoreInv' /\ work' = work /\ UNCHANGED <<agent, outbox>>
      /\ \A i \in Jobs, m \in Attempts : NoNewFinish(i, m)
    BY SameStore DEF FarmInv, Arrive, storeVars, NoNewFinish
<1>4. AgentTypes' /\ QueueInv /\ OutboxInv
    BY <1>3 DEF FarmInv, AgentInv, AgentTypes, Arrive
<1>5. CASE call.kind # "finish" \/ UNCHANGED queueVars
    <2>1. QueueInv' /\ Onward /\ NoCommit
        <3>1. Renew(Self, j, k) \/ FinishError(Self, j, k) \/ UNCHANGED queueVars
            BY <1>2, <1>5 DEF Arrive
        <3> QED BY <1>4, <3>1, SameQueue, RenewQueue, FinishErrorQueue
    <2>2. \A i \in Jobs, m \in Attempts : Mine(i, m)' => Mine(i, m)
        BY <1>4, <2>1, NoneMine
    <2>3. AgentInv'
        BY <1>3, <1>4, <2>1, AgentStays DEF FarmInv
    <2>4. OutboxInv'
        BY <1>3, <1>4, <2>1, <2>2, OutboxStays
    <2> QED BY <1>3, <2>1, <2>3, <2>4 DEF FarmInv
<1>6. CASE call.kind = "finish" /\ Finish(Self, j, k, call.content)
    <2>1. call.content \in Contents
        BY <1>1, <1>6 DEF Call
    <2>2. /\ QueueInv' /\ Onward /\ MayFinish(Self, j, k)
          /\ \A i \in Jobs : i # j => job'[i] = job[i]
          /\ job'[j].state = "done" /\ job'[j].output = call.content
          /\ job'[j].node = Self /\ job'[j].attempts = k
        BY <1>4, <1>6, <2>1, FinishQueue
    <2>3. /\ Mine(j, k)'
          /\ \A i \in Jobs, m \in Attempts : i # j \/ m # k => (Mine(i, m)' => Mine(i, m))
        BY <2>2 DEF Mine
    <2>4. AgentInv'
        BY <1>3, <1>4, <2>2, AgentStays DEF FarmInv
    <2>5. BoxSound(j, k)'
        <3>1. BoxSound(j, k) /\ FinishFor(call, j, k)
            BY <1>2, <1>4, <1>6 DEF OutboxInv, FinishFor
        <3>2. /\ outbox[j][k].uploaded /\ ~outbox[j][k].stale
              /\ outbox[j][k].pending # None => call.content = outbox[j][k].pending
            BY <2>2, <3>1 DEF BoxSound, FinishFor
        <3>3. \A c \in wire' : FinishFor(c, j, k) =>
                  (outbox[j][k].pending # None => c.content = outbox[j][k].pending)
            BY <1>3, <3>1 DEF BoxSound, FinishFor, NoNewFinish
        <3>4. k <= job'[j].attempts /\ outbox'[j][k] = outbox[j][k]
            BY <1>3, <2>2, QueueAssumption DEF Attempts
        <3> QED BY <2>2, <2>3, <3>2, <3>3, <3>4 DEF BoxSound, FinishFor
    <2>6. OutboxInv'
        <3>1. \A i \in Jobs, m \in Attempts : outbox'[i][m] = outbox[i][m]
            BY <1>3
        <3> QED BY <1>3, <1>4, <2>2, <2>3, <2>5, <3>1, BoxStep
    <2> QED BY <1>3, <2>2, <2>4, <2>6 DEF FarmInv
<1> QED BY <1>2, <1>5, <1>6 DEF Arrive

----------------------------------------------------------------------------
(* The theorems.                                                           *)

LEMMA InitHolds == FarmInit => FarmInv
<1> SUFFICES ASSUME FarmInit PROVE FarmInv
    OBVIOUS
<1> USE StoreAssumption, QueueAssumption, FarmAssumption DEF FarmInit
<1>1. StoreInv
    BY DEF StoreInit, StoreInv, StoreTypes, ReleasesOrdered, WorkOrdered, Known
<1>2. /\ \A j \in Jobs : job[j].state = "absent"
      /\ QueueTypes
    BY DEF QueueInit, QueueTypes, JobRow, Lapsed
<1>3. QueueInv
    BY <1>2 DEF QueueInv, RequestsPinned, ArtifactServed
<1>4. NoBox \in Box
    BY DEF NoBox, Box
<1>5. AgentTypes
    <2>1. agent \in AgentRow
        BY DEF AgentRow, At
    <2> QED BY <1>4, <2>1 DEF AgentTypes
<1>6. AgentInv
    BY <1>5 DEF AgentInv, HoldsFresh, Holds
<1>7. OutboxInv
    <2> SUFFICES ASSUME NEW j \in Jobs, NEW k \in Attempts PROVE BoxSound(j, k)
        BY DEF OutboxInv
    <2>1. outbox[j][k] = NoBox /\ wire = {} /\ ~Mine(j, k)
        BY <1>2 DEF Mine
    <2> QED BY <2>1 DEF BoxSound, NoBox
<1> QED BY <1>1, <1>3, <1>6, <1>7 DEF FarmInv

LEMMA StutterKeeps == FarmInv /\ UNCHANGED farmVars => FarmInv'
<1> SUFFICES ASSUME FarmInv, UNCHANGED farmVars PROVE FarmInv'
    OBVIOUS
<1>1. StoreInv' /\ UNCHANGED agentVars /\ work' = work
    BY SameStore DEF FarmInv, farmVars, storeVars
<1>2. QueueInv' /\ Onward /\ NoCommit
    BY SameQueue DEF FarmInv, farmVars
<1>3. \A j \in Jobs, k \in Attempts : Mine(j, k)' => Mine(j, k)
    BY <1>2, NoneMine DEF FarmInv
<1> QED BY <1>1, <1>2, <1>3, OthersKeep

LEMMA StepKeeps == FarmInv /\ [FarmNext]_farmVars => FarmInv'
<1> SUFFICES ASSUME FarmInv, [FarmNext]_farmVars PROVE FarmInv'
    OBVIOUS
<1>1. CASE OperatorNext /\ UNCHANGED <<queueVars, agentVars>>
    BY <1>1, OperatorKeeps
<1>2. CASE AgentStep
    <2>1. ASSUME NEW j \in Jobs, NEW k \in Attempts,
                 FlushUpload(j, k) \/ FlushFinish(j, k) \/ FlushUnlink(j, k)
          PROVE  FarmInv'
        BY <2>1, FlushUploadKeeps, FlushFinishKeeps, FlushUnlinkKeeps
    <2> QED BY <1>2, <2>1, StartKeeps, ReconcileKeeps, ReconcileVerifyKeeps,
               HeartbeatKeeps, AgentClaimKeeps, GenerateBeginKeeps, GenerateEndKeeps,
               GenerateFailsKeeps, FlushDoneKeeps DEF AgentStep
<1>3. CASE RenewLease
    BY <1>3, RenewLeaseKeeps
<1>4. CASE Crash
    BY <1>4, CrashKeeps
<1>5. CASE \E call \in wire : Arrive(call)
    BY <1>5, ArriveKeeps
<1>6. CASE \E n \in Rivals, j \in Jobs : Rival(n, j)
    BY <1>6, RivalKeeps
<1>7. CASE /\ \/ \E j \in Jobs : Cancel(j) \/ \E content \in Wanted : Submit(j, content)
              \/ Tick
           /\ UNCHANGED <<storeVars, agentVars>>
    BY <1>7, CallersKeep
<1>8. CASE UNCHANGED farmVars
    BY <1>8, StutterKeeps
<1> QED BY <1>1, <1>2, <1>3, <1>4, <1>5, <1>6, <1>7, <1>8 DEF FarmNext

\* The invariant holds in every reachable state of the development farm.
THEOREM FarmInvariant == FarmSpec => []FarmInv
BY InitHolds, StepKeeps, PTL DEF FarmSpec

\* Every variable of the store, the queue and the agent keeps its type.
THEOREM FarmTypeCorrect == FarmSpec => []FarmTypeOK
<1>1. FarmInv => FarmTypeOK
    BY DEF FarmInv, StoreInv, StoreTypes, QueueInv, QueueTypes, AgentInv, AgentTypes, FarmTypeOK
<1> QED BY <1>1, FarmInvariant, PTL

\* What a finished job names can be downloaded: the file of the attempt that
\* finished it holds that content, whatever uploads, takeovers and late finishes
\* came before or after.
THEOREM ArtifactsAreServed == FarmSpec => []ArtifactServed
<1>1. FarmInv => ArtifactServed
    BY DEF FarmInv, QueueInv
<1> QED BY <1>1, FarmInvariant, PTL

\* committed.json stands for the result the server holds, and stale.json never
\* for one it has accepted, for any number of calls lost, repeated or late.
THEOREM ReceiptsTellTheTruth == FarmSpec => []ReceiptsAgree
<1>1. FarmInv => ReceiptsAgree
    BY DEF FarmInv, OutboxInv, BoxSound, Mine, ReceiptsAgree
<1> QED BY <1>1, FarmInvariant, PTL

\* Every step of the farm is a call of the queue, or leaves it alone.
LEMMA StepOnward == FarmInv /\ [FarmNext]_farmVars => Onward
<1> SUFFICES ASSUME FarmInv, [FarmNext]_farmVars PROVE Onward
    OBVIOUS
<1> USE FarmAssumption
<1>1. QueueInv
    BY DEF FarmInv
<1>2. CASE UNCHANGED queueVars
    BY <1>1, <1>2, SameQueue
<1>3. CASE AgentClaim
    BY <1>1, <1>2, <1>3, ClaimJobQueue, ClaimNothingQueue DEF AgentClaim
<1>4. CASE GenerateFails
    BY <1>1, <1>2, <1>4, FinishErrorQueue
       DEF GenerateFails, FarmInv, AgentInv, AgentTypes, HoldsFresh, Holds, AgentRow
<1>5. CASE RenewLease
    BY <1>1, <1>2, <1>5, RenewQueue
       DEF RenewLease, FarmInv, AgentInv, AgentTypes, Holds, AgentRow
<1>6. ASSUME NEW j \in Jobs, NEW k \in Attempts, FlushUpload(j, k) \/ FlushFinish(j, k)
      PROVE  Onward
    <2>1. outbox[j][k].pending # None => outbox[j][k].pending \in Contents
        BY DEF FarmInv, AgentInv, AgentTypes, Box
    <2>2. \/ Upload(Self, j, k, outbox[j][k].pending) /\ outbox[j][k].pending # None
          \/ Finish(Self, j, k, outbox[j][k].pending) /\ outbox[j][k].pending # None
          \/ UNCHANGED queueVars
        BY <1>6 DEF FlushUpload, FlushFinish
    <2> QED BY <1>1, <1>2, <2>1, <2>2, UploadQueue, FinishQueue
<1>7. ASSUME NEW call \in wire, Arrive(call) PROVE Onward
    <2>1. call \in Call
        BY DEF FarmInv, AgentInv, AgentTypes
    <2>2. call.job \in Jobs /\ call.attempt \in Attempts
        BY <2>1 DEF Call
    <2>3. call.kind = "finish" => call.content \in Contents
        BY <2>1 DEF Call
    <2>4. \/ Renew(Self, call.job, call.attempt)
          \/ FinishError(Self, call.job, call.attempt)
          \/ call.kind = "finish" /\ Finish(Self, call.job, call.attempt, call.content)
          \/ UNCHANGED queueVars
        BY <1>7 DEF Arrive
    <2> QED BY <1>1, <1>2, <2>2, <2>3, <2>4, RenewQueue, FinishErrorQueue, FinishQueue
<1>8. ASSUME NEW n \in Rivals, NEW j \in Jobs, Rival(n, j) PROVE Onward
    <2>1. n \in Nodes
        BY DEF Rivals
    <2>2. Running(j) => job[j].wants \in Contents /\ job[j].attempts \in Attempts
        BY <1>1, QueueAssumption DEF QueueInv, RequestsPinned, Running
    <2> QED BY <1>1, <1>8, <2>1, <2>2, ClaimJobQueue, ClaimNothingQueue, RenewQueue,
               UploadQueue, FinishQueue, FinishErrorQueue DEF Rival
<1>9. CASE \/ \E j \in Jobs : Cancel(j) \/ \E content \in Wanted : Submit(j, content)
           \/ Tick
    BY <1>1, <1>9, SubmitQueue, CancelQueue, TickQueue
<1>10. \/ UNCHANGED queueVars
       \/ AgentClaim \/ GenerateFails \/ RenewLease
       \/ \E j \in Jobs, k \in Attempts : FlushUpload(j, k) \/ FlushFinish(j, k)
       \/ \E call \in wire : Arrive(call)
       \/ \E n \in Rivals, j \in Jobs : Rival(n, j)
       \/ \E j \in Jobs : Cancel(j) \/ \E content \in Wanted : Submit(j, content)
       \/ Tick
    BY DEF FarmNext, AgentStep, Start, Reconcile, ReconcileVerify, Heartbeat, GenerateBegin,
           GenerateEnd, FlushUnlink, FlushDone, Crash, farmVars
<1> QED BY <1>2, <1>3, <1>4, <1>5, <1>6, <1>7, <1>8, <1>9, <1>10

\* A job that is done, failed or cancelled never changes again.
THEOREM FinalStaysFinal == FarmSpec => FinalIsFinal
<1>1. FarmInv /\ [FarmNext]_farmVars =>
        [\A j \in Jobs : job[j].state \in {"done", "failed", "cancelled"} =>
             job'[j] = job[j]]_queueVars
    BY StepOnward DEF Onward, Final
<1> QED BY <1>1, FarmInvariant, PTL DEF FarmSpec, FinalIsFinal

\* A step that writes current.json: an update of a built-in profile, which knows
\* no signed release, or an activation.
LEMMA StepUpwards ==
    FarmInv /\ [FarmNext]_farmVars =>
        ((Known(current) /\ Known(current')) =>
            \/ current'.release.sequence > current.release.sequence
            \/ current'.release = current.release)
<1> SUFFICES ASSUME FarmInv, [FarmNext]_farmVars, Known(current), Known(current')
             PROVE  \/ current'.release.sequence > current.release.sequence
                    \/ current'.release = current.release
    OBVIOUS
<1>1. CASE VerifyActivate
    <2>1. UpTo(current.release, work.row.release)
        BY <1>1 DEF VerifyActivate, FarmInv, StoreInv, WorkOrdered
    <2>2. work.row \in Installed
        BY <1>1 DEF VerifyActivate, FarmInv, StoreInv, StoreTypes, Work
    <2>3. current'.release = work.row.release
        BY <1>1, <2>2 DEF VerifyActivate, Installed
    <2>4. current.release \in Releases /\ work.row.release \in Releases
        BY <2>2 DEF FarmInv, StoreInv, StoreTypes, Installed, Known
    <2>5. current.release.sequence \in Nat /\ work.row.release.sequence \in Nat
        BY <2>4, StoreAssumption DEF Releases, Bundled
    <2> QED BY <2>1, <2>3, <2>5 DEF UpTo
<1>2. CASE BuiltinSync
    BY <1>2, StoreAssumption DEF BuiltinSync, FarmInv, StoreInv, ReleasesOrdered, Known
<1>3. CASE current' = current
    BY <1>3
<1>4. VerifyActivate \/ BuiltinSync \/ current' = current
    <2>1. CASE OperatorNext
        BY <2>1 DEF OperatorNext, SyncBegin, SyncEnd, VerifyBegin, VerifyEnd, Abandon, Drift
    <2>2. CASE AgentStep
        BY <2>2 DEF AgentStep, Start, Reconcile, ReconcileVerify, Heartbeat, AgentClaim,
                    GenerateBegin, GenerateEnd, GenerateFails, FlushUpload, FlushFinish,
                    FlushUnlink, FlushDone, VerifyBegin, VerifyEnd, Abandon, storeVars
    <2>3. CASE RenewLease \/ Crash \/ \E call \in wire : Arrive(call)
        BY <2>3 DEF RenewLease, Crash, Arrive, Abandon, storeVars
    <2>4. CASE \E n \in Rivals, j \in Jobs : Rival(n, j)
        BY <2>4 DEF Rival, storeVars
    <2>5. CASE UNCHANGED storeVars
        BY <2>5 DEF storeVars
    <2> QED BY <2>1, <2>2, <2>3, <2>4, <2>5 DEF FarmNext, farmVars
<1> QED BY <1>1, <1>2, <1>3, <1>4

\* Verification never brings back an older release, nor other content under the
\* sequence that is active, whoever dies between which two writes.
THEOREM ReleasesGoUp == FarmSpec => NeverDowngraded
<1>1. FarmInv /\ [FarmNext]_farmVars =>
        [(Known(current) /\ Known(current')) =>
            \/ current'.release.sequence > current.release.sequence
            \/ current'.release = current.release]_storeVars
    BY StepUpwards
<1> QED BY <1>1, FarmInvariant, PTL DEF FarmSpec, NeverDowngraded

====
