-------------------------- MODULE FarmWorker_proofs --------------------------
(***************************************************************************)
(* Theorems about FarmWorker: the worker keeps to its types and its locks, *)
(* every step of the farm is a step of the queue, so that whatever holds of *)
(* the queue holds with this worker in it, every commit was written to the *)
(* journal before, no result is lost or computed again while its task is   *)
(* unsettled, and the outbox agrees with the queue on what was committed.  *)
(***************************************************************************)
EXTENDS FarmWorker, FarmQueue_proofs

----------------------------------------------------------------------------
(* The inductive invariant, part by part.                                  *)

\* A row of the journal: what the outbox holds can be reported, and a result
\* is one that the task's executor outputs.
RowSound(t, row) ==
    /\ row \in JournalRow
    /\ row.result \in Results[t] \cup {None}
    /\ row.state = "failure_pending" => row.attempt # Offline
    /\ row.state = "pending" => row.result # None

\* A thread of a slot: it has a task when it works, and an attempt when it
\* makes a call about the task.
ThreadSound(row) ==
    /\ row \in ExecutorRow
    /\ row.pc \in {"idle", "claim", "speculate"} \/ row.task # None
    /\ row.pc \in {"load", "report", "adopt"} => row.attempt # Offline
    /\ row.pc = "record" => row.result \in Results[row.task]

\* A pass: it has a row at hand unless it is between rows.
PassSound(pass) ==
    /\ pass \in PassRow
    /\ pass.pc \in {"idle", "next"} <=> pass.task = None
    /\ pass.pc \in {"renew", "computed", "upload", "finish", "fail"}
          => pass.attempt # Offline

\* What the pass may rely on while it has a row at hand.
HandSound ==
    uploader.task # None =>
        LET row == journal[uploader.task]
        IN  /\ row.state = IF At("fail") THEN "failure_pending" ELSE "pending"
            /\ row.attempt = uploader.attempt
            /\ \A s \in Slots : uploader.task \in Locked(s) => uploader.by = s

\* A pass that an executor makes is made while the executor waits for it.
Flushing == \A s \in Slots : uploader.by = s => executor[s].pc = "flushing"

MarkersSound ==
    /\ marker \in [Tasks -> [AttemptIds -> Grades \cup {None}]]
    /\ \A t \in Tasks, k \in AttemptIds : marker[t][k] \in Results[t] \cup {None}

JournalSound ==
    /\ journal \in [Tasks -> JournalRow]
    /\ older \in [Tasks -> SUBSET Tasks]
    /\ \A t \in Tasks : RowSound(t, journal[t])

ThreadsSound ==
    /\ executor \in [Slots -> ExecutorRow]
    /\ \A s \in Slots : ThreadSound(executor[s])

LocalInv ==
    /\ JournalSound
    /\ MarkersSound
    /\ ThreadsSound
    /\ PassSound(uploader)
    /\ HandSound
    /\ Flushing
    /\ peeked \subseteq Tasks
    /\ faults \in 0..MaxFaults

\* Only threads of the worker end.
ThreadsKnown == stopped \subseteq Slots \cup {"uploader"}

FarmInv == IInv /\ LocalInv /\ ThreadsKnown

\* The invariant contains the worker's type invariant and its lock discipline.
LEMMA LocalInvImplies == LocalInv /\ ThreadsKnown => FarmTypeOK /\ RowAtHand
  BY DEF LocalInv, ThreadsKnown, FarmTypeOK, RowAtHand, JournalSound, MarkersSound, ThreadsSound,
         RowSound, ThreadSound, PassSound, HandSound

\* None is neither a task nor an attempt, and attempts are numbers.
LEMMA SmallFacts ==
    /\ None \notin Tasks
    /\ AttemptIds = 0..MaxAttempts
    /\ MaxAttempts \in Nat
    /\ \A k \in AttemptIds : k # Offline => k \in AttemptNos
    /\ "uploader" \notin Slots
    /\ Self \in Workers
    /\ Seconds \in LeaseRequests
    /\ Targets = Tasks \cup {None}
    /\ Prefetch => Self \in Members
    /\ MaxFaults \in Nat
  BY ConstantsAssumption, WorkerAssumption
     DEF ConstantsAssumption, WorkerAssumption, AttemptIds, AttemptNos, Offline, Slots,
         Workers

----------------------------------------------------------------------------
(* Writing to the journal.                                                 *)

\* Save writes one row, keeps the others, and keeps the order typed.
LEMMA SaveEffect ==
    ASSUME JournalSound, NEW t \in Tasks, NEW state, NEW attempt, NEW result,
           RowSound(t, [state |-> state, attempt |-> attempt, result |-> result]),
           Save(t, state, attempt, result)
    PROVE  /\ JournalSound'
           /\ journal'[t] = [state |-> state, attempt |-> attempt, result |-> result]
           /\ \A u \in Tasks \ {t} : journal'[u] = journal[u]
  <1> DEFINE row == [state |-> state, attempt |-> attempt, result |-> result]
  <1>1. journal' = [journal EXCEPT ![t] = row]
    BY DEF Save
  <1>2. row \in JournalRow
    BY DEF RowSound
  <1> HIDE DEF row
  <1>3. /\ journal' \in [Tasks -> JournalRow]
        /\ journal'[t] = row
        /\ \A u \in Tasks \ {t} : journal'[u] = journal[u]
    BY <1>1, <1>2 DEF JournalSound
  <1>4. older' \in [Tasks -> SUBSET Tasks]
    BY DEF Save, JournalSound, Written
  <1>5. \A u \in Tasks : RowSound(u, journal'[u])
    BY <1>3 DEF JournalSound, row
  <1> QED
    BY <1>3, <1>4, <1>5 DEF JournalSound, row

----------------------------------------------------------------------------
(* The two kinds of local steps.                                           *)

\* What a step of the thread of s does to the rest: it leaves the pass alone,
\* writes no row that the pass has at hand, and takes no lock that the pass
\* holds.
ThreadMove(s, row) ==
    /\ executor' = [executor EXCEPT ![s] = row]
    /\ ThreadSound(row)
    /\ row.pc \notin {"idle", "claim", "speculate", "start"} =>
          \/ row.task \in Locked(s)
          \/ row.task # uploader.task
    /\ uploader' = uploader
    /\ uploader.by # s
    /\ JournalSound'
    /\ uploader.task # None => journal'[uploader.task] = journal[uploader.task]
    /\ MarkersSound'
    /\ peeked' = peeked
    /\ faults' \in 0..MaxFaults

\* Such a step preserves the invariant.
LEMMA ThreadMoveKeeps ==
    ASSUME LocalInv, NEW s \in Slots, NEW row, ThreadMove(s, row)
    PROVE  LocalInv'
  <1>1. /\ executor' \in [Slots -> ExecutorRow]
        /\ executor'[s] = row
        /\ \A r \in Slots \ {s} : executor'[r] = executor[r]
    BY DEF ThreadMove, ThreadSound, LocalInv, ThreadsSound
  <1>2. ThreadsSound'
    BY <1>1 DEF ThreadMove, LocalInv, ThreadsSound
  <1>3. PassSound(uploader)'
    BY DEF ThreadMove, LocalInv
  <1>4. HandSound'
    <2> SUFFICES ASSUME uploader.task # None
                 PROVE  HandSound'
      BY DEF ThreadMove, HandSound
    <2>1. \A r \in Slots \ {s} : Locked(r)' = Locked(r)
      BY <1>1 DEF Locked
    <2>2. uploader.task \in Locked(s)' => uploader.task \in Locked(s)
      BY <1>1 DEF Locked, ThreadMove
    <2>3. \A r \in Slots : uploader.task \in Locked(r) => uploader.by = r
      BY DEF LocalInv, HandSound
    <2> QED
      BY <2>1, <2>2, <2>3 DEF ThreadMove, LocalInv, HandSound, At
  <1>5. Flushing'
    BY <1>1 DEF ThreadMove, LocalInv, Flushing
  <1> QED
    BY <1>2, <1>3, <1>4, <1>5 DEF ThreadMove, LocalInv

\* What a step of the pass does: it leaves the threads alone, and when it has
\* a row at hand afterwards, that row is as the pass takes it to be and its
\* task is locked by no one else.
PassMove(pass) ==
    /\ uploader' = pass
    /\ PassSound(pass)
    /\ pass.by \in {uploader.by, "uploader"}
    /\ executor' = executor
    /\ JournalSound'
    /\ marker' = marker
    /\ peeked' = peeked
    /\ faults' \in 0..MaxFaults
    /\ pass.task # None =>
          /\ journal'[pass.task].state =
                IF pass.pc = "fail" THEN "failure_pending" ELSE "pending"
          /\ journal'[pass.task].attempt = pass.attempt
          /\ \A s \in Slots : pass.task \in Locked(s) => pass.by = s

\* Such a step preserves the invariant.
LEMMA PassMoveKeeps ==
    ASSUME LocalInv, NEW pass, PassMove(pass)
    PROVE  LocalInv'
  <1>1. ThreadsSound' /\ MarkersSound'
    BY DEF PassMove, LocalInv, ThreadsSound, MarkersSound
  <1>2. \A s \in Slots : Locked(s)' = Locked(s)
    BY DEF PassMove, Locked
  <1>3. HandSound'
    BY <1>2 DEF PassMove, HandSound, At
  <1>4. Flushing'
    BY SmallFacts DEF PassMove, LocalInv, Flushing
  <1> QED
    BY <1>1, <1>3, <1>4 DEF PassMove, LocalInv

\* A step that leaves the worker alone.
LEMMA AwayKeeps ==
    ASSUME LocalInv, UNCHANGED <<localVars, faults>>
    PROVE  LocalInv'
  BY DEF LocalInv, localVars, JournalSound, MarkersSound, ThreadsSound, HandSound,
         Flushing, Locked, At

\* The last two rows a pass may be left with.
LEMMA NoPassSound == PassSound(NoPass) /\ NoPass.task = None /\ NoPass.by = "uploader"
  BY SmallFacts DEF PassSound, NoPass, PassRow, Offline

\* A pass that leaves a row is between rows.
LEMMA NextRowSound ==
    ASSUME LocalInv
    PROVE  LET pass == [uploader EXCEPT !.pc = "next", !.task = None,
                                        !.attempt = Offline, !.cancel = FALSE]
           IN  PassSound(pass) /\ pass.task = None /\ pass.by = uploader.by
  <1> DEFINE pass == [uploader EXCEPT !.pc = "next", !.task = None,
                                      !.attempt = Offline, !.cancel = FALSE]
  <1>1. uploader \in PassRow
    BY DEF LocalInv, PassSound
  <1>2. /\ pass \in PassRow
        /\ pass.pc = "next"
        /\ pass.task = None
        /\ pass.by = uploader.by
    BY <1>1 DEF PassRow, AttemptIds
  <1> HIDE DEF pass
  <1>3. PassSound(pass)
    BY <1>2 DEF PassSound
  <1> QED
    BY <1>2, <1>3 DEF pass

\* What an executor outputs is a grade, and a result.
LEMMA GradesAreProper ==
    ASSUME NEW t \in Tasks, NEW grade \in Results[t]
    PROVE  grade \in Grades /\ grade # None
  BY ConstantsAssumption, WorkerAssumption DEF ConstantsAssumption, WorkerAssumption

\* A pass begins between rows.
LEMMA PassIsSound ==
    ASSUME LocalInv, NEW by \in Slots \cup {"uploader"}
    PROVE  PassSound(Pass(by)) /\ Pass(by).task = None /\ Pass(by).by = by
  <1>1. Pass(by) = [pc |-> "next", by |-> by, rest |-> Entries(Outbox),
                    before |-> older, task |-> None, attempt |-> Offline,
                    cancel |-> FALSE]
    BY DEF Pass
  <1>2. Entries(Outbox) \subseteq Tasks /\ older \in [Tasks -> SUBSET Tasks]
    BY DEF Entries, LocalInv, JournalSound
  <1> QED
    BY <1>1, <1>2, SmallFacts DEF PassSound, PassRow, AttemptIds

\* Faults are counted up to their bound.
LEMMA FaultsBounded ==
    ASSUME LocalInv,
           \/ faults' = faults
           \/ faults < MaxFaults /\ faults' = faults + 1
    PROVE  faults' \in 0..MaxFaults
  BY SmallFacts DEF LocalInv

----------------------------------------------------------------------------
(* Every call of the worker is a call that the queue knows.                *)

\* A claim of the worker is a claim step of the queue.
LEMMA ClaimIsNext ==
    ASSUME NEW slot \in Slots, NEW only \in Tasks \cup {None}, CallClaim(slot, only)
    PROVE  ClaimStep(Self) /\ Next
  <1>1. ClaimStep(Self)
    BY SmallFacts DEF CallClaim, ClaimStep
  <1> QED
    BY <1>1, SmallFacts DEF Next

\* A call of the worker about an attempt is an attempt step of the queue.
LEMMA AttemptIsNext ==
    ASSUME NEW t \in Tasks, NEW k \in AttemptIds, k # Offline,
           \/ Renew(Self, t, k, Seconds)
           \/ Computed(Self, t, k)
           \/ Fail(Self, t, k)
           \/ Upload(Self, t, k)
           \/ \E grade \in Results[t] : Finish(Self, t, k, grade)
    PROVE  Next
  <1>1. k \in AttemptNos
    BY SmallFacts
  <1>2. AttemptStep(Self, t, k)
    BY SmallFacts DEF AttemptStep
  <1> QED
    BY <1>1, <1>2, SmallFacts DEF Next

\* The row at hand: its task, its attempt, and the result to publish.
LEMMA Hand ==
    ASSUME LocalInv, uploader.task # None
    PROVE  /\ uploader.task \in Tasks
           /\ uploader.attempt \in AttemptIds
           /\ journal[uploader.task].attempt = uploader.attempt
           /\ uploader.pc \in {"renew", "computed", "upload", "finish", "fail"}
                 => uploader.attempt # Offline
           /\ uploader.pc # "fail" =>
                 /\ journal[uploader.task].state = "pending"
                 /\ journal[uploader.task].result \in Results[uploader.task]
           /\ Plan[uploader.task].slot \in Slots
  <1>1. /\ uploader.task \in Tasks
        /\ uploader.attempt \in AttemptIds
        /\ uploader.pc \in {"renew", "computed", "upload", "finish", "fail"}
                 => uploader.attempt # Offline
    BY DEF LocalInv, PassSound, PassRow
  <1>2. /\ journal[uploader.task].attempt = uploader.attempt
        /\ uploader.pc # "fail" => journal[uploader.task].state = "pending"
    BY DEF LocalInv, HandSound, At
  <1>3. RowSound(uploader.task, journal[uploader.task])
    BY <1>1 DEF LocalInv, JournalSound
  <1>4. Plan[uploader.task].slot \in Slots
    BY <1>1, ConstantsAssumption DEF ConstantsAssumption, PlanRow
  <1> QED
    BY <1>1, <1>2, <1>3, <1>4 DEF RowSound

\* The call that a pass loses is a step of the queue, if it arrives.
LEMMA RowCallIsNext ==
    ASSUME LocalInv, uploader.task # None, RowCall
    PROVE  Next
  <1> DEFINE t == uploader.task
             k == uploader.attempt
  <1>1. CASE At("claim") /\ CallClaim(Plan[t].slot, t)
    BY <1>1, Hand, ClaimIsNext
  <1>2. CASE At("finish") /\ Finish(Self, t, k, journal[t].result)
    BY <1>2, Hand, AttemptIsNext DEF At
  <1>3. CASE \/ At("renew") /\ Renew(Self, t, k, Seconds)
             \/ At("computed") /\ Computed(Self, t, k)
             \/ At("upload") /\ Upload(Self, t, k)
             \/ At("fail") /\ Fail(Self, t, k)
    BY <1>3, Hand, AttemptIsNext DEF At
  <1> QED
    BY <1>1, <1>2, <1>3 DEF RowCall

\* The thread of a slot: its task, its attempt and its result.
LEMMA Thread ==
    ASSUME LocalInv, NEW s \in Slots
    PROVE  /\ executor[s] \in ExecutorRow
           /\ executor[s].attempt \in AttemptIds
           /\ executor[s].pc \notin {"idle", "claim", "speculate"}
                 => executor[s].task \in Tasks
           /\ executor[s].pc \in {"load", "report", "adopt"}
                 => executor[s].attempt # Offline
           /\ executor[s].pc = "record"
                 => executor[s].result \in Results[executor[s].task]
  BY DEF LocalInv, ThreadsSound, ThreadSound, ExecutorRow

\* What a thread of a slot does to the queue.
LEMMA ThreadStepIsQueueStep ==
    ASSUME LocalInv, NEW s \in Slots, ExecutorStep(s) \/ GuardExecution(s)
    PROVE  [Next]_vars
  <1> USE DEF queueVars
  <1>1. CASE Check(s) \/ Speculate(s) \/ Begin(s) \/ Load(s) \/ Compute(s)
             \/ Record(s) \/ FlushFailure(s) \/ FlushedFailure(s)
    BY <1>1 DEF Check, Speculate, Begin, Load, Compute, Record, FlushFailure,
                FlushedFailure
  <1>2. CASE Claim(s)
    BY <1>2, ClaimIsNext DEF Claim, ClaimRefused, Answered, Denied, Lose
  <1>3. CASE ReportComputed(s)
    BY <1>3, Thread, AttemptIsNext DEF ReportComputed, Answered, Denied, Lose
  <1>4. CASE GuardExecution(s)
    BY <1>4, Thread, AttemptIsNext DEF GuardExecution
  <1> QED
    BY <1>1, <1>2, <1>3, <1>4 DEF ExecutorStep

\* What a pass does to the queue.
LEMMA PassStepIsQueueStep ==
    ASSUME LocalInv, BeginPass \/ PassStep \/ BreakPass \/ GuardUpload
    PROVE  [Next]_vars
  <1> USE DEF queueVars
  <1>1. CASE BeginPass \/ EndPass \/ TakeRow \/ GetRow
    BY <1>1 DEF BeginPass, EndPass, TakeRow, GetRow, Answered
  <1>2. /\ At("renew") \/ At("claim") \/ At("computed") \/ At("upload")
           \/ At("finish") \/ At("fail") => uploader.task # None
        /\ uploader.pc \in {"upload", "finish"} => uploader.task # None
    BY DEF LocalInv, PassSound, At
  <1>3. CASE RenewRow
    BY <1>2, <1>3, Hand, AttemptIsNext DEF RenewRow, Answered, At
  <1>4. CASE ClaimRow
    BY <1>2, <1>4, Hand, ClaimIsNext DEF ClaimRow, ClaimRefused, Answered
  <1>5. CASE ComputedRow
    BY <1>2, <1>5, Hand, AttemptIsNext DEF ComputedRow, Answered, At
  <1>6. CASE UploadRow
    BY <1>2, <1>6, Hand, AttemptIsNext DEF UploadRow, SendRow, Answered, At
  <1>7. CASE FinishRow
    BY <1>2, <1>7, Hand, AttemptIsNext DEF FinishRow, Answered, At
  <1>8. CASE FailRow
    BY <1>2, <1>8, Hand, AttemptIsNext DEF FailRow, Answered, At
  <1>9. CASE BreakPass
    BY <1>9, RowCallIsNext DEF BreakPass, Lose, Denied
  <1>10. CASE GuardUpload
    BY <1>2, <1>10, Hand, AttemptIsNext DEF GuardUpload, Answered, Denied
  <1> QED
    BY <1>1, <1>3, <1>4, <1>5, <1>6, <1>7, <1>8, <1>9, <1>10 DEF PassStep

\* The farm does nothing that the queue does not allow.
LEMMA FarmStepIsQueueStep ==
    ASSUME LocalInv, [FarmNext]_farmVars
    PROVE  [Next]_vars
  <1>1. ASSUME NEW s \in Slots, ExecutorStep(s) \/ GuardExecution(s)
        PROVE  [Next]_vars
    BY <1>1, ThreadStepIsQueueStep
  <1>2. CASE BeginPass \/ PassStep \/ BreakPass \/ GuardUpload
    BY <1>2, PassStepIsQueueStep
  <1>3. CASE PeekWork
    BY <1>3, SmallFacts DEF PeekWork, Next
  <1>4. CASE (\E t \in Tasks : CacheRow(t)) \/ Crash
    BY <1>4 DEF CacheRow, Crash, queueVars
  <1>5. CASE Surroundings
    BY <1>5 DEF Surroundings, Next
  <1>6. CASE UNCHANGED farmVars
    BY <1>6 DEF farmVars, queueVars
  <1> QED
    BY <1>1, <1>2, <1>3, <1>4, <1>5, <1>6 DEF FarmNext

----------------------------------------------------------------------------
(* The threads of the slots preserve the invariant.                        *)

\* A task that a claim hands out has an attempt.
LEMMA HandedAttempt ==
    ASSUME IInv, ClaimStep(Self), NEW t \in Handed
    PROVE  /\ t \in Tasks
           /\ task'[t].attempt \in AttemptIds
           /\ task'[t].attempt # Offline
  <1>1. t \in Tasks /\ task'[t].attempt # task[t].attempt
    BY DEF Handed
  <1>2. ~KeepingStep
    BY <1>1 DEF KeepingStep, Kept
  <1>3. PICK u \in Tasks : GrantStep(Self, u)
    BY <1>2, ClaimCases, SmallFacts
  <1>4. t = u
    BY <1>1, <1>3 DEF GrantStep, Kept
  <1>5. task'[t].attempt = task[t].attempt + 1
    BY <1>3, <1>4 DEF GrantStep, GrantedRow
  <1>6. task[t].attempt \in 0..MaxAttempts /\ task[t].attempt < MaxAttempts
    BY <1>1, <1>3, <1>4 DEF GrantStep, IInv, TypeOK, TaskRow
  <1> QED
    BY <1>1, <1>5, <1>6, SmallFacts DEF Offline

\* A thread that does not flush is not the one that makes the pass, and does
\* not hold the lock of the row at hand.
LEMMA Apart ==
    ASSUME LocalInv, NEW s \in Slots, executor[s].pc # "flushing"
    PROVE  uploader.by # s /\ uploader.task \notin Locked(s)
  <1>1. uploader.by # s
    BY DEF LocalInv, Flushing
  <1>2. CASE uploader.task # None
    <2>1. \A r \in Slots : uploader.task \in Locked(r) => uploader.by = r
      BY <1>2 DEF LocalInv, HandSound
    <2> QED
      BY <1>1, <2>1
  <1>3. CASE uploader.task = None
    <2>1. executor[s].pc \notin {"idle", "claim", "speculate"} => executor[s].task # None
      BY Thread, SmallFacts
    <2>2. \A x \in Locked(s) : x = executor[s].task /\ executor[s].task # None
      BY <2>1 DEF Locked
    <2>3. uploader.by # s /\ uploader.task \notin Locked(s)
      BY <1>1, <1>3, <2>2
    <2> QED
      BY <2>3
  <1> QED
    BY <1>1, <1>2, <1>3

\* The part of a thread's step that is not about the thread.
Aside(s) ==
    /\ uploader' = uploader
    /\ uploader.by # s
    /\ JournalSound'
    /\ uploader.task # None => journal'[uploader.task] = journal[uploader.task]
    /\ MarkersSound'
    /\ peeked' = peeked
    /\ faults' \in 0..MaxFaults

\* A thread that comes to rest keeps the invariant.
LEMMA RestsKeeps ==
    ASSUME LocalInv, NEW s \in Slots, Rests(s), Aside(s)
    PROVE  LocalInv'
  <1>1. ThreadSound(Resting) /\ Resting.pc = "idle"
    BY SmallFacts DEF ThreadSound, Resting, ExecutorRow, Offline
  <1> QED
    BY <1>1, ThreadMoveKeeps DEF Rests, Aside, ThreadMove

\* A thread that is about to begin with a task keeps the invariant.
LEMMA StartingKeeps ==
    ASSUME LocalInv, NEW s \in Slots, NEW t \in Tasks, NEW k \in AttemptIds,
           executor' = [executor EXCEPT ![s] = Starting(t, k)], Aside(s)
    PROVE  LocalInv'
  <1>1. ThreadSound(Starting(t, k)) /\ Starting(t, k).pc = "start"
    BY SmallFacts DEF ThreadSound, Starting, ExecutorRow
  <1> QED
    BY <1>1, ThreadMoveKeeps DEF Aside, ThreadMove

\* A thread that goes on with its task keeps the invariant.
LEMMA BecomesKeeps ==
    ASSUME LocalInv, NEW s \in Slots,
           NEW pc \in {"idle", "claim", "speculate", "start", "load", "compute",
                       "report", "adopt", "flush", "flushing"},
           Becomes(s, pc), Aside(s),
           pc \in {"idle", "claim", "speculate"} \/ executor[s].task # None,
           pc \in {"load", "report", "adopt"} => executor[s].attempt # Offline,
           \/ pc \in {"idle", "claim", "speculate", "start"}
           \/ executor[s].task \in Locked(s)
           \/ executor[s].task # uploader.task
    PROVE  LocalInv'
  <1> DEFINE row == [executor[s] EXCEPT !.pc = pc]
  <1>1. executor[s] \in ExecutorRow
    BY Thread
  <1>2. executor' = [executor EXCEPT ![s] = row]
    BY DEF Becomes
  <1>3. /\ row \in ExecutorRow
        /\ row.pc = pc
        /\ row.task = executor[s].task
        /\ row.attempt = executor[s].attempt
    BY <1>1 DEF ExecutorRow
  <1> HIDE DEF row
  <1>4. ThreadSound(row)
    BY <1>3 DEF ThreadSound
  <1> QED
    BY <1>2, <1>3, <1>4, ThreadMoveKeeps DEF Aside, ThreadMove

\* Nothing but the thread changes.
LEMMA AsideUnchanged ==
    ASSUME LocalInv, NEW s \in Slots, uploader.by # s,
           UNCHANGED <<journal, older, marker, uploader, peeked>>,
           faults' \in 0..MaxFaults
    PROVE  Aside(s)
  BY DEF LocalInv, Aside, JournalSound, MarkersSound

\* The thread writes a row that the pass does not have at hand.
LEMMA AsideSave ==
    ASSUME LocalInv, NEW s \in Slots, uploader.by # s,
           NEW t \in Tasks, uploader.task # t,
           NEW state, NEW attempt, NEW result,
           RowSound(t, [state |-> state, attempt |-> attempt, result |-> result]),
           Save(t, state, attempt, result),
           UNCHANGED <<marker, uploader, peeked>>, faults' \in 0..MaxFaults
    PROVE  Aside(s)
  <1>1. uploader.task # None => uploader.task \in Tasks
    BY DEF LocalInv, PassSound, PassRow
  <1> QED
    BY <1>1, SaveEffect DEF LocalInv, Aside, MarkersSound

\* A look at whether there is room for a claim changes only the thread.
LEMMA CheckKeeps ==
    ASSUME LocalInv, NEW s \in Slots, Check(s)
    PROVE  LocalInv'
  <1>1. Aside(s)
    BY Apart, AsideUnchanged DEF Check, LocalInv
  <1> QED
    BY <1>1, BecomesKeeps DEF Check

\* Choosing a cached task offline changes only the thread.
LEMMA SpeculateKeeps ==
    ASSUME LocalInv, NEW s \in Slots, Speculate(s)
    PROVE  LocalInv'
  <1>1. Aside(s)
    BY Apart, AsideUnchanged DEF Speculate, LocalInv
  <1>2. CASE Rests(s)
    BY <1>1, <1>2, RestsKeeps
  <1>3. ASSUME NEW t \in Tasks,
               executor' = [executor EXCEPT ![s] = Starting(t, Offline)]
        PROVE  LocalInv'
    BY <1>1, <1>3, StartingKeeps DEF AttemptIds
  <1> QED
    BY <1>2, <1>3 DEF Speculate

\* A claim changes only the thread: it starts with the task handed out.
LEMMA ClaimKeeps ==
    ASSUME IInv, LocalInv, NEW s \in Slots, Claim(s)
    PROVE  LocalInv'
  <1>1. faults' \in 0..MaxFaults
    BY FaultsBounded DEF Claim, ClaimRefused, Answered, Denied, Lose
  <1>2. Aside(s)
    BY <1>1, Apart, AsideUnchanged DEF Claim
  <1>3. CASE Rests(s)
    BY <1>2, <1>3, RestsKeeps
  <1>4. CASE Becomes(s, "speculate")
    BY <1>2, <1>4, BecomesKeeps
  <1>5. ASSUME CallClaim(s, None), NEW t \in Handed,
               executor' = [executor EXCEPT ![s] = Starting(t, task'[t].attempt)]
        PROVE  LocalInv'
    <2>1. t \in Tasks /\ task'[t].attempt \in AttemptIds
      BY <1>5, ClaimIsNext, HandedAttempt
    <2> QED
      BY <1>2, <1>5, <2>1, StartingKeeps
  <1> QED
    BY <1>3, <1>4, <1>5 DEF Claim

\* A task is begun only while no pass has its row at hand.
LEMMA BeginKeeps ==
    ASSUME LocalInv, NEW s \in Slots, Begin(s)
    PROVE  LocalInv'
  <1> DEFINE t == executor[s].task
             k == executor[s].attempt
  <1>1. /\ t \in Tasks /\ t # None /\ k \in AttemptIds
        /\ uploader.task # t
        /\ uploader.by # s
        /\ UNCHANGED <<marker, uploader, peeked>>
        /\ faults' \in 0..MaxFaults
    BY Thread, Apart, SmallFacts DEF Begin, LocalInv
  <1>2. RowSound(t, journal[t])
    BY <1>1 DEF LocalInv, JournalSound
  <1>3. CASE Rests(s) /\ UNCHANGED <<journal, older>>
    BY <1>1, <1>3, AsideUnchanged, RestsKeeps
  <1>4. CASE /\ journal[t].state = "pending"
             /\ k # Offline
             /\ Becomes(s, "adopt")
             /\ Save(t, "pending", k, journal[t].result)
    <2>1. RowSound(t, [state |-> "pending", attempt |-> k,
                       result |-> journal[t].result])
      BY <1>1, <1>2, <1>4 DEF RowSound, JournalRow
    <2>2. Aside(s)
      BY <1>1, <1>4, <2>1, AsideSave
    <2> QED
      BY <1>1, <1>4, <2>2, BecomesKeeps
  <1>5. CASE /\ Becomes(s, IF k = Offline THEN "compute" ELSE "load")
             /\ Save(t, "running", k, None)
    <2>1. RowSound(t, [state |-> "running", attempt |-> k, result |-> None])
      BY <1>1 DEF RowSound, JournalRow
    <2>2. Aside(s)
      BY <1>1, <1>5, <2>1, AsideSave
    <2> QED
      BY <1>1, <1>5, <2>2, BecomesKeeps
  <1> QED
    BY <1>3, <1>4, <1>5 DEF Begin

\* A thread that computes holds its task's lock.
LEMMA AtWork ==
    ASSUME LocalInv, NEW s \in Slots,
           executor[s].pc \in {"load", "compute", "record", "report", "adopt", "flush"}
    PROVE  /\ executor[s].task \in Tasks
           /\ executor[s].task # None
           /\ executor[s].task \in Locked(s)
           /\ executor[s].task # uploader.task
           /\ uploader.by # s
  <1>1. executor[s].task \in Tasks /\ executor[s].task # None
    BY Thread, SmallFacts
  <1>2. executor[s].task \in Locked(s)
    BY DEF Locked
  <1> QED
    BY <1>1, <1>2, Apart

\* A local failure writes only the row of the thread's own task.
LEMMA FailLocallyKeeps ==
    ASSUME LocalInv, NEW s \in Slots, executor[s].pc \in {"load", "compute"},
           FailLocally(s), UNCHANGED <<marker, uploader, peeked>>,
           faults' \in 0..MaxFaults
    PROVE  LocalInv'
  <1> DEFINE t == executor[s].task
             k == executor[s].attempt
  <1>1. k \in AttemptIds
    BY Thread
  <1>2. CASE k # Offline /\ Save(t, "failure_pending", k, None) /\ Becomes(s, "flush")
    <2>1. RowSound(t, [state |-> "failure_pending", attempt |-> k, result |-> None])
      BY <1>1, <1>2 DEF RowSound, JournalRow, Outbox
    <2>2. Aside(s)
      BY <1>2, <2>1, AtWork, AsideSave
    <2> QED
      BY <1>2, <2>2, AtWork, BecomesKeeps
  <1>3. CASE Save(t, "failed", k, None) /\ Rests(s)
    <2>1. RowSound(t, [state |-> "failed", attempt |-> k, result |-> None])
      BY <1>1 DEF RowSound, JournalRow
    <2>2. Aside(s)
      BY <1>3, <2>1, AtWork, AsideSave
    <2> QED
      BY <1>3, <2>2, RestsKeeps
  <1> QED
    BY <1>2, <1>3 DEF FailLocally

\* Fetching the input writes only the row of the thread's own task.
LEMMA LoadKeeps ==
    ASSUME LocalInv, NEW s \in Slots, Load(s)
    PROVE  LocalInv'
  <1> DEFINE t == executor[s].task
             k == executor[s].attempt
  <1>1. /\ executor[s].pc = "load"
        /\ UNCHANGED <<marker, uploader, peeked>>
        /\ faults' \in 0..MaxFaults
    BY FaultsBounded DEF Load
  <1>2. CASE Becomes(s, "compute") /\ UNCHANGED <<journal, older>>
    <2>1. Aside(s)
      BY <1>1, <1>2, AtWork, AsideUnchanged
    <2> QED
      BY <1>1, <1>2, <2>1, AtWork, BecomesKeeps
  <1>3. CASE FailLocally(s)
    BY <1>1, <1>3, FailLocallyKeeps
  <1>4. CASE Save(t, "cached", k, None) /\ Rests(s)
    <2>1. RowSound(t, [state |-> "cached", attempt |-> k, result |-> None])
      BY Thread DEF RowSound, JournalRow
    <2>2. Aside(s)
      BY <1>1, <1>4, <2>1, AtWork, AsideSave
    <2> QED
      BY <1>4, <2>2, RestsKeeps
  <1> QED
    BY <1>2, <1>3, <1>4 DEF Load

\* A computation puts one of the task's results into its marker.
LEMMA ComputeKeeps ==
    ASSUME LocalInv, NEW s \in Slots, Compute(s)
    PROVE  LocalInv'
  <1> DEFINE t == executor[s].task
             k == executor[s].attempt
  <1>1. /\ executor[s].pc = "compute"
        /\ UNCHANGED <<uploader, peeked>>
        /\ faults' \in 0..MaxFaults
    BY DEF Compute, LocalInv
  <1>2. CASE FailLocally(s) /\ UNCHANGED marker
    BY <1>1, <1>2, FailLocallyKeeps
  <1>3. ASSUME NEW grade \in Results[t],
               marker' = [marker EXCEPT ![t][k] = grade],
               executor' = [executor EXCEPT ![s].pc = "record", ![s].result = grade],
               UNCHANGED <<journal, older>>
        PROVE  LocalInv'
    <2> DEFINE begun == [executor[s] EXCEPT !.pc = "record"]
               row == [begun EXCEPT !.result = grade]
    <2>1. grade \in Grades /\ t \in Tasks /\ k \in AttemptIds
      BY <1>1, AtWork, Thread, ConstantsAssumption DEF ConstantsAssumption
    <2>2. executor[s] \in ExecutorRow
      BY Thread
    <2>3. begun \in ExecutorRow /\ begun.pc = "record" /\ begun.task = t
      BY <2>2 DEF ExecutorRow
    <2>4. /\ row \in ExecutorRow
          /\ row.pc = "record"
          /\ row.task = t
          /\ row.result = grade
      <3> HIDE DEF begun
      <3> QED
        BY <2>1, <2>3 DEF ExecutorRow
    <2>5. executor' = [executor EXCEPT ![s] = row]
      BY <1>3, <2>2 DEF LocalInv, ThreadsSound
    <2>6. MarkersSound'
      BY <1>3, <2>1 DEF LocalInv, MarkersSound
    <2> HIDE DEF row
    <2>7. ThreadSound(row)
      BY <1>1, <2>1, <2>4, AtWork DEF ThreadSound
    <2>8. JournalSound'
      BY <1>3 DEF LocalInv, JournalSound
    <2> QED
      BY <1>1, <1>3, <2>4, <2>5, <2>6, <2>7, <2>8, AtWork, ThreadMoveKeeps
         DEF ThreadMove
  <1> QED
    BY <1>2, <1>3 DEF Compute

\* A recorded row holds the result that was computed.
LEMMA RecordKeeps ==
    ASSUME LocalInv, NEW s \in Slots, Record(s)
    PROVE  LocalInv'
  <1> DEFINE t == executor[s].task
             k == executor[s].attempt
             grade == executor[s].result
  <1>1. /\ executor[s].pc = "record"
        /\ k \in AttemptIds
        /\ grade \in Results[t]
        /\ grade \in Grades
        /\ grade # None
        /\ t \in Tasks
        /\ UNCHANGED <<marker, uploader, peeked>>
        /\ faults' \in 0..MaxFaults
    <2>1. executor[s].pc = "record" /\ k \in AttemptIds /\ grade \in Results[t]
      BY Thread DEF Record
    <2>2. t \in Tasks
      BY <2>1, AtWork
    <2>3. grade \in Grades /\ grade # None
      BY <2>1, <2>2, GradesAreProper
    <2> QED
      BY <2>1, <2>2, <2>3 DEF Record, LocalInv
  <1>2. RowSound(t, [state |-> "pending", attempt |-> k, result |-> grade])
    BY <1>1 DEF RowSound, JournalRow, Outbox
  <1>3. Save(t, "pending", k, grade)
    BY DEF Record
  <1>4. Aside(s)
    BY <1>1, <1>2, <1>3, AtWork, AsideSave
  <1>5. CASE Rests(s)
    BY <1>4, <1>5, RestsKeeps
  <1>6. CASE k # Offline /\ Becomes(s, "report")
    BY <1>1, <1>4, <1>6, AtWork, BecomesKeeps
  <1> QED
    BY <1>5, <1>6 DEF Record

\* Telling the queue about a computed result changes only the thread.
LEMMA ReportComputedKeeps ==
    ASSUME LocalInv, NEW s \in Slots, ReportComputed(s)
    PROVE  LocalInv'
  <1>1. faults' \in 0..MaxFaults
    BY FaultsBounded DEF ReportComputed, Answered, Denied, Lose
  <1>2. executor[s].pc \in {"report", "adopt"}
    BY DEF ReportComputed
  <1>3. Aside(s)
    BY <1>1, <1>2, AtWork, AsideUnchanged DEF ReportComputed
  <1> QED
    BY <1>3, RestsKeeps DEF ReportComputed

\* An executor that begins a pass waits for it; otherwise it comes to rest.
LEMMA FlushFailureKeeps ==
    ASSUME LocalInv, NEW s \in Slots, FlushFailure(s)
    PROVE  LocalInv'
  <1>1. executor[s].pc = "flush" /\ faults' \in 0..MaxFaults
    BY DEF FlushFailure, LocalInv
  <1>2. CASE Rests(s) /\ UNCHANGED uploader
    <2>1. Aside(s)
      BY <1>1, <1>2, AtWork, AsideUnchanged DEF FlushFailure
    <2> QED
      BY <1>2, <2>1, RestsKeeps
  <1>3. CASE uploader' = Pass(s) /\ Becomes(s, "flushing")
    <2>1. PassSound(uploader') /\ uploader'.task = None /\ uploader'.by = s
      BY <1>3, PassIsSound
    <2>2. /\ ThreadsSound'
          /\ executor'[s].pc = "flushing"
      <3> DEFINE row == [executor[s] EXCEPT !.pc = "flushing"]
      <3>1. executor[s] \in ExecutorRow /\ executor[s].task # None
        BY <1>1, Thread, AtWork
      <3>2. /\ row \in ExecutorRow
            /\ row.pc = "flushing"
            /\ row.task # None
        BY <3>1 DEF ExecutorRow
      <3>3. executor' = [executor EXCEPT ![s] = row]
        BY <1>3 DEF Becomes
      <3> HIDE DEF row
      <3>4. ThreadSound(row)
        BY <3>2 DEF ThreadSound
      <3> QED
        BY <3>2, <3>3, <3>4 DEF LocalInv, ThreadsSound
    <2>3. Flushing'
      BY <2>1, <2>2 DEF Flushing
    <2>4. JournalSound' /\ MarkersSound'
      BY DEF FlushFailure, LocalInv, JournalSound, MarkersSound
    <2>5. HandSound'
      BY <2>1 DEF HandSound
    <2> QED
      BY <1>1, <2>1, <2>2, <2>3, <2>4, <2>5 DEF FlushFailure, LocalInv
  <1> QED
    BY <1>2, <1>3 DEF FlushFailure

\* After its pass the executor comes to rest.
LEMMA FlushedFailureKeeps ==
    ASSUME LocalInv, NEW s \in Slots, FlushedFailure(s)
    PROVE  LocalInv'
  <1>1. Aside(s)
    BY AsideUnchanged DEF FlushedFailure, LocalInv
  <1> QED
    BY <1>1, RestsKeeps DEF FlushedFailure

\* Every step of a thread keeps the worker's invariant.
LEMMA ThreadStepKeeps ==
    ASSUME IInv, LocalInv, NEW s \in Slots, ExecutorStep(s) \/ GuardExecution(s)
    PROVE  LocalInv'
  <1>1. CASE GuardExecution(s)
    BY <1>1, AwayKeeps DEF GuardExecution
  <1> QED
    BY <1>1, CheckKeeps, ClaimKeeps, SpeculateKeeps, BeginKeeps, LoadKeeps,
       ComputeKeeps, RecordKeeps, ReportComputedKeeps, FlushFailureKeeps,
       FlushedFailureKeeps
       DEF ExecutorStep

----------------------------------------------------------------------------
(* The pass preserves the invariant.                                       *)

\* The part of a pass's step that is not about the pass.
Around ==
    /\ executor' = executor
    /\ JournalSound'
    /\ marker' = marker
    /\ peeked' = peeked
    /\ faults' \in 0..MaxFaults

\* A step that only moves the pass leaves the rest as it is.
LEMMA AroundUnchanged ==
    ASSUME LocalInv, UNCHANGED <<journal, older, marker, executor, peeked>>,
           faults' \in 0..MaxFaults
    PROVE  Around
  BY DEF LocalInv, Around, JournalSound

\* The pass is done with a row, or is over.
LEMMA LeaveKeeps ==
    ASSUME LocalInv, Abort \/ NextRow, Around
    PROVE  LocalInv'
  <1>1. CASE Abort
    BY <1>1, NoPassSound, PassMoveKeeps DEF Abort, Around, PassMove
  <1>2. CASE NextRow
    BY <1>2, NextRowSound, PassMoveKeeps DEF NextRow, Around, PassMove
  <1> QED
    BY <1>1, <1>2

\* The pass goes on with the row at hand.
LEMMA GoKeeps ==
    ASSUME LocalInv, uploader.task # None, uploader.pc # "fail",
           NEW pc \in {"renew", "claim", "computed", "upload", "finish"}, Go(pc),
           pc # "claim" => uploader.attempt # Offline,
           UNCHANGED <<journal, older, marker, executor, peeked>>,
           faults' \in 0..MaxFaults
    PROVE  LocalInv'
  <1> DEFINE pass == [uploader EXCEPT !.pc = pc]
  <1>1. uploader \in PassRow
    BY DEF LocalInv, PassSound
  <1>2. /\ pass \in PassRow
        /\ pass.pc = pc
        /\ pass.task = uploader.task
        /\ pass.attempt = uploader.attempt
        /\ pass.by = uploader.by
    BY <1>1 DEF PassRow
  <1>3. uploader' = pass
    BY DEF Go
  <1> HIDE DEF pass
  <1>4. PassSound(pass)
    BY <1>2 DEF PassSound
  <1>5. /\ journal[uploader.task].state = "pending"
        /\ journal[uploader.task].attempt = uploader.attempt
        /\ \A s \in Slots : uploader.task \in Locked(s) => uploader.by = s
    BY DEF LocalInv, HandSound, At
  <1>6. Around
    BY AroundUnchanged
  <1> QED
    BY <1>2, <1>3, <1>4, <1>5, <1>6, PassMoveKeeps DEF Around, PassMove

\* A pass begins between rows, whatever the threads do.
LEMMA BeginPassKeeps ==
    ASSUME LocalInv, BeginPass
    PROVE  LocalInv'
  <1>1. Around
    BY AroundUnchanged DEF BeginPass, LocalInv
  <1> QED
    BY <1>1, PassIsSound, PassMoveKeeps DEF BeginPass, Around, PassMove

\* A pass that has worked off its list ends.
LEMMA EndPassKeeps ==
    ASSUME LocalInv, EndPass
    PROVE  LocalInv'
  <1>1. Around
    BY AroundUnchanged DEF EndPass, LocalInv
  <1> QED
    BY <1>1, LeaveKeeps DEF EndPass, Abort

\* A row is taken as the journal has it, under the lock of its task.
LEMMA TakeRowKeeps ==
    ASSUME LocalInv, TakeRow
    PROVE  LocalInv'
  <1>1. Around
    BY AroundUnchanged DEF TakeRow, LocalInv
  <1>2. uploader \in PassRow /\ uploader.pc = "next" /\ uploader.task = None
    BY DEF LocalInv, PassSound, TakeRow, At
  <1>3. PICK t \in uploader.rest :
          LET left == [uploader EXCEPT !.rest = @ \ {t}]
              taken == [left EXCEPT !.task = t, !.attempt = journal[t].attempt]
          IN  /\ \A s \in Slots : t \in Locked(s) => uploader.by = s
              /\ \/ /\ journal[t].state = "pending"
                    /\ uploader' = [taken EXCEPT !.pc = "get"]
                 \/ /\ journal[t].state = "failure_pending"
                    /\ uploader' = [taken EXCEPT !.pc = "fail"]
                 \/ /\ journal[t].state \notin Outbox
                    /\ uploader' = left
    BY DEF TakeRow
  <1>4. /\ t \in Tasks
        /\ t # None
        /\ RowSound(t, journal[t])
        /\ journal[t].attempt \in AttemptIds
    BY <1>2, SmallFacts DEF PassRow, LocalInv, JournalSound, RowSound, JournalRow
  <1> DEFINE left == [uploader EXCEPT !.rest = @ \ {t}]
             located == [left EXCEPT !.task = t]
             taken == [located EXCEPT !.attempt = journal[t].attempt]
  <1>5. /\ left \in PassRow
        /\ left.pc = "next"
        /\ left.task = None
        /\ left.by = uploader.by
    BY <1>2 DEF PassRow
  <1>6. /\ taken \in PassRow
        /\ taken.task = t
        /\ taken.by = uploader.by
        /\ taken.attempt = journal[t].attempt
    <2> HIDE DEF left
    <2>1. located \in PassRow /\ located.task = t /\ located.by = uploader.by
      BY <1>4, <1>5 DEF PassRow
    <2> HIDE DEF located
    <2> QED
      BY <1>4, <2>1 DEF PassRow
  <1>7. ASSUME NEW pc \in {"get", "fail"}, uploader' = [taken EXCEPT !.pc = pc],
               journal[t].state = IF pc = "fail" THEN "failure_pending" ELSE "pending"
        PROVE  LocalInv'
    <2> DEFINE pass == [taken EXCEPT !.pc = pc]
    <2> HIDE DEF taken
    <2>1. /\ pass \in PassRow
          /\ pass.pc = pc
          /\ pass.task = t
          /\ pass.by = uploader.by
          /\ pass.attempt = journal[t].attempt
      BY <1>6 DEF PassRow
    <2> HIDE DEF pass
    <2>2. PassSound(pass)
      BY <1>4, <1>7, <2>1 DEF PassSound, RowSound
    <2>3. journal' = journal
      BY DEF TakeRow
    <2> QED
      BY <1>1, <1>3, <1>7, <2>1, <2>2, <2>3, PassMoveKeeps
         DEF Around, PassMove, pass
  <1>8. CASE uploader' = left
    <2> HIDE DEF left
    <2>1. PassSound(left)
      BY <1>5 DEF PassSound
    <2> QED
      BY <1>1, <1>5, <1>8, <2>1, PassMoveKeeps DEF Around, PassMove
  <1> QED
    BY <1>3, <1>7, <1>8

\* A pass that is at one of its calls has a row at hand.
LEMMA AtCall ==
    ASSUME LocalInv, uploader.pc \notin {"idle", "next"}
    PROVE  uploader.task # None
  BY DEF LocalInv, PassSound

\* The row at hand is written in a state that is not in the outbox.
LEMMA SettleKeeps ==
    ASSUME LocalInv, uploader.task # None,
           NEW state \in {"committed", "superseded", "failed"},
           NEW result \in {journal[uploader.task].result, None},
           Save(uploader.task, state, uploader.attempt, result), NextRow,
           UNCHANGED <<marker, executor, peeked>>, faults' \in 0..MaxFaults
    PROVE  LocalInv'
  <1> DEFINE t == uploader.task
  <1>1. t \in Tasks /\ uploader.attempt \in AttemptIds
    BY Hand
  <1>2. RowSound(t, journal[t])
    BY <1>1 DEF LocalInv, JournalSound
  <1>3. RowSound(t, [state |-> state, attempt |-> uploader.attempt, result |-> result])
    BY <1>1, <1>2 DEF RowSound, JournalRow
  <1>4. JournalSound'
    BY <1>1, <1>3, SaveEffect DEF LocalInv
  <1> QED
    BY <1>4, LeaveKeeps DEF Around

\* A settled row leaves the outbox; an unsettled one stays at hand.
LEMMA GetRowKeeps ==
    ASSUME LocalInv, GetRow
    PROVE  LocalInv'
  <1> DEFINE t == uploader.task
             k == uploader.attempt
  <1>1. uploader.pc = "get" /\ t # None /\ faults' \in 0..MaxFaults
    BY AtCall DEF GetRow, At, Answered, LocalInv
  <1>2. CASE Save(t, Verdict(t, k), k, journal[t].result) /\ NextRow
    BY <1>1, <1>2, SettleKeeps DEF GetRow, Verdict
  <1>3. CASE Go(IF k = Offline THEN "claim" ELSE "renew") /\ UNCHANGED <<journal, older>>
    BY <1>1, <1>3, GoKeeps DEF GetRow
  <1>4. CASE Abort /\ UNCHANGED <<journal, older>>
    BY <1>1, <1>4, AroundUnchanged, LeaveKeeps DEF GetRow
  <1> QED
    BY <1>2, <1>3, <1>4 DEF GetRow

\* Renewing the lease of the row at hand leaves the row as it is.
LEMMA RenewRowKeeps ==
    ASSUME LocalInv, RenewRow
    PROVE  LocalInv'
  <1>1. uploader.pc = "renew" /\ uploader.task # None /\ uploader.attempt # Offline
    BY AtCall, Hand DEF RenewRow, At
  <1>2. faults' \in 0..MaxFaults
    BY DEF RenewRow, Answered, LocalInv
  <1> QED
    BY <1>1, <1>2, GoKeeps DEF RenewRow

\* A row that is claimed again is written with its new attempt at once.
LEMMA ClaimRowKeeps ==
    ASSUME IInv, LocalInv, ClaimRow
    PROVE  LocalInv'
  <1> DEFINE t == uploader.task
  <1>1. uploader.pc = "claim" /\ t # None /\ faults' \in 0..MaxFaults
    BY AtCall DEF ClaimRow, At, ClaimRefused, Answered, LocalInv
  <1>2. CASE (Abort \/ NextRow) /\ UNCHANGED <<journal, older>>
    BY <1>1, <1>2, AroundUnchanged, LeaveKeeps DEF ClaimRow
  <1>3. ASSUME CallClaim(Plan[t].slot, t), t \in Handed,
               Save(t, "pending", task'[t].attempt, journal[t].result),
               uploader' = [uploader EXCEPT !.pc = "computed",
                                            !.attempt = task'[t].attempt]
        PROVE  LocalInv'
    <2> DEFINE k == task'[t].attempt
               going == [uploader EXCEPT !.pc = "computed"]
               pass == [going EXCEPT !.attempt = k]
               row == [state |-> "pending", attempt |-> k, result |-> journal[t].result]
    <2>1. t \in Tasks /\ k \in AttemptIds /\ k # Offline
      BY <1>1, <1>3, Hand, ClaimIsNext, HandedAttempt
    <2>2. RowSound(t, journal[t]) /\ journal[t].state = "pending"
      BY <1>1, <2>1, Hand DEF LocalInv, JournalSound
    <2>3. RowSound(t, row)
      BY <2>1, <2>2 DEF RowSound, JournalRow
    <2>4. JournalSound' /\ journal'[t] = row
      BY <1>3, <2>1, <2>3, SaveEffect DEF LocalInv
    <2>5. uploader \in PassRow
      BY DEF LocalInv, PassSound
    <2>6. going \in PassRow /\ going.pc = "computed" /\ going.task = t
          /\ going.by = uploader.by
      BY <2>5 DEF PassRow
    <2>7. /\ pass \in PassRow
          /\ pass.pc = "computed"
          /\ pass.task = t
          /\ pass.attempt = k
          /\ pass.by = uploader.by
      <3> HIDE DEF going, k
      <3> QED
        BY <2>1, <2>6 DEF PassRow
    <2>8. uploader' = pass
      BY <1>3
    <2> HIDE DEF pass
    <2>9. PassSound(pass)
      BY <1>1, <2>1, <2>7 DEF PassSound
    <2>10. \A s \in Slots : t \in Locked(s) => uploader.by = s
      BY <1>1 DEF LocalInv, HandSound
    <2>11. UNCHANGED <<marker, executor, peeked>>
      BY DEF ClaimRow
    <2> QED
      BY <1>1, <2>4, <2>7, <2>8, <2>9, <2>10, <2>11, PassMoveKeeps DEF PassMove
  <1> QED
    BY <1>2, <1>3 DEF ClaimRow

\* Telling the queue about a computed row keeps the row at hand, now to upload.
LEMMA ComputedRowKeeps ==
    ASSUME LocalInv, ComputedRow
    PROVE  LocalInv'
  <1>1. uploader.pc = "computed" /\ uploader.task # None /\ uploader.attempt # Offline
    BY AtCall, Hand DEF ComputedRow, At
  <1>2. faults' \in 0..MaxFaults
    BY DEF ComputedRow, Answered, LocalInv
  <1> QED
    BY <1>1, <1>2, GoKeeps DEF ComputedRow

\* An upload goes on to the finish, is left because it was cancelled, or ends
\* the pass.
LEMMA UploadRowKeeps ==
    ASSUME LocalInv, UploadRow
    PROVE  LocalInv'
  <1>1. uploader.pc = "upload" /\ uploader.task # None /\ uploader.attempt # Offline
    BY AtCall, Hand DEF UploadRow, SendRow, At
  <1>2. faults' \in 0..MaxFaults
    BY DEF UploadRow, SendRow, Answered, LocalInv
  <1>3. UNCHANGED <<journal, older, marker, executor, peeked>>
    BY DEF UploadRow, SendRow
  <1>4. CASE Go("finish")
    BY <1>1, <1>2, <1>3, <1>4, GoKeeps
  <1>5. CASE Abort \/ NextRow
    BY <1>2, <1>3, <1>5, AroundUnchanged, LeaveKeeps
  <1> QED
    BY <1>4, <1>5 DEF UploadRow, SendRow

\* A finished row is committed; otherwise it stays as it is, and the pass
\* leaves it.
LEMMA FinishRowKeeps ==
    ASSUME LocalInv, FinishRow
    PROVE  LocalInv'
  <1> DEFINE t == uploader.task
             k == uploader.attempt
  <1>1. uploader.pc = "finish" /\ t # None /\ faults' \in 0..MaxFaults
    BY AtCall DEF FinishRow, At, Answered, LocalInv
  <1>2. UNCHANGED <<marker, executor, peeked>>
    BY DEF FinishRow
  <1>3. CASE Save(t, "committed", k, journal[t].result) /\ NextRow
    BY <1>1, <1>2, <1>3, SettleKeeps
  <1>4. CASE (Abort \/ NextRow) /\ UNCHANGED <<journal, older>>
    BY <1>1, <1>2, <1>4, AroundUnchanged, LeaveKeeps
  <1> QED
    BY <1>3, <1>4 DEF FinishRow

\* A reported failure leaves the outbox.
LEMMA FailRowKeeps ==
    ASSUME LocalInv, FailRow
    PROVE  LocalInv'
  <1>1. uploader.pc = "fail" /\ uploader.task # None /\ faults' \in 0..MaxFaults
    BY AtCall DEF FailRow, At, Answered, LocalInv
  <1> QED
    BY <1>1, SettleKeeps DEF FailRow

\* A pass that an exception ends leaves nothing at hand.
LEMMA BreakPassKeeps ==
    ASSUME LocalInv, BreakPass
    PROVE  LocalInv'
  <1>1. faults' \in 0..MaxFaults
    BY FaultsBounded DEF BreakPass, Lose, Denied
  <1> QED
    BY <1>1, AroundUnchanged, LeaveKeeps DEF BreakPass

\* The lease guard of the upload only sets the flag that cancels it.
LEMMA GuardUploadKeeps ==
    ASSUME LocalInv, GuardUpload
    PROVE  LocalInv'
  <1>1. /\ uploader.pc \in {"upload", "finish"}
        /\ uploader.task # None
        /\ faults' = faults
        /\ UNCHANGED <<journal, older, marker, executor, peeked, stopped>>
    BY AtCall DEF GuardUpload, Denied, Answered
  <1>2. CASE uploader' = uploader
    BY <1>1, <1>2, AwayKeeps DEF localVars
  <1>3. CASE uploader' = [uploader EXCEPT !.cancel = TRUE]
    <2> DEFINE pass == [uploader EXCEPT !.cancel = TRUE]
    <2>1. PassSound(uploader) /\ uploader \in PassRow
      BY DEF LocalInv, PassSound
    <2>2. /\ pass \in PassRow
          /\ pass.pc = uploader.pc
          /\ pass.task = uploader.task
          /\ pass.attempt = uploader.attempt
          /\ pass.by = uploader.by
      BY <2>1 DEF PassRow
    <2> HIDE DEF pass
    <2>3. PassSound(pass)
      BY <2>1, <2>2 DEF PassSound
    <2>4. /\ journal[uploader.task].state = "pending"
          /\ journal[uploader.task].attempt = uploader.attempt
          /\ \A s \in Slots : uploader.task \in Locked(s) => uploader.by = s
      BY <1>1 DEF LocalInv, HandSound, At
    <2>5. Around
      BY <1>1, AroundUnchanged DEF LocalInv
    <2> QED
      BY <1>1, <1>3, <2>2, <2>3, <2>4, <2>5, PassMoveKeeps DEF Around, PassMove, pass
  <1> QED
    BY <1>2, <1>3 DEF GuardUpload

\* Every step of a pass keeps the worker's invariant.
LEMMA PassStepKeeps ==
    ASSUME IInv, LocalInv, BeginPass \/ PassStep \/ BreakPass \/ GuardUpload
    PROVE  LocalInv'
  BY BeginPassKeeps, EndPassKeeps, TakeRowKeeps, GetRowKeeps, RenewRowKeeps,
     ClaimRowKeeps, ComputedRowKeeps, UploadRowKeeps, FinishRowKeeps, FailRowKeeps,
     BreakPassKeeps, GuardUploadKeeps
     DEF PassStep

----------------------------------------------------------------------------
(* Prefetch, crashes, the rest of the farm, and the initial states.        *)

\* A look ahead only notes tasks whose input is to be fetched.
LEMMA PeekWorkKeeps ==
    ASSUME LocalInv, PeekWork
    PROVE  LocalInv'
  <1>1. peeked' \subseteq Tasks
    BY DEF PeekWork, Peekable, LocalInv
  <1>2. UNCHANGED <<journal, older, marker, executor, uploader, faults>>
    BY DEF PeekWork
  <1> QED
    BY <1>1, <1>2 DEF LocalInv, JournalSound, MarkersSound, ThreadsSound, HandSound,
                      Flushing, Locked, At

\* A prefetched input is noted only in rows that no pass can have at hand.
LEMMA CacheRowKeeps ==
    ASSUME LocalInv, NEW t \in Tasks, CacheRow(t)
    PROVE  LocalInv'
  <1>1. /\ peeked' \subseteq Tasks
        /\ UNCHANGED <<marker, executor, uploader, faults>>
    BY DEF CacheRow, LocalInv
  <1>2. CASE UNCHANGED <<journal, older>>
    BY <1>1, <1>2 DEF LocalInv, JournalSound, MarkersSound, ThreadsSound, HandSound,
                      Flushing, Locked, At
  <1>3. CASE journal[t].state \in {"none", "cached"} /\ Save(t, "cached", Offline, None)
    <2>1. RowSound(t, [state |-> "cached", attempt |-> Offline, result |-> None])
      BY SmallFacts DEF RowSound, JournalRow, AttemptIds, Offline
    <2>2. JournalSound' /\ \A u \in Tasks \ {t} : journal'[u] = journal[u]
      BY <1>3, <2>1, SaveEffect DEF LocalInv
    <2>3. uploader.task # None => uploader.task \in Tasks \ {t}
      BY <1>3, Hand DEF LocalInv, HandSound, At
    <2> QED
      BY <1>1, <2>2, <2>3 DEF LocalInv, MarkersSound, ThreadsSound, HandSound,
                              Flushing, Locked, At
  <1> QED
    BY <1>2, <1>3 DEF CacheRow

\* A restart puts a row into the outbox only with the result that its marker
\* holds.
LEMMA RecoveredSound ==
    ASSUME NEW t \in Tasks, NEW row, RowSound(t, row),
           NEW result \in Results[t] \cup {None}
    PROVE  RowSound(t, Recovered(row, result))
  <1>1. CASE row.state # "running"
    BY <1>1 DEF Recovered
  <1>2. CASE row.state = "running"
    <2> DEFINE state == IF result # None THEN "pending" ELSE "cached"
               resumed == [row EXCEPT !.state = state]
               recovered == [resumed EXCEPT !.result = result]
    <2>1. row \in JournalRow /\ result \in Grades \cup {None}
      BY GradesAreProper DEF RowSound
    <2>2. resumed \in JournalRow /\ resumed.state = state
      BY <2>1 DEF JournalRow, Outbox
    <2>3. /\ recovered \in JournalRow
          /\ recovered.state = state
          /\ recovered.result = result
      <3> HIDE DEF resumed, state
      <3> QED
        BY <2>1, <2>2 DEF JournalRow
    <2>4. Recovered(row, result) = recovered
      BY <1>2 DEF Recovered
    <2> HIDE DEF recovered
    <2> QED
      BY <2>3, <2>4 DEF RowSound
  <1> QED
    BY <1>1, <1>2

\* A restart leaves no thread at work and no pass under way.
LEMMA CrashKeeps ==
    ASSUME LocalInv, Crash
    PROVE  LocalInv'
  <1>1. faults' \in 0..MaxFaults
    BY FaultsBounded DEF Crash
  <1>2. JournalSound'
    <2>1. \A t \in Tasks :
             /\ journal'[t] = Recovered(journal[t], marker[t][journal[t].attempt])
             /\ RowSound(t, journal'[t])
      <3> SUFFICES ASSUME NEW t \in Tasks
                   PROVE  /\ journal'[t] = Recovered(journal[t],
                                                     marker[t][journal[t].attempt])
                          /\ RowSound(t, journal'[t])
        OBVIOUS
      <3>1. RowSound(t, journal[t]) /\ journal[t].attempt \in AttemptIds
        BY DEF LocalInv, JournalSound, RowSound, JournalRow
      <3>2. marker[t][journal[t].attempt] \in Results[t] \cup {None}
        BY <3>1 DEF LocalInv, MarkersSound
      <3>3. journal'[t] = Recovered(journal[t], marker[t][journal[t].attempt])
        BY DEF Crash
      <3> QED
        BY <3>1, <3>2, <3>3, RecoveredSound
    <2>2. journal' \in [Tasks -> JournalRow]
      <3>1. journal' = [t \in Tasks |-> journal'[t]]
        BY DEF Crash
      <3> QED
        BY <2>1, <3>1 DEF RowSound
    <2>3. older' \in [Tasks -> SUBSET Tasks]
      BY DEF Crash, Entries, Written, LocalInv, JournalSound
    <2> QED
      BY <2>1, <2>2, <2>3 DEF JournalSound
  <1>3. MarkersSound'
    BY DEF Crash, LocalInv, MarkersSound
  <1>4. ThreadSound(Resting) /\ Resting \in ExecutorRow
    BY SmallFacts DEF ThreadSound, Resting, ExecutorRow, Offline
  <1>5. ThreadsSound'
    BY <1>4 DEF Crash, ThreadsSound
  <1>6. /\ PassSound(uploader)'
        /\ uploader'.task = None
        /\ uploader'.by = "uploader"
    BY NoPassSound DEF Crash
  <1>7. HandSound' /\ Flushing'
    BY <1>6, SmallFacts DEF HandSound, Flushing
  <1> QED
    BY <1>1, <1>2, <1>3, <1>5, <1>6, <1>7 DEF Crash, LocalInv

\* Every step of the farm keeps the worker's invariant.
LEMMA FarmNextKeeps ==
    ASSUME FarmInv, [FarmNext]_farmVars
    PROVE  LocalInv'
  <1> USE DEF FarmInv
  <1>1. ASSUME NEW s \in Slots, ExecutorStep(s) \/ GuardExecution(s)
        PROVE  LocalInv'
    BY <1>1, ThreadStepKeeps
  <1>2. CASE BeginPass \/ PassStep \/ BreakPass \/ GuardUpload
    BY <1>2, PassStepKeeps
  <1>3. CASE PeekWork
    BY <1>3, PeekWorkKeeps
  <1>4. ASSUME NEW t \in Tasks, CacheRow(t)
        PROVE  LocalInv'
    BY <1>4, CacheRowKeeps
  <1>5. CASE Crash
    BY <1>5, CrashKeeps
  <1>6. CASE Surroundings
    BY <1>6, AwayKeeps DEF Surroundings
  <1>7. CASE UNCHANGED farmVars
    BY <1>7, AwayKeeps DEF farmVars
  <1> QED
    BY <1>1, <1>2, <1>3, <1>4, <1>5, <1>6, <1>7 DEF FarmNext

\* An error ends the thread that makes the pass, and a restart starts them all.
LEMMA ThreadsKnownKeeps ==
    ASSUME FarmInv, [FarmNext]_farmVars
    PROVE  ThreadsKnown'
  <1>1. uploader.by \in Slots \cup {"uploader"}
    BY DEF FarmInv, LocalInv, PassSound, PassRow
  <1>2. CASE SendRow(Self \in Members)
    BY <1>1, <1>2 DEF SendRow, FarmInv, ThreadsKnown
  <1>3. CASE stopped' \in {stopped, {}}
    BY <1>3 DEF FarmInv, ThreadsKnown
  <1>4. ASSUME NEW s \in Slots, ExecutorStep(s) \/ GuardExecution(s)
        PROVE  stopped' = stopped
    BY <1>4 DEF ExecutorStep, Check, Claim, Speculate, Begin, Load, Compute, Record,
                ReportComputed, FlushFailure, FlushedFailure, GuardExecution, localVars
  <1>5. BeginPass \/ BreakPass \/ GuardUpload => stopped' = stopped
    BY DEF BeginPass, BreakPass, GuardUpload
  <1>6. PassStep => UploadRow \/ stopped' = stopped
    BY DEF PassStep, EndPass, TakeRow, GetRow, RenewRow, ClaimRow, ComputedRow,
           FinishRow, FailRow
  <1>7. PeekWork \/ (\E t \in Tasks : CacheRow(t)) \/ Surroundings \/ UNCHANGED farmVars
            => stopped' = stopped
    BY DEF PeekWork, CacheRow, Surroundings, farmVars, localVars
  <1>8. Crash => stopped' = {}
    BY DEF Crash
  <1> QED
    BY <1>2, <1>3, <1>4, <1>5, <1>6, <1>7, <1>8 DEF FarmNext, UploadRow

\* A new worker has an empty journal and does nothing.
LEMMA FarmInitHolds ==
    ASSUME FarmInit
    PROVE  LocalInv
  <1> DEFINE fresh == [state |-> "none", attempt |-> Offline, result |-> None]
  <1>1. 0 \in 0..MaxFaults
    BY SmallFacts
  <1>2. fresh \in JournalRow /\ \A t \in Tasks : RowSound(t, fresh)
    BY SmallFacts DEF JournalRow, RowSound, AttemptIds, Offline
  <1>3. JournalSound
    BY <1>2 DEF FarmInit, JournalSound
  <1>4. MarkersSound
    BY DEF FarmInit, MarkersSound
  <1>5. ThreadSound(Resting) /\ Resting \in ExecutorRow
    BY SmallFacts DEF ThreadSound, Resting, ExecutorRow, Offline
  <1>6. ThreadsSound
    BY <1>5 DEF FarmInit, ThreadsSound
  <1>7. PassSound(uploader) /\ uploader.task = None /\ uploader.by = "uploader"
    BY NoPassSound DEF FarmInit
  <1>8. HandSound /\ Flushing
    BY <1>7, SmallFacts DEF HandSound, Flushing
  <1> QED
    BY <1>1, <1>3, <1>4, <1>6, <1>7, <1>8 DEF FarmInit, LocalInv

----------------------------------------------------------------------------
(* The theorems.                                                           *)

\* The invariant of the queue and of the worker holds throughout.
THEOREM FarmInvariant == FarmSpec => []FarmInv
  <1>1. FarmInit => FarmInv
    BY FarmInitHolds, InitHolds DEF FarmInit, FarmInv, ThreadsKnown
  <1>2. FarmInv /\ [FarmNext]_farmVars => FarmInv'
    BY FarmNextKeeps, ThreadsKnownKeeps, FarmStepIsQueueStep, NextPreserves DEF FarmInv
  <1> QED
    BY <1>1, <1>2, PTL DEF FarmSpec

\* The worker uses the queue as the queue's specification allows: a farm with
\* this worker in it is a behaviour of FarmQueue, and so has all its properties.
THEOREM WorkerIsClient == FarmSpec => Spec
  <1>1. FarmInit => Init
    BY DEF FarmInit
  <1>2. FarmInv /\ [FarmNext]_farmVars => [Next]_vars
    BY FarmStepIsQueueStep DEF FarmInv
  <1> QED
    BY <1>1, <1>2, FarmInvariant, PTL DEF FarmSpec, Spec

\* The journal, the markers and the threads keep their shapes.
THEOREM FarmTypeCorrect == FarmSpec => []FarmTypeOK
  <1>1. FarmInv => FarmTypeOK
    BY LocalInvImplies DEF FarmInv
  <1> QED
    BY <1>1, FarmInvariant, PTL

\* What a pass read of a row is still so at each of its calls.
THEOREM RowsLocked == FarmSpec => []RowAtHand
  <1>1. FarmInv => RowAtHand
    BY LocalInvImplies DEF FarmInv
  <1> QED
    BY <1>1, FarmInvariant, PTL

\* One canonical result per task, with a worker that recovers and publishes
\* what it computed long ago.
THEOREM FarmResultIsFenced == FarmSpec => []SingleCommit
  BY WorkerIsClient, ResultIsFenced

\* A committed result stays committed, whatever the worker does.
THEOREM FarmResultsAreFinal == FarmSpec => ResultStable
  BY WorkerIsClient, ResultsAreFinal
----------------------------------------------------------------------------
(* Commits are written ahead.                                              *)

\* No result of this worker is committed in a step.
NoCommit ==
    \A t \in Tasks : task[t].output = None =>
        task'[t].output = None \/ task'[t].output.worker # Self

\* What the step commits of this worker is in the journal.
WrittenAhead ==
    \A t \in Tasks :
        /\ task[t].output = None
        /\ task'[t].output # None
        /\ task'[t].output.worker = Self
        => journal[t] = [state |-> "pending",
                         attempt |-> task'[t].output.attempt,
                         result |-> task'[t].output.grade]

\* Steps that keep the rows of the tasks commit nothing.
LEMMA KeepingCommitsNothing ==
    ASSUME KeepingStep \/ UNCHANGED task
    PROVE  NoCommit
  BY DEF KeepingStep, Kept, NoCommit

\* No claim commits anything.
LEMMA ClaimCommitsNothing ==
    ASSUME IInv, NEW w \in Workers, ClaimStep(w)
    PROVE  NoCommit
  <1>1. ASSUME NEW t \in Tasks, GrantStep(w, t)
        PROVE  NoCommit
    BY <1>1 DEF GrantStep, Kept, GrantedRow, NoCommit
  <1> QED
    BY <1>1, ClaimCases, KeepingCommitsNothing

\* A finish writes the output of its task, and no other row.
LEMMA FinishWrites ==
    ASSUME IInv, NEW w \in Workers, NEW t \in Tasks, NEW k, NEW grade,
           Finish(w, t, k, grade)
    PROVE  /\ task'[t].output = [attempt |-> k, worker |-> w, grade |-> grade]
           /\ \A u \in Tasks \ {t} : task'[u] = task[u]
  <1> DEFINE result == [attempt |-> k, worker |-> w, grade |-> grade]
             row == [task[t] EXCEPT !.status = "done", !.output = result,
                                    !.lease = None]
  <1>1. task \in [Tasks -> TaskRow] /\ task[t] \in TaskRow
    BY DEF IInv, TypeOK
  <1>2. task' = [task EXCEPT ![t] = row]
    BY <1>1 DEF Finish
  <1>3. row.output = result
    BY <1>1 DEF TaskRow
  <1> HIDE DEF row
  <1>4. task'[t] = row /\ \A u \in Tasks \ {t} : task'[u] = task[u]
    BY <1>1, <1>2
  <1> QED
    BY <1>3, <1>4

\* Of the calls about an attempt, only finish commits something, and it commits
\* in the name of its caller.
LEMMA CallCommits ==
    ASSUME IInv, NEW w \in Workers, NEW t \in Tasks, NEW k \in AttemptNos,
           \/ \E seconds \in LeaseRequests : Renew(w, t, k, seconds)
           \/ Computed(w, t, k)
           \/ Fail(w, t, k)
           \/ Upload(w, t, k)
           \/ w # Self /\ \E grade \in Results[t] : Finish(w, t, k, grade)
    PROVE  NoCommit
  <1>1. task \in [Tasks -> TaskRow]
    BY DEF IInv, TypeOK
  <1>2. CASE \/ \E seconds \in LeaseRequests : Renew(w, t, k, seconds)
             \/ Computed(w, t, k)
    BY <1>2, RenewKeeps, ComputedKeeps, KeepingCommitsNothing
  <1>3. CASE Upload(w, t, k)
    BY <1>3, KeepingCommitsNothing DEF Upload
  <1>4. CASE Fail(w, t, k)
    BY <1>1, <1>4 DEF Fail, TaskRow, NoCommit
  <1>5. ASSUME NEW grade \in Results[t], w # Self /\ Finish(w, t, k, grade)
        PROVE  NoCommit
    <2>1. task'[t].output = [attempt |-> k, worker |-> w, grade |-> grade]
      BY <1>5, FinishWrites
    <2>2. \A u \in Tasks \ {t} : task'[u] = task[u]
      BY <1>5, FinishWrites
    <2> QED
      BY <1>5, <2>1, <2>2 DEF NoCommit
  <1> QED
    BY <1>2, <1>3, <1>4, <1>5

\* The rest of the farm commits nothing in the name of this worker.
LEMMA SurroundingsCommitNothing ==
    ASSUME IInv, Surroundings
    PROVE  NoCommit
  <1>1. task \in [Tasks -> TaskRow]
    BY DEF IInv, TypeOK
  <1>2. ASSUME NEW j \in Jobs, CallerStep(j)
        PROVE  NoCommit
    <2>1. CASE StageInput(j)
      BY <2>1, KeepingCommitsNothing DEF StageInput
    <2>2. CASE Submit(j)
      BY <2>2 DEF Submit, NewTask, NoCommit
    <2>3. CASE task' = Closed(j)
      BY <1>1, <2>3 DEF Closed, TaskRow, NoCommit
    <2> QED
      BY <1>2, <2>1, <2>2, <2>3 DEF CallerStep, Cancel, Approve
  <1>3. ASSUME NEW w \in Workers \ {Self},
               \/ ClaimStep(w)
               \/ w \in Members /\ Peek(w)
               \/ \E t \in Tasks, k \in AttemptNos : AttemptStep(w, t, k)
        PROVE  NoCommit
    BY <1>3, ClaimCommitsNothing, PeekKeeps, KeepingCommitsNothing, CallCommits
       DEF AttemptStep
  <1>4. CASE Tick
    BY <1>4, TickKeeps, KeepingCommitsNothing
  <1>5. ASSUME \/ \E n \in Nodes, E \in EngineSets : SetEngines(n, E)
               \/ \E w \in Suspendable : SetActive(w)
               \/ \E w \in Workers, report \in Reports : Heartbeat(w, report)
        PROVE  NoCommit
    BY <1>5, KeepingCommitsNothing DEF SetEngines, SetActive, Heartbeat
  <1> QED
    BY <1>2, <1>3, <1>4, <1>5 DEF Surroundings

\* The threads of the slots commit nothing.
LEMMA ThreadCommitsNothing ==
    ASSUME IInv, LocalInv, NEW s \in Slots, ExecutorStep(s) \/ GuardExecution(s)
    PROVE  NoCommit
  <1> USE DEF queueVars, vars
  <1>1. CASE Check(s) \/ Speculate(s) \/ Begin(s) \/ Load(s) \/ Compute(s)
             \/ Record(s) \/ FlushFailure(s) \/ FlushedFailure(s)
    BY <1>1, KeepingCommitsNothing
       DEF Check, Speculate, Begin, Load, Compute, Record, FlushFailure, FlushedFailure
  <1>2. CASE Claim(s)
    <2>1. ASSUME CallClaim(s, None)
          PROVE  NoCommit
      BY <2>1, SmallFacts, ClaimIsNext, ClaimCommitsNothing
    <2> QED
      BY <1>2, <2>1, KeepingCommitsNothing
         DEF Claim, ClaimRefused, Answered, Denied, Lose
  <1>3. CASE ReportComputed(s)
    <2>1. /\ executor[s].task \in Tasks
          /\ executor[s].attempt \in AttemptNos
      BY <1>3, Thread, SmallFacts DEF ReportComputed
    <2> QED
      BY <1>3, <2>1, SmallFacts, CallCommits, KeepingCommitsNothing
         DEF ReportComputed, Answered, Denied, Lose
  <1>4. CASE GuardExecution(s)
    BY <1>4, Thread, SmallFacts, CallCommits DEF GuardExecution
  <1> QED
    BY <1>1, <1>2, <1>3, <1>4 DEF ExecutorStep

\* The finish of the row at hand commits what the journal holds of it.
LEMMA FinishIsWrittenAhead ==
    ASSUME IInv, LocalInv, At("finish"),
           Finish(Self, uploader.task, uploader.attempt, journal[uploader.task].result)
    PROVE  WrittenAhead
  <1> DEFINE t == uploader.task
             k == uploader.attempt
  <1>1. /\ t \in Tasks
        /\ journal[t].state = "pending"
        /\ journal[t].attempt = k
    BY AtCall, Hand DEF At
  <1>2. journal[t] \in JournalRow
    BY <1>1 DEF LocalInv, JournalSound
  <1>3. journal[t] = [state |-> "pending", attempt |-> k, result |-> journal[t].result]
    BY <1>1, <1>2 DEF JournalRow
  <1>4. /\ task'[t].output = [attempt |-> k, worker |-> Self,
                              grade |-> journal[t].result]
        /\ \A u \in Tasks \ {t} : task'[u] = task[u]
    BY <1>1, SmallFacts, FinishWrites
  <1> QED
    BY <1>3, <1>4 DEF WrittenAhead

\* A call of a pass commits nothing but the row at hand.
LEMMA RowCallCommits ==
    ASSUME IInv, LocalInv, RowCall, uploader.task # None
    PROVE  WrittenAhead
  <1> DEFINE t == uploader.task
             k == uploader.attempt
  <1>1. NoCommit => WrittenAhead
    BY DEF NoCommit, WrittenAhead
  <1>2. CASE At("claim") /\ CallClaim(Plan[t].slot, t)
    BY <1>1, <1>2, Hand, SmallFacts, ClaimIsNext, ClaimCommitsNothing
  <1>3. CASE At("finish") /\ Finish(Self, t, k, journal[t].result)
    BY <1>3, FinishIsWrittenAhead
  <1>4. CASE \/ At("renew") /\ Renew(Self, t, k, Seconds)
             \/ At("computed") /\ Computed(Self, t, k)
             \/ At("upload") /\ Upload(Self, t, k)
             \/ At("fail") /\ Fail(Self, t, k)
    <2>1. t \in Tasks /\ k \in AttemptNos
      BY <1>4, Hand, SmallFacts DEF At
    <2> QED
      BY <1>1, <1>4, <2>1, SmallFacts, CallCommits
  <1> QED
    BY <1>2, <1>3, <1>4 DEF RowCall

\* No step of a pass commits anything but the row at hand.
LEMMA PassCommits ==
    ASSUME IInv, LocalInv, BeginPass \/ PassStep \/ BreakPass \/ GuardUpload
    PROVE  WrittenAhead
  <1>1. ASSUME UNCHANGED queueVars
        PROVE  WrittenAhead
    BY <1>1 DEF queueVars, vars, WrittenAhead
  <1>2. CASE BeginPass \/ EndPass \/ TakeRow \/ GetRow
    BY <1>1, <1>2 DEF BeginPass, EndPass, TakeRow, GetRow, Answered
  <1>3. CASE RenewRow
    BY <1>1, <1>3, AtCall, RowCallCommits DEF RenewRow, RowCall, Answered, At
  <1>4. CASE ClaimRow
    BY <1>1, <1>4, AtCall, RowCallCommits DEF ClaimRow, RowCall, ClaimRefused, Answered, At
  <1>5. CASE ComputedRow
    BY <1>1, <1>5, AtCall, RowCallCommits DEF ComputedRow, RowCall, Answered, At
  <1>6. CASE UploadRow
    BY <1>1, <1>6, AtCall, RowCallCommits DEF UploadRow, SendRow, RowCall, Answered, Sendable, At
  <1>7. CASE FinishRow
    BY <1>1, <1>7, AtCall, RowCallCommits DEF FinishRow, RowCall, Answered, At
  <1>8. CASE FailRow
    BY <1>1, <1>8, AtCall, RowCallCommits DEF FailRow, RowCall, Answered, At
  <1>9. CASE BreakPass
    BY <1>1, <1>9, RowCallCommits DEF BreakPass, Lose, Denied
  <1>10. CASE GuardUpload
    <2>1. uploader.task \in Tasks /\ uploader.attempt \in AttemptNos
      BY <1>10, AtCall, Hand, SmallFacts DEF GuardUpload
    <2>2. NoCommit => WrittenAhead
      BY DEF NoCommit, WrittenAhead
    <2> QED
      BY <1>1, <1>10, <2>1, <2>2, SmallFacts, CallCommits
         DEF GuardUpload, Answered, Denied
  <1> QED
    BY <1>2, <1>3, <1>4, <1>5, <1>6, <1>7, <1>8, <1>9, <1>10 DEF PassStep

\* Every step of the farm commits only what this worker's journal holds.
LEMMA FarmCommits ==
    ASSUME FarmInv, [FarmNext]_farmVars
    PROVE  WrittenAhead
  <1> USE DEF FarmInv
  <1>1. NoCommit => WrittenAhead
    BY DEF NoCommit, WrittenAhead
  <1>2. ASSUME NEW s \in Slots, ExecutorStep(s) \/ GuardExecution(s)
        PROVE  WrittenAhead
    BY <1>1, <1>2, ThreadCommitsNothing
  <1>3. CASE BeginPass \/ PassStep \/ BreakPass \/ GuardUpload
    BY <1>3, PassCommits
  <1>4. CASE PeekWork
    BY <1>1, <1>4, SmallFacts, PeekKeeps, KeepingCommitsNothing DEF PeekWork
  <1>5. CASE (\E t \in Tasks : CacheRow(t)) \/ Crash \/ UNCHANGED farmVars
    BY <1>1, <1>5, KeepingCommitsNothing DEF CacheRow, Crash, farmVars, queueVars, vars
  <1>6. CASE Surroundings
    BY <1>1, <1>6, SurroundingsCommitNothing
  <1> QED
    BY <1>2, <1>3, <1>4, <1>5, <1>6 DEF FarmNext

\* When the queue takes a result from this worker, the journal already holds
\* it, pending and under the attempt that is committed, so that after a crash
\* or a lost answer the worker can find out what became of it.
THEOREM CommitsWrittenAhead == FarmSpec => CommitWrittenAhead
  <1>1. FarmInv /\ [FarmNext]_farmVars => [WrittenAhead]_farmVars
    BY FarmCommits
  <1> QED
    BY <1>1, FarmInvariant, PTL DEF FarmSpec, CommitWrittenAhead, WrittenAhead

----------------------------------------------------------------------------
(* What the queue keeps of a task that the worker knows.                    *)

\* A task in one of these statuses stays in it.
Decided == {"done", "failed", "cancelled"}

\* What no step of the queue takes back of a task.
Onwards(t) ==
    /\ task[t].status # "absent" => task'[t].status # "absent"
    /\ task[t].status \in Decided => task'[t].status = task[t].status
    /\ task[t].output # None => task'[t].output = task[t].output
    /\ \A k \in AttemptNos :
          attempts[t][k].state # "absent" =>
              /\ attempts'[t][k].state # "absent"
              /\ attempts'[t][k].worker = attempts[t][k].worker

\* A task without a result has none to keep.
LEMMA OutputOfDone ==
    ASSUME IInv, NEW t \in Tasks
    PROVE  task[t].output # None <=> task[t].status = "done"
  BY DEF IInv, SingleCommit

\* Closing a job cancels its live tasks and leaves the others alone.
LEMMA ClosedRow ==
    ASSUME IInv, NEW j \in Jobs, ClosingStep(j), NEW t \in Tasks
    PROVE  \/ task'[t] = task[t]
           \/ /\ task[t].status \in Live
              /\ task'[t].status = "cancelled"
              /\ task'[t].output = task[t].output
  <1> DEFINE shut(u) == Plan[u].job = j /\ task[u].status \in Live
             row(u) == [task[u] EXCEPT !.status = "cancelled", !.lease = None]
  <1>1. task' = [u \in Tasks |-> IF shut(u) THEN row(u) ELSE task[u]]
    BY Zenon DEF ClosingStep, Closed
  <1>2. task[t] \in TaskRow
    BY DEF IInv, TypeOK
  <1>3. row(t).status = "cancelled" /\ row(t).output = task[t].output
    BY <1>2 DEF TaskRow
  <1>4. shut(t) => task[t].status \in Live
    OBVIOUS
  <1> HIDE DEF shut, row
  <1> QED
    BY <1>1, <1>3, <1>4

\* No step of the queue takes back a submission, a verdict, a result or an
\* attempt.
LEMMA QueueMovesOnwards ==
    ASSUME IInv, [Next]_vars, NEW t \in Tasks
    PROVE  Onwards(t)
  <1>1. task \in [Tasks -> TaskRow] /\ attempts \in [Tasks -> [AttemptNos -> AttemptRow]]
    BY DEF IInv, TypeOK
  <1>2. CASE KeepingStep
    BY <1>2 DEF KeepingStep, Kept, AttemptKept, Live, Decided, Onwards
  <1>3. ASSUME NEW w \in Workers, NEW u \in Tasks, GrantStep(w, u)
        PROVE  Onwards(t)
    <2>1. CASE t # u
      BY <1>3, <2>1 DEF GrantStep, Kept, AttemptKept, Live, Decided, Onwards
    <2>2. CASE t = u
      <3>1. /\ task[t].status \in Live
            /\ task'[t].status = "running"
            /\ task'[t].output = task[t].output
        BY <1>3, <2>2 DEF GrantStep, GrantedRow
      <3>2. task[t].attempt \in Nat
        BY <1>1, ConstantsAssumption DEF TaskRow, ConstantsAssumption
      <3>3. ASSUME NEW k \in AttemptNos, attempts[t][k].state # "absent"
            PROVE  AttemptKept(t, k)
        <4>1. k <= task[t].attempt
          BY <3>3 DEF IInv, AttemptLedger
        <4>2. k # task[t].attempt + 1
          BY <3>2, <4>1 DEF AttemptNos
        <4> QED
          BY <1>3, <2>2, <4>2 DEF GrantStep
      <3> QED
        BY <3>1, <3>3 DEF AttemptKept, Live, Decided, Onwards
    <2> QED
      BY <2>1, <2>2
  <1>4. ASSUME NEW j \in Jobs, Submit(j)
        PROVE  Onwards(t)
    <2>1. CASE Plan[t].job = j
      <3>1. task[t].status = "absent"
        BY <1>4, <2>1 DEF Submit, IInv, RowsOfJobs
      <3> QED
        BY <1>4, <3>1, OutputOfDone DEF Submit, Onwards, Decided
    <2>2. CASE Plan[t].job # j
      BY <1>4, <2>2 DEF Submit, Onwards
    <2> QED
      BY <2>1, <2>2
  <1>5. ASSUME NEW j \in Jobs, ClosingStep(j)
        PROVE  Onwards(t)
    <2>3. \/ task'[t] = task[t]
          \/ /\ task[t].status \in Live
             /\ task'[t].status = "cancelled"
             /\ task'[t].output = task[t].output
      BY <1>5, ClosedRow
    <2>4. task[t].status \in Live => task[t].status \notin Decided
      BY DEF Live, Decided
    <2>5. /\ task[t].status # "absent" => task'[t].status # "absent"
          /\ task[t].status \in Decided => task'[t].status = task[t].status
          /\ task'[t].output = task[t].output
      BY <2>3, <2>4
    <2> QED
      BY <1>5, <2>5 DEF ClosingStep, Onwards
  <1>6. ASSUME NEW w \in Workers, NEW u \in Tasks, NEW k \in AttemptNos, Fail(w, u, k)
        PROVE  Onwards(t)
    <2>1. task[u].status = "running" /\ task[u].output = None
      BY <1>6, HeldRow DEF Fail
    <2>2. \A i \in AttemptNos :
             /\ attempts'[t][i].worker = attempts[t][i].worker
             /\ attempts'[t][i].state \in {attempts[t][i].state, "failed"}
      BY <1>1, <1>6 DEF Fail, AttemptRow
    <2>3. task'[u].status \in {"failed", "queued"}
      BY <1>1, <1>6 DEF Fail, TaskRow
    <2>4. t # u => task'[t] = task[t]
      BY <1>1, <1>6 DEF Fail
    <2> QED
      BY <2>1, <2>2, <2>3, <2>4 DEF Onwards, Decided
  <1>7. ASSUME NEW w \in Workers, NEW u \in Tasks, NEW k \in AttemptNos,
               NEW grade \in Grades, Finish(w, u, k, grade)
        PROVE  Onwards(t)
    <2>1. task[u].status = "running" /\ task[u].output = None
      BY <1>7, HeldRow DEF Finish
    <2>2. \A i \in AttemptNos :
             /\ attempts'[t][i].worker = attempts[t][i].worker
             /\ attempts'[t][i].state \in {attempts[t][i].state, "done"}
      BY <1>1, <1>7 DEF Finish, AttemptRow
    <2>3. task'[u].status = "done"
      BY <1>1, <1>7 DEF Finish, TaskRow
    <2>4. t # u => task'[t] = task[t]
      BY <1>1, <1>7 DEF Finish
    <2> QED
      BY <2>1, <2>2, <2>3, <2>4 DEF Onwards, Decided
  <1> QED
    BY <1>2, <1>3, <1>4, <1>5, <1>6, <1>7, CancelCloses, ApproveCloses, StepCases
       DEF StepCase

\* A claim of a slot hands out only tasks of that slot.
LEMMA HandedSlot ==
    ASSUME IInv, NEW slot \in Slots, NEW only, CallClaim(slot, only), NEW t \in Handed
    PROVE  Plan[t].slot = slot
  <1>1. t \in Tasks /\ task'[t].attempt # task[t].attempt
    BY DEF Handed
  <1>2. PICK rivals \in RivalLocks, pause \in ClaimPauses :
            \E caps : QueueClaim(Self, caps, slot, only, Seconds, rivals, pause)
    <2>1. PICK rivals \in RivalLocks, pause \in ClaimPauses :
              \/ NodeClaim(Self, slot, only, Seconds, rivals, pause)
              \/ MemberClaim(Self, slot, only, Seconds, rivals, pause)
      BY DEF CallClaim
    <2>2. ~UNCHANGED <<task, attempts>>
      BY <1>1
    <2>3. CASE NodeClaim(Self, slot, only, Seconds, rivals, pause)
      <3>1. QueueClaim(Self, Granted(Self, worker[Self].caps), slot, only, Seconds,
                       rivals, pause)
        BY <2>2, <2>3 DEF NodeClaim
      <3> QED
        BY <3>1
    <2>4. CASE MemberClaim(Self, slot, only, Seconds, rivals, pause)
      <3>1. QueueClaim(Self, worker[Self].caps, slot, only, Seconds, rivals, pause)
        BY <2>4 DEF MemberClaim
      <3> QED
        BY <3>1
    <2> QED
      BY <2>1, <2>3, <2>4
  <1> PICK caps : QueueClaim(Self, caps, slot, only, Seconds, rivals, pause)
    BY <1>2
  <1> DEFINE rows == AgedTasks(SweptTasks, pause)
             candidates ==
                {u \in Tasks \ rivals : Claimable(rows, u, caps, slot, only)}
  <1>3. pause \in Nat
    BY ConstantsAssumption DEF ConstantsAssumption
  <1>4. \A u \in Tasks : rows[u].attempt = task[u].attempt
    BY <1>3, SweptAgedEffect DEF IInv
  <1>5. rows = [u \in Tasks |-> rows[u]]
    BY DEF AgedTasks
  <1>6. PICK u \in First(rows, Self, candidates) :
            task' = [rows EXCEPT ![u] = Leased(@, Self, Seconds)]
    BY <1>1, <1>4 DEF QueueClaim
  <1>7. u \in Tasks /\ Plan[u].slot = slot
    BY <1>6 DEF First, Claimable
  <1> HIDE DEF rows
  <1>8. t = u
    BY <1>1, <1>4, <1>5, <1>6
  <1> QED
    BY <1>7, <1>8

\* A task that a claim of the worker hands out runs under an attempt that no
\* one had before.
LEMMA HandedFresh ==
    ASSUME IInv, ClaimStep(Self), NEW t \in Handed
    PROVE  /\ t \in Tasks
           /\ task'[t].attempt \in AttemptNos
           /\ task'[t].attempt # Offline
           /\ task[t].status \in Live
           /\ task'[t].status = "running"
           /\ attempts[t][task'[t].attempt].state = "absent"
           /\ attempts'[t][task'[t].attempt].state = "running"
           /\ attempts'[t][task'[t].attempt].worker = Self
  <1>1. t \in Tasks /\ task'[t].attempt # task[t].attempt
    BY DEF Handed
  <1>2. ~KeepingStep
    BY <1>1 DEF KeepingStep, Kept
  <1>3. PICK u \in Tasks : GrantStep(Self, u)
    BY <1>2, ClaimCases, SmallFacts
  <1>4. t = u
    BY <1>1, <1>3 DEF GrantStep, Kept
  <1>5. /\ task'[t].attempt = task[t].attempt + 1
        /\ task'[t].status = "running"
        /\ task[t].status \in Live
    BY <1>3, <1>4 DEF GrantStep, GrantedRow
  <1>6. task[t].attempt \in Nat /\ task'[t].attempt \in AttemptNos /\ task'[t].attempt # Offline
    BY <1>1, HandedAttempt, SmallFacts DEF IInv, TypeOK, TaskRow
  <1>7. attempts'[t][task'[t].attempt] = [state |-> "running", worker |-> Self]
    BY <1>3, <1>4, <1>5, <1>6 DEF GrantStep
  <1>8. ~(task'[t].attempt <= task[t].attempt)
    BY <1>5, <1>6
  <1>9. attempts[t][task'[t].attempt].state = "absent"
    BY <1>1, <1>6, <1>8 DEF IInv, AttemptLedger
  <1> QED
    BY <1>1, <1>5, <1>6, <1>7, <1>9

----------------------------------------------------------------------------
(* The inductive invariant about results, part by part.                    *)

Working == {"load", "compute", "record"}

\* The attempt was handed to this worker.
Mine(t, k) ==
    k # Offline =>
        attempts[t][k].worker = Self /\ attempts[t][k].state # "absent"

\* The attempt has not been committed.
Unspent(t, k) ==
    k # Offline /\ task[t].output # None => task[t].output.attempt # k

\* The thread of slot s is at work on attempt k of t.
AtWorkOn(s, t, k) ==
    /\ executor[s].pc \in Working
    /\ executor[s].task = t
    /\ executor[s].attempt = k

\* What the journal says of a task agrees with the queue and with the threads.
RowTrue(t) ==
    LET row == journal[t]
    IN  /\ row.state # "none" \/ t \in peeked => task[t].status # "absent"
        /\ Mine(t, row.attempt)
        /\ row.state = "running" => AtWorkOn(Plan[t].slot, t, row.attempt)
        /\ row.state = "pending" /\ ~Unspent(t, row.attempt) =>
              task[t].output.grade = row.result
        /\ row.state = "committed" =>
              task[t].output # None /\
              task[t].output = [attempt |-> row.attempt, worker |-> Self,
                                grade |-> row.result]
        /\ row.state = "superseded" =>
              task[t].status \in Decided /\ Unspent(t, row.attempt)

\* A result of the task is in the outbox, or a restart would put it there.
Recoverable(t) ==
    \/ journal[t].state = "pending"
    \/ /\ journal[t].state = "running"
       /\ marker[t][journal[t].attempt] # None
       /\ executor[Plan[t].slot].pc = "record"

MarkersKept(t) ==
    (\E k \in AttemptIds : marker[t][k] # None) =>
        /\ task[t].status # "absent"
        /\ task[t].status \in Live => Recoverable(t)

\* What a thread takes its task to be: one of its slot, under an attempt that
\* is this worker's and not yet committed, and while it works a running row.
ThreadTrue(s) ==
    LET t == executor[s].task
        k == executor[s].attempt
    IN  t # None =>
        /\ task[t].status # "absent"
        /\ Plan[t].slot = s
        /\ Mine(t, k)
        /\ executor[s].pc \in Working =>
              journal[t].state = "running" /\ journal[t].attempt = k /\ Unspent(t, k)
        /\ executor[s].pc = "start" /\ k # Offline =>
              journal[t].attempt # k /\ Unspent(t, k)

OutcomeInv ==
    /\ \A t \in Tasks : RowTrue(t) /\ MarkersKept(t)
    /\ \A s \in Slots : ThreadTrue(s)

\* The attempt of a committed result is the number of an attempt.
LEMMA OutputTyped ==
    ASSUME FarmInv, NEW t \in Tasks, task[t].output # None
    PROVE  task[t].output.attempt \in AttemptNos
  BY DEF FarmInv, IInv, TypeOK, TaskRow, Output

\* The invariant contains the two properties.
LEMMA OutcomeInvImplies ==
    ASSUME FarmInv, OutcomeInv
    PROVE  ResultKept /\ OutboxAgrees
  <1>1. ResultKept
    BY DEF OutcomeInv, MarkersKept, Recoverable, ResultKept
  <1>2. ASSUME NEW t \in Tasks, journal[t].state = "committed"
        PROVE  /\ task[t].output # None
               /\ task[t].output.worker = Self
               /\ task[t].output.attempt = journal[t].attempt
               /\ task[t].output.grade = journal[t].result
    <2>1. RowTrue(t)
      BY DEF OutcomeInv
    <2>2. /\ task[t].output # None
          /\ task[t].output = [attempt |-> journal[t].attempt, worker |-> Self,
                               grade |-> journal[t].result]
      BY <1>2, <2>1 DEF RowTrue
    <2> QED
      BY <2>2
  <1>3. ASSUME NEW t \in Tasks, journal[t].state = "superseded"
        PROVE  /\ task[t].status \notin Live
               /\ ~(task[t].output # None /\ task[t].output.attempt = journal[t].attempt)
    <2>1. task[t].status \in Decided /\ Unspent(t, journal[t].attempt)
      BY <1>3 DEF OutcomeInv, RowTrue
    <2>2. task[t].output # None => task[t].output.attempt \in AttemptNos
      BY OutputTyped
    <2>3. Offline \notin AttemptNos
      BY SmallFacts DEF AttemptNos, Offline
    <2>4. \A x \in Decided : x \notin Live
      BY DEF Decided, Live
    <2> QED
      BY <2>1, <2>2, <2>3, <2>4 DEF Unspent
  <1> QED
    BY <1>1, <1>2, <1>3 DEF OutboxAgrees

----------------------------------------------------------------------------
(* What a step of the farm may be taken to do to the queue.                 *)

StepFacts ==
    /\ FarmInv
    /\ FarmInv'
    /\ WrittenAhead
    /\ \A t \in Tasks : Onwards(t)

\* Every step of the farm is like that.
LEMMA FarmStepFacts ==
    ASSUME FarmInv, [FarmNext]_farmVars
    PROVE  StepFacts
  <1>1. IInv /\ [Next]_vars /\ LocalInv' /\ ThreadsKnown'
    BY FarmNextKeeps, ThreadsKnownKeeps, FarmStepIsQueueStep DEF FarmInv
  <1>2. IInv'
    BY <1>1, NextPreserves
  <1>3. \A t \in Tasks : Onwards(t)
    BY <1>1, QueueMovesOnwards
  <1>4. WrittenAhead
    BY FarmCommits
  <1> QED
    BY <1>1, <1>2, <1>3, <1>4 DEF FarmInv, StepFacts

\* The attempts of this worker stay its own.
LEMMA MineStays ==
    ASSUME StepFacts, NEW t \in Tasks, NEW k \in AttemptIds, Mine(t, k)
    PROVE  Mine(t, k)'
  BY SmallFacts DEF StepFacts, Onwards, Mine

\* A result under an attempt of this worker is this worker's.
LEMMA MyOutput ==
    ASSUME IInv, NEW t \in Tasks, NEW k \in AttemptIds, Mine(t, k),
           ~Unspent(t, k)
    PROVE  task[t].output.worker = Self
  <1>1. k # Offline /\ task[t].output # None /\ task[t].output.attempt = k
    BY DEF Unspent
  <1>2. task[t].output.worker = task[t].owner /\ task[t].attempt = k
    BY <1>1 DEF IInv, SingleCommit
  <1>3. task[t].attempt # 0
    BY <1>1, <1>2 DEF Offline
  <1>4. attempts[t][k].worker = task[t].owner
    BY <1>2, <1>3 DEF IInv, AttemptLedger
  <1> QED
    BY <1>1, <1>2, <1>4 DEF Mine

\* An attempt of this worker is spent only when its row is pending, with the
\* very result that becomes the task's output.
LEMMA SpentWrittenAhead ==
    ASSUME StepFacts, NEW t \in Tasks, NEW k \in AttemptIds, Mine(t, k),
           Unspent(t, k), ~Unspent(t, k)'
    PROVE  /\ journal[t].state = "pending"
           /\ journal[t].attempt = k
           /\ journal[t].result = task'[t].output.grade
  <1>1. /\ task'[t].output # None
        /\ task'[t].output.attempt = k
        /\ k # Offline
    BY DEF Unspent
  <1>2. task[t].output = None
    BY <1>1 DEF Unspent, StepFacts, Onwards
  <1>3. Mine(t, k)'
    BY MineStays
  <1>4. task'[t].output.worker = Self
    <2>1. IInv'
      BY DEF StepFacts, FarmInv
    <2>2. /\ task'[t].output.worker = task'[t].owner
          /\ task'[t].attempt = k
      BY <1>1, <2>1 DEF IInv, SingleCommit
    <2>3. attempts'[t][k].worker = task'[t].owner
      BY <1>1, <2>1, <2>2 DEF IInv, AttemptLedger, Offline
    <2> QED
      BY <1>1, <1>3, <2>2, <2>3 DEF Mine
  <1>5. journal[t] = [state |-> "pending", attempt |-> task'[t].output.attempt,
                      result |-> task'[t].output.grade]
    BY <1>1, <1>2, <1>4 DEF StepFacts, WrittenAhead
  <1> QED
    BY <1>1, <1>5

\* What has been committed stays so.
LEMMA SpentStays ==
    ASSUME StepFacts, NEW t \in Tasks, NEW k, task[t].output # None
    PROVE  /\ task'[t].output = task[t].output
           /\ Unspent(t, k)' <=> Unspent(t, k)
  BY DEF StepFacts, Onwards, Unspent

\* A task that is live after a step was live before, or has been submitted.
LEMMA LiveBefore ==
    ASSUME StepFacts, NEW t \in Tasks, task[t].status # "absent",
           task'[t].status \in Live
    PROVE  task[t].status \in Live
  <1>1. task[t].status \in {"absent", "queued", "running", "done", "failed", "cancelled"}
    BY DEF StepFacts, FarmInv, IInv, TypeOK, TaskRow
  <1> QED
    BY <1>1 DEF StepFacts, Onwards, Decided, Live

----------------------------------------------------------------------------
(* What stays true of a row or a thread that a step leaves alone.           *)

\* A row that is not written stays true, whatever the queue does.
LEMMA RowStays ==
    ASSUME StepFacts, NEW t \in Tasks, RowTrue(t), journal'[t] = journal[t],
           t \in peeked' => task[t].status # "absent",
           journal[t].state = "running" =>
              executor'[Plan[t].slot] = executor[Plan[t].slot]
    PROVE  RowTrue(t)'
  <1> DEFINE row == journal[t]
  <1>1. row.attempt \in AttemptIds
    BY DEF StepFacts, FarmInv, LocalInv, JournalSound, JournalRow
  <1>2. row.state # "none" \/ t \in peeked' => task'[t].status # "absent"
    BY DEF RowTrue, StepFacts, Onwards
  <1>3. Mine(t, row.attempt)'
    BY <1>1, MineStays DEF RowTrue
  <1>4. row.state = "running" => AtWorkOn(Plan[t].slot, t, row.attempt)'
    BY DEF RowTrue, AtWorkOn
  <1>5. row.state = "pending" /\ ~Unspent(t, row.attempt)' =>
           task'[t].output.grade = row.result
    <2>1. CASE Unspent(t, row.attempt)
      BY <1>1, <2>1, SpentWrittenAhead DEF RowTrue
    <2>2. CASE ~Unspent(t, row.attempt)
      BY <2>2, SpentStays DEF RowTrue, Unspent
    <2> QED
      BY <2>1, <2>2
  <1>6. row.state = "committed" => task'[t].output = task[t].output
    BY SpentStays DEF RowTrue
  <1>7. row.state = "superseded" =>
           task'[t].status \in Decided /\ Unspent(t, row.attempt)'
    <2>1. Decided \cap {"pending"} = {}
      BY DEF Decided
    <2> QED
      BY <1>1, SpentWrittenAhead DEF RowTrue, StepFacts, Onwards
  <1> QED
    BY <1>2, <1>3, <1>4, <1>5, <1>6, <1>7 DEF RowTrue

\* A marker that is not written stays kept, if its row stays recoverable.
LEMMA MarkersStay ==
    ASSUME StepFacts, NEW t \in Tasks, MarkersKept(t), marker'[t] = marker[t],
           task[t].status \in Live /\ Recoverable(t) =>
              task'[t].status \notin Live \/ Recoverable(t)'
    PROVE  MarkersKept(t)'
  BY LiveBefore DEF MarkersKept, StepFacts, Onwards

\* A thread that does not move keeps its task, if what it relies on of the
\* task's row stays.
LEMMA ThreadStays ==
    ASSUME StepFacts, NEW s \in Slots, ThreadTrue(s), executor'[s] = executor[s],
           \/ executor[s].task = None
           \/ journal'[executor[s].task] = journal[executor[s].task]
           \/ /\ executor[s].pc \notin Working
              /\ executor[s].pc = "start" /\ executor[s].attempt # Offline =>
                    journal'[executor[s].task].attempt # executor[s].attempt
    PROVE  ThreadTrue(s)'
  <1> DEFINE t == executor[s].task
             k == executor[s].attempt
  <1> SUFFICES ASSUME t # None
               PROVE  ThreadTrue(s)'
    BY DEF ThreadTrue
  <1>1. t \in Tasks /\ k \in AttemptIds
    BY DEF StepFacts, FarmInv, LocalInv, ThreadsSound, ExecutorRow
  <1>2. task'[t].status # "absent" /\ Plan[t].slot = s
    BY <1>1 DEF ThreadTrue, StepFacts, Onwards
  <1>3. Mine(t, k)'
    BY <1>1, MineStays DEF ThreadTrue
  <1>4. executor[s].pc \in Working =>
           /\ journal'[t].state = "running"
           /\ journal'[t].attempt = k
           /\ Unspent(t, k)'
    BY <1>1, SpentWrittenAhead DEF ThreadTrue
  <1>5. executor[s].pc = "start" /\ k # Offline =>
           journal'[t].attempt # k /\ Unspent(t, k)'
    <2>1. executor[s].pc = "start" => executor[s].pc \notin Working
      BY DEF Working
    <2> QED
      BY <1>1, <2>1, SpentWrittenAhead DEF ThreadTrue
  <1> QED
    BY <1>2, <1>3, <1>4, <1>5 DEF ThreadTrue

\* A step that leaves the journal, the markers and the threads alone.
LEMMA OutcomeAway ==
    ASSUME StepFacts, OutcomeInv, UNCHANGED <<journal, marker, executor>>,
           \A t \in peeked' : t \in peeked \/ task[t].status # "absent"
    PROVE  OutcomeInv'
  <1>1. ASSUME NEW t \in Tasks
        PROVE  RowTrue(t)' /\ MarkersKept(t)'
    <2>1. t \in peeked' => task[t].status # "absent"
      BY DEF OutcomeInv, RowTrue
    <2>2. RowTrue(t)'
      BY <2>1, RowStays DEF OutcomeInv
    <2>3. Recoverable(t) => Recoverable(t)'
      BY DEF Recoverable
    <2> QED
      BY <2>2, <2>3, MarkersStay DEF OutcomeInv
  <1>2. ASSUME NEW s \in Slots
        PROVE  ThreadTrue(s)'
    BY ThreadStays DEF OutcomeInv
  <1> QED
    BY <1>1, <1>2 DEF OutcomeInv

\* The tasks of the threads differ: each is of the thread's slot.
LEMMA TasksApart ==
    ASSUME OutcomeInv, NEW s \in Slots, NEW r \in Slots, r # s,
           executor[s].task # None
    PROVE  executor[r].task # executor[s].task
  BY DEF OutcomeInv, ThreadTrue

\* A thread moves, and at most writes the row and the marker of its task.
LEMMA OutcomeThread ==
    ASSUME StepFacts, OutcomeInv, NEW s \in Slots, NEW t \in Tasks,
           executor[s].task = t,
           \A u \in Tasks \ {t} : journal'[u] = journal[u] /\ marker'[u] = marker[u],
           \A r \in Slots \ {s} : executor'[r] = executor[r],
           peeked' = peeked,
           RowTrue(t)', MarkersKept(t)', ThreadTrue(s)'
    PROVE  OutcomeInv'
  <1>1. t # None
    BY SmallFacts
  <1>2. ASSUME NEW u \in Tasks \ {t}
        PROVE  RowTrue(u)' /\ MarkersKept(u)'
    <2>1. Plan[u].slot \in Slots
      BY ConstantsAssumption DEF ConstantsAssumption, PlanRow
    <2>2. journal[u].state = "running" =>
             executor'[Plan[u].slot] = executor[Plan[u].slot]
      <3>1. journal[u].state = "running" => executor[Plan[u].slot].task = u
        BY DEF OutcomeInv, RowTrue, AtWorkOn
      <3> QED
        BY <2>1, <3>1
    <2>3. u \in peeked' => task[u].status # "absent"
      BY DEF OutcomeInv, RowTrue
    <2>4. RowTrue(u)'
      BY <2>2, <2>3, RowStays DEF OutcomeInv
    <2>5. Recoverable(u) => Recoverable(u)'
      BY <2>2 DEF Recoverable
    <2> QED
      BY <2>4, <2>5, MarkersStay DEF OutcomeInv
  <1>3. ASSUME NEW r \in Slots \ {s}
        PROVE  ThreadTrue(r)'
    <2>1. executor[r].task # t
      BY <1>1, TasksApart
    <2>2. executor[r].task = None \/ executor[r].task \in Tasks
      BY DEF StepFacts, FarmInv, LocalInv, ThreadsSound, ExecutorRow
    <2> QED
      BY <2>1, <2>2, ThreadStays DEF OutcomeInv
  <1> QED
    BY <1>2, <1>3 DEF OutcomeInv

\* A thread that is not about to record a result moves, and the journal and the
\* markers stay.
LEMMA OutcomeMove ==
    ASSUME StepFacts, OutcomeInv, NEW s \in Slots,
           UNCHANGED <<journal, marker, peeked>>,
           \A r \in Slots \ {s} : executor'[r] = executor[r],
           executor[s].pc \in Working =>
              /\ executor[s].pc # "record"
              /\ executor'[s].pc \in Working
              /\ executor'[s].task = executor[s].task
              /\ executor'[s].attempt = executor[s].attempt,
           ThreadTrue(s)'
    PROVE  OutcomeInv'
  <1>1. ASSUME NEW t \in Tasks
        PROVE  RowTrue(t)' /\ MarkersKept(t)'
    <2>1. Plan[t].slot \in Slots
      BY ConstantsAssumption DEF ConstantsAssumption, PlanRow
    <2>2. CASE Plan[t].slot # s
      <3>1. RowTrue(t)'
        BY <2>1, <2>2, RowStays DEF OutcomeInv, RowTrue
      <3>2. Recoverable(t) => Recoverable(t)'
        BY <2>1, <2>2 DEF Recoverable
      <3> QED
        BY <3>1, <3>2, MarkersStay DEF OutcomeInv
    <2>3. CASE Plan[t].slot = s /\ journal[t].state # "running"
      <3>1. RowTrue(t)'
        BY <2>3, RowStays DEF OutcomeInv, RowTrue
      <3>2. Recoverable(t) => Recoverable(t)'
        BY <2>3 DEF Recoverable
      <3> QED
        BY <3>1, <3>2, MarkersStay DEF OutcomeInv
    <2>4. CASE Plan[t].slot = s /\ journal[t].state = "running"
      <3>1. AtWorkOn(s, t, journal[t].attempt)
        BY <2>4 DEF OutcomeInv, RowTrue
      <3>2. AtWorkOn(s, t, journal[t].attempt)'
        BY <3>1 DEF AtWorkOn
      <3>3. journal[t].attempt \in AttemptIds
        BY DEF StepFacts, FarmInv, LocalInv, JournalSound, JournalRow
      <3>4. RowTrue(t)'
        BY <2>4, <3>2, <3>3, MineStays DEF OutcomeInv, RowTrue, StepFacts, Onwards
      <3>5. ~Recoverable(t)
        BY <2>4, <3>1 DEF Recoverable, AtWorkOn
      <3> QED
        BY <3>4, <3>5, MarkersStay DEF OutcomeInv
    <2> QED
      BY <2>2, <2>3, <2>4
  <1>2. ASSUME NEW r \in Slots \ {s}
        PROVE  ThreadTrue(r)'
    BY ThreadStays DEF OutcomeInv
  <1> QED
    BY <1>1, <1>2 DEF OutcomeInv

\* The pass or a prefetch writes a row that no thread works on.
LEMMA OutcomeWrite ==
    ASSUME StepFacts, OutcomeInv, NEW t \in Tasks,
           \A u \in Tasks \ {t} : journal'[u] = journal[u],
           UNCHANGED <<marker, executor>>, peeked' \subseteq peeked,
           journal[t].state # "running",
           \A s \in Slots :
              executor[s].task = t /\ executor[s].pc = "start"
                 /\ executor[s].attempt # Offline
              => journal'[t].attempt # executor[s].attempt,
           RowTrue(t)', MarkersKept(t)'
    PROVE  OutcomeInv'
  <1>1. ASSUME NEW u \in Tasks \ {t}
        PROVE  RowTrue(u)' /\ MarkersKept(u)'
    <2>1. RowTrue(u)'
      BY RowStays DEF OutcomeInv, RowTrue
    <2>2. Recoverable(u) => Recoverable(u)'
      BY DEF Recoverable
    <2> QED
      BY <2>1, <2>2, MarkersStay DEF OutcomeInv
  <1>2. ASSUME NEW s \in Slots
        PROVE  ThreadTrue(s)'
    <2>1. CASE executor[s].task = t
      <3>1. t # None
        BY SmallFacts
      <3>2. executor[s].pc \notin Working
        BY <2>1, <3>1 DEF OutcomeInv, ThreadTrue
      <3> QED
        BY <2>1, <3>1, <3>2, ThreadStays DEF OutcomeInv
    <2>2. CASE executor[s].task # t
      <3>1. executor[s].task = None \/ executor[s].task \in Tasks \ {t}
        BY <2>2 DEF StepFacts, FarmInv, LocalInv, ThreadsSound, ExecutorRow
      <3> QED
        BY <3>1, ThreadStays DEF OutcomeInv
    <2> QED
      BY <2>1, <2>2
  <1> QED
    BY <1>1, <1>2 DEF OutcomeInv

----------------------------------------------------------------------------
(* The threads of the slots keep the journal true.                          *)

\* A thread that becomes something else keeps its task and its attempt.
LEMMA BecomesEffect ==
    ASSUME LocalInv, NEW s \in Slots, NEW pc, Becomes(s, pc)
    PROVE  /\ executor'[s].pc = pc
           /\ executor'[s].task = executor[s].task
           /\ executor'[s].attempt = executor[s].attempt
           /\ \A r \in Slots \ {s} : executor'[r] = executor[r]
  <1>1. executor \in [Slots -> ExecutorRow] /\ executor[s] \in ExecutorRow
    BY DEF LocalInv, ThreadsSound
  <1> DEFINE row == [executor[s] EXCEPT !.pc = pc]
  <1>2. executor' = [executor EXCEPT ![s] = row]
    BY DEF Becomes
  <1>3. row.pc = pc /\ row.task = executor[s].task /\ row.attempt = executor[s].attempt
    BY <1>1 DEF ExecutorRow
  <1> HIDE DEF row
  <1> QED
    BY <1>1, <1>2, <1>3

\* A thread that rests, or starts, has the row that says so.
LEMMA ReplacedEffect ==
    ASSUME LocalInv, NEW s \in Slots, NEW row, executor' = [executor EXCEPT ![s] = row]
    PROVE  executor'[s] = row /\ \A r \in Slots \ {s} : executor'[r] = executor[r]
  BY DEF LocalInv, ThreadsSound

\* A thread at rest has no task to be right about.
LEMMA RestIsTrue ==
    ASSUME NEW s \in Slots, executor'[s] = Resting
    PROVE  ThreadTrue(s)'
  BY DEF ThreadTrue, Resting

\* A thread's task and attempt have their types.
LEMMA ThreadTypes ==
    ASSUME StepFacts, NEW s \in Slots
    PROVE  /\ executor[s].task # None => executor[s].task \in Tasks
           /\ executor[s].attempt \in AttemptIds
           /\ executor[s].pc \notin {"idle", "claim", "speculate"} => executor[s].task # None
  BY DEF StepFacts, FarmInv, LocalInv, ThreadsSound, ThreadSound, ExecutorRow

\* A thread goes on with its task to where it relies on nothing more.
LEMMA ThreadGoes ==
    ASSUME StepFacts, NEW s \in Slots, ThreadTrue(s),
           executor'[s].task = executor[s].task,
           executor'[s].attempt = executor[s].attempt,
           executor'[s].pc \notin Working \cup {"start"}
    PROVE  ThreadTrue(s)'
  <1> SUFFICES ASSUME executor[s].task # None
               PROVE  ThreadTrue(s)'
    BY DEF ThreadTrue
  <1>1. Mine(executor[s].task, executor[s].attempt)'
    BY ThreadTypes, MineStays DEF ThreadTrue
  <1> QED
    BY <1>1, ThreadTypes DEF ThreadTrue, StepFacts, Onwards

\* A thread that works goes on working on its task's running row.
LEMMA ThreadWorks ==
    ASSUME StepFacts, NEW s \in Slots, ThreadTrue(s), executor[s].task # None,
           executor'[s].task = executor[s].task,
           executor'[s].attempt = executor[s].attempt,
           executor'[s].pc \in Working,
           journal'[executor[s].task].state = "running",
           journal'[executor[s].task].attempt = executor[s].attempt,
           \/ executor[s].pc \in Working
           \/ executor[s].pc = "start"
    PROVE  ThreadTrue(s)'
  <1> DEFINE t == executor[s].task
             k == executor[s].attempt
  <1>1. t \in Tasks /\ k \in AttemptIds
    BY ThreadTypes
  <1>2. Mine(t, k)'
    BY <1>1, MineStays DEF ThreadTrue
  <1>3. Unspent(t, k)'
    <2>1. k = Offline => Unspent(t, k)'
      BY DEF Unspent
    <2>2. k # Offline =>
             /\ Unspent(t, k)
             /\ journal[t].state # "pending" \/ journal[t].attempt # k
      BY DEF ThreadTrue
    <2> QED
      BY <1>1, <2>1, <2>2, SpentWrittenAhead DEF ThreadTrue
  <1>4. "start" \notin Working
    BY DEF Working
  <1> QED
    BY <1>1, <1>2, <1>3, <1>4 DEF ThreadTrue, StepFacts, Onwards

\* A task that is handed out runs under an attempt that neither the journal nor
\* a thread knows yet, and that is not spent.
LEMMA HandedNew ==
    ASSUME StepFacts, OutcomeInv, ClaimStep(Self), NEW t \in Handed,
           NEW k \in AttemptIds, k = task'[t].attempt
    PROVE  /\ t \in Tasks
           /\ task'[t].status # "absent"
           /\ k # Offline
           /\ Mine(t, k)'
           /\ Unspent(t, k)'
           /\ journal[t].attempt # k
           /\ \A s \in Slots : executor[s].task = t => executor[s].attempt # k
  <1>1. /\ t \in Tasks
        /\ k # Offline
        /\ task'[t].status = "running"
        /\ attempts[t][k].state = "absent"
        /\ attempts'[t][k].state = "running"
        /\ attempts'[t][k].worker = Self
    BY HandedFresh DEF StepFacts, FarmInv
  <1>2. ~Mine(t, k)
    BY <1>1 DEF Mine
  <1>3. task'[t].output = None
    <2>1. IInv'
      BY DEF StepFacts, FarmInv
    <2> QED
      BY <1>1, <2>1 DEF IInv, SingleCommit
  <1>4. t # None
    BY <1>1, SmallFacts
  <1>5. Mine(t, journal[t].attempt) /\
        \A s \in Slots : executor[s].task = t => Mine(t, executor[s].attempt)
    BY <1>1, <1>4 DEF OutcomeInv, RowTrue, ThreadTrue
  <1>6. journal[t].attempt # k /\
        \A s \in Slots : executor[s].task = t => executor[s].attempt # k
    BY <1>2, <1>5
  <1>7. Mine(t, k)' /\ Unspent(t, k)'
    BY <1>1, <1>3 DEF Mine, Unspent
  <1> QED
    BY <1>1, <1>6, <1>7

\* Nothing but the thread moves, and it does not work.
LEMMA IdleMove ==
    ASSUME StepFacts, OutcomeInv, NEW s \in Slots, executor[s].pc \notin Working,
           UNCHANGED <<journal, marker, peeked>>,
           \/ Rests(s)
           \/ \E pc : pc \notin Working \cup {"start"} /\ Becomes(s, pc)
    PROVE  OutcomeInv'
  <1>1. LocalInv
    BY DEF StepFacts, FarmInv
  <1>2. CASE Rests(s)
    <2>1. executor'[s] = Resting /\ \A r \in Slots \ {s} : executor'[r] = executor[r]
      BY <1>1, <1>2, ReplacedEffect DEF Rests
    <2>2. ThreadTrue(s)'
      BY <2>1, RestIsTrue
    <2> QED
      BY <2>1, <2>2, OutcomeMove
  <1>3. ASSUME NEW pc, pc \notin Working \cup {"start"}, Becomes(s, pc)
        PROVE  OutcomeInv'
    <2>1. ThreadTrue(s)'
      BY <1>1, <1>3, BecomesEffect, ThreadGoes DEF OutcomeInv
    <2>2. \A r \in Slots \ {s} : executor'[r] = executor[r]
      BY <1>1, <1>3, BecomesEffect
    <2> QED
      BY <2>1, <2>2, OutcomeMove
  <1> QED
    BY <1>2, <1>3

\* A claim starts with the task that is handed out.
LEMMA ClaimTrue ==
    ASSUME StepFacts, OutcomeInv, NEW s \in Slots, Claim(s)
    PROVE  OutcomeInv'
  <1>1. /\ UNCHANGED <<journal, marker, peeked>>
        /\ executor[s].pc \notin Working
        /\ LocalInv
    BY DEF Claim, Working, StepFacts, FarmInv
  <1>2. CASE Rests(s) \/ Becomes(s, "speculate")
    BY <1>1, <1>2, IdleMove DEF Working
  <1>3. ASSUME CallClaim(s, None), NEW t \in Handed,
               executor' = [executor EXCEPT ![s] = Starting(t, task'[t].attempt)]
        PROVE  OutcomeInv'
    <2>1. ClaimStep(Self)
      BY <1>3, ClaimIsNext
    <2>2. Plan[t].slot = s
      BY <1>3, HandedSlot DEF StepFacts, FarmInv
    <2>3. executor'[s] = Starting(t, task'[t].attempt)
          /\ \A r \in Slots \ {s} : executor'[r] = executor[r]
      BY <1>1, <1>3, ReplacedEffect
    <2>4. "start" \notin Working
      BY DEF Working
    <2>5. task'[t].attempt \in AttemptIds
      BY <1>3, <2>1, HandedFresh DEF StepFacts, FarmInv, AttemptIds
    <2>6. PICK k \in AttemptIds : k = task'[t].attempt
      BY <2>5
    <2>7. /\ task'[t].status # "absent"
          /\ k # Offline
          /\ Mine(t, k)'
          /\ Unspent(t, k)'
          /\ journal'[t].attempt # k
      BY <1>1, <1>3, <2>1, <2>6, HandedNew
    <2>8. ThreadTrue(s)'
      BY <2>2, <2>3, <2>4, <2>6, <2>7 DEF ThreadTrue, Starting
    <2> QED
      BY <1>1, <2>3, <2>8, OutcomeMove
  <1> QED
    BY <1>2, <1>3 DEF Claim

\* Offline, a thread starts with a task whose input is cached.
LEMMA SpeculateTrue ==
    ASSUME StepFacts, OutcomeInv, NEW s \in Slots, Speculate(s)
    PROVE  OutcomeInv'
  <1>1. /\ UNCHANGED <<journal, marker, peeked>>
        /\ executor[s].pc \notin Working
        /\ LocalInv
    BY DEF Speculate, Working, StepFacts, FarmInv
  <1>2. CASE Rests(s)
    BY <1>1, <1>2, IdleMove
  <1>3. ASSUME NEW t \in Tasks, journal[t].state = "cached", Plan[t].slot = s,
               executor' = [executor EXCEPT ![s] = Starting(t, Offline)]
        PROVE  OutcomeInv'
    <2>1. executor'[s] = Starting(t, Offline)
          /\ \A r \in Slots \ {s} : executor'[r] = executor[r]
      BY <1>1, <1>3, ReplacedEffect
    <2>2. task'[t].status # "absent"
      BY <1>3 DEF OutcomeInv, RowTrue, StepFacts, Onwards
    <2>3. "start" \notin Working
      BY DEF Working
    <2>4. ThreadTrue(s)'
      BY <1>3, <2>1, <2>2, <2>3 DEF ThreadTrue, Starting, Mine
    <2> QED
      BY <1>1, <2>1, <2>4, OutcomeMove
  <1> QED
    BY <1>2, <1>3 DEF Speculate

\* A thread that may not claim yet, or is told that there is nothing to do.
LEMMA CheckTrue ==
    ASSUME StepFacts, OutcomeInv, NEW s \in Slots,
           Check(s) \/ ReportComputed(s) \/ FlushFailure(s) \/ FlushedFailure(s)
    PROVE  OutcomeInv'
  <1>1. /\ executor[s].pc \notin Working
        /\ UNCHANGED <<journal, marker, peeked>>
    BY DEF Check, ReportComputed, FlushFailure, FlushedFailure, Working
  <1>2. Rests(s) \/ Becomes(s, "claim") \/ Becomes(s, "flushing")
    BY DEF Check, ReportComputed, FlushFailure, FlushedFailure
  <1>3. "claim" \notin Working \cup {"start"} /\ "flushing" \notin Working \cup {"start"}
    BY DEF Working
  <1> QED
    BY <1>1, <1>2, <1>3, IdleMove

\* A row that a thread writes of its task is true, if the thread goes on to
\* work on it, or if the attempt of the result is not spent.
LEMMA WrittenTrue ==
    ASSUME StepFacts, OutcomeInv, NEW s \in Slots, NEW t \in Tasks,
           NEW k \in AttemptIds, executor[s].task = t, executor[s].attempt = k,
           NEW state, NEW result,
           journal'[t] = [state |-> state, attempt |-> k, result |-> result],
           state \notin {"committed", "superseded"},
           state = "running" => AtWorkOn(s, t, k)',
           state = "pending" => Unspent(t, k)'
    PROVE  RowTrue(t)'
  <1>1. t # None
    BY SmallFacts
  <1>2. Plan[t].slot = s /\ Mine(t, k) /\ task[t].status # "absent"
    BY <1>1 DEF OutcomeInv, ThreadTrue
  <1>3. Mine(t, k)' /\ task'[t].status # "absent"
    BY <1>2, MineStays DEF StepFacts, Onwards
  <1>4. journal'[t].state = state /\ journal'[t].attempt = k
    OBVIOUS
  <1> QED
    BY <1>2, <1>3, <1>4 DEF RowTrue

\* A thread begins: it adopts a result that is already in the outbox, or marks
\* the row as running.
LEMMA BeginTrue ==
    ASSUME StepFacts, OutcomeInv, NEW s \in Slots, Begin(s)
    PROVE  OutcomeInv'
  <1>1. /\ executor[s].pc = "start"
        /\ UNCHANGED <<marker, peeked>>
        /\ LocalInv
        /\ JournalSound
        /\ executor[s].pc \notin Working
    BY DEF Begin, StepFacts, FarmInv, LocalInv, Working
  <1> PICK t \in Tasks : t = executor[s].task
    BY <1>1, ThreadTypes
  <1> PICK k \in AttemptIds : k = executor[s].attempt
    BY ThreadTypes
  <1>2. executor[s].task = t /\ executor[s].attempt = k /\ t # None
    BY SmallFacts
  <1>3. ThreadTrue(s) /\ RowTrue(t) /\ MarkersKept(t)
    BY <1>2 DEF OutcomeInv
  <1>4. CASE Rests(s) /\ UNCHANGED <<journal, older>>
    BY <1>1, <1>4, IdleMove
  <1>5. CASE k # Offline /\ Becomes(s, "adopt") /\ Save(t, "pending", k, journal[t].result)
             /\ journal[t].state = "pending"
    <2>1. RowSound(t, [state |-> "pending", attempt |-> k, result |-> journal[t].result])
      <3>1. RowSound(t, journal[t])
        BY <1>1, <1>2 DEF JournalSound
      <3> QED
        BY <1>5, <3>1 DEF RowSound, JournalRow, Outbox
    <2>2. /\ journal'[t] = [state |-> "pending", attempt |-> k, result |-> journal[t].result]
          /\ \A u \in Tasks \ {t} : journal'[u] = journal[u]
      BY <1>1, <1>2, <1>5, <2>1, SaveEffect
    <2>3. /\ executor'[s].pc = "adopt"
          /\ executor'[s].task = t
          /\ executor'[s].attempt = executor[s].attempt
          /\ \A r \in Slots \ {s} : executor'[r] = executor[r]
      BY <1>1, <1>5, BecomesEffect
    <2>4. Unspent(t, k)'
      BY <1>1, <1>2, <1>3, <1>5, SpentWrittenAhead DEF ThreadTrue
    <2>5. RowTrue(t)'
      BY <1>2, <2>2, <2>4, WrittenTrue
    <2>6. MarkersKept(t)'
      BY <1>2, <1>3, <2>2 DEF MarkersKept, Recoverable, ThreadTrue, StepFacts, Onwards
    <2>7. ThreadTrue(s)'
      BY <1>3, <2>3, ThreadGoes DEF Working
    <2> QED
      BY <1>1, <1>2, <2>2, <2>3, <2>5, <2>6, <2>7, OutcomeThread
  <1>6. CASE /\ journal[t].state # "pending"
             /\ Save(t, "running", k, None)
             /\ Becomes(s, IF k = Offline THEN "compute" ELSE "load")
    <2>1. RowSound(t, [state |-> "running", attempt |-> k, result |-> None])
      BY <1>2 DEF RowSound, JournalRow
    <2>2. /\ journal'[t] = [state |-> "running", attempt |-> k, result |-> None]
          /\ \A u \in Tasks \ {t} : journal'[u] = journal[u]
      BY <1>1, <1>2, <1>6, <2>1, SaveEffect
    <2>3. /\ executor'[s].pc \in Working
          /\ executor'[s].pc # "record"
          /\ executor'[s].task = t
          /\ executor'[s].attempt = executor[s].attempt
          /\ \A r \in Slots \ {s} : executor'[r] = executor[r]
      BY <1>1, <1>6, BecomesEffect DEF Working
    <2>4. AtWorkOn(s, t, k)'
      BY <1>2, <2>3 DEF AtWorkOn
    <2>5. RowTrue(t)'
      BY <1>2, <2>2, <2>4, WrittenTrue
    <2>6. ~Recoverable(t)
      BY <1>1, <1>2, <1>3, <1>6 DEF Recoverable, RowTrue, AtWorkOn, ThreadTrue, Working
    <2>7. MarkersKept(t)'
      BY <1>1, <1>2, <1>3, <2>6, MarkersStay
    <2>8. ThreadTrue(s)'
      BY <1>1, <1>2, <1>3, <2>2, <2>3, ThreadWorks
    <2> QED
      BY <1>1, <1>2, <2>2, <2>3, <2>5, <2>7, <2>8, OutcomeThread
  <1> QED
    BY <1>1, <1>4, <1>5, <1>6 DEF Begin

\* A thread at work has the running row of its task.
LEMMA WorkingRow ==
    ASSUME StepFacts, OutcomeInv, NEW s \in Slots, executor[s].pc \in Working
    PROVE  \E t \in Tasks, k \in AttemptIds :
              /\ executor[s].task = t
              /\ executor[s].attempt = k
              /\ t # None
              /\ Plan[t].slot = s
              /\ journal[t].state = "running"
              /\ journal[t].attempt = k
              /\ Unspent(t, k)
  <1>1. executor[s].pc \notin {"idle", "claim", "speculate"}
    BY DEF Working
  <1>2. /\ executor[s].task # None
        /\ executor[s].task \in Tasks
        /\ executor[s].attempt \in AttemptIds
    BY <1>1, ThreadTypes
  <1>3. ThreadTrue(s)
    BY DEF OutcomeInv
  <1> QED
    BY <1>2, <1>3 DEF ThreadTrue

\* A thread without a result gives its task up.
LEMMA GiveUpTrue ==
    ASSUME StepFacts, OutcomeInv, NEW s \in Slots,
           executor[s].pc \in {"load", "compute"},
           UNCHANGED <<marker, peeked>>,
           NEW state \in {"failure_pending", "failed", "cached"},
           state = "failure_pending" => executor[s].attempt # Offline,
           Save(executor[s].task, state, executor[s].attempt, None),
           Rests(s) \/ Becomes(s, "flush")
    PROVE  OutcomeInv'
  <1>1. LocalInv /\ JournalSound
    BY DEF StepFacts, FarmInv, LocalInv
  <1>2. executor[s].pc \in Working /\ executor[s].pc # "record"
    BY DEF Working
  <1> PICK t \in Tasks, k \in AttemptIds :
              /\ executor[s].task = t
              /\ executor[s].attempt = k
              /\ t # None
              /\ Plan[t].slot = s
              /\ journal[t].state = "running"
              /\ journal[t].attempt = k
              /\ Unspent(t, k)
    BY <1>2, WorkingRow
  <1>3. RowSound(t, [state |-> state, attempt |-> k, result |-> None])
    BY DEF RowSound, JournalRow, Outbox
  <1>4. /\ journal'[t] = [state |-> state, attempt |-> k, result |-> None]
        /\ \A u \in Tasks \ {t} : journal'[u] = journal[u]
    BY <1>1, <1>3, SaveEffect
  <1>5. RowTrue(t)'
    BY <1>4, WrittenTrue
  <1>6. ~Recoverable(t)
    BY <1>2 DEF Recoverable
  <1>7. MarkersKept(t)'
    BY <1>6, MarkersStay DEF OutcomeInv
  <1>8. ThreadTrue(s)' /\ \A r \in Slots \ {s} : executor'[r] = executor[r]
    <2>1. CASE Rests(s)
      BY <1>1, <2>1, ReplacedEffect, RestIsTrue DEF Rests
    <2>2. CASE Becomes(s, "flush")
      <3>1. "flush" \notin Working \cup {"start"}
        BY DEF Working
      <3> QED
        BY <1>1, <2>2, <3>1, BecomesEffect, ThreadGoes DEF OutcomeInv
    <2> QED
      BY <2>1, <2>2
  <1> QED
    BY <1>4, <1>5, <1>7, <1>8, OutcomeThread

\* Fetching the input, or failing to.
LEMMA LoadTrue ==
    ASSUME StepFacts, OutcomeInv, NEW s \in Slots, Load(s)
    PROVE  OutcomeInv'
  <1>1. /\ executor[s].pc = "load"
        /\ UNCHANGED <<marker, peeked>>
        /\ LocalInv
        /\ executor[s].pc \in Working
    BY DEF Load, StepFacts, FarmInv, Working
  <1>2. CASE Becomes(s, "compute") /\ UNCHANGED <<journal, older>>
    <2>1. /\ executor'[s].pc = "compute"
          /\ executor'[s].task = executor[s].task
          /\ executor'[s].attempt = executor[s].attempt
          /\ \A r \in Slots \ {s} : executor'[r] = executor[r]
      BY <1>1, <1>2, BecomesEffect
    <2>2. executor'[s].pc \in Working
      BY <2>1 DEF Working
    <2>3. /\ executor[s].task # None
          /\ journal'[executor[s].task].state = "running"
          /\ journal'[executor[s].task].attempt = executor[s].attempt
      BY <1>1, <1>2, WorkingRow
    <2>4. ThreadTrue(s)'
      BY <1>1, <2>1, <2>2, <2>3, ThreadWorks DEF OutcomeInv
    <2> QED
      BY <1>1, <1>2, <2>1, <2>2, <2>4, OutcomeMove
  <1>3. CASE FailLocally(s)
    BY <1>1, <1>3, GiveUpTrue DEF FailLocally
  <1>4. CASE Save(executor[s].task, "cached", executor[s].attempt, None) /\ Rests(s)
    BY <1>1, <1>4, GiveUpTrue
  <1> QED
    BY <1>2, <1>3, <1>4 DEF Load

\* The execution ends, with its marker on the disk.
LEMMA ComputeTrue ==
    ASSUME StepFacts, OutcomeInv, NEW s \in Slots, Compute(s)
    PROVE  OutcomeInv'
  <1>1. /\ executor[s].pc = "compute"
        /\ UNCHANGED peeked
        /\ LocalInv
        /\ executor[s].pc \in Working
    BY DEF Compute, StepFacts, FarmInv, Working
  <1>2. CASE FailLocally(s) /\ UNCHANGED marker
    BY <1>1, <1>2, GiveUpTrue DEF FailLocally
  <1>3. CASE \E grade \in Results[executor[s].task] :
                /\ marker' = [marker EXCEPT ![executor[s].task][executor[s].attempt] = grade]
                /\ executor' = [executor EXCEPT ![s].pc = "record",
                                                ![s].result = grade]
                /\ UNCHANGED <<journal, older>>
    <2> PICK t \in Tasks, k \in AttemptIds :
                /\ executor[s].task = t
                /\ executor[s].attempt = k
                /\ t # None
                /\ Plan[t].slot = s
                /\ journal[t].state = "running"
                /\ journal[t].attempt = k
                /\ Unspent(t, k)
      BY <1>1, WorkingRow
    <2> PICK grade \in Results[t] :
                /\ marker' = [marker EXCEPT ![t][k] = grade]
                /\ executor' = [executor EXCEPT ![s].pc = "record",
                                                ![s].result = grade]
                /\ UNCHANGED <<journal, older>>
      BY <1>3
    <2>1. grade # None
      BY GradesAreProper
    <2> DEFINE row == [executor[s] EXCEPT !.pc = "record", !.result = grade]
    <2>2. executor' = [executor EXCEPT ![s] = row]
      BY <1>1 DEF LocalInv, ThreadsSound
    <2>3. row.pc = "record" /\ row.task = t /\ row.attempt = k
      BY <1>1 DEF LocalInv, ThreadsSound, ExecutorRow
    <2> HIDE DEF row
    <2>4. executor'[s] = row /\ \A r \in Slots \ {s} : executor'[r] = executor[r]
      BY <1>1, <2>2, ReplacedEffect
    <2>5. executor'[s].pc \in Working
      BY <2>3, <2>4 DEF Working
    <2>6. /\ marker'[t][k] = grade
          /\ \A u \in Tasks \ {t} : marker'[u] = marker[u]
      BY <1>1 DEF LocalInv, MarkersSound
    <2>7. AtWorkOn(s, t, k)'
      BY <2>3, <2>4, <2>5 DEF AtWorkOn
    <2>8. journal[t] \in JournalRow
      BY <1>1 DEF LocalInv, JournalSound
    <2>9. journal'[t] = [state |-> "running", attempt |-> k, result |-> journal[t].result]
      BY <2>8 DEF JournalRow
    <2>10. RowTrue(t)'
      BY <2>7, <2>9, WrittenTrue
    <2>11. Recoverable(t)'
      BY <2>1, <2>3, <2>4, <2>6, <2>9 DEF Recoverable
    <2>12. MarkersKept(t)'
      BY <2>11 DEF MarkersKept, OutcomeInv, RowTrue, StepFacts, Onwards
    <2>13. ThreadTrue(s)'
      BY <1>1, <2>3, <2>4, <2>5, <2>9, ThreadWorks DEF OutcomeInv
    <2> QED
      BY <1>1, <2>4, <2>6, <2>10, <2>12, <2>13, OutcomeThread
  <1> QED
    BY <1>2, <1>3 DEF Compute

\* The result goes into the outbox.
LEMMA RecordTrue ==
    ASSUME StepFacts, OutcomeInv, NEW s \in Slots, Record(s)
    PROVE  OutcomeInv'
  <1>1. /\ executor[s].pc = "record"
        /\ UNCHANGED <<marker, peeked>>
        /\ LocalInv
        /\ JournalSound
        /\ executor[s].pc \in Working
    BY DEF Record, StepFacts, FarmInv, LocalInv, Working
  <1> PICK t \in Tasks, k \in AttemptIds :
              /\ executor[s].task = t
              /\ executor[s].attempt = k
              /\ t # None
              /\ Plan[t].slot = s
              /\ journal[t].state = "running"
              /\ journal[t].attempt = k
              /\ Unspent(t, k)
    BY <1>1, WorkingRow
  <1>2. executor[s].result \in Results[t]
    BY <1>1 DEF LocalInv, ThreadsSound, ThreadSound
  <1> PICK grade \in Results[t] : grade = executor[s].result
    BY <1>2
  <1>3. Save(t, "pending", k, grade)
    BY DEF Record
  <1>4. RowSound(t, [state |-> "pending", attempt |-> k, result |-> grade])
    BY GradesAreProper DEF RowSound, JournalRow, Outbox
  <1>5. /\ journal'[t] = [state |-> "pending", attempt |-> k, result |-> grade]
        /\ \A u \in Tasks \ {t} : journal'[u] = journal[u]
    BY <1>1, <1>3, <1>4, SaveEffect
  <1>6. Unspent(t, k)'
    <2>1. Mine(t, k)
      BY DEF OutcomeInv, RowTrue
    <2> QED
      BY <2>1, SpentWrittenAhead
  <1>7. RowTrue(t)'
    BY <1>5, <1>6, WrittenTrue
  <1>8. MarkersKept(t)'
    <2>1. Recoverable(t)'
      BY <1>5 DEF Recoverable
    <2>2. task'[t].status # "absent"
      BY DEF OutcomeInv, RowTrue, StepFacts, Onwards
    <2> QED
      BY <2>1, <2>2 DEF MarkersKept
  <1>9. ThreadTrue(s)' /\ \A r \in Slots \ {s} : executor'[r] = executor[r]
    <2>1. CASE Rests(s)
      BY <1>1, <2>1, ReplacedEffect, RestIsTrue DEF Rests
    <2>2. CASE Becomes(s, "report")
      <3>1. "report" \notin Working \cup {"start"}
        BY DEF Working
      <3> QED
        BY <1>1, <2>2, <3>1, BecomesEffect, ThreadGoes DEF OutcomeInv
    <2> QED
      BY <2>1, <2>2 DEF Record
  <1> QED
    BY <1>1, <1>5, <1>7, <1>8, <1>9, OutcomeThread

\* So every step of a thread, and of its lease guard, keeps the invariant.
LEMMA ThreadStepTrue ==
    ASSUME StepFacts, OutcomeInv, NEW s \in Slots, ExecutorStep(s) \/ GuardExecution(s)
    PROVE  OutcomeInv'
  <1>1. CASE GuardExecution(s)
    BY <1>1, OutcomeAway DEF GuardExecution, localVars
  <1> QED
    BY <1>1, CheckTrue, ClaimTrue, SpeculateTrue, BeginTrue, LoadTrue, ComputeTrue,
       RecordTrue DEF ExecutorStep

----------------------------------------------------------------------------
(* The flush pass keeps the journal true.                                   *)

\* The row at hand, before a pass writes it.
LEMMA RowAtHandTrue ==
    ASSUME StepFacts, OutcomeInv, uploader.pc \notin {"idle", "next"}
    PROVE  \E t \in Tasks, k \in AttemptIds :
              /\ uploader.task = t
              /\ uploader.attempt = k
              /\ journal[t].attempt = k
              /\ journal[t].state = IF At("fail") THEN "failure_pending" ELSE "pending"
              /\ ~At("fail") => journal[t].result \in Results[t]
              /\ RowTrue(t)
              /\ RowSound(t, journal[t])
              /\ Mine(t, k)
              /\ Mine(t, k)'
              /\ task[t].status # "absent"
              /\ task'[t].status # "absent"
  <1>1. LocalInv
    BY DEF StepFacts, FarmInv
  <1>2. uploader.task # None
    BY <1>1, AtCall
  <1>3. /\ uploader.task \in Tasks
        /\ uploader.attempt \in AttemptIds
        /\ journal[uploader.task].attempt = uploader.attempt
        /\ uploader.pc # "fail" => journal[uploader.task].result \in Results[uploader.task]
    BY <1>1, <1>2, Hand
  <1> PICK t \in Tasks : t = uploader.task
    BY <1>3
  <1> PICK k \in AttemptIds : k = uploader.attempt
    BY <1>3
  <1>4. journal[t].state = IF At("fail") THEN "failure_pending" ELSE "pending"
    BY <1>1, <1>2 DEF LocalInv, HandSound
  <1>5. RowTrue(t) /\ RowSound(t, journal[t])
    BY <1>1 DEF OutcomeInv, LocalInv, JournalSound
  <1>6. Mine(t, k) /\ task[t].status # "absent"
    BY <1>3, <1>4, <1>5 DEF RowTrue
  <1>7. Mine(t, k)' /\ task'[t].status # "absent"
    BY <1>6, MineStays DEF StepFacts, Onwards
  <1> QED
    BY <1>3, <1>4, <1>5, <1>6, <1>7 DEF At

\* The pass writes the row at hand under the row's attempt.
LEMMA SettleTrue ==
    ASSUME StepFacts, OutcomeInv, uploader.pc \notin {"idle", "next"},
           NEW t \in Tasks, NEW k \in AttemptIds,
           uploader.task = t, uploader.attempt = k,
           NEW state \in {"committed", "superseded", "failed"},
           NEW result \in {journal[t].result, None},
           Save(t, state, k, result), UNCHANGED <<marker, executor, peeked>>,
           state = "committed" =>
              task'[t].output # None /\
              task'[t].output = [attempt |-> k, worker |-> Self, grade |-> result],
           state = "superseded" => task'[t].status \in Decided /\ Unspent(t, k)',
           state = "failed" => At("fail")
    PROVE  OutcomeInv'
  <1>1. /\ journal[t].attempt = k
        /\ journal[t].state = IF At("fail") THEN "failure_pending" ELSE "pending"
        /\ RowSound(t, journal[t])
        /\ Mine(t, k)'
        /\ task[t].status # "absent"
        /\ task'[t].status # "absent"
    BY RowAtHandTrue
  <1>2. JournalSound /\ IInv'
    BY DEF StepFacts, FarmInv, LocalInv
  <1>3. RowSound(t, [state |-> state, attempt |-> k, result |-> result])
    BY <1>1 DEF RowSound, JournalRow
  <1>4. /\ journal'[t] = [state |-> state, attempt |-> k, result |-> result]
        /\ \A u \in Tasks \ {t} : journal'[u] = journal[u]
    BY <1>2, <1>3, SaveEffect
  <1>5. RowTrue(t)'
    BY <1>1, <1>4 DEF RowTrue
  <1>6. MarkersKept(t)'
    <2>1. CASE state = "failed"
      <3>1. ~Recoverable(t)
        BY <1>1, <2>1 DEF Recoverable
      <3> QED
        BY <3>1, MarkersStay DEF OutcomeInv
    <2>2. CASE state # "failed"
      <3>1. task'[t].status \in Decided
        BY <1>2, <2>2 DEF IInv, SingleCommit, Decided
      <3>2. task'[t].status \notin Live
        BY <3>1 DEF Decided, Live
      <3> QED
        BY <1>1, <3>2 DEF MarkersKept
    <2> QED
      BY <2>1, <2>2
  <1>7. ASSUME NEW s \in Slots, executor[s].task = t, executor[s].pc = "start",
               executor[s].attempt # Offline
        PROVE  journal'[t].attempt # executor[s].attempt
    <2>1. ThreadTrue(s) /\ t # None
      BY SmallFacts DEF OutcomeInv
    <2> QED
      BY <1>1, <1>4, <1>7, <2>1 DEF ThreadTrue
  <1> QED
    BY <1>1, <1>4, <1>5, <1>6, <1>7, OutcomeWrite

\* What get finds of the row at hand is its verdict.
LEMMA GetTrue ==
    ASSUME StepFacts, OutcomeInv, GetRow
    PROVE  OutcomeInv'
  <1>1. /\ At("get")
        /\ ~At("fail")
        /\ uploader.pc \notin {"idle", "next"}
        /\ UNCHANGED <<marker, executor, peeked>>
        /\ UNCHANGED <<job, task, attempts>>
        /\ IInv
    BY DEF GetRow, At, Answered, StepFacts, FarmInv, queueVars, vars
  <1>2. CASE UNCHANGED <<journal, older>>
    BY <1>1, <1>2, OutcomeAway
  <1> PICK t \in Tasks, k \in AttemptIds :
              /\ uploader.task = t
              /\ uploader.attempt = k
              /\ journal[t].attempt = k
              /\ journal[t].state = "pending"
              /\ RowTrue(t)
              /\ Mine(t, k)
              /\ task[t].status # "absent"
    BY <1>1, RowAtHandTrue
  <1>3. CASE Settled(t) /\ Save(t, Verdict(t, k), k, journal[t].result)
    <2>1. task[t].status \in Decided
      <3>1. task[t].status \in {"absent", "queued", "running", "done", "failed", "cancelled"}
        BY <1>1 DEF IInv, TypeOK, TaskRow
      <3>2. job[Plan[t].job].status # "open" => task[t].status \notin Live
        BY <1>1 DEF IInv, ClosedJobsQuiet
      <3> QED
        BY <1>3, <3>1, <3>2 DEF Settled, Decided, Live
    <2>2. CASE task[t].status = "done" /\ task[t].attempt = k
      <3>1. /\ task[t].output # None
            /\ task[t].output.attempt = k
        BY <1>1, <2>2 DEF IInv, SingleCommit
      <3>2. task[t].output \in [attempt : AttemptNos, worker : Workers, grade : Grades]
        BY <1>1, <3>1 DEF IInv, TypeOK, TaskRow, Output
      <3>3. k # Offline
        BY <3>1, <3>2 DEF AttemptNos, Offline
      <3>4. ~Unspent(t, k)
        BY <3>1, <3>3 DEF Unspent
      <3>5. task[t].output.worker = Self /\ task[t].output.grade = journal[t].result
        BY <1>1, <3>4, MyOutput DEF RowTrue
      <3>6. task'[t].output = [attempt |-> k, worker |-> Self, grade |-> journal[t].result]
        BY <1>1, <3>1, <3>2, <3>5
      <3>7. Save(t, "committed", k, journal[t].result) /\ task'[t].output # None
        BY <1>1, <1>3, <2>2, <3>1 DEF Verdict
      <3> QED
        BY <1>1, <3>6, <3>7, SettleTrue
    <2>3. CASE ~(task[t].status = "done" /\ task[t].attempt = k)
      <3>1. Unspent(t, k)
        BY <1>1, <2>3 DEF IInv, SingleCommit, Unspent
      <3>2. Unspent(t, k)' /\ task'[t].status \in Decided
        BY <1>1, <2>1, <3>1 DEF Unspent
      <3>3. Save(t, "superseded", k, journal[t].result)
        BY <1>3, <2>3 DEF Verdict
      <3> QED
        BY <1>1, <3>2, <3>3, SettleTrue
    <2> QED
      BY <2>2, <2>3
  <1> QED
    BY <1>2, <1>3 DEF GetRow

\* A row that is claimed again carries its new attempt.
LEMMA ClaimRowTrue ==
    ASSUME StepFacts, OutcomeInv, ClaimRow
    PROVE  OutcomeInv'
  <1>1. /\ At("claim")
        /\ ~At("fail")
        /\ uploader.pc \notin {"idle", "next"}
        /\ UNCHANGED <<marker, executor, peeked>>
        /\ IInv
        /\ JournalSound
    BY DEF ClaimRow, At, StepFacts, FarmInv, LocalInv
  <1>2. CASE UNCHANGED <<journal, older>>
    BY <1>1, <1>2, OutcomeAway
  <1> PICK t \in Tasks :
              /\ uploader.task = t
              /\ journal[t].state = "pending"
              /\ journal[t].result \in Results[t]
              /\ RowSound(t, journal[t])
    BY <1>1, RowAtHandTrue
  <1>3. CASE /\ CallClaim(Plan[t].slot, t)
             /\ t \in Handed
             /\ Save(t, "pending", task'[t].attempt, journal[t].result)
    <2>1. ClaimStep(Self)
      <3>1. Plan[t].slot \in Slots
        BY ConstantsAssumption DEF ConstantsAssumption, PlanRow
      <3> QED
        BY <1>3, <3>1, ClaimIsNext
    <2>2. task'[t].attempt \in AttemptIds
      BY <1>1, <1>3, <2>1, HandedFresh DEF AttemptIds
    <2> PICK k \in AttemptIds : k = task'[t].attempt
      BY <2>2
    <2>3. /\ task'[t].status # "absent"
          /\ Mine(t, k)'
          /\ Unspent(t, k)'
          /\ \A s \in Slots : executor[s].task = t => executor[s].attempt # k
      BY <1>3, <2>1, HandedNew
    <2>4. RowSound(t, [state |-> "pending", attempt |-> k, result |-> journal[t].result])
      BY <1>1 DEF RowSound, JournalRow, Outbox
    <2>5. /\ journal'[t] = [state |-> "pending", attempt |-> k, result |-> journal[t].result]
          /\ \A u \in Tasks \ {t} : journal'[u] = journal[u]
      BY <1>1, <1>3, <2>4, SaveEffect
    <2>6. RowTrue(t)'
      BY <2>3, <2>5 DEF RowTrue
    <2>7. MarkersKept(t)'
      BY <2>3, <2>5 DEF MarkersKept, Recoverable
    <2> QED
      BY <1>1, <2>3, <2>5, <2>6, <2>7, OutcomeWrite
  <1> QED
    BY <1>2, <1>3 DEF ClaimRow

\* A finished row is the task's output.
LEMMA FinishTrue ==
    ASSUME StepFacts, OutcomeInv, FinishRow
    PROVE  OutcomeInv'
  <1>1. /\ At("finish")
        /\ ~At("fail")
        /\ uploader.pc \notin {"idle", "next"}
        /\ UNCHANGED <<marker, executor, peeked>>
        /\ IInv
        /\ IInv'
    BY DEF FinishRow, At, StepFacts, FarmInv
  <1>2. CASE UNCHANGED <<journal, older>>
    BY <1>1, <1>2, OutcomeAway
  <1> PICK t \in Tasks, k \in AttemptIds :
              /\ uploader.task = t
              /\ uploader.attempt = k
              /\ journal[t].result \in Results[t]
    BY <1>1, RowAtHandTrue
  <1>3. CASE /\ Finish(Self, t, k, journal[t].result)
             /\ Save(t, "committed", k, journal[t].result)
    <2>1. task'[t].output = [attempt |-> k, worker |-> Self, grade |-> journal[t].result]
      BY <1>1, <1>3, SmallFacts, FinishWrites
    <2>2. task'[t].output # None
      <3>1. task'[t].status = "done"
        <4>1. task[t] \in TaskRow /\ task \in [Tasks -> TaskRow]
          BY <1>1 DEF IInv, TypeOK
        <4> QED
          BY <1>3, <4>1 DEF Finish, TaskRow
      <3> QED
        BY <1>1, <3>1 DEF IInv, SingleCommit
    <2> QED
      BY <1>1, <1>3, <2>1, <2>2, SettleTrue
  <1> QED
    BY <1>2, <1>3 DEF FinishRow

\* A reported failure leaves the outbox.
LEMMA FailTrue ==
    ASSUME StepFacts, OutcomeInv, FailRow
    PROVE  OutcomeInv'
  <1>1. /\ At("fail")
        /\ uploader.pc \notin {"idle", "next"}
        /\ UNCHANGED <<marker, executor, peeked>>
    BY DEF FailRow, At
  <1> PICK t \in Tasks, k \in AttemptIds :
              uploader.task = t /\ uploader.attempt = k
    BY <1>1, RowAtHandTrue
  <1>2. Save(t, "failed", k, None)
    BY DEF FailRow
  <1> QED
    BY <1>1, <1>2, SettleTrue

\* So every step of a pass keeps the invariant.
LEMMA PassTrue ==
    ASSUME StepFacts, OutcomeInv,
           BeginPass \/ PassStep \/ BreakPass \/ GuardUpload
    PROVE  OutcomeInv'
  <1>1. CASE UNCHANGED <<journal, marker, executor, peeked>>
    BY <1>1, OutcomeAway
  <1>2. CASE BeginPass \/ BreakPass \/ GuardUpload \/ EndPass \/ TakeRow
    <2>1. TakeRow => UNCHANGED <<journal, marker, executor, peeked>>
      BY DEF TakeRow
    <2> QED
      BY <1>1, <1>2, <2>1 DEF BeginPass, BreakPass, GuardUpload, EndPass
  <1>3. CASE RenewRow \/ ComputedRow \/ UploadRow
    BY <1>1, <1>3 DEF RenewRow, ComputedRow, UploadRow, SendRow
  <1> QED
    BY <1>2, <1>3, GetTrue, ClaimRowTrue, FinishTrue, FailTrue DEF PassStep

----------------------------------------------------------------------------
(* Prefetches and restarts, and the theorems.                               *)

\* A prefetch fetches the input only of tasks that have been submitted.
LEMMA PeekTrue ==
    ASSUME StepFacts, OutcomeInv, PeekWork
    PROVE  OutcomeInv'
  <1>1. \A t \in peeked' : t \in peeked \/ (t \in Tasks /\ SweptTasks[t].status = "queued")
    BY DEF PeekWork, Peekable
  <1>2. ASSUME NEW t \in Tasks, SweptTasks[t].status = "queued"
        PROVE  task[t].status # "absent"
    <2>1. \/ SweptTasks[t] = task[t]
          \/ task[t].status \in Live
      BY SweptTaskEffect DEF StepFacts, FarmInv, IInv
    <2> QED
      BY <1>2, <2>1 DEF Live
  <1>3. UNCHANGED <<journal, marker, executor>>
    BY DEF PeekWork
  <1> QED
    BY <1>1, <1>2, <1>3, OutcomeAway

\* An input is cached only for a task without a result.
LEMMA CacheTrue ==
    ASSUME StepFacts, OutcomeInv, NEW t \in Tasks, CacheRow(t)
    PROVE  OutcomeInv'
  <1>1. /\ UNCHANGED <<marker, executor>>
        /\ t \in peeked
        /\ peeked' \subseteq peeked
        /\ JournalSound
    BY DEF CacheRow, StepFacts, FarmInv, LocalInv
  <1>2. CASE UNCHANGED <<journal, older>>
    BY <1>1, <1>2, OutcomeAway
  <1>3. CASE journal[t].state \in {"none", "cached"} /\ Save(t, "cached", Offline, None)
    <2>1. RowSound(t, [state |-> "cached", attempt |-> Offline, result |-> None])
      BY DEF RowSound, JournalRow, AttemptIds
    <2>2. /\ journal'[t] = [state |-> "cached", attempt |-> Offline, result |-> None]
          /\ \A u \in Tasks \ {t} : journal'[u] = journal[u]
      BY <1>1, <1>3, <2>1, SaveEffect
    <2>3. task'[t].status # "absent"
      BY <1>1 DEF OutcomeInv, RowTrue, StepFacts, Onwards
    <2>4. RowTrue(t)'
      BY <2>2, <2>3 DEF RowTrue, Mine
    <2>5. ~Recoverable(t)
      BY <1>3 DEF Recoverable
    <2>6. MarkersKept(t)'
      BY <1>1, <2>5, MarkersStay DEF OutcomeInv
    <2> QED
      BY <1>1, <1>3, <2>2, <2>4, <2>6, OutcomeWrite
  <1> QED
    BY <1>2, <1>3 DEF CacheRow

\* A restart leaves a row alone that was not being worked on, and gives another
\* one the result that was written under its attempt.
LEMMA RecoveredRow ==
    ASSUME NEW row \in JournalRow, NEW result
    PROVE  /\ row.state # "running" => Recovered(row, result) = row
           /\ row.state = "running" =>
                 /\ Recovered(row, result).state
                       = IF result # None THEN "pending" ELSE "cached"
                 /\ Recovered(row, result).attempt = row.attempt
                 /\ Recovered(row, result).result = result
  <1>1. CASE row.state # "running"
    BY <1>1 DEF Recovered
  <1>2. CASE row.state = "running"
    <2> DEFINE state == IF result # None THEN "pending" ELSE "cached"
    <2>1. Recovered(row, result) = [row EXCEPT !.state = state, !.result = result]
      BY <1>2 DEF Recovered
    <2> HIDE DEF state
    <2>2. /\ Recovered(row, result).state = state
          /\ Recovered(row, result).attempt = row.attempt
          /\ Recovered(row, result).result = result
      BY <2>1 DEF JournalRow
    <2> QED
      BY <1>2, <2>2 DEF state
  <1> QED
    BY <1>1, <1>2

\* A restart puts into the outbox what was written and not recorded.
LEMMA CrashTrue ==
    ASSUME StepFacts, OutcomeInv, Crash
    PROVE  OutcomeInv'
  <1>1. /\ UNCHANGED <<task, attempts, marker>>
        /\ peeked' = {}
        /\ \A t \in Tasks : journal'[t] = Recovered(journal[t], marker[t][journal[t].attempt])
        /\ \A s \in Slots : executor'[s] = Resting
    BY DEF Crash, queueVars, vars
  <1>2. ASSUME NEW t \in Tasks
        PROVE  RowTrue(t)' /\ MarkersKept(t)'
    <2> DEFINE row == journal[t]
    <2>1. row \in JournalRow /\ RowTrue(t) /\ MarkersKept(t)
      BY DEF StepFacts, FarmInv, LocalInv, JournalSound, OutcomeInv
    <2>2. CASE row.state # "running"
      <3>1. journal'[t] = row
        BY <1>1, <2>1, <2>2, RecoveredRow
      <3>2. RowTrue(t)'
        BY <1>1, <2>1, <2>2, <3>1, RowStays
      <3>3. Recoverable(t) => Recoverable(t)'
        BY <2>2, <3>1 DEF Recoverable
      <3> QED
        BY <1>1, <2>1, <3>2, <3>3, MarkersStay
    <2>3. CASE row.state = "running"
      <3> DEFINE s == Plan[t].slot
                 result == marker[t][row.attempt]
      <3>1. s \in Slots /\ t # None
        BY SmallFacts, ConstantsAssumption DEF ConstantsAssumption, PlanRow
      <3>2. AtWorkOn(s, t, row.attempt)
        BY <2>1, <2>3 DEF RowTrue
      <3>3. ThreadTrue(s)
        BY <3>1 DEF OutcomeInv
      <3> PICK k \in AttemptIds : k = journal[t].attempt
        BY <2>1 DEF JournalRow
      <3>4. Unspent(t, k) /\ Mine(t, k) /\ task[t].status # "absent"
        BY <2>1, <2>3, <3>1, <3>2, <3>3 DEF AtWorkOn, ThreadTrue, RowTrue
      <3>5. /\ journal'[t].state = IF result # None THEN "pending" ELSE "cached"
            /\ journal'[t].attempt = k
        BY <1>1, <2>1, <2>3, RecoveredRow
      <3>6. Unspent(t, k)' /\ Mine(t, k)' /\ task'[t].status # "absent"
        BY <1>1, <3>4 DEF Unspent, Mine
      <3> HIDE DEF result
      <3>7. RowTrue(t)'
        BY <3>5, <3>6 DEF RowTrue
      <3>8. Recoverable(t) => Recoverable(t)'
        BY <2>3, <3>5 DEF Recoverable, result
      <3> QED
        BY <1>1, <2>1, <3>7, <3>8, MarkersStay
    <2> QED
      BY <2>2, <2>3
  <1>3. ASSUME NEW s \in Slots
        PROVE  ThreadTrue(s)'
    BY <1>1, RestIsTrue
  <1> QED
    BY <1>2, <1>3 DEF OutcomeInv

\* The invariant holds when the worker starts for the first time.
LEMMA OutcomeInit ==
    ASSUME FarmInit
    PROVE  OutcomeInv
  <1>1. ASSUME NEW t \in Tasks
        PROVE  RowTrue(t) /\ MarkersKept(t)
    <2>1. journal[t] = [state |-> "none", attempt |-> Offline, result |-> None]
      BY <1>1 DEF FarmInit
    <2>2. peeked = {} /\ \A k \in AttemptIds : marker[t][k] = None
      BY <1>1 DEF FarmInit
    <2> QED
      BY <2>1, <2>2 DEF RowTrue, Mine, MarkersKept
  <1>2. ASSUME NEW s \in Slots
        PROVE  ThreadTrue(s)
    BY <1>2 DEF FarmInit, ThreadTrue, Resting
  <1> QED
    BY <1>1, <1>2 DEF OutcomeInv

\* Every step of the farm preserves it.
LEMMA OutcomeNextKeeps ==
    ASSUME FarmInv, OutcomeInv, [FarmNext]_farmVars
    PROVE  OutcomeInv'
  <1>1. StepFacts
    BY FarmStepFacts
  <1>2. ASSUME NEW s \in Slots, ExecutorStep(s) \/ GuardExecution(s)
        PROVE  OutcomeInv'
    BY <1>1, <1>2, ThreadStepTrue
  <1>3. CASE BeginPass \/ PassStep \/ BreakPass \/ GuardUpload
    BY <1>1, <1>3, PassTrue
  <1>4. CASE PeekWork
    BY <1>1, <1>4, PeekTrue
  <1>5. CASE \E t \in Tasks : CacheRow(t)
    BY <1>1, <1>5, CacheTrue
  <1>6. CASE Crash
    BY <1>1, <1>6, CrashTrue
  <1>7. CASE Surroundings \/ UNCHANGED farmVars
    <2>1. UNCHANGED <<journal, marker, executor, peeked>>
      BY <1>7 DEF Surroundings, farmVars, localVars
    <2> QED
      BY <1>1, <2>1, OutcomeAway
  <1> QED
    BY <1>2, <1>3, <1>4, <1>5, <1>6, <1>7 DEF FarmNext

\* In every reachable state the journal, the markers and the threads agree with
\* what the queue says of the worker's tasks.
THEOREM OutcomeInvariant == FarmSpec => []OutcomeInv
  <1>1. FarmInit => OutcomeInv
    BY OutcomeInit
  <1>2. FarmInv /\ OutcomeInv /\ [FarmNext]_farmVars => OutcomeInv'
    BY OutcomeNextKeeps
  <1> QED
    BY <1>1, <1>2, FarmInvariant, PTL DEF FarmSpec

\* While its task is unsettled, a computed result is in the outbox or in a row
\* from which a restart puts it there: no crash, lost answer, new claim or
\* prefetch removes it.
THEOREM ResultsKept == FarmSpec => []ResultKept
  <1>1. FarmInv /\ OutcomeInv => ResultKept
    BY OutcomeInvImplies
  <1> QED
    BY <1>1, FarmInvariant, OutcomeInvariant, PTL

\* What the outbox says became of a result is what the queue says: committed
\* is the task's output, superseded is settled without it.
THEOREM OutboxAgreesWithQueue == FarmSpec => []OutboxAgrees
  <1>1. FarmInv /\ OutcomeInv => OutboxAgrees
    BY OutcomeInvImplies
  <1> QED
    BY <1>1, FarmInvariant, OutcomeInvariant, PTL
=============================================================================
