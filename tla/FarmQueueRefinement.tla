------------------------ MODULE FarmQueueRefinement ------------------------
(***************************************************************************)
(* The queue implements TaskOutcome: every call, with the sweep inside it, *)
(* is one step of the abstract specification or leaves the outcomes alone. *)
(***************************************************************************)
EXTENDS FarmQueue_proofs

AbstractPhase == [t \in Tasks |-> Phase(task[t])]
AbstractParent == [t \in Tasks |-> Plan[t].parent]
AbstractGrants == [t \in Tasks |-> task[t].attempt]
AbstractWinner == [t \in Tasks |-> IF task[t].output = None THEN None
                                   ELSE task[t].output.attempt]

\* The four phases stand for the six statuses.
LEMMA PhaseOf ==
    ASSUME NEW row \in TaskRow
    PROVE  /\ row.status = "absent" => Phase(row) = "absent"
           /\ row.status \in Live => Phase(row) = "pending"
           /\ row.status = "done" => Phase(row) = "committed"
           /\ row.status \in {"failed", "cancelled"} => Phase(row) = "closed"
           /\ row.status \in {"absent", "done", "failed", "cancelled"} \cup Live
  BY DEF Phase, Live, TaskRow

\* A step in which some live tasks S end without a result is a Close.
LEMMA ClosingIsClose ==
    ASSUME Typed, Typed',
           \A t \in Tasks : /\ task'[t].attempt = task[t].attempt
                            /\ task'[t].output = task[t].output
                            /\ \/ Phase(task'[t]) = Phase(task[t])
                               \/ /\ Phase(task[t]) = "pending"
                                  /\ Phase(task'[t]) = "closed"
    PROVE  \E S \in SUBSET Tasks : Outcome!Close(S)
  <1> DEFINE S == {t \in Tasks : Phase(task'[t]) # Phase(task[t])}
  <1>1. AbstractPhase' = [t \in Tasks |-> IF t \in S /\ AbstractPhase[t] = "pending"
                                          THEN "closed" ELSE AbstractPhase[t]]
    BY DEF AbstractPhase
  <1>2. AbstractGrants' = AbstractGrants /\ AbstractWinner' = AbstractWinner
    BY DEF AbstractGrants, AbstractWinner
  <1>3. Outcome!Close(S)
    BY <1>1, <1>2 DEF Outcome!Close, Outcome!Moved, AbstractPhase, AbstractGrants,
                      AbstractWinner
  <1> QED
    BY <1>3

\* A row that a keeping step touches stays in its phase or is closed.
LEMMA KeptPhase ==
    ASSUME Typed, Typed', NEW t \in Tasks, Kept(t)
    PROVE  \/ Phase(task'[t]) = Phase(task[t])
           \/ Phase(task[t]) = "pending" /\ Phase(task'[t]) = "closed"
  <1>1. task[t] \in TaskRow /\ task'[t] \in TaskRow
    BY DEF Typed
  <1>2. CASE task'[t].status = task[t].status
    BY <1>2 DEF Phase
  <1>3. CASE task'[t].status = "failed" /\ task[t].status \in Live
    BY <1>1, <1>3, PhaseOf
  <1> QED
    BY <1>2, <1>3 DEF Kept

\* A keeping step is a Close of the tasks the sweep failed.
LEMMA KeepingRefines ==
    ASSUME IInv, KeepingStep
    PROVE  \E S \in SUBSET Tasks : Outcome!Close(S)
  <1>1. Typed /\ Typed' /\ \A t \in Tasks : Kept(t)
    BY TypeParts DEF IInv, KeepingStep
  <1> QED
    BY <1>1, KeptPhase, ClosingIsClose DEF Kept

\* A granting claim is a Grant, along with what its sweep closed.
LEMMA GrantRefines ==
    ASSUME IInv, NEW w \in Workers, NEW t \in Tasks, GrantStep(w, t)
    PROVE  \E S \in SUBSET Tasks : Outcome!Grant(t, S)
  <1> DEFINE S == {u \in Tasks : Phase(task'[u]) # Phase(task[u])}
  <1>1. Typed /\ Typed' /\ \A u \in Tasks : task[u] \in TaskRow /\ task'[u] \in TaskRow
    BY TypeParts DEF IInv, GrantStep, Typed
  <1>2. /\ Phase(task[t]) = "pending"
        /\ Phase(task'[t]) = "pending"
        /\ task[t].attempt < MaxAttempts
        /\ task'[t].attempt = task[t].attempt + 1
        /\ task'[t].output = task[t].output
    <2>1. task[t].status \in Live /\ task'[t].status \in Live
      BY DEF GrantStep, GrantedRow, Live
    <2> QED
      BY <1>1, <2>1, PhaseOf DEF GrantStep, GrantedRow
  <1>3. t \notin S
    BY <1>2
  <1>4. \A u \in Tasks \ {t} : /\ task'[u].attempt = task[u].attempt
                               /\ task'[u].output = task[u].output
                               /\ \/ Phase(task'[u]) = Phase(task[u])
                                  \/ /\ Phase(task[u]) = "pending"
                                     /\ Phase(task'[u]) = "closed"
    BY <1>1, KeptPhase DEF GrantStep, Kept
  <1>5. AbstractPhase' = [u \in Tasks |-> IF u \in S /\ AbstractPhase[u] = "pending"
                                          THEN "closed" ELSE AbstractPhase[u]]
    BY <1>2, <1>4 DEF AbstractPhase
  <1>6. AbstractGrants' = [AbstractGrants EXCEPT ![t] = @ + 1]
    BY <1>2, <1>4 DEF AbstractGrants
  <1>7. AbstractWinner' = AbstractWinner
    BY <1>2, <1>4 DEF AbstractWinner
  <1>8. AbstractParent[t] # None => AbstractPhase[AbstractParent[t]] = "committed"
    BY <1>1, ParentIsTask, PhaseOf DEF GrantStep, AbstractParent, AbstractPhase
  <1>9. AbstractPhase[t] = "pending" /\ AbstractGrants[t] < MaxAttempts
    BY <1>2 DEF AbstractPhase, AbstractGrants
  <1>10. Outcome!Grant(t, S)
    <2> HIDE DEF S
    <2> QED
      BY <1>3, <1>5, <1>6, <1>7, <1>8, <1>9
         DEF Outcome!Grant, Outcome!Moved, AbstractPhase, AbstractGrants,
             AbstractWinner, AbstractParent
  <1>11. S \in SUBSET Tasks
    OBVIOUS
  <1> HIDE DEF S
  <1> QED
    BY <1>10, <1>11 DEF Outcome!Grant, Outcome!Moved

\* A submit creates the job's tasks at once.
LEMMA SubmitRefines ==
    ASSUME IInv, NEW j \in Jobs, Submit(j)
    PROVE  \E S \in SUBSET Tasks : Outcome!Create(S)
  <1> DEFINE S == TasksOf(j)
  <1>1. /\ \A t \in S : task'[t] = NewTask
        /\ \A t \in Tasks \ S : task'[t] = task[t]
        /\ S \in SUBSET Tasks
    BY DEF Submit, TasksOf
  <1>2. \A t \in Tasks : task[t] \in TaskRow
    BY DEF IInv, TypeOK
  <1>3. \A t \in S : task[t].status = "absent" /\ task[t].attempt = 0
    BY DEF Submit, IInv, RowsOfJobs, TasksOf
  <1>4. \A t \in S : task[t].output = None
    BY <1>1, <1>3 DEF IInv, SingleCommit
  <1>5. \A t \in S : Phase(task[t]) = "absent"
    BY <1>1, <1>2, <1>3, PhaseOf
  <1>6. /\ Phase(NewTask) = "pending"
        /\ NewTask.attempt = 0 /\ NewTask.output = None
    BY DEF Phase, NewTask, Live
  <1> HIDE DEF S
  <1>7. AbstractPhase' = [t \in Tasks |-> IF t \in S /\ AbstractPhase[t] = "absent"
                                          THEN "pending" ELSE AbstractPhase[t]]
    BY <1>1, <1>5, <1>6 DEF AbstractPhase
  <1>8. AbstractGrants' = AbstractGrants /\ AbstractWinner' = AbstractWinner
    <2>1. \A t \in Tasks : /\ task'[t].attempt = task[t].attempt
                           /\ task'[t].output = task[t].output
      BY <1>1, <1>3, <1>4, <1>6
    <2> QED
      BY <2>1 DEF AbstractGrants, AbstractWinner
  <1>9. Outcome!Create(S)
    BY <1>7, <1>8 DEF Outcome!Create, Outcome!Moved, AbstractPhase, AbstractGrants,
                      AbstractWinner
  <1> QED
    BY <1>1, <1>9

\* Cancel and approve close the job's live tasks.
LEMMA ClosedRefines ==
    ASSUME IInv, NEW j \in Jobs, ClosingStep(j)
    PROVE  \E S \in SUBSET Tasks : Outcome!Close(S)
  <1>1. Typed /\ Typed'
    BY TypeParts, ClosingPreserves DEF IInv, Rows
  <1>2. ASSUME NEW t \in Tasks
        PROVE  /\ task'[t].attempt = task[t].attempt
               /\ task'[t].output = task[t].output
               /\ \/ Phase(task'[t]) = Phase(task[t])
                  \/ Phase(task[t]) = "pending" /\ Phase(task'[t]) = "closed"
    <2>1. task[t] \in TaskRow /\ task'[t] \in TaskRow
      BY <1>1 DEF Typed
    <2>2. CASE task'[t] = task[t]
      BY <2>2
    <2>3. CASE /\ task[t].status \in Live
               /\ task'[t] = [task[t] EXCEPT !.status = "cancelled", !.lease = None]
      <3>1. /\ task'[t].status = "cancelled"
            /\ task'[t].attempt = task[t].attempt
            /\ task'[t].output = task[t].output
        BY <2>1, <2>3 DEF TaskRow
      <3> QED
        BY <2>1, <2>3, <3>1, PhaseOf
    <2> QED
      BY <2>2, <2>3 DEF ClosingStep, Closed
  <1> QED
    BY <1>1, <1>2, ClosingIsClose

\* A reported failure closes its task, or is a stuttering step.
LEMMA FailRefines ==
    ASSUME IInv, NEW w \in Workers, NEW t \in Tasks, NEW k \in AttemptNos,
           Fail(w, t, k)
    PROVE  \E S \in SUBSET Tasks : Outcome!Close(S)
  <1>1. Typed /\ Typed'
    BY TypeParts, FailPreserves DEF IInv, Rows
  <1>2. ASSUME NEW u \in Tasks
        PROVE  /\ task'[u].attempt = task[u].attempt
               /\ task'[u].output = task[u].output
               /\ \/ Phase(task'[u]) = Phase(task[u])
                  \/ Phase(task[u]) = "pending" /\ Phase(task'[u]) = "closed"
    <2>1. task[u] \in TaskRow /\ task'[u] \in TaskRow
      BY <1>1 DEF Typed
    <2>2. CASE u # t
      <3>1. task'[u] = task[u]
        BY <1>1, <2>2 DEF Fail, Typed
      <3> QED
        BY <3>1
    <2>3. CASE u = t
      <3>1. /\ task'[u].status \in {"failed", "queued"}
            /\ task'[u].attempt = task[u].attempt
            /\ task'[u].output = task[u].output
        BY <1>1, <2>1, <2>3 DEF Fail, Typed, TaskRow
      <3>2. task[u].status \in Live
        BY <2>3 DEF Fail, Holds, Live
      <3>3. task'[u].status \in Live \/ task'[u].status = "failed"
        BY <3>1 DEF Live
      <3> QED
        BY <2>1, <3>1, <3>2, <3>3, PhaseOf
    <2> QED
      BY <2>2, <2>3
  <1> QED
    BY <1>1, <1>2, ClosingIsClose

\* Finish is the Commit of the current grant.
LEMMA FinishRefines ==
    ASSUME IInv, NEW w \in Workers, NEW t \in Tasks, NEW k \in AttemptNos,
           NEW grade \in Grades, Finish(w, t, k, grade)
    PROVE  Outcome!Commit(t)
  <1> DEFINE result == [attempt |-> k, worker |-> w, grade |-> grade]
  <1>1. Typed /\ Typed'
    BY TypeParts, FinishPreserves DEF IInv, Rows
  <1>2. \A u \in Tasks : task[u] \in TaskRow /\ task'[u] \in TaskRow
    BY <1>1 DEF Typed
  <1>3. Holds(w, t, k)
    BY DEF Finish
  <1>4. /\ task[t].status \in Live /\ task[t].attempt = k
    BY <1>3, HeldRow DEF Live
  <1>5. k > 0
    BY DEF AttemptNos
  <1>6. /\ task'[t].status = "done"
        /\ task'[t].attempt = task[t].attempt
        /\ task'[t].output = result
    <2> HIDE DEF result
    <2>1. task'[t] = [task[t] EXCEPT !.status = "done", !.output = result,
                                     !.lease = None]
      BY <1>1 DEF Finish, Typed, result
    <2> QED
      BY <1>2, <2>1 DEF TaskRow
  <1>7. \A u \in Tasks \ {t} : task'[u] = task[u]
    BY <1>1 DEF Finish, Typed
  <1>8. result # None /\ result.attempt = k
    BY ConstantsAssumption DEF ConstantsAssumption, Output
  <1> HIDE DEF result
  <1>9. AbstractPhase' = [AbstractPhase EXCEPT ![t] = "committed"]
    BY <1>2, <1>6, <1>7, PhaseOf DEF AbstractPhase
  <1>10. AbstractGrants' = AbstractGrants
    BY <1>6, <1>7 DEF AbstractGrants
  <1>11. AbstractWinner' = [AbstractWinner EXCEPT ![t] = AbstractGrants[t]]
    BY <1>4, <1>6, <1>7, <1>8 DEF AbstractWinner, AbstractGrants
  <1>12. AbstractPhase[t] = "pending" /\ AbstractGrants[t] > 0
    BY <1>2, <1>4, <1>5, PhaseOf DEF AbstractPhase, AbstractGrants
  <1> QED
    BY <1>9, <1>10, <1>11, <1>12
       DEF Outcome!Commit, AbstractPhase, AbstractGrants, AbstractWinner

\* The empty database is the empty outcome.
LEMMA InitRefines ==
    ASSUME Init
    PROVE  Outcome!Init
  <1>1. \A t \in Tasks : /\ task[t] \in TaskRow
                         /\ task[t].status = "absent"
                         /\ task[t].attempt = 0
                         /\ task[t].output = None
    <2>1. IInv
      BY InitHolds
    <2>2. \A j \in Jobs : job[j].status = "absent"
      BY DEF Init
    <2>3. \A t \in Tasks : task[t].status = "absent" /\ task[t].attempt = 0
      BY <2>1, <2>2, ParentIsTask DEF IInv, RowsOfJobs
    <2> QED
      BY <2>1, <2>3 DEF IInv, TypeOK, SingleCommit
  <1>2. \A t \in Tasks : Phase(task[t]) = "absent"
    BY <1>1, PhaseOf
  <1> QED
    BY <1>1, <1>2 DEF Outcome!Init

\* Every step of the queue is a step of the outcome or a stuttering step.
LEMMA StepRefines ==
    ASSUME IInv, [Next]_vars
    PROVE  [Outcome!Next]_(Outcome!vars)
  <1>1. ASSUME KeepingStep
        PROVE  Outcome!Next
    BY <1>1, KeepingRefines DEF Outcome!Next
  <1>2. ASSUME NEW w \in Workers, NEW t \in Tasks, GrantStep(w, t)
        PROVE  Outcome!Next
    BY <1>2, GrantRefines DEF Outcome!Next
  <1>3. ASSUME NEW j \in Jobs, Submit(j)
        PROVE  Outcome!Next
    BY <1>3, SubmitRefines DEF Outcome!Next
  <1>4. ASSUME NEW j \in Jobs, Cancel(j)
        PROVE  Outcome!Next
    BY <1>4, CancelCloses, ClosedRefines DEF Outcome!Next
  <1>5. ASSUME NEW j \in Jobs, NEW t \in Tasks, Approve(j, t)
        PROVE  Outcome!Next
    BY <1>5, ApproveCloses, ClosedRefines DEF Outcome!Next
  <1>6. ASSUME NEW w \in Workers, NEW t \in Tasks, NEW k \in AttemptNos, Fail(w, t, k)
        PROVE  Outcome!Next
    BY <1>6, FailRefines DEF Outcome!Next
  <1>7. ASSUME NEW w \in Workers, NEW t \in Tasks, NEW k \in AttemptNos,
               NEW grade \in Grades, Finish(w, t, k, grade)
        PROVE  Outcome!Next
    BY <1>7, FinishRefines DEF Outcome!Next
  <1> QED
    BY <1>1, <1>2, <1>3, <1>4, <1>5, <1>6, <1>7, StepCases DEF StepCase

\* The queue implements the abstract specification of task outcomes.
THEOREM QueueImplementsOutcome == Spec => OutcomeRefined
  <1>1. Init => Outcome!Init
    BY InitRefines
  <1>2. IInv /\ [Next]_vars => [Outcome!Next]_(Outcome!vars)
    BY StepRefines
  <1> QED
    BY <1>1, <1>2, InductiveInvariant, PTL DEF Spec, OutcomeRefined, Outcome!Spec
=============================================================================
