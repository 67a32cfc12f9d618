----------------------------- MODULE QueueLocks -----------------------------
(***************************************************************************)
(* One task of queue_dispatch statement by statement: what FarmQueue takes *)
(* as one step per call.  Every call is a transaction on a connection of   *)
(* its own, READ COMMITTED: a statement reads what is committed, waits for *)
(* the row locks it needs and then looks at the row again; what a call     *)
(* wrote shows when it commits, and is gone when the connection breaks or  *)
(* the call is the victim of a deadlock.                                   *)
(*                                                                         *)
(* Left out: the lock on the worker's row, which makes claims of one       *)
(* worker wait for each other; children, so that the recursive query finds *)
(* nothing; computed, which takes the locks of renew.                      *)
(***************************************************************************)
EXTENDS Absent, Naturals

CONSTANTS
    Connections,    \* calls at the same time
    LockAttempts    \* max_attempts

ASSUME LocksAssumption ==
    /\ LockAttempts \in Nat \ {0}
    /\ None \notin {"running", "expired", "failed", "done"}

VARIABLES
    qopen,          \* the job is open
    qtask,          \* the row of cf_tasks; valid: lease_until is ahead
    qledger,        \* the rows of cf_attempts by number: their state
    qcall           \* the transactions: statement, columns and rows written

lockVars == <<qopen, qtask, qledger, qcall>>

Tokens == 1..LockAttempts
NoCall == [at |-> "idle", kind |-> None, k |-> 0, sets |-> <<>>, locks |-> FALSE,
           marks |-> [k \in Tokens |-> None]]

LocksInit ==
    /\ qopen = TRUE
    /\ qtask = [status |-> "queued", attempt |-> 0, valid |-> FALSE, result |-> 0]
    /\ qledger = [k \in Tokens |-> None]
    /\ qcall = [s \in Connections |-> NoCall]

\* Mutant: the row is read without FOR UPDATE.
TaskRead(s) == TRUE

\* Nobody else holds the lock of the task's row, or of the row of attempt k.
TaskFree(s) == \A r \in Connections \ {s} : ~qcall[r].locks
AttemptFree(s, k) == \A r \in Connections \ {s} : qcall[r].marks[k] = None

RunsLapsed(row) == row.status = "running" /\ ~row.valid
RunsOut(row) == RunsLapsed(row) /\ row.attempt >= LockAttempts
Live(row) == row.status \in {"queued", "running"}
Call(s, at) == qcall[s].at = at
Moves(s, row) == qcall' = [qcall EXCEPT ![s] = row]

\* A second cancellation waits for the job's row.
OpenCall(s, kind, k) ==
    /\ Call(s, "idle")
    /\ kind = "cancel" => \A r \in Connections : qcall[r].kind # "cancel"
    /\ Moves(s, [NoCall EXCEPT !.kind = kind, !.k = k,
                 !.at = CASE kind \in {"peek", "claim"} -> "sweep"
                          [] kind = "cancel" -> "close"
                          [] OTHER -> "check"])
    /\ UNCHANGED <<qopen, qtask, qledger>>

----------------------------------------------------------------------------
(* The sweep and the selection.                                            *)

\* The first statement joins cf_tasks without locking it.
ReadLapsed(s) ==
    /\ Call(s, "sweep")
    /\ Moves(s, IF RunsLapsed(qtask) /\ qledger[qtask.attempt] = "running"
                THEN [qcall[s] EXCEPT !.at = "expire", !.k = qtask.attempt]
                ELSE [qcall[s] EXCEPT !.at = "exhaust"])
    /\ UNCHANGED <<qopen, qtask, qledger>>

ExpireAttempt(s) ==
    LET k == qcall[s].k
    IN  /\ Call(s, "expire") /\ AttemptFree(s, k)
        /\ Moves(s, [qcall[s] EXCEPT !.at = "exhaust",
                     !.marks[k] = IF qledger[k] = "running" THEN "expired" ELSE @])
        /\ UNCHANGED <<qopen, qtask, qledger>>

Swept(s) == IF qcall[s].kind = "claim" THEN "select" ELSE "commit"

ReadExhausted(s) ==
    /\ Call(s, "exhaust")
    /\ Moves(s, [qcall[s] EXCEPT !.at = IF RunsOut(qtask) THEN "fail" ELSE Swept(s)])
    /\ UNCHANGED <<qopen, qtask, qledger>>

FailExhausted(s) ==
    /\ Call(s, "fail") /\ TaskFree(s)
    /\ Moves(s, IF RunsOut(qtask)
                THEN [qcall[s] EXCEPT !.at = Swept(s), !.locks = TRUE,
                                      !.sets = [status |-> "failed"]]
                ELSE [qcall[s] EXCEPT !.at = Swept(s)])
    /\ UNCHANGED <<qopen, qtask, qledger>>

\* SKIP LOCKED: a claim never waits here, may find the task not due, and does not
\* take a task that its own sweep has just failed.
SelectTask(s) ==
    LET next == qtask.attempt + 1
    IN  /\ Call(s, "select")
        /\ \/ /\ TaskFree(s) /\ qopen
              /\ ~qcall[s].locks
              /\ qtask.status = "queued" \/ RunsLapsed(qtask)
              /\ qtask.attempt < LockAttempts
              /\ Moves(s, [qcall[s] EXCEPT
                    !.at = "commit", !.locks = TRUE, !.marks[next] = "running",
                    !.sets = [status |-> "running", attempt |-> next, valid |-> TRUE]])
           \/ Moves(s, [qcall[s] EXCEPT !.at = "commit"])
        /\ UNCHANGED <<qopen, qtask, qledger>>

----------------------------------------------------------------------------
(* Calls about a held task, and cancel.                                    *)

\* SELECT ... FOR UPDATE, then the guard on the row as it is once it is locked.
CheckCall(s) ==
    LET c == qcall[s]
        sets == CASE c.kind = "renew" -> [valid |-> TRUE]
                  [] c.kind = "finish" -> [status |-> "done", result |-> c.k]
                  [] OTHER -> [status |-> IF c.k >= LockAttempts THEN "failed" ELSE "queued"]
    IN  /\ Call(s, "check") /\ TaskFree(s)
        /\ IF qtask.status = "running" /\ qtask.valid /\ qtask.attempt = c.k /\ qopen
           THEN Moves(s, [c EXCEPT !.at = IF c.kind = "renew" THEN "commit" ELSE "mark",
                                   !.locks = TRUE, !.sets = sets])
           ELSE Moves(s, NoCall)
        /\ UNCHANGED <<qopen, qtask, qledger>>

\* The attempt's row is locked after the task's: the sweep does it the other way.
MarkAttempt(s) ==
    LET c == qcall[s]
    IN  /\ Call(s, "mark") /\ AttemptFree(s, c.k)
        /\ Moves(s, [c EXCEPT !.at = "commit",
                     !.marks[c.k] = IF c.kind = "finish" THEN "done" ELSE "failed"])
        /\ UNCHANGED <<qopen, qtask, qledger>>

CloseTask(s) ==
    /\ Call(s, "close") /\ TaskFree(s)
    /\ Moves(s, IF Live(qtask)
                THEN [qcall[s] EXCEPT !.at = "commit", !.locks = TRUE,
                                      !.sets = [status |-> "cancelled"]]
                ELSE [qcall[s] EXCEPT !.at = "commit"])
    /\ UNCHANGED <<qopen, qtask, qledger>>

----------------------------------------------------------------------------
\* UPDATE: the columns that the call has set, over those of the row.
Updated(row, sets) ==
    [column \in DOMAIN row |-> IF column \in DOMAIN sets THEN sets[column] ELSE row[column]]

CommitCall(s) ==
    LET c == qcall[s]
    IN  /\ Call(s, "commit")
        /\ qtask' = Updated(qtask, c.sets)
        /\ qledger' = [k \in Tokens |-> IF c.marks[k] = None THEN qledger[k] ELSE c.marks[k]]
        /\ qopen' = (qopen /\ c.kind # "cancel")
        /\ Moves(s, NoCall)

\* A broken connection, or the victim of a deadlock.
AbortCall(s) ==
    /\ ~Call(s, "idle")
    /\ Moves(s, NoCall)
    /\ UNCHANGED <<qopen, qtask, qledger>>

LeasePasses ==
    /\ qtask.status = "running" /\ qtask.valid
    /\ qtask' = [qtask EXCEPT !.valid = FALSE]
    /\ UNCHANGED <<qopen, qledger, qcall>>

LocksNext ==
    \/ \E s \in Connections :
          \/ \E kind \in {"peek", "claim", "cancel"} : OpenCall(s, kind, 0)
          \/ \E kind \in {"renew", "finish", "fail"}, k \in 1..qtask.attempt : OpenCall(s, kind, k)
          \/ ReadLapsed(s) \/ ExpireAttempt(s) \/ ReadExhausted(s) \/ FailExhausted(s)
          \/ SelectTask(s) \/ CheckCall(s) \/ MarkAttempt(s) \/ CloseTask(s)
          \/ CommitCall(s) \/ AbortCall(s)
    \/ LeasePasses

----------------------------------------------------------------------------
(* Property.                                                               *)

\* The task and the ledger tell the same story after every commit, although a
\* call writes them one after the other and the sweep in the other order: the
\* result is that of the last attempt handed out, that attempt's row and no
\* other says done, and the attempt of a running task is not given up as failed.
ResultsOnRecord ==
    /\ qtask.status = "done" => qtask.result = qtask.attempt
    /\ \A k \in Tokens :
          qledger[k] = "done" <=> qtask.status = "done" /\ qtask.attempt = k
    /\ qtask.status = "running" => qledger[qtask.attempt] \in {"running", "expired"}
=============================================================================
