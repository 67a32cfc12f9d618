-------------------------- MODULE QueueLocks_proofs --------------------------
(***************************************************************************)
(* Theorems about QueueLocks: for any number of connections and attempts,  *)
(* the row of a task and the ledger of its attempts tell the same story    *)
(* after every commit; and, at the end, about SlotLocks, which stands by    *)
(* itself.                                                                 *)
(*                                                                         *)
(* The argument is one about locks.  Until a transaction commits, what it  *)
(* is about to write is right for the row as it is committed now: whoever  *)
(* has the task's row locked is the only one who can change its status or  *)
(* its attempt, and whoever has written an attempt's row is the only one   *)
(* who can change that.                                                    *)
(***************************************************************************)
EXTENDS QueueLocks, SlotLocks, TLAPS

\* The task by itself.
LocksSpec == LocksInit /\ [][LocksNext]_lockVars

----------------------------------------------------------------------------
(* The inductive invariant.  Its parts are about a transaction c, the       *)
(* task's row and the ledger as they are committed.                         *)

LedgerStates == {"running", "expired", "failed", "done"}

Statuses == {"queued", "running", "done", "failed", "cancelled"}

TaskRows ==
    [status: Statuses, attempt: 0..LockAttempts, valid: BOOLEAN, result: 0..LockAttempts]

Ledgers == [Tokens -> LedgerStates \cup {None}]

\* ResultsOnRecord, and that a running task has an attempt.
Agree(row, ledger) ==
    /\ row.status = "done" => row.result = row.attempt
    /\ \A k \in Tokens :
          ledger[k] = "done" <=> row.status = "done" /\ row.attempt = k
    /\ row.status = "running" =>
          row.attempt # 0 /\ ledger[row.attempt] \in {"running", "expired"}

\* The columns that a call sets: of a task that is granted, renewed or done, or that
\* only changes its status.
GrantSets(k) == [status |-> "running", attempt |-> k, valid |-> TRUE]
RenewSets == [valid |-> TRUE]
FinishSets(k) == [status |-> "done", result |-> k]
StatusSets(status) == [status |-> status]

\* The five things that a transaction with the task's lock may be about to do.
Granting(c, row) ==
    /\ c.kind = "claim" /\ c.at = "commit"
    /\ Live(row)
    /\ row.attempt < LockAttempts
    /\ c.sets = GrantSets(row.attempt + 1)
    /\ c.marks[row.attempt + 1] = "running"

Renewing(c, row) ==
    /\ c.kind = "renew" /\ c.at = "commit"
    /\ row.status = "running"
    /\ c.sets = RenewSets

Finishing(c, row) ==
    /\ c.kind = "finish" /\ c.at \in {"mark", "commit"}
    /\ row.status = "running" /\ c.k = row.attempt
    /\ c.sets = FinishSets(c.k)
    /\ c.at = "commit" => c.marks[c.k] = "done"

Failing(c, row) ==
    /\ c.kind = "fail" /\ c.at \in {"mark", "commit"}
    /\ row.status = "running" /\ c.k = row.attempt
    /\ \E status \in {"failed", "queued"} : c.sets = StatusSets(status)

Ending(c, row) ==
    /\ c.kind \in {"peek", "claim", "cancel"} /\ c.at \in {"select", "commit"}
    /\ Live(row)
    /\ \E status \in {"failed", "cancelled"} : c.sets = StatusSets(status)

\* Without the lock it writes nothing of the task.
WriteSound(c, row) ==
    IF c.locks
    THEN \/ Granting(c, row)
         \/ Renewing(c, row)
         \/ Finishing(c, row)
         \/ Failing(c, row)
         \/ Ending(c, row)
    ELSE c.sets = <<>>

\* What it has written of the row of attempt k, and why that is right.
MarkSound(c, k, row, ledger) ==
    c.marks[k] # None =>
        \/ c.marks[k] = "expired" /\ ledger[k] = "running" /\ k <= row.attempt
        \/ c.marks[k] = "running" /\ c.locks /\ Granting(c, row) /\ k = row.attempt + 1
        \/ c.marks[k] = "failed" /\ c.locks /\ Failing(c, row) /\ k = c.k
        \/ c.marks[k] = "done" /\ c.locks /\ Finishing(c, row) /\ k = c.k

NoMarks == [k \in Tokens |-> None]

\* Where it is in its statements.
PlaceSound(c, row) ==
    /\ c.at = "expire" => c.k \in Tokens /\ c.k <= row.attempt
    /\ c.at \in {"check", "mark"} =>
          c.kind \in {"renew", "finish", "fail"} /\ c.k \in Tokens
    /\ c.at = "mark" => c.locks /\ c.kind # "renew"
    /\ c.at \in {"sweep", "expire", "exhaust", "fail"} => c.kind \in {"peek", "claim"}
    /\ c.at = "select" => c.kind = "claim"
    /\ c.at = "close" => c.kind = "cancel"
    /\ c.at \in {"idle", "sweep", "expire", "check", "mark", "close"} => c.marks = NoMarks
    /\ c.at \in {"idle", "sweep", "expire", "exhaust", "fail", "check", "close"} => ~c.locks

\* The columns that a call may set.
Writes ==
    {<<>>} \cup [status: Statuses] \cup [valid: BOOLEAN]
           \cup [status: Statuses, result: Nat]
           \cup [status: Statuses, attempt: Nat, valid: BOOLEAN]

Places ==
    {"idle", "sweep", "expire", "exhaust", "fail", "select", "check", "mark", "close",
     "commit"}

CallRows ==
    [at: Places,
     kind: {"peek", "claim", "cancel", "renew", "finish", "fail", None},
     k: Nat, sets: Writes, locks: BOOLEAN, marks: Ledgers]

CallSound(c, row, ledger) ==
    /\ c \in CallRows
    /\ PlaceSound(c, row)
    /\ WriteSound(c, row)
    /\ \A k \in Tokens : MarkSound(c, k, row, ledger)

\* Two transactions have different locks.
Apart(c, d) ==
    /\ ~(c.locks /\ d.locks)
    /\ \A k \in Tokens : c.marks[k] = None \/ d.marks[k] = None

LocksInv ==
    /\ qtask \in TaskRows
    /\ qledger \in Ledgers
    /\ Agree(qtask, qledger)
    /\ qcall = [s \in Connections |-> qcall[s]]
    /\ \A s \in Connections : CallSound(qcall[s], qtask, qledger)
    /\ \A s \in Connections : \A r \in Connections \ {s} : Apart(qcall[s], qcall[r])

----------------------------------------------------------------------------
(* The rows that calls are.                                                 *)

\* What the assumption says in the form the proofs need it.
LEMMA LockFacts ==
    /\ LockAttempts \in Nat \ {0}
    /\ Tokens = 1..LockAttempts
    /\ \A state \in LedgerStates : state # None
  BY LocksAssumption DEF LocksAssumption, Tokens, LedgerStates

\* What calls set is among the columns that a call may set.
LEMMA WritesOf ==
    /\ RenewSets \in Writes
    /\ \A k \in Nat : GrantSets(k) \in Writes /\ FinishSets(k) \in Writes
    /\ \A status \in Statuses : StatusSets(status) \in Writes
  <1>1. RenewSets \in [valid: BOOLEAN]
    BY DEF RenewSets
  <1>2. ASSUME NEW k \in Nat
        PROVE  /\ GrantSets(k) \in [status: Statuses, attempt: Nat, valid: BOOLEAN]
               /\ FinishSets(k) \in [status: Statuses, result: Nat]
    BY DEF GrantSets, FinishSets, Statuses
  <1>3. ASSUME NEW status \in Statuses
        PROVE  StatusSets(status) \in [status: Statuses]
    BY DEF StatusSets
  <1> QED
    BY <1>1, <1>2, <1>3, Zenon DEF Writes

\* The rows that a call leaves behind: it only goes on, it also takes the lock
\* of the task's row and sets columns of it, or it also marks an attempt.
GoesTo(c, at) == [c EXCEPT !.at = at]
LocksWith(c, at, sets) == [c EXCEPT !.at = at, !.locks = TRUE, !.sets = sets]
MarksWith(c, at, k, state) == [c EXCEPT !.at = at, !.marks[k] = state]

\* A call that goes on to another statement.
LEMMA GoneOn ==
    ASSUME NEW c \in CallRows, NEW at \in Places
    PROVE  LET d == GoesTo(c, at)
           IN  /\ d.at = at /\ d.kind = c.kind /\ d.k = c.k /\ d.sets = c.sets
               /\ d.locks = c.locks /\ d.marks = c.marks
               /\ d \in CallRows
  BY DEF CallRows, GoesTo

\* A call that goes on with the lock of the task's row and what it sets there.
LEMMA LocksTaken ==
    ASSUME NEW c \in CallRows, NEW at \in Places, NEW sets \in Writes
    PROVE  LET d == LocksWith(c, at, sets)
           IN  /\ d.at = at /\ d.kind = c.kind /\ d.k = c.k /\ d.sets = sets
               /\ d.locks = TRUE /\ d.marks = c.marks
               /\ d \in CallRows
  BY DEF CallRows, LocksWith

\* A call that goes on after it has written the row of an attempt.
LEMMA Marked ==
    ASSUME NEW c \in CallRows, NEW at \in Places, NEW k \in Tokens,
           NEW state \in LedgerStates \cup {None}
    PROVE  LET d == MarksWith(c, at, k, state)
           IN  /\ d.at = at /\ d.kind = c.kind /\ d.k = c.k /\ d.sets = c.sets
               /\ d.locks = c.locks
               /\ d.marks[k] = state
               /\ \A i \in Tokens \ {k} : d.marks[i] = c.marks[i]
               /\ d \in CallRows
  <1> DEFINE marks == [c.marks EXCEPT ![k] = state]
             d == MarksWith(c, at, k, state)
  <1>1. d = [c EXCEPT !.at = at, !.marks = marks]
    BY DEF MarksWith
  <1>2. c.marks \in Ledgers
    BY DEF CallRows
  <1>3. /\ marks \in Ledgers
        /\ marks[k] = state
        /\ \A i \in Tokens \ {k} : marks[i] = c.marks[i]
    BY <1>2 DEF Ledgers
  <1> HIDE DEF marks
  <1>4. /\ d.at = at /\ d.kind = c.kind /\ d.k = c.k /\ d.sets = c.sets
        /\ d.locks = c.locks /\ d.marks = marks
        /\ d \in CallRows
    BY <1>1, <1>3 DEF CallRows
  <1> QED
    BY <1>3, <1>4

\* No call.
LEMMA NoCallSound ==
    ASSUME NEW row, NEW ledger
    PROVE  /\ CallSound(NoCall, row, ledger)
           /\ NoCall.at = "idle" /\ NoCall.locks = FALSE /\ NoCall.sets = <<>>
           /\ NoCall.marks = NoMarks
           /\ \A d : Apart(NoCall, d)
  <1>1. NoCall = [at |-> "idle", kind |-> None, k |-> 0, sets |-> <<>>,
                  locks |-> FALSE, marks |-> NoMarks]
    BY DEF NoCall, NoMarks
  <1>2. NoMarks \in Ledgers /\ \A k \in Tokens : NoMarks[k] = None
    BY DEF NoMarks, Ledgers
  <1>3. <<>> \in Writes
    BY DEF Writes
  <1>4. NoCall \in CallRows
    BY <1>1, <1>2, <1>3 DEF CallRows, Places
  <1>5. /\ NoCall.at = "idle" /\ NoCall.locks = FALSE /\ NoCall.sets = <<>>
        /\ NoCall.marks = NoMarks
    BY <1>1
  <1> QED
    BY <1>2, <1>4, <1>5 DEF CallSound, PlaceSound, WriteSound, MarkSound, Apart

\* A step of one call that writes nothing for the others to see.
LEMMA CallMoves ==
    ASSUME LocksInv, NEW s \in Connections, NEW d, Moves(s, d),
           UNCHANGED <<qtask, qledger>>,
           CallSound(d, qtask, qledger),
           \A r \in Connections \ {s} : Apart(d, qcall[r])
    PROVE  LocksInv'
  <1>1. /\ qcall' = [r \in Connections |-> IF r = s THEN d ELSE qcall[r]]
    BY DEF LocksInv, Moves
  <1>2. qcall'[s] = d /\ \A r \in Connections \ {s} : qcall'[r] = qcall[r]
    BY <1>1
  <1>3. qcall' = [r \in Connections |-> qcall'[r]]
    BY <1>1
  <1>4. \A r \in Connections : CallSound(qcall'[r], qtask', qledger')
    BY <1>2 DEF LocksInv
  <1>5. ASSUME NEW r \in Connections, NEW q \in Connections \ {r}
        PROVE  Apart(qcall'[r], qcall'[q])
    <2>1. CASE r = s
      BY <1>2, <2>1
    <2>2. CASE q = s
      <3>1. Apart(d, qcall[r])
        BY <2>2
      <3> QED
        BY <1>2, <2>2, <3>1 DEF Apart
    <2>3. CASE r # s /\ q # s
      BY <1>2, <2>3 DEF LocksInv
    <2> QED
      BY <2>1, <2>2, <2>3
  <1> QED
    BY <1>3, <1>4, <1>5 DEF LocksInv

\* What the invariant says of a call, and of its lock.
LEMMA CallFacts ==
    ASSUME LocksInv, NEW s \in Connections
    PROVE  /\ CallSound(qcall[s], qtask, qledger)
           /\ qcall[s] \in CallRows
           /\ PlaceSound(qcall[s], qtask)
           /\ WriteSound(qcall[s], qtask)
           /\ \A k \in Tokens : MarkSound(qcall[s], k, qtask, qledger)
           /\ \A r \in Connections \ {s} : Apart(qcall[s], qcall[r])
  BY DEF LocksInv, CallSound

----------------------------------------------------------------------------
(* Every statement keeps the invariant.                                     *)

\* A call that goes to a statement in which its lock and its marks may be kept,
\* with the lock, the columns and the marks it has.
LEMMA GoesOn ==
    ASSUME LocksInv, NEW s \in Connections, NEW at \in Places,
           Moves(s, GoesTo(qcall[s], at)), UNCHANGED <<qtask, qledger>>,
           PlaceSound(GoesTo(qcall[s], at), qtask),
           qcall[s].locks =>
              qcall[s].at = "select" /\ at = "commit"
    PROVE  LocksInv'
  <1> PICK c \in CallRows : c = qcall[s]
    BY CallFacts
  <1> DEFINE d == GoesTo(c, at)
  <1>1. /\ d \in CallRows
        /\ d.at = at /\ d.kind = c.kind /\ d.k = c.k /\ d.sets = c.sets
        /\ d.locks = c.locks /\ d.marks = c.marks
    BY GoneOn
  <1>2. /\ WriteSound(c, qtask)
        /\ \A k \in Tokens : MarkSound(c, k, qtask, qledger)
        /\ \A r \in Connections \ {s} : Apart(c, qcall[r])
        /\ c.locks => c.at = "select" /\ at = "commit"
    BY CallFacts
  <1>3. PlaceSound(d, qtask) /\ Moves(s, d)
    OBVIOUS
  <1> HIDE DEF d
  <1>4. WriteSound(d, qtask)
    BY <1>1, <1>2 DEF WriteSound, Granting, Renewing, Finishing, Failing, Ending
  <1>5. \A k \in Tokens : MarkSound(d, k, qtask, qledger)
    BY <1>1, <1>2 DEF MarkSound, Granting, Finishing, Failing
  <1>6. \A r \in Connections \ {s} : Apart(d, qcall[r])
    BY <1>1, <1>2 DEF Apart
  <1> QED
    BY <1>1, <1>2, <1>3, <1>4, <1>5, <1>6, CallMoves DEF CallSound

\* A call begins.
LEMMA OpenKeeps ==
    ASSUME LocksInv, NEW s \in Connections,
           NEW kind \in {"peek", "claim", "cancel", "renew", "finish", "fail"}, NEW k \in Nat,
           kind \in {"renew", "finish", "fail"} => k \in Tokens,
           OpenCall(s, kind, k)
    PROVE  LocksInv'
  <1> DEFINE at == CASE kind \in {"peek", "claim"} -> "sweep"
                     [] kind = "cancel" -> "close"
                     [] OTHER -> "check"
             d == [NoCall EXCEPT !.kind = kind, !.k = k, !.at = at]
  <1>1. NoCall \in CallRows
    BY NoCallSound DEF CallSound
  <1>2. at \in Places
    BY DEF Places
  <1>3. \/ at = "sweep" /\ kind \in {"peek", "claim"}
        \/ at = "close" /\ kind = "cancel"
        \/ at = "check" /\ kind \in {"renew", "finish", "fail"}
    OBVIOUS
  <1> HIDE DEF at
  <1>4. /\ d.at = at /\ d.kind = kind /\ d.k = k /\ d.sets = <<>>
        /\ d.locks = FALSE /\ d.marks = NoMarks
        /\ d \in CallRows
    BY <1>1, <1>2, NoCallSound DEF CallRows
  <1>5. Moves(s, d) /\ UNCHANGED <<qtask, qledger>>
    BY DEF OpenCall, at
  <1> HIDE DEF d
  <1>6. \A i \in Tokens : d.marks[i] = None
    BY <1>4 DEF NoMarks
  <1>7. CallSound(d, qtask, qledger)
    BY <1>3, <1>4, <1>6 DEF CallSound, PlaceSound, WriteSound, MarkSound
  <1>8. \A r \in Connections \ {s} : Apart(d, qcall[r])
    BY <1>4, <1>6 DEF Apart
  <1> QED
    BY <1>5, <1>7, <1>8, CallMoves

\* The sweep reads whether the lease has lapsed.
LEMMA ReadLapsedKeeps ==
    ASSUME LocksInv, NEW s \in Connections, ReadLapsed(s)
    PROVE  LocksInv'
  <1> PICK c \in CallRows : c = qcall[s]
    BY CallFacts
  <1>1. /\ c.at = "sweep"
        /\ c.kind \in {"peek", "claim"}
        /\ c.marks = NoMarks
        /\ ~c.locks
        /\ c.sets = <<>>
        /\ UNCHANGED <<qtask, qledger>>
    BY CallFacts DEF ReadLapsed, Call, PlaceSound, WriteSound
  <1>2. CASE Moves(s, [c EXCEPT !.at = "exhaust"])
    <2>1. "exhaust" \in Places
      BY DEF Places
    <2>2. PlaceSound(GoesTo(c, "exhaust"), qtask)
      BY <1>1, <2>1, GoneOn DEF PlaceSound
    <2>3. Moves(s, GoesTo(c, "exhaust"))
      BY <1>2 DEF GoesTo
    <2> QED
      BY <1>1, <2>1, <2>2, <2>3, GoesOn
  <1>3. CASE RunsLapsed(qtask) /\ Moves(s, [c EXCEPT !.at = "expire", !.k = qtask.attempt])
    <2> DEFINE d == [c EXCEPT !.at = "expire", !.k = qtask.attempt]
    <2>1. qtask.attempt \in Tokens
      BY <1>3, LockFacts DEF LocksInv, Agree, RunsLapsed, TaskRows
    <2>2. /\ d.at = "expire" /\ d.kind = c.kind /\ d.k = qtask.attempt /\ d.sets = c.sets
          /\ d.locks = c.locks /\ d.marks = c.marks
      BY DEF CallRows
    <2>3. d \in CallRows
      <3>1. qtask.attempt \in Nat /\ "expire" \in Places
        BY <2>1, LockFacts DEF Places
      <3> QED
        BY <3>1 DEF CallRows
    <2>4. Moves(s, d)
      BY <1>3
    <2> HIDE DEF d
    <2>5. \A i \in Tokens : d.marks[i] = None
      BY <1>1, <2>2 DEF NoMarks
    <2>6. qtask.attempt <= qtask.attempt
      BY <2>1, LockFacts
    <2>7. CallSound(d, qtask, qledger)
      BY <1>1, <2>1, <2>2, <2>3, <2>5, <2>6
         DEF CallSound, PlaceSound, WriteSound, MarkSound
    <2>8. \A r \in Connections \ {s} : Apart(d, qcall[r])
      BY <1>1, <2>2, <2>5 DEF Apart
    <2> QED
      BY <1>1, <2>4, <2>7, <2>8, CallMoves
  <1> QED
    BY <1>2, <1>3 DEF ReadLapsed

\* The sweep marks the attempt as expired, if it is still running.
LEMMA ExpireKeeps ==
    ASSUME LocksInv, NEW s \in Connections, ExpireAttempt(s)
    PROVE  LocksInv'
  <1>1. PICK c \in CallRows : c = qcall[s]
    BY CallFacts
  <1>2. /\ c.at = "expire"
        /\ c.kind \in {"peek", "claim"}
        /\ c.marks = NoMarks
        /\ ~c.locks
        /\ c.sets = <<>>
        /\ c.k \in Tokens
        /\ c.k <= qtask.attempt
        /\ UNCHANGED <<qtask, qledger>>
    BY <1>1, CallFacts DEF ExpireAttempt, Call, PlaceSound, WriteSound
  <1>3. \A i \in Tokens : c.marks[i] = None
    BY <1>2 DEF NoMarks
  <1>4. PICK k \in Tokens : k = c.k
    BY <1>2
  <1>5. AttemptFree(s, k)
    BY <1>1, <1>4 DEF ExpireAttempt
  <1>6. PICK state \in LedgerStates \cup {None} :
            state = IF qledger[k] = "running" THEN "expired" ELSE c.marks[k]
    BY <1>3 DEF LedgerStates
  <1>7. state # None => state = "expired" /\ qledger[k] = "running"
    BY <1>3, <1>6
  <1> DEFINE d == MarksWith(c, "exhaust", k, state)
  <1>9. Moves(s, d)
    BY <1>1, <1>4, <1>6 DEF ExpireAttempt, MarksWith
  <1>10. "exhaust" \in Places
    BY DEF Places
  <1>11. /\ d.at = "exhaust" /\ d.kind = c.kind /\ d.k = c.k /\ d.sets = c.sets
         /\ d.locks = c.locks
         /\ d.marks[k] = state
         /\ \A i \in Tokens \ {k} : d.marks[i] = c.marks[i]
         /\ d \in CallRows
    BY <1>10, Marked
  <1> HIDE DEF d
  <1>12. CallSound(d, qtask, qledger)
    <2>1. \A i \in Tokens : MarkSound(d, i, qtask, qledger)
      BY <1>2, <1>3, <1>4, <1>7, <1>11 DEF MarkSound
    <2> QED
      BY <1>2, <1>11, <2>1 DEF CallSound, PlaceSound, WriteSound
  <1>13. \A r \in Connections \ {s} : Apart(d, qcall[r])
    BY <1>2, <1>3, <1>5, <1>11 DEF Apart, AttemptFree
  <1> QED
    BY <1>2, <1>9, <1>12, <1>13, CallMoves

\* The sweep reads whether the task has run out of attempts.
LEMMA ReadExhaustedKeeps ==
    ASSUME LocksInv, NEW s \in Connections, ReadExhausted(s)
    PROVE  LocksInv'
  <1> PICK c \in CallRows : c = qcall[s]
    BY CallFacts
  <1> DEFINE at == IF RunsOut(qtask) THEN "fail" ELSE Swept(s)
  <1>1. /\ c.at = "exhaust"
        /\ c.kind \in {"peek", "claim"}
        /\ ~c.locks
        /\ Moves(s, GoesTo(c, at))
        /\ UNCHANGED <<qtask, qledger>>
    BY CallFacts DEF ReadExhausted, Call, PlaceSound, GoesTo
  <1>2. at \in {"fail", "select", "commit"} /\ (at = "select" => c.kind = "claim")
    BY DEF Swept
  <1> HIDE DEF at
  <1>3. at \in Places
    BY <1>2 DEF Places
  <1>4. PlaceSound(GoesTo(c, at), qtask)
    BY <1>1, <1>2, <1>3, GoneOn DEF PlaceSound
  <1> QED
    BY <1>1, <1>3, <1>4, GoesOn

\* A call takes the lock of the task's row in order to end the task.
LEMMA EndsKeeps ==
    ASSUME LocksInv, NEW s \in Connections, NEW at \in {"select", "commit"},
           NEW sets \in Writes,
           \E status \in {"failed", "cancelled"} : sets = StatusSets(status),
           Moves(s, LocksWith(qcall[s], at, sets)), UNCHANGED <<qtask, qledger>>,
           qcall[s].at \in {"fail", "close"}, TaskFree(s), Live(qtask),
           at = "select" => qcall[s].kind = "claim"
    PROVE  LocksInv'
  <1>1. PICK c \in CallRows : c = qcall[s]
    BY CallFacts
  <1>2. /\ c.kind \in {"peek", "claim", "cancel"}
        /\ ~c.locks
        /\ at = "select" => c.kind = "claim"
        /\ \A k \in Tokens : MarkSound(c, k, qtask, qledger)
        /\ \A r \in Connections \ {s} : Apart(c, qcall[r])
    BY <1>1, CallFacts DEF PlaceSound
  <1>3. at \in Places
    BY DEF Places
  <1> DEFINE d == LocksWith(c, at, sets)
  <1>4. Moves(s, d)
    BY <1>1
  <1>5. /\ d.at = at /\ d.kind = c.kind /\ d.k = c.k /\ d.sets = sets
        /\ d.locks = TRUE /\ d.marks = c.marks
        /\ d \in CallRows
    BY <1>3, LocksTaken
  <1> HIDE DEF d
  <1>6. Ending(d, qtask)
    BY <1>2, <1>5 DEF Ending
  <1>7. \A k \in Tokens : MarkSound(d, k, qtask, qledger)
    BY <1>2, <1>5 DEF MarkSound
  <1>8. CallSound(d, qtask, qledger)
    BY <1>2, <1>5, <1>6, <1>7 DEF CallSound, PlaceSound, WriteSound
  <1>9. \A r \in Connections \ {s} : Apart(d, qcall[r])
    BY <1>2, <1>5 DEF Apart, TaskFree
  <1> QED
    BY <1>4, <1>8, <1>9, CallMoves

\* The sweep fails a task that has run out, if it still has.
LEMMA FailExhaustedKeeps ==
    ASSUME LocksInv, NEW s \in Connections, FailExhausted(s)
    PROVE  LocksInv'
  <1> PICK c \in CallRows : c = qcall[s]
    BY CallFacts
  <1>1. /\ c.at = "fail"
        /\ c.kind \in {"peek", "claim"}
        /\ ~c.locks
        /\ UNCHANGED <<qtask, qledger>>
        /\ TaskFree(s)
        /\ Swept(s) \in {"select", "commit"} /\ (Swept(s) = "select" => c.kind = "claim")
    BY CallFacts DEF FailExhausted, Call, PlaceSound, Swept
  <1>2. CASE /\ RunsOut(qtask)
             /\ Moves(s, [qcall[s] EXCEPT !.at = Swept(s), !.locks = TRUE,
                                          !.sets = [status |-> "failed"]])
    <2>1. Live(qtask)
      BY <1>2 DEF RunsOut, RunsLapsed, Live
    <2> DEFINE sets == StatusSets("failed")
    <2>2. Moves(s, LocksWith(qcall[s], Swept(s), sets))
      BY <1>2 DEF LocksWith, StatusSets
    <2>3. sets = StatusSets("failed") /\ sets \in Writes
      BY WritesOf DEF Statuses
    <2> HIDE DEF sets
    <2> QED
      BY <1>1, <2>1, <2>2, <2>3, EndsKeeps
  <1>3. CASE Moves(s, [qcall[s] EXCEPT !.at = Swept(s)])
    <2>1. Swept(s) \in Places
      BY <1>1 DEF Places
    <2>2. PlaceSound(GoesTo(c, Swept(s)), qtask)
      BY <1>1, <2>1, GoneOn DEF PlaceSound
    <2>3. Moves(s, GoesTo(c, Swept(s)))
      BY <1>3 DEF GoesTo
    <2> QED
      BY <1>1, <2>1, <2>2, <2>3, GoesOn
  <1> QED
    BY <1>2, <1>3 DEF FailExhausted

\* A cancellation ends the task, if there is something to end.
LEMMA CloseKeeps ==
    ASSUME LocksInv, NEW s \in Connections, CloseTask(s)
    PROVE  LocksInv'
  <1> PICK c \in CallRows : c = qcall[s]
    BY CallFacts
  <1>1. /\ c.at = "close"
        /\ ~c.locks
        /\ UNCHANGED <<qtask, qledger>>
        /\ TaskFree(s)
    BY CallFacts DEF CloseTask, Call, PlaceSound
  <1>2. CASE /\ Live(qtask)
             /\ Moves(s, [qcall[s] EXCEPT !.at = "commit", !.locks = TRUE,
                                          !.sets = [status |-> "cancelled"]])
    <2> DEFINE sets == StatusSets("cancelled")
    <2>1. Moves(s, LocksWith(qcall[s], "commit", sets))
      BY <1>2 DEF LocksWith, StatusSets
    <2>2. sets = StatusSets("cancelled") /\ sets \in Writes
      BY WritesOf DEF Statuses
    <2> HIDE DEF sets
    <2> QED
      BY <1>1, <1>2, <2>1, <2>2, EndsKeeps
  <1>3. CASE Moves(s, [qcall[s] EXCEPT !.at = "commit"])
    <2>1. "commit" \in Places
      BY DEF Places
    <2>2. PlaceSound(GoesTo(c, "commit"), qtask)
      BY <1>1, <2>1, GoneOn DEF PlaceSound
    <2>3. Moves(s, GoesTo(c, "commit"))
      BY <1>3 DEF GoesTo
    <2> QED
      BY <1>1, <2>1, <2>2, <2>3, GoesOn
  <1> QED
    BY <1>2, <1>3 DEF CloseTask

\* A call that is granted the task.
GrantsWith(c, k) ==
    [c EXCEPT !.at = "commit", !.locks = TRUE, !.marks[k] = "running", !.sets = GrantSets(k)]

\* What a call that is granted the task is about to write.
LEMMA Granted ==
    ASSUME NEW c \in CallRows, NEW k \in Tokens
    PROVE  LET d == GrantsWith(c, k)
           IN  /\ d.at = "commit" /\ d.kind = c.kind /\ d.k = c.k /\ d.sets = GrantSets(k)
               /\ d.locks = TRUE
               /\ d.marks[k] = "running"
               /\ \A i \in Tokens \ {k} : d.marks[i] = c.marks[i]
               /\ d \in CallRows
  <1> DEFINE marks == [c.marks EXCEPT ![k] = "running"]
             sets == GrantSets(k)
             d == GrantsWith(c, k)
  <1>1. d = [c EXCEPT !.at = "commit", !.locks = TRUE, !.marks = marks, !.sets = sets]
    BY DEF GrantsWith
  <1>2. c.marks \in Ledgers
    BY DEF CallRows
  <1>3. /\ marks \in Ledgers
        /\ marks[k] = "running"
        /\ \A i \in Tokens \ {k} : marks[i] = c.marks[i]
    BY <1>2 DEF Ledgers, LedgerStates
  <1>4. "commit" \in Places /\ sets \in Writes
    BY WritesOf, LockFacts DEF Places
  <1> HIDE DEF marks, sets
  <1>5. /\ d.at = "commit" /\ d.kind = c.kind /\ d.k = c.k /\ d.sets = sets
        /\ d.locks = TRUE /\ d.marks = marks
        /\ d \in CallRows
    BY <1>1, <1>3, <1>4 DEF CallRows
  <1> QED
    BY <1>3, <1>5 DEF sets

\* No one but a call that is granted the task writes the row of the next attempt.
LEMMA NextUnmarked ==
    ASSUME LocksInv, NEW r \in Connections, ~qcall[r].locks, NEW k \in Tokens,
           k = qtask.attempt + 1
    PROVE  qcall[r].marks[k] = None
  <1>1. MarkSound(qcall[r], k, qtask, qledger)
    BY CallFacts
  <1>2. qtask.attempt \in Nat
    BY LockFacts DEF LocksInv, TaskRows
  <1>3. ~(k <= qtask.attempt)
    BY <1>2
  <1> QED
    BY <1>1, <1>3 DEF MarkSound

\* A claim takes the task.
LEMMA GrantKeeps ==
    ASSUME LocksInv, NEW s \in Connections, NEW next \in Tokens, next = qtask.attempt + 1,
           qcall[s].at = "select", qcall[s].kind = "claim", ~qcall[s].locks,
           Live(qtask), TaskFree(s),
           Moves(s, GrantsWith(qcall[s], next)),
           UNCHANGED <<qtask, qledger>>
    PROVE  LocksInv'
  <1> PICK c \in CallRows : c = qcall[s]
    BY CallFacts
  <1>1. next \in Nat /\ qtask.attempt \in Nat /\ qtask.attempt < LockAttempts
    BY LockFacts DEF LocksInv, TaskRows
  <1>2. GrantSets(next) = GrantSets(qtask.attempt + 1)
    OBVIOUS
  <1> DEFINE d == GrantsWith(c, next)
  <1>3. Moves(s, d)
    OBVIOUS
  <1>4. /\ d.at = "commit" /\ d.kind = c.kind /\ d.k = c.k /\ d.sets = GrantSets(next)
        /\ d.locks = TRUE
        /\ d.marks[next] = "running"
        /\ \A i \in Tokens \ {next} : d.marks[i] = c.marks[i]
        /\ d \in CallRows
    BY Granted, ZenonT(60)
  <1> HIDE DEF d
  <1>5. Granting(d, qtask)
    BY <1>1, <1>2, <1>4 DEF Granting
  <1>6. \A i \in Tokens : MarkSound(d, i, qtask, qledger)
    <2>1. MarkSound(d, next, qtask, qledger)
      BY <1>4, <1>5 DEF MarkSound
    <2>2. ASSUME NEW i \in Tokens \ {next}
          PROVE  MarkSound(d, i, qtask, qledger)
      BY <1>4, CallFacts DEF MarkSound
    <2> QED
      BY <2>1, <2>2
  <1>7. CallSound(d, qtask, qledger)
    BY <1>4, <1>5, <1>6 DEF CallSound, PlaceSound, WriteSound
  <1>8. \A r \in Connections \ {s} : ~qcall[r].locks /\ qcall[r].marks[next] = None
    BY NextUnmarked DEF TaskFree
  <1>9. \A r \in Connections \ {s} : Apart(d, qcall[r])
    BY <1>4, <1>8, CallFacts DEF Apart
  <1> QED
    BY <1>3, <1>7, <1>9, CallMoves

\* A claim takes the task, or finds nothing to take.
LEMMA SelectKeeps ==
    ASSUME LocksInv, NEW s \in Connections, SelectTask(s)
    PROVE  LocksInv'
  <1> PICK c \in CallRows : c = qcall[s]
    BY CallFacts
  <1>1. /\ c.at = "select"
        /\ c.kind = "claim"
        /\ UNCHANGED <<qtask, qledger>>
    BY CallFacts DEF SelectTask, Call, PlaceSound
  <1>2. CASE Moves(s, [c EXCEPT !.at = "commit"])
    <2>1. "commit" \in Places
      BY DEF Places
    <2>2. PlaceSound(GoesTo(c, "commit"), qtask)
      BY <2>1, GoneOn DEF PlaceSound
    <2>3. Moves(s, GoesTo(c, "commit"))
      BY <1>2 DEF GoesTo
    <2> QED
      BY <1>1, <2>1, <2>2, <2>3, GoesOn
  <1>3. CASE /\ TaskFree(s) /\ ~c.locks /\ qtask.attempt < LockAttempts
             /\ qtask.status = "queued" \/ RunsLapsed(qtask)
             /\ Moves(s, GrantsWith(c, qtask.attempt + 1))
    <2>1. qtask.attempt + 1 \in Tokens
      BY <1>3, LockFacts DEF LocksInv, TaskRows
    <2>2. PICK next \in Tokens : next = qtask.attempt + 1
      BY <2>1
    <2>3. Live(qtask)
      BY <1>3 DEF Live, RunsLapsed
    <2> QED
      BY <1>1, <1>3, <2>2, <2>3, GrantKeeps
  <1> QED
    BY <1>1, <1>2, <1>3 DEF SelectTask, GrantsWith, GrantSets

\* A call that still holds the task takes the lock of its row.
LEMMA HeldKeeps ==
    ASSUME LocksInv, NEW s \in Connections, NEW at \in {"commit", "mark"},
           NEW sets \in Writes,
           qcall[s].at = "check", TaskFree(s),
           qtask.status = "running", qtask.attempt = qcall[s].k,
           \/ qcall[s].kind = "renew" /\ at = "commit" /\ sets = RenewSets
           \/ qcall[s].kind = "finish" /\ at = "mark" /\ sets = FinishSets(qcall[s].k)
           \/ /\ qcall[s].kind = "fail" /\ at = "mark"
              /\ \E status \in {"failed", "queued"} : sets = StatusSets(status),
           Moves(s, LocksWith(qcall[s], at, sets)), UNCHANGED <<qtask, qledger>>
    PROVE  LocksInv'
  <1> PICK c \in CallRows : c = qcall[s]
    BY CallFacts
  <1>1. /\ c.kind \in {"renew", "finish", "fail"}
        /\ c.k \in Tokens
        /\ c.marks = NoMarks
    BY CallFacts DEF PlaceSound
  <1>2. at \in Places
    BY DEF Places
  <1> DEFINE d == LocksWith(c, at, sets)
  <1>3. /\ d.at = at /\ d.kind = c.kind /\ d.k = c.k /\ d.sets = sets
        /\ d.locks = TRUE /\ d.marks = c.marks
        /\ d \in CallRows
    BY <1>2, LocksTaken
  <1>4. Moves(s, d)
    OBVIOUS
  <1> HIDE DEF d
  <1>5. \A i \in Tokens : d.marks[i] = None
    BY <1>1, <1>3 DEF NoMarks
  <1>6. Renewing(d, qtask) \/ Finishing(d, qtask) \/ Failing(d, qtask)
    BY <1>1, <1>3 DEF Renewing, Finishing, Failing
  <1>7. PlaceSound(d, qtask)
    BY <1>1, <1>3 DEF PlaceSound
  <1>8. CallSound(d, qtask, qledger)
    BY <1>3, <1>5, <1>6, <1>7 DEF CallSound, WriteSound, MarkSound
  <1>9. \A r \in Connections \ {s} : Apart(d, qcall[r])
    BY <1>3, <1>5 DEF Apart, TaskFree
  <1> QED
    BY <1>4, <1>8, <1>9, CallMoves

\* A call about an attempt goes on if it still holds the task.
LEMMA CheckKeeps ==
    ASSUME LocksInv, NEW s \in Connections, CheckCall(s)
    PROVE  LocksInv'
  <1> PICK c \in CallRows : c = qcall[s]
    BY CallFacts
  <1> DEFINE status == IF c.k >= LockAttempts THEN "failed" ELSE "queued"
  <1>1. /\ c.at = "check"
        /\ c.kind \in {"renew", "finish", "fail"}
        /\ c.k \in Nat
        /\ TaskFree(s)
        /\ UNCHANGED <<qtask, qledger>>
    BY CallFacts, LockFacts DEF CheckCall, Call, PlaceSound
  <1>2. status \in {"failed", "queued"}
    OBVIOUS
  <1>3. CASE Moves(s, NoCall)
    BY <1>1, <1>3, NoCallSound, CallMoves
  <1>4. CASE /\ qtask.status = "running" /\ qtask.attempt = c.k
             /\ \/ c.kind = "renew" /\ Moves(s, LocksWith(c, "commit", RenewSets))
                \/ c.kind = "finish" /\ Moves(s, LocksWith(c, "mark", FinishSets(c.k)))
                \/ c.kind = "fail" /\ Moves(s, LocksWith(c, "mark", StatusSets(status)))
    <2> HIDE DEF status
    <2>1. /\ RenewSets \in Writes
          /\ FinishSets(c.k) \in Writes
          /\ StatusSets(status) \in Writes
      BY <1>1, <1>2, WritesOf DEF Statuses
    <2>2. CASE c.kind = "renew" /\ Moves(s, LocksWith(c, "commit", RenewSets))
      BY <1>1, <1>4, <2>1, <2>2, HeldKeeps
    <2>3. CASE c.kind = "finish" /\ Moves(s, LocksWith(c, "mark", FinishSets(c.k)))
      BY <1>1, <1>4, <2>1, <2>3, HeldKeeps
    <2>4. CASE c.kind = "fail" /\ Moves(s, LocksWith(c, "mark", StatusSets(status)))
      BY <1>1, <1>2, <1>4, <2>1, <2>4, HeldKeeps
    <2> QED
      BY <1>4, <2>2, <2>3, <2>4
  <1> QED
    BY <1>1, <1>3, <1>4
       DEF CheckCall, LocksWith, RenewSets, FinishSets, StatusSets

\* It marks its attempt.
LEMMA MarkKeeps ==
    ASSUME LocksInv, NEW s \in Connections, MarkAttempt(s)
    PROVE  LocksInv'
  <1> PICK c \in CallRows : c = qcall[s]
    BY CallFacts
  <1>1. /\ c.at = "mark"
        /\ c.locks
        /\ c.marks = NoMarks
        /\ c.k \in Tokens
        /\ UNCHANGED <<qtask, qledger>>
        /\ \A r \in Connections \ {s} : Apart(c, qcall[r])
        /\ WriteSound(c, qtask)
    BY CallFacts DEF MarkAttempt, Call, PlaceSound
  <1>2. Finishing(c, qtask) \/ Failing(c, qtask)
    BY <1>1 DEF WriteSound, Granting, Renewing, Ending
  <1>3. PICK k \in Tokens : k = c.k
    BY <1>1
  <1>4. PICK state \in LedgerStates \cup {None} :
            state = IF c.kind = "finish" THEN "done" ELSE "failed"
    BY DEF LedgerStates
  <1>5. AttemptFree(s, k)
    BY <1>3 DEF MarkAttempt
  <1> DEFINE d == MarksWith(c, "commit", k, state)
  <1>6. Moves(s, d)
    BY <1>3, <1>4 DEF MarkAttempt, MarksWith
  <1>7. "commit" \in Places
    BY DEF Places
  <1>8. /\ d.at = "commit" /\ d.kind = c.kind /\ d.k = c.k /\ d.sets = c.sets
        /\ d.locks = c.locks
        /\ d.marks[k] = state
        /\ \A i \in Tokens \ {k} : d.marks[i] = c.marks[i]
        /\ d \in CallRows
    BY <1>7, Marked
  <1> HIDE DEF d
  <1>9. /\ c.kind = "finish" => state = "done" /\ Finishing(d, qtask)
        /\ c.kind = "fail" => state = "failed" /\ Failing(d, qtask)
        /\ c.kind \in {"finish", "fail"}
    BY <1>2, <1>3, <1>4, <1>8 DEF Finishing, Failing
  <1>10. \A i \in Tokens : c.marks[i] = None
    BY <1>1 DEF NoMarks
  <1>11. \A i \in Tokens : MarkSound(d, i, qtask, qledger)
    BY <1>1, <1>3, <1>8, <1>9, <1>10 DEF MarkSound
  <1>12. CallSound(d, qtask, qledger)
    BY <1>1, <1>8, <1>9, <1>11 DEF CallSound, PlaceSound, WriteSound
  <1>13. \A r \in Connections \ {s} : Apart(d, qcall[r])
    BY <1>1, <1>5, <1>8, <1>10 DEF Apart, AttemptFree
  <1> QED
    BY <1>1, <1>6, <1>12, <1>13, CallMoves

\* It is broken off.
LEMMA AbortKeeps ==
    ASSUME LocksInv, NEW s \in Connections, AbortCall(s)
    PROVE  LocksInv'
  BY NoCallSound, CallMoves DEF AbortCall

----------------------------------------------------------------------------
(* A commit: the row and the ledger change, under the calls of the others. *)

\* The columns of a row.
LEMMA RowShape ==
    ASSUME NEW row \in TaskRows
    PROVE  /\ DOMAIN row = {"status", "attempt", "valid", "result"}
           /\ row = [status |-> row.status, attempt |-> row.attempt, valid |-> row.valid,
                     result |-> row.result]
           /\ row.status \in Statuses
           /\ row.attempt \in 0..LockAttempts
           /\ row.valid \in BOOLEAN
           /\ row.result \in 0..LockAttempts
  BY DEF TaskRows

\* What an UPDATE makes of each column.
LEMMA UpdatedRow ==
    ASSUME NEW row \in TaskRows, NEW sets
    PROVE  Updated(row, sets) =
              [status |-> IF "status" \in DOMAIN sets THEN sets["status"] ELSE row.status,
               attempt |-> IF "attempt" \in DOMAIN sets THEN sets["attempt"] ELSE row.attempt,
               valid |-> IF "valid" \in DOMAIN sets THEN sets["valid"] ELSE row.valid,
               result |-> IF "result" \in DOMAIN sets THEN sets["result"] ELSE row.result]
  BY RowShape DEF Updated

\* Nothing is written.
LEMMA UntouchedRow ==
    ASSUME NEW row \in TaskRows
    PROVE  Updated(row, <<>>) = row
  BY RowShape, UpdatedRow

\* The row of a task whose lease is renewed.
LEMMA RenewedRow ==
    ASSUME NEW row \in TaskRows
    PROVE  LET u == Updated(row, RenewSets)
           IN  u \in TaskRows /\ u.status = row.status /\ u.attempt = row.attempt
               /\ u.result = row.result
  <1>1. DOMAIN RenewSets = {"valid"} /\ RenewSets["valid"] = TRUE
    BY DEF RenewSets
  <1>2. Updated(row, RenewSets) = [status |-> row.status, attempt |-> row.attempt,
                                   valid |-> TRUE, result |-> row.result]
    BY <1>1, UpdatedRow
  <1> QED
    BY <1>2, RowShape DEF TaskRows

\* The row of a task that is granted as attempt k.
LEMMA GrantedRow ==
    ASSUME NEW row \in TaskRows, NEW k \in Tokens
    PROVE  LET u == Updated(row, GrantSets(k))
           IN  u \in TaskRows /\ u.status = "running" /\ u.attempt = k
  <1>1. /\ DOMAIN GrantSets(k) = {"status", "attempt", "valid"}
        /\ GrantSets(k)["status"] = "running"
        /\ GrantSets(k)["attempt"] = k
        /\ GrantSets(k)["valid"] = TRUE
    BY DEF GrantSets
  <1>2. Updated(row, GrantSets(k)) = [status |-> "running", attempt |-> k,
                                      valid |-> TRUE, result |-> row.result]
    BY <1>1, UpdatedRow
  <1>3. k \in 0..LockAttempts /\ "running" \in Statuses
    BY LockFacts DEF Statuses
  <1> QED
    BY <1>2, <1>3, RowShape DEF TaskRows

\* The row of a task that attempt k finishes.
LEMMA FinishedRow ==
    ASSUME NEW row \in TaskRows, NEW k \in Tokens
    PROVE  LET u == Updated(row, FinishSets(k))
           IN  u \in TaskRows /\ u.status = "done" /\ u.attempt = row.attempt
               /\ u.result = k
  <1>1. /\ DOMAIN FinishSets(k) = {"status", "result"}
        /\ FinishSets(k)["status"] = "done"
        /\ FinishSets(k)["result"] = k
    BY DEF FinishSets
  <1>2. Updated(row, FinishSets(k)) = [status |-> "done", attempt |-> row.attempt,
                                       valid |-> row.valid, result |-> k]
    BY <1>1, UpdatedRow
  <1>3. k \in 0..LockAttempts /\ "done" \in Statuses
    BY LockFacts DEF Statuses
  <1> QED
    BY <1>2, <1>3, RowShape DEF TaskRows

\* The row of a task of which only the status is written.
LEMMA StatusRow ==
    ASSUME NEW row \in TaskRows, NEW status \in Statuses
    PROVE  LET u == Updated(row, StatusSets(status))
           IN  u \in TaskRows /\ u.status = status /\ u.attempt = row.attempt
  <1>1. DOMAIN StatusSets(status) = {"status"} /\ StatusSets(status)["status"] = status
    BY DEF StatusSets
  <1>2. Updated(row, StatusSets(status)) = [status |-> status, attempt |-> row.attempt,
                                            valid |-> row.valid, result |-> row.result]
    BY <1>1, UpdatedRow
  <1> QED
    BY <1>2, RowShape DEF TaskRows

\* The ledger after the call c has committed.
Marks(c, ledger) == [k \in Tokens |-> IF c.marks[k] = None THEN ledger[k] ELSE c.marks[k]]

\* The ledger changes at the attempts that the call has written, and nowhere else.
LEMMA MarksFacts ==
    ASSUME NEW c \in CallRows, NEW ledger \in Ledgers
    PROVE  /\ Marks(c, ledger) \in Ledgers
           /\ \A k \in Tokens :
                 /\ c.marks[k] = None => Marks(c, ledger)[k] = ledger[k]
                 /\ c.marks[k] # None => Marks(c, ledger)[k] = c.marks[k]
  <1>1. c.marks \in Ledgers
    BY DEF CallRows
  <1> QED
    BY <1>1 DEF Marks, Ledgers

\* A call stays sound when the attempts only grow, the attempts that it has marked are
\* as they were, and the task too if it has its lock.
LEMMA OthersSound ==
    ASSUME NEW d, NEW row \in TaskRows, NEW row2 \in TaskRows, NEW ledger, NEW ledger2,
           CallSound(d, row, ledger),
           row.attempt <= row2.attempt,
           \A k \in Tokens : d.marks[k] # None => ledger2[k] = ledger[k],
           d.locks => row2.status = row.status /\ row2.attempt = row.attempt
    PROVE  CallSound(d, row2, ledger2)
  <1>1. row.attempt \in Nat /\ row2.attempt \in Nat
    BY LockFacts DEF TaskRows
  <1>2. d \in CallRows /\ PlaceSound(d, row) /\ WriteSound(d, row)
    BY DEF CallSound
  <1>3. PlaceSound(d, row2)
    <2>1. ASSUME d.at = "expire"
          PROVE  d.k \in Tokens /\ d.k <= row2.attempt
      BY <1>1, <1>2, <2>1, LockFacts DEF PlaceSound
    <2> QED
      BY <1>2, <2>1 DEF PlaceSound
  <1>4. WriteSound(d, row2)
    BY <1>2 DEF WriteSound, Granting, Renewing, Finishing, Failing, Ending, Live
  <1>5. ASSUME NEW k \in Tokens
        PROVE  MarkSound(d, k, row2, ledger2)
    <2>1. MarkSound(d, k, row, ledger)
      BY DEF CallSound
    <2>2. k <= row.attempt => k <= row2.attempt
      BY <1>1, LockFacts
    <2>3. CASE d.locks
      BY <2>1, <2>2, <2>3 DEF MarkSound, Granting, Finishing, Failing, Live
    <2>4. CASE ~d.locks
      BY <2>1, <2>2, <2>4 DEF MarkSound
    <2> QED
      BY <2>3, <2>4
  <1> QED
    BY <1>2, <1>3, <1>4, <1>5 DEF CallSound

\* What a call that is sound commits: the row and the ledger still agree, the attempts
\* have not become fewer, and without the lock of the row it is as it was.
LEMMA CommitAgrees ==
    ASSUME NEW c, NEW row \in TaskRows, NEW ledger \in Ledgers,
           CallSound(c, row, ledger), Agree(row, ledger), c.at = "commit"
    PROVE  LET u == Updated(row, c.sets)
               l == Marks(c, ledger)
           IN  /\ u \in TaskRows
               /\ l \in Ledgers
               /\ Agree(u, l)
               /\ row.attempt <= u.attempt
               /\ ~c.locks => u = row
  <1> DEFINE u == Updated(row, c.sets)
             l == Marks(c, ledger)
  <1> SUFFICES /\ u \in TaskRows
               /\ l \in Ledgers
               /\ Agree(u, l)
               /\ row.attempt <= u.attempt
               /\ ~c.locks => u = row
    OBVIOUS
  <1>1. /\ c \in CallRows
        /\ WriteSound(c, row)
        /\ \A k \in Tokens : MarkSound(c, k, row, ledger)
    BY DEF CallSound
  <1>2. /\ l \in Ledgers
        /\ \A k \in Tokens : /\ c.marks[k] = None => l[k] = ledger[k]
                             /\ c.marks[k] # None => l[k] = c.marks[k]
    BY <1>1, MarksFacts
  <1>3. row.attempt \in Nat /\ row.attempt <= LockAttempts /\ row.attempt <= row.attempt
    BY LockFacts DEF TaskRows
  <1>4. \A k \in Tokens : k \in Nat /\ k # 0 /\ k <= LockAttempts
    BY LockFacts
  <1> HIDE DEF l
  <1>5. CASE ~c.locks
    <2>1. u = row
      BY <1>1, <1>5, UntouchedRow DEF WriteSound
    <2>2. \A k \in Tokens :
             l[k] = ledger[k] \/ (l[k] = "expired" /\ ledger[k] = "running")
      BY <1>1, <1>2, <1>5 DEF MarkSound
    <2>3. Agree(row, l)
      <3>1. \A k \in Tokens : l[k] = "done" <=> ledger[k] = "done"
        BY <2>2
      <3>2. row.attempt # 0 => row.attempt \in Tokens
        BY <1>3, LockFacts
      <3> QED
        BY <2>2, <3>1, <3>2 DEF Agree
    <2> QED
      BY <1>2, <1>3, <2>1, <2>3
  <1>6. CASE c.locks /\ Granting(c, row)
    <2>1. PICK next \in Tokens : next = row.attempt + 1
      BY <1>3, <1>6, LockFacts DEF Granting
    <2>2. c.sets = GrantSets(next) /\ c.marks[next] = "running"
      BY <1>6, <2>1 DEF Granting
    <2>3. u \in TaskRows /\ u.status = "running" /\ u.attempt = next
      <3>1. LET g == Updated(row, GrantSets(next))
            IN  g \in TaskRows /\ g.status = "running" /\ g.attempt = next
        BY GrantedRow
      <3> QED
        BY <2>2, <3>1
    <2>4. l[next] = "running"
      BY <1>2, <2>2, LockFacts DEF LedgerStates
    <2>5. \A k \in Tokens : ledger[k] # "done" /\ l[k] # "done"
      BY <1>1, <1>2, <1>6 DEF Agree, MarkSound, Granting, Finishing, Live
    <2>6. Agree(u, l)
      BY <1>4, <2>3, <2>4, <2>5 DEF Agree
    <2> HIDE DEF u
    <2> QED
      BY <1>2, <1>3, <1>6, <2>1, <2>3, <2>6
  <1>7. CASE c.locks /\ Renewing(c, row)
    <2>1. u \in TaskRows /\ u.status = "running" /\ u.attempt = row.attempt
      BY <1>7, RenewedRow DEF Renewing
    <2>2. \A k \in Tokens :
             l[k] = ledger[k] \/ (l[k] = "expired" /\ ledger[k] = "running")
      BY <1>1, <1>2, <1>7 DEF MarkSound, Renewing, Granting, Finishing, Failing
    <2>3. row.attempt \in Tokens /\ ledger[row.attempt] \in {"running", "expired"}
      BY <1>3, <1>7, LockFacts DEF Agree, Renewing
    <2>4. \A k \in Tokens : ledger[k] # "done"
      BY <1>7 DEF Agree, Renewing
    <2> HIDE DEF u
    <2>5. Agree(u, l)
      BY <1>4, <2>1, <2>2, <2>3, <2>4 DEF Agree
    <2> QED
      BY <1>2, <1>3, <1>7, <2>1, <2>5
  <1>8. CASE c.locks /\ Finishing(c, row)
    <2>1. PICK k \in Tokens : k = c.k /\ k = row.attempt
      BY <1>3, <1>8, LockFacts DEF Agree, Finishing
    <2>2. c.sets = FinishSets(k) /\ c.marks[k] = "done"
      BY <1>8, <2>1 DEF Finishing
    <2>3. u \in TaskRows /\ u.status = "done" /\ u.attempt = row.attempt /\ u.result = k
      BY <2>2, FinishedRow
    <2>4. l[k] = "done"
      BY <1>2, <2>2, LockFacts DEF LedgerStates
    <2>5. \A i \in Tokens \ {k} : l[i] # "done"
      BY <1>1, <1>2, <1>8, <2>1 DEF Agree, MarkSound, Granting, Finishing
    <2> HIDE DEF u
    <2>6. Agree(u, l)
      BY <2>1, <2>3, <2>4, <2>5 DEF Agree
    <2> QED
      BY <1>2, <1>3, <1>8, <2>1, <2>3, <2>6
  <1>9. CASE c.locks /\ (Failing(c, row) \/ Ending(c, row))
    <2>1. PICK status \in {"failed", "queued", "cancelled"} : c.sets = StatusSets(status)
      BY <1>9 DEF Failing, Ending
    <2>2. u \in TaskRows /\ u.status = status /\ u.attempt = row.attempt
      BY <2>1, StatusRow DEF Statuses
    <2>3. \A k \in Tokens : l[k] # "done"
      BY <1>1, <1>2, <1>9 DEF Agree, MarkSound, Granting, Finishing, Failing, Ending, Live
    <2> HIDE DEF u
    <2>4. Agree(u, l)
      BY <2>2, <2>3 DEF Agree
    <2> QED
      BY <1>2, <1>3, <1>9, <2>2, <2>4
  <1> QED
    BY <1>1, <1>5, <1>6, <1>7, <1>8, <1>9 DEF WriteSound

\* A commit.
LEMMA CommitKeeps ==
    ASSUME LocksInv, NEW s \in Connections, CommitCall(s)
    PROVE  LocksInv'
  <1>1. PICK c \in CallRows : c = qcall[s]
    BY CallFacts
  <1>2. /\ CallSound(c, qtask, qledger)
        /\ c.at = "commit"
        /\ \A r \in Connections \ {s} : Apart(c, qcall[r])
    BY <1>1, CallFacts DEF CommitCall, Call
  <1>3. qtask \in TaskRows /\ qledger \in Ledgers /\ Agree(qtask, qledger)
    BY DEF LocksInv
  <1>4. qtask' = Updated(qtask, c.sets) /\ qledger' = Marks(c, qledger)
    BY <1>1 DEF CommitCall, Marks
  <1>5. /\ qtask' \in TaskRows
        /\ qledger' \in Ledgers
        /\ Agree(qtask', qledger')
        /\ qtask.attempt <= qtask'.attempt
        /\ ~c.locks => qtask' = qtask
    BY <1>2, <1>3, <1>4, CommitAgrees
  <1>6. \A k \in Tokens : c.marks[k] = None => qledger'[k] = qledger[k]
    BY <1>3, <1>4, MarksFacts
  <1>7. qcall' = [r \in Connections |-> IF r = s THEN NoCall ELSE qcall[r]]
    BY DEF LocksInv, CommitCall, Moves
  <1>8. /\ qcall' = [r \in Connections |-> qcall'[r]]
        /\ qcall'[s] = NoCall
        /\ \A r \in Connections \ {s} : qcall'[r] = qcall[r]
    BY <1>7
  <1>9. ASSUME NEW r \in Connections
        PROVE  CallSound(qcall'[r], qtask', qledger')
    <2>1. CASE r = s
      BY <1>8, <2>1, NoCallSound
    <2>2. CASE r # s
      <3>1. PICK d \in CallRows : d = qcall[r]
        BY CallFacts
      <3>2. CallSound(d, qtask, qledger) /\ Apart(c, d)
        BY <1>2, <2>2, <3>1, CallFacts
      <3>3. /\ \A k \in Tokens : d.marks[k] # None => qledger'[k] = qledger[k]
            /\ d.locks => qtask'.status = qtask.status /\ qtask'.attempt = qtask.attempt
        BY <1>5, <1>6, <3>2 DEF Apart
      <3>4. CallSound(d, qtask', qledger')
        BY <1>3, <1>5, <3>2, <3>3, OthersSound
      <3> QED
        BY <1>8, <2>2, <3>1, <3>4
    <2> QED
      BY <2>1, <2>2
  <1>10. ASSUME NEW r \in Connections, NEW q \in Connections \ {r}
         PROVE  Apart(qcall'[r], qcall'[q])
    <2>1. CASE r = s
      BY <1>8, <2>1, NoCallSound
    <2>2. CASE q = s
      <3>1. Apart(NoCall, qcall[r])
        BY NoCallSound
      <3> QED
        BY <1>8, <2>2, <3>1 DEF Apart
    <2>3. CASE r # s /\ q # s
      BY <1>8, <2>3 DEF LocksInv
    <2> QED
      BY <2>1, <2>2, <2>3
  <1> QED
    BY <1>5, <1>8, <1>9, <1>10 DEF LocksInv

\* The lease passes.
LEMMA LeaseKeeps ==
    ASSUME LocksInv, LeasePasses
    PROVE  LocksInv'
  <1>1. /\ qtask' \in TaskRows
        /\ qtask'.status = qtask.status
        /\ qtask'.attempt = qtask.attempt
        /\ qtask'.result = qtask.result
        /\ qtask \in TaskRows
    BY DEF LocksInv, LeasePasses, TaskRows
  <1>2. qledger' = qledger /\ qcall' = qcall
    BY DEF LeasePasses
  <1>3. Agree(qtask', qledger')
    BY <1>1, <1>2 DEF LocksInv, Agree
  <1>4. qtask.attempt <= qtask'.attempt
    BY <1>1, LockFacts DEF TaskRows
  <1>5. ASSUME NEW s \in Connections
        PROVE  CallSound(qcall[s], qtask', qledger')
    <2>1. CallSound(qcall[s], qtask, qledger)
      BY CallFacts
    <2> QED
      BY <1>1, <1>2, <1>4, <2>1, OthersSound
  <1> QED
    BY <1>1, <1>2, <1>3, <1>5 DEF LocksInv

----------------------------------------------------------------------------
(* The theorems.                                                           *)

\* The invariant holds when the task has been submitted and nobody has called.
LEMMA LocksInitKeeps ==
    ASSUME LocksInit
    PROVE  LocksInv
  <1>1. qtask \in TaskRows
    BY LockFacts DEF LocksInit, TaskRows, Statuses
  <1>2. qledger \in Ledgers /\ \A k \in Tokens : qledger[k] = None
    BY DEF LocksInit, Ledgers
  <1>3. \A k \in Tokens : qledger[k] # "done"
    BY <1>2, LockFacts DEF LedgerStates
  <1>4. Agree(qtask, qledger)
    BY <1>3 DEF LocksInit, Agree
  <1>5. qcall = [s \in Connections |-> qcall[s]]
    BY DEF LocksInit
  <1>6. \A s \in Connections : qcall[s] = NoCall
    BY DEF LocksInit
  <1>7. \A s \in Connections : CallSound(qcall[s], qtask, qledger)
    BY <1>6, NoCallSound
  <1>8. \A s \in Connections : \A r \in Connections \ {s} : Apart(qcall[s], qcall[r])
    BY <1>6, NoCallSound
  <1> QED
    BY <1>1, <1>2, <1>4, <1>5, <1>7, <1>8 DEF LocksInv

\* Every statement, commit, abort and lapse keeps the invariant.
LEMMA LocksNextKeeps ==
    ASSUME LocksInv, [LocksNext]_lockVars
    PROVE  LocksInv'
  <1>1. ASSUME NEW s \in Connections, NEW kind \in {"peek", "claim", "cancel"},
               OpenCall(s, kind, 0)
        PROVE  LocksInv'
    BY <1>1, OpenKeeps
  <1>2. ASSUME NEW s \in Connections, NEW kind \in {"renew", "finish", "fail"},
               NEW k \in 1..qtask.attempt, OpenCall(s, kind, k)
        PROVE  LocksInv'
    <2>1. k \in Tokens /\ k \in Nat
      BY LockFacts DEF LocksInv, TaskRows
    <2> QED
      BY <1>2, <2>1, OpenKeeps
  <1>3. ASSUME NEW s \in Connections,
               \/ ReadLapsed(s) \/ ExpireAttempt(s) \/ ReadExhausted(s) \/ FailExhausted(s)
               \/ SelectTask(s) \/ CheckCall(s) \/ MarkAttempt(s) \/ CloseTask(s)
               \/ CommitCall(s) \/ AbortCall(s)
        PROVE  LocksInv'
    BY <1>3, ReadLapsedKeeps, ExpireKeeps, ReadExhaustedKeeps, FailExhaustedKeeps,
       SelectKeeps, CheckKeeps, MarkKeeps, CloseKeeps, CommitKeeps, AbortKeeps
  <1>4. CASE UNCHANGED lockVars
    BY <1>4 DEF lockVars, LocksInv
  <1> QED
    BY <1>1, <1>2, <1>3, <1>4, LeaseKeeps DEF LocksNext

\* Whatever the transactions that overlap, what each is about to write is right for
\* the row and the ledger as they are committed.
THEOREM LocksInvariant == LocksSpec => []LocksInv
  <1>1. LocksInit => LocksInv
    BY LocksInitKeeps
  <1>2. LocksInv /\ [LocksNext]_lockVars => LocksInv'
    BY LocksNextKeeps
  <1> QED
    BY <1>1, <1>2, PTL DEF LocksSpec

\* After every commit the row of the task and the ledger of its attempts agree, for
\* any number of overlapping calls, broken connections and deadlock victims.
THEOREM RecordKept == LocksSpec => []ResultsOnRecord
  <1>1. LocksInv => ResultsOnRecord
    BY DEF LocksInv, Agree, ResultsOnRecord
  <1> QED
    BY <1>1, LocksInvariant, PTL

----------------------------------------------------------------------------
(* The outcome of the task.  TaskOutcome starts before the task exists;     *)
(* here it has been submitted, so that the steps are what is to be shown.   *)

PhaseOf(row) ==
    CASE Live(row) -> "pending"
      [] row.status = "done" -> "committed"
      [] OTHER -> "closed"

LockedTask == INSTANCE TaskOutcome WITH
    Tasks <- {"task"}, Parent <- [t \in {"task"} |-> None], MaxGrants <- LockAttempts,
    phase <- [t \in {"task"} |-> PhaseOf(qtask)],
    grants <- [t \in {"task"} |-> qtask.attempt],
    winner <- [t \in {"task"} |-> IF qtask.status = "done" THEN qtask.result ELSE None]

\* The steps of the task are those of a task of TaskOutcome.
LockedOutcome == [][LockedTask!Next]_LockedTask!vars

\* What a commit makes of the task: its outcome stays, or it is granted, committed or
\* closed as TaskOutcome says.
RowMoves(row, next) ==
    \/ /\ PhaseOf(next) = PhaseOf(row) /\ next.attempt = row.attempt
       /\ next.status = "done" => row.status = "done" /\ next.result = row.result
    \/ /\ Live(row) /\ Live(next)
       /\ row.attempt < LockAttempts /\ next.attempt = row.attempt + 1
    \/ /\ Live(row) /\ row.attempt > 0
       /\ next.status = "done" /\ next.attempt = row.attempt /\ next.result = row.attempt
    \/ /\ Live(row) /\ PhaseOf(next) = "closed" /\ next.attempt = row.attempt

\* Every move of the row is a step of TaskOutcome.
LEMMA MovesOutcome ==
    ASSUME qtask \in TaskRows, qtask' \in TaskRows, RowMoves(qtask, qtask')
    PROVE  [LockedTask!Next]_LockedTask!vars
  <1> DEFINE Was == PhaseOf(qtask)
             Is == PhaseOf(qtask')
             WinnerWas == IF qtask.status = "done" THEN qtask.result ELSE None
             WinnerIs == IF qtask'.status = "done" THEN qtask'.result ELSE None
  <1>1. \A row : /\ Live(row) <=> PhaseOf(row) = "pending"
                 /\ row.status = "done" <=> PhaseOf(row) = "committed"
    BY DEF PhaseOf, Live
  <1>2. qtask.attempt \in Nat /\ qtask'.attempt \in Nat
    BY LockFacts DEF TaskRows
  <1>3. CASE /\ Is = Was /\ qtask'.attempt = qtask.attempt
             /\ qtask'.status = "done" => qtask.status = "done" /\ qtask'.result = qtask.result
    <2>1. WinnerIs = WinnerWas
      BY <1>1, <1>3
    <2> QED
      BY <1>3, <2>1 DEF LockedTask!vars
  <1>4. CASE /\ Live(qtask) /\ Live(qtask')
             /\ qtask.attempt < LockAttempts /\ qtask'.attempt = qtask.attempt + 1
    <2>1. Was = "pending" /\ Is = "pending" /\ WinnerWas = None /\ WinnerIs = None
      BY <1>1, <1>4
    <2>2. LockedTask!Grant("task", {})
      BY <1>2, <1>4, <2>1 DEF LockedTask!Grant, LockedTask!Moved
    <2> QED
      BY <2>2 DEF LockedTask!Next
  <1>5. CASE /\ Live(qtask) /\ qtask.attempt > 0
             /\ qtask'.status = "done" /\ qtask'.attempt = qtask.attempt
             /\ qtask'.result = qtask.attempt
    <2>1. Was = "pending" /\ Is = "committed" /\ WinnerIs = qtask.attempt
      BY <1>1, <1>5
    <2>2. LockedTask!Commit("task")
      BY <1>2, <1>5, <2>1 DEF LockedTask!Commit
    <2> QED
      BY <2>2 DEF LockedTask!Next
  <1>6. CASE Live(qtask) /\ Is = "closed" /\ qtask'.attempt = qtask.attempt
    <2>1. Was = "pending" /\ WinnerWas = None /\ WinnerIs = None
      BY <1>1, <1>6
    <2>2. LockedTask!Close({"task"})
      BY <1>6, <2>1 DEF LockedTask!Close, LockedTask!Moved
    <2> QED
      BY <2>2 DEF LockedTask!Next
  <1> QED
    BY <1>3, <1>4, <1>5, <1>6 DEF RowMoves

\* A commit moves the row.
LEMMA CommitMoves ==
    ASSUME LocksInv, NEW s \in Connections, CommitCall(s)
    PROVE  RowMoves(qtask, qtask')
  <1>1. PICK c \in CallRows : c = qcall[s]
    BY CallFacts
  <1>2. WriteSound(c, qtask) /\ c.at = "commit"
    BY <1>1, CallFacts DEF CommitCall, Call, CallSound
  <1>3. PICK row \in TaskRows : row = qtask
    BY DEF LocksInv
  <1>4. qtask' = Updated(row, c.sets)
    BY <1>1, <1>3 DEF CommitCall
  <1>5. row.attempt \in Nat /\ (row.status = "running" => row.attempt > 0)
    BY <1>3, LockFacts DEF LocksInv, Agree, TaskRows
  <1>6. CASE ~c.locks
    <2>1. qtask' = qtask
      BY <1>2, <1>3, <1>4, <1>6, UntouchedRow DEF WriteSound
    <2> QED
      BY <2>1 DEF RowMoves
  <1>7. CASE c.locks /\ Granting(c, row)
    <2>1. PICK next \in Tokens : next = row.attempt + 1
      BY <1>5, <1>7, LockFacts DEF Granting
    <2>2. qtask'.status = "running" /\ qtask'.attempt = next
      <3>1. c.sets = GrantSets(next)
        BY <1>7, <2>1 DEF Granting
      <3>2. /\ Updated(row, GrantSets(next)).status = "running"
            /\ Updated(row, GrantSets(next)).attempt = next
        BY GrantedRow
      <3> QED
        BY <1>4, <3>1, <3>2
    <2> QED
      BY <1>3, <1>7, <2>1, <2>2 DEF RowMoves, Granting, Live
  <1>8. CASE c.locks /\ Renewing(c, row)
    <2>1. /\ qtask'.status = row.status /\ qtask'.attempt = row.attempt
          /\ qtask'.result = row.result
      BY <1>4, <1>8, RenewedRow DEF Renewing
    <2> QED
      BY <1>3, <2>1 DEF RowMoves, PhaseOf, Live
  <1>9. CASE c.locks /\ Finishing(c, row)
    <2>1. c.k \in Tokens /\ c.k = row.attempt
      BY <1>3, <1>5, <1>9, LockFacts DEF Finishing, TaskRows
    <2>2. qtask'.status = "done" /\ qtask'.attempt = row.attempt /\ qtask'.result = row.attempt
      <3>1. PICK k \in Tokens : k = c.k
        BY <2>1
      <3>2. c.sets = FinishSets(k)
        BY <1>9, <3>1 DEF Finishing
      <3> QED
        BY <1>4, <2>1, <3>1, <3>2, FinishedRow
    <2> QED
      BY <1>3, <1>5, <1>9, <2>2 DEF RowMoves, Finishing, Live
  <1>10. CASE c.locks /\ (Failing(c, row) \/ Ending(c, row))
    <2>1. PICK status \in {"failed", "queued", "cancelled"} : c.sets = StatusSets(status)
      BY <1>10 DEF Failing, Ending
    <2>2. qtask'.status = status /\ qtask'.attempt = row.attempt
      BY <1>4, <2>1, StatusRow DEF Statuses
    <2>3. Live(row)
      BY <1>10 DEF Failing, Ending, Live
    <2> QED
      BY <1>3, <2>2, <2>3 DEF RowMoves, PhaseOf, Live
  <1> QED
    BY <1>2, <1>3, <1>6, <1>7, <1>8, <1>9, <1>10 DEF WriteSound

\* However the statements of its calls interleave, a task is decided as TaskOutcome says:
\* once, by its last grant, within its attempts.
THEOREM LocksKeepOutcome == LocksSpec => LockedOutcome
  <1>1. ASSUME LocksInv, LocksInv', [LocksNext]_lockVars
        PROVE  [LockedTask!Next]_LockedTask!vars
    <2>1. qtask \in TaskRows /\ qtask' \in TaskRows
      BY <1>1 DEF LocksInv
    <2>2. CASE qtask' = qtask
      BY <2>1, <2>2, MovesOutcome DEF RowMoves
    <2>3. ASSUME NEW s \in Connections, CommitCall(s)
          PROVE  [LockedTask!Next]_LockedTask!vars
      BY <1>1, <2>1, <2>3, CommitMoves, MovesOutcome
    <2>4. CASE LeasePasses
      <3>1. /\ qtask'.status = qtask.status /\ qtask'.attempt = qtask.attempt
            /\ qtask'.result = qtask.result
        BY <2>1, <2>4 DEF LeasePasses, TaskRows
      <3> QED
        BY <2>1, <3>1, MovesOutcome DEF RowMoves, PhaseOf, Live
    <2> QED
      BY <1>1, <2>2, <2>3, <2>4
         DEF LocksNext, lockVars, OpenCall, ReadLapsed, ExpireAttempt, ReadExhausted,
             FailExhausted, SelectTask, CheckCall, MarkAttempt, CloseTask, AbortCall
  <1> QED
    BY <1>1, LocksInvariant, PTL DEF LocksSpec, LockedOutcome

----------------------------------------------------------------------------
(* The slots of one worker.  A claim that has passed the busy check holds   *)
(* the worker's row, so that no other claim grants a task before it ends;   *)
(* what may begin to compute meanwhile is a renewal's, which is on record.  *)

ClaimRows ==
    [at: {"idle", "anywhere", "slot", "select", "commit"},
     slot: {TaskSlots[t] : t \in Held} \cup {None}, task: Held \cup {None}]

\* Is t one of the tasks that a claim for the slot looks at?
Looks(slot, t) == door = "node" \/ TaskSlots[t] = slot

\* What computes in the way of the claim c has come back by a late renewal.
SeesNone(c) == \A t \in Held : Computing(t) /\ Looks(c.slot, t) => t \in revived

ClaimSound(c) ==
    /\ c.at \in {"select", "commit"} \/ (c.at = "slot" /\ door = "node") => SeesNone(c)
    /\ c.at = "commit" => c.task \in Held /\ c.slot = TaskSlots[c.task]

SlotsInv ==
    /\ lease \in [Held -> [held: BOOLEAN, valid: BOOLEAN, computed: BOOLEAN]]
    /\ claiming \in [Daemons -> ClaimRows]
    /\ changing \in [Daemons ->
          {NoChange} \cup [kind: {"renew", "computed", "end"}, task: Held]]
    /\ \A d, e \in Daemons : d # e => claiming[d].at = "idle" \/ claiming[e].at = "idle"
    /\ \A d \in Daemons : ClaimSound(claiming[d])
    /\ SlotShared

\* One claim moves and nothing is committed.
LEMMA ClaimMoves ==
    ASSUME SlotsInv, NEW d \in Daemons, NEW c \in ClaimRows,
           claiming' = [claiming EXCEPT ![d] = c],
           UNCHANGED <<door, lease, changing, revived>>,
           \A e \in Daemons \ {d} : c.at = "idle" \/ claiming[e].at = "idle",
           ClaimSound(c)
    PROVE  SlotsInv'
  <1>1. claiming' \in [Daemons -> ClaimRows] /\ claiming'[d] = c
        /\ \A e \in Daemons \ {d} : claiming'[e] = claiming[e]
    BY DEF SlotsInv
  <1>2. \A e \in Daemons : ClaimSound(claiming'[e])
    BY <1>1 DEF SlotsInv
  <1>3. \A e \in Daemons : ClaimSound(claiming[e])'
    BY <1>2 DEF ClaimSound, SeesNone, Computing, Looks
  <1>4. SlotShared'
    BY DEF SlotsInv, SlotShared, Computing, Exclude
  <1> QED
    BY <1>1, <1>3, <1>4 DEF SlotsInv

\* Something is committed that makes no task compute which is not on record as revived.
LEMMA LeasesMove ==
    ASSUME SlotsInv, UNCHANGED door,
           lease' \in [Held -> [held: BOOLEAN, valid: BOOLEAN, computed: BOOLEAN]],
           \A t \in Held : Computing(t)' /\ t \notin revived' => Computing(t) /\ t \notin revived,
           claiming' \in [Daemons -> ClaimRows],
           \A d \in Daemons : claiming'[d] \in {claiming[d], NoClaim},
           changing' \in [Daemons ->
               {NoChange} \cup [kind: {"renew", "computed", "end"}, task: Held]]
    PROVE  SlotsInv'
  <1>1. ASSUME NEW d \in Daemons
        PROVE  ClaimSound(claiming[d])'
    <2>1. CASE claiming'[d] = claiming[d]
      BY <2>1 DEF SlotsInv, ClaimSound, SeesNone, Looks
    <2>2. CASE claiming'[d] = NoClaim
      BY <2>2 DEF ClaimSound, NoClaim
    <2> QED
      BY <2>1, <2>2
  <1>2. SlotShared'
    BY DEF SlotsInv, SlotShared, Exclude
  <1>3. \A d, e \in Daemons : d # e => claiming'[d].at = "idle" \/ claiming'[e].at = "idle"
    BY DEF SlotsInv, NoClaim
  <1> QED
    BY <1>1, <1>2, <1>3 DEF SlotsInv

LEMMA NoClaimFacts == NoClaim \in ClaimRows /\ NoClaim.at = "idle" /\ ClaimSound(NoClaim)
  BY DEF NoClaim, ClaimRows, ClaimSound

\* A claim, up to its commit.
LEMMA ClaimKeeps ==
    ASSUME SlotsInv, NEW d \in Daemons,
           \/ \E t \in Held : BeginClaim(d, TaskSlots[t])
           \/ BusyAnywhere(d) \/ BusyInSlot(d) \/ SelectDue(d)
    PROVE  SlotsInv'
  <1> DEFINE c == claiming[d]
  <1>1. c \in ClaimRows /\ ClaimSound(c)
        /\ \A e \in Daemons \ {d} : c.at = "idle" \/ claiming[e].at = "idle"
    BY DEF SlotsInv
  <1>2. ASSUME NEW t \in Held, BeginClaim(d, TaskSlots[t])
        PROVE  SlotsInv'
    <2> DEFINE n == [at |-> IF door = "node" THEN "anywhere" ELSE "slot",
                     slot |-> TaskSlots[t], task |-> None]
    <2>1. n \in ClaimRows /\ ClaimSound(n)
      BY DEF ClaimRows, ClaimSound
    <2>2. claiming' = [claiming EXCEPT ![d] = n]
          /\ UNCHANGED <<door, lease, changing, revived>>
          /\ \A e \in Daemons : claiming[e].at = "idle"
      BY <1>2 DEF BeginClaim, WorkerFree
    <2>3. \A e \in Daemons \ {d} : n.at = "idle" \/ claiming[e].at = "idle"
      BY <2>2
    <2> HIDE DEF n
    <2> QED
      BY <2>1, <2>2, <2>3, ClaimMoves
  <1>3. CASE BusyAnywhere(d)
    <2> DEFINE n == [c EXCEPT !.at = "slot"]
    <2>1. n \in ClaimRows /\ n.at = "slot" /\ n.slot = c.slot
      BY <1>1 DEF ClaimRows
    <2>2. (\A t \in Held : ~Computing(t)) => ClaimSound(n)
      BY <2>1 DEF ClaimSound, SeesNone
    <2>3. claiming' = [claiming EXCEPT ![d] = IF \E t \in Held : Computing(t) THEN NoClaim ELSE n]
          /\ UNCHANGED <<door, lease, changing, revived>> /\ c.at = "anywhere"
      BY <1>3 DEF BusyAnywhere
    <2>4. CASE \E t \in Held : Computing(t)
      BY <2>3, <2>4, NoClaimFacts, ClaimMoves
    <2>5. CASE \A t \in Held : ~Computing(t)
      <3>1. claiming' = [claiming EXCEPT ![d] = n]
        BY <2>3, <2>5
      <3>2. \A e \in Daemons \ {d} : n.at = "idle" \/ claiming[e].at = "idle"
        BY <1>1, <2>3
      <3>3. ClaimSound(n)
        BY <2>2, <2>5
      <3> HIDE DEF n
      <3> QED
        BY <2>1, <2>3, <3>1, <3>2, <3>3, ClaimMoves
    <2> QED
      BY <2>4, <2>5
  <1>4. CASE BusyInSlot(d)
    <2> DEFINE n == [c EXCEPT !.at = "select"]
               Busy == \E t \in Held : Computing(t) /\ TaskSlots[t] = c.slot
    <2>1. n \in ClaimRows /\ n.at = "select" /\ n.slot = c.slot
      BY <1>1 DEF ClaimRows
    <2>2. claiming' = [claiming EXCEPT ![d] = IF Busy THEN NoClaim ELSE n]
          /\ UNCHANGED <<door, lease, changing, revived>> /\ c.at = "slot"
      BY <1>4 DEF BusyInSlot
    <2>3. ~Busy => SeesNone(n)
      BY <1>1, <2>1, <2>2 DEF ClaimSound, SeesNone, Looks
    <2>4. ~Busy => ClaimSound(n)
      BY <2>1, <2>3 DEF ClaimSound
    <2>5. CASE Busy
      BY <2>2, <2>5, NoClaimFacts, ClaimMoves
    <2>6. CASE ~Busy
      <3>1. claiming' = [claiming EXCEPT ![d] = n]
        BY <2>2, <2>6
      <3> HIDE DEF n, Busy
      <3> QED
        BY <1>1, <2>1, <2>2, <2>4, <2>6, <3>1, ClaimMoves
    <2> QED
      BY <2>5, <2>6
  <1>5. CASE SelectDue(d)
    <2>1. UNCHANGED <<door, lease, changing, revived>> /\ c.at = "select"
      BY <1>5 DEF SelectDue
    <2>2. ASSUME NEW t \in Held, TaskSlots[t] = c.slot,
                 claiming' = [claiming EXCEPT ![d].at = "commit", ![d].task = t]
          PROVE  SlotsInv'
      <3> DEFINE n == [c EXCEPT !.at = "commit", !.task = t]
      <3>1. n \in ClaimRows /\ n.at = "commit" /\ n.slot = c.slot /\ n.task = t
        BY <1>1 DEF ClaimRows
      <3>2. ClaimSound(n)
        BY <1>1, <2>1, <2>2, <3>1 DEF ClaimSound, SeesNone
      <3>3. claiming' = [claiming EXCEPT ![d] = n]
        BY <2>2 DEF SlotsInv, ClaimRows
      <3> HIDE DEF n
      <3> QED
        BY <1>1, <2>1, <3>1, <3>2, <3>3, ClaimMoves
    <2> QED
      BY <1>5, <2>1, <2>2, NoClaimFacts, ClaimMoves DEF SelectDue
  <1> QED
    BY <1>2, <1>3, <1>4, <1>5

\* The task that a claim grants is the only one that it makes compute.
LEMMA CommitClaimKeeps ==
    ASSUME SlotsInv, NEW d \in Daemons, CommitClaim(d)
    PROVE  SlotsInv'
  <1> DEFINE t == claiming[d].task
  <1>1. t \in Held /\ claiming[d].slot = TaskSlots[t] /\ SeesNone(claiming[d])
    BY DEF SlotsInv, ClaimSound, CommitClaim
  <1>2. /\ lease' = [lease EXCEPT ![t] = Fresh] /\ revived' = revived \ {t}
        /\ claiming' = [claiming EXCEPT ![d] = NoClaim] /\ UNCHANGED <<door, changing>>
    BY DEF CommitClaim
  <1>3. lease' \in [Held -> [held: BOOLEAN, valid: BOOLEAN, computed: BOOLEAN]]
    BY <1>1, <1>2 DEF SlotsInv, Fresh
  <1>4. \A u \in Held \ {t} : lease'[u] = lease[u] /\ (u \in revived' <=> u \in revived)
    BY <1>1, <1>2 DEF SlotsInv
  <1>5. claiming' \in [Daemons -> ClaimRows]
        /\ \A e \in Daemons : claiming'[e].at = "idle"
    BY <1>2, NoClaimFacts DEF SlotsInv, CommitClaim
  <1>6. \A e \in Daemons : ClaimSound(claiming[e])'
    BY <1>5 DEF ClaimSound
  <1>7. SlotShared'
    <2>1. \A u, v \in Held \ {t} :
             Computing(u)' /\ Computing(v)' /\ Exclude(u, v)' => u \in revived' \/ v \in revived'
      BY <1>2, <1>4 DEF SlotsInv, SlotShared, Computing, Exclude
    <2>2. \A u \in Held \ {t} :
             Computing(u)' /\ (door = "node" \/ TaskSlots[u] = TaskSlots[t]) => u \in revived'
      BY <1>1, <1>4 DEF SeesNone, Looks, Computing
    <2> HIDE DEF t
    <2>3. ASSUME NEW u \in Held, NEW v \in Held,
                 Computing(u)', Computing(v)', Exclude(u, v)'
          PROVE  u \in revived' \/ v \in revived'
      BY <1>2, <2>1, <2>2, <2>3 DEF Exclude
    <2> QED
      BY <2>3 DEF SlotShared
  <1> QED
    BY <1>2, <1>3, <1>5, <1>6, <1>7 DEF SlotsInv

\* The other calls, and what happens to a lease meanwhile.
LEMMA ChangeKeeps ==
    ASSUME SlotsInv, NEW d \in Daemons, CommitChange(d)
    PROVE  SlotsInv'
  <1> DEFINE t == changing[d].task
             kind == changing[d].kind
             row == CASE kind = "renew" -> [lease[t] EXCEPT !.valid = TRUE]
                      [] kind = "computed" -> [lease[t] EXCEPT !.computed = TRUE]
                      [] OTHER -> NoLease
  <1>1. t \in Held /\ kind \in {"renew", "computed", "end"}
    BY DEF SlotsInv, CommitChange
  <1>2. /\ lease' = [lease EXCEPT ![t] = row]
        /\ revived' = CASE kind = "renew" /\ ~lease[t].valid -> revived \cup {t}
                        [] kind = "end" -> revived \ {t}
                        [] OTHER -> revived
        /\ changing' = [changing EXCEPT ![d] = NoChange]
        /\ UNCHANGED <<door, claiming>>
    BY DEF CommitChange
  <1>3. row \in [held: BOOLEAN, valid: BOOLEAN, computed: BOOLEAN]
    BY <1>1 DEF SlotsInv, NoLease
  <1>4. lease' \in [Held -> [held: BOOLEAN, valid: BOOLEAN, computed: BOOLEAN]]
        /\ lease'[t] = row /\ \A u \in Held \ {t} : lease'[u] = lease[u]
    BY <1>1, <1>2, <1>3 DEF SlotsInv
  <1>5. lease'[t].held /\ lease'[t].valid /\ ~lease'[t].computed /\ t \notin revived'
            => Computing(t) /\ t \notin revived
    <2>1. lease[t] \in [held: BOOLEAN, valid: BOOLEAN, computed: BOOLEAN]
      BY <1>1 DEF SlotsInv
    <2>2. CASE kind = "renew"
      <3>1. row = [lease[t] EXCEPT !.valid = TRUE]
        BY <2>2
      <3>2. row.held = lease[t].held /\ row.computed = lease[t].computed
        BY <2>1, <3>1
      <3>3. t \notin revived' => lease[t].valid /\ t \notin revived
        BY <1>2, <2>2
      <3> QED
        BY <1>4, <3>2, <3>3 DEF Computing
    <2>3. CASE kind = "computed"
      <3>1. row.computed
        BY <2>1, <2>3
      <3> QED
        BY <1>4, <3>1
    <2>4. CASE kind = "end"
      <3>1. ~row.held
        BY <2>4 DEF NoLease
      <3> QED
        BY <1>4, <3>1
    <2> QED
      BY <1>1, <2>2, <2>3, <2>4
  <1>6. \A u \in Held \ {t} : u \in revived' <=> u \in revived
    <2>1. revived' \in {revived \cup {t}, revived \ {t}, revived}
      BY <1>2
    <2> QED
      BY <2>1
  <1>7. \A u \in Held : Computing(u)' /\ u \notin revived' => Computing(u) /\ u \notin revived
    BY <1>4, <1>5, <1>6 DEF Computing
  <1>8. changing' \in [Daemons ->
            {NoChange} \cup [kind: {"renew", "computed", "end"}, task: Held]]
    BY <1>2 DEF SlotsInv
  <1> QED
    BY <1>2, <1>4, <1>7, <1>8, LeasesMove DEF SlotsInv

LEMMA SlotsInvKept ==
    ASSUME SlotsInv, [SlotsNext]_slotVars
    PROVE  SlotsInv'
  <1>1. ASSUME NEW d \in Daemons, NEW t \in Held, BeginClaim(d, TaskSlots[t])
        PROVE  SlotsInv'
    BY <1>1, ClaimKeeps
  <1>2. ASSUME NEW d \in Daemons, BusyAnywhere(d) \/ BusyInSlot(d) \/ SelectDue(d)
        PROVE  SlotsInv'
    BY <1>2, ClaimKeeps
  <1>3. ASSUME NEW d \in Daemons, CommitClaim(d)
        PROVE  SlotsInv'
    BY <1>3, CommitClaimKeeps
  <1>4. ASSUME NEW d \in Daemons, NEW kind \in {"renew", "computed", "end"}, NEW t \in Held,
               CheckHeld(d, kind, t)
        PROVE  SlotsInv'
    <2>1. changing' = [changing EXCEPT ![d] = [kind |-> kind, task |-> t]]
          /\ UNCHANGED <<door, lease, claiming, revived>>
      BY <1>4 DEF CheckHeld
    <2>2. changing' \in [Daemons ->
              {NoChange} \cup [kind: {"renew", "computed", "end"}, task: Held]]
      BY <2>1 DEF SlotsInv
    <2> QED
      BY <2>1, <2>2, LeasesMove DEF SlotsInv, Computing
  <1>5. ASSUME NEW d \in Daemons, CommitChange(d)
        PROVE  SlotsInv'
    BY <1>5, ChangeKeeps
  <1>6. ASSUME NEW d \in Daemons, BreakDaemon(d)
        PROVE  SlotsInv'
    <2>1. /\ claiming' = [claiming EXCEPT ![d] = NoClaim]
          /\ changing' = [changing EXCEPT ![d] = NoChange]
          /\ UNCHANGED <<door, lease, revived>>
      BY <1>6 DEF BreakDaemon
    <2>2. /\ claiming' \in [Daemons -> ClaimRows]
          /\ \A e \in Daemons : claiming'[e] \in {claiming[e], NoClaim}
          /\ changing' \in [Daemons ->
                {NoChange} \cup [kind: {"renew", "computed", "end"}, task: Held]]
      BY <2>1, NoClaimFacts DEF SlotsInv
    <2> QED
      BY <2>1, <2>2, LeasesMove DEF SlotsInv, Computing
  <1>7. ASSUME NEW t \in Held, SlotLeasePasses(t)
        PROVE  SlotsInv'
    <2>1. /\ lease' = [lease EXCEPT ![t].valid = FALSE]
          /\ UNCHANGED <<door, claiming, changing, revived>>
      BY <1>7 DEF SlotLeasePasses
    <2>2. lease' \in [Held -> [held: BOOLEAN, valid: BOOLEAN, computed: BOOLEAN]]
          /\ \A u \in Held : Computing(u)' => Computing(u)
      BY <2>1 DEF SlotsInv, Computing
    <2> QED
      BY <2>1, <2>2, LeasesMove DEF SlotsInv
  <1>8. ASSUME NEW t \in Held, LoseTask(t)
        PROVE  SlotsInv'
    <2>1. /\ lease' = [lease EXCEPT ![t] = NoLease] /\ revived' = revived \ {t}
          /\ UNCHANGED <<door, claiming, changing>>
      BY <1>8 DEF LoseTask
    <2>2. lease' \in [Held -> [held: BOOLEAN, valid: BOOLEAN, computed: BOOLEAN]]
          /\ \A u \in Held : Computing(u)' /\ u \notin revived' => Computing(u) /\ u \notin revived
      BY <2>1 DEF SlotsInv, Computing, NoLease
    <2> QED
      BY <2>1, <2>2, LeasesMove DEF SlotsInv
  <1>9. CASE UNCHANGED slotVars
    BY <1>9, LeasesMove DEF slotVars, SlotsInv, Computing
  <1> QED
    BY <1>1, <1>2, <1>3, <1>4, <1>5, <1>6, <1>7, <1>8, <1>9 DEF SlotsNext

\* Whatever calls a worker's daemons make at once, two of its tasks compute in one slot,
\* or two of a device in any, only after a renewal that committed too late.
THEOREM SlotsShared == SlotsSpec => []SlotShared
  <1>1. SlotsInit => SlotsInv
    BY NoClaimFacts
       DEF SlotsInit, SlotsInv, SlotShared, Computing, NoLease, ClaimSound, NoChange, NoClaim
  <1>2. SlotsInv /\ [SlotsNext]_slotVars => SlotsInv'
    BY SlotsInvKept
  <1>3. SlotsInv => SlotShared
    BY DEF SlotsInv
  <1> QED
    BY <1>1, <1>2, <1>3, PTL DEF SlotsSpec
=============================================================================
