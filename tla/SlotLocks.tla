----------------------------- MODULE SlotLocks -----------------------------
(***************************************************************************)
(* The slots of one worker statement by statement, over several tasks: what *)
(* QueueLocks leaves out.  An accidentally started second daemon of the     *)
(* worker calls beside the first, so its claims wait for each other on the  *)
(* worker's row, and the busy check that follows reads the committed tasks  *)
(* without a lock.  Every call is a transaction, READ COMMITTED, as there.  *)
(*                                                                         *)
(* A task that the worker does not hold stands for any task of its slot     *)
(* that is due: queued, or running elsewhere with a lease that has passed.  *)
(***************************************************************************)
EXTENDS Absent, Naturals

CONSTANTS
    TaskSlots,         \* the slot of each task
    Daemons         \* connections of the worker that call at the same time

VARIABLES
    door,           \* "node": control_rpc; "member": queue_dispatch alone
    lease,          \* committed: does the worker hold the task, is lease_until ahead,
                    \* is compute_done set
    claiming,       \* the claims: statement, requested slot, task that is locked
    changing,       \* renew, computed, finish and fail between their check and commit
    revived         \* history: leases that had passed when their renewal committed

slotVars == <<door, lease, claiming, changing, revived>>

Held == DOMAIN TaskSlots
NoLease == [held |-> FALSE, valid |-> FALSE, computed |-> FALSE]
Fresh == [held |-> TRUE, valid |-> TRUE, computed |-> FALSE]
NoClaim == [at |-> "idle", slot |-> None, task |-> None]
NoChange == [kind |-> None, task |-> None]

SlotsInit ==
    /\ door \in {"member", "node"}
    /\ lease = [t \in Held |-> NoLease]
    /\ claiming = [d \in Daemons |-> NoClaim]
    /\ changing = [d \in Daemons |-> NoChange]
    /\ revived = {}

Resting(d) == claiming[d] = NoClaim /\ changing[d] = NoChange
Computing(t) == lease[t].held /\ lease[t].valid /\ ~lease[t].computed

\* Nobody has locked the worker's row, or the row of the task.
WorkerFree == \A d \in Daemons : claiming[d].at = "idle"
RowFree(t) == \A d \in Daemons : claiming[d].task # t /\ changing[d].task # t

----------------------------------------------------------------------------
(* A claim.                                                                *)

\* Mutant: the claim does not wait for the worker's row.
BeginClaimUnlocked(d, slot) ==
    /\ Resting(d)
    /\ claiming' = [claiming EXCEPT ![d] =
          [at |-> IF door = "node" THEN "anywhere" ELSE "slot", slot |-> slot, task |-> None]]
    /\ UNCHANGED <<door, lease, changing, revived>>

\* The worker's row is locked until the call commits.
BeginClaim(d, slot) ==
    /\ Resting(d) /\ WorkerFree
    /\ claiming' = [claiming EXCEPT ![d] =
          [at |-> IF door = "node" THEN "anywhere" ELSE "slot", slot |-> slot, task |-> None]]
    /\ UNCHANGED <<door, lease, changing, revived>>

\* A node computes one task across both slots.
BusyAnywhere(d) ==
    /\ claiming[d].at = "anywhere"
    /\ claiming' = [claiming EXCEPT ![d] =
          IF \E t \in Held : Computing(t) THEN NoClaim ELSE [@ EXCEPT !.at = "slot"]]
    /\ UNCHANGED <<door, lease, changing, revived>>

BusyInSlot(d) ==
    /\ claiming[d].at = "slot"
    /\ claiming' = [claiming EXCEPT ![d] =
          IF \E t \in Held : Computing(t) /\ TaskSlots[t] = claiming[d].slot THEN NoClaim
          ELSE [@ EXCEPT !.at = "select"]]
    /\ UNCHANGED <<door, lease, changing, revived>>

\* SKIP LOCKED; there may be nothing that is due.
SelectDue(d) ==
    /\ claiming[d].at = "select"
    /\ \/ \E t \in Held :
            /\ TaskSlots[t] = claiming[d].slot
            /\ RowFree(t) /\ ~(lease[t].held /\ lease[t].valid)
            /\ claiming' = [claiming EXCEPT ![d].at = "commit", ![d].task = t]
       \/ claiming' = [claiming EXCEPT ![d] = NoClaim]
    /\ UNCHANGED <<door, lease, changing, revived>>

CommitClaim(d) ==
    LET t == claiming[d].task
    IN  /\ claiming[d].at = "commit"
        /\ lease' = [lease EXCEPT ![t] = Fresh]
        /\ revived' = revived \ {t}
        /\ claiming' = [claiming EXCEPT ![d] = NoClaim]
        /\ UNCHANGED <<door, changing>>

----------------------------------------------------------------------------
(* Calls about a held task.                                                *)

\* SELECT ... FOR UPDATE and the guard; a call that is refused changes nothing.
CheckHeld(d, kind, t) ==
    /\ Resting(d) /\ RowFree(t)
    /\ lease[t].held /\ lease[t].valid
    /\ changing' = [changing EXCEPT ![d] = [kind |-> kind, task |-> t]]
    /\ UNCHANGED <<door, lease, claiming, revived>>

\* The guard was for the lease as it stood then.
CommitChange(d) ==
    LET t == changing[d].task
        kind == changing[d].kind
    IN  /\ changing[d] # NoChange
        /\ lease' = [lease EXCEPT ![t] =
              CASE kind = "renew" -> [@ EXCEPT !.valid = TRUE]
                [] kind = "computed" -> [@ EXCEPT !.computed = TRUE]
                [] OTHER -> NoLease]
        /\ revived' = CASE kind = "renew" /\ ~lease[t].valid -> revived \cup {t}
                        [] kind = "end" -> revived \ {t}
                        [] OTHER -> revived
        /\ changing' = [changing EXCEPT ![d] = NoChange]
        /\ UNCHANGED <<door, claiming>>

\* A broken connection: nothing of the call is committed.
BreakDaemon(d) ==
    /\ ~Resting(d)
    /\ claiming' = [claiming EXCEPT ![d] = NoClaim]
    /\ changing' = [changing EXCEPT ![d] = NoChange]
    /\ UNCHANGED <<door, lease, revived>>

SlotLeasePasses(t) ==
    /\ lease[t].held /\ lease[t].valid
    /\ lease' = [lease EXCEPT ![t].valid = FALSE]
    /\ UNCHANGED <<door, claiming, changing, revived>>

\* Another worker claims the task once its lease has passed, or the job is cancelled.
LoseTask(t) ==
    /\ lease[t].held /\ RowFree(t)
    /\ lease' = [lease EXCEPT ![t] = NoLease]
    /\ revived' = revived \ {t}
    /\ UNCHANGED <<door, claiming, changing>>

SlotsNext ==
    \/ \E d \in Daemons :
          \/ \E t \in Held : BeginClaim(d, TaskSlots[t])
          \/ BusyAnywhere(d) \/ BusyInSlot(d) \/ SelectDue(d) \/ CommitClaim(d)
          \/ \E kind \in {"renew", "computed", "end"}, t \in Held : CheckHeld(d, kind, t)
          \/ CommitChange(d) \/ BreakDaemon(d)
    \/ \E t \in Held : SlotLeasePasses(t) \/ LoseTask(t)

SlotsSpec == SlotsInit /\ [][SlotsNext]_slotVars

----------------------------------------------------------------------------
(* Property.                                                               *)

\* May the worker not compute the two at once?
Exclude(t, u) == t # u /\ (door = "node" \/ TaskSlots[t] = TaskSlots[u])

\* However the calls of duplicate daemons interleave, a worker computes two tasks of
\* one slot, or a device any two, under live leases only if one of the leases had
\* passed when its renewal committed: the busy check of a claim does not see a renewal
\* that was in time when it was checked and is not committed yet.
SlotShared ==
    \A t, u \in Held :
        Computing(t) /\ Computing(u) /\ Exclude(t, u) => t \in revived \/ u \in revived
=============================================================================
