---------------------------- MODULE TaskOutcome ----------------------------
(***************************************************************************)
(* What the queue promises about the outcome of its tasks, without leases, *)
(* workers, clocks or jobs: execution is at-least-once (a task may be      *)
(* granted several times), the result is decided at most once, it is the   *)
(* result of the last grant, and a task is only granted when the task it   *)
(* depends on has committed.                                               *)
(***************************************************************************)
EXTENDS Naturals

CONSTANTS Tasks, Parent, MaxGrants, None

VARIABLES phase, grants, winner

vars == <<phase, grants, winner>>

Init ==
    /\ phase = [t \in Tasks |-> "absent"]
    /\ grants = [t \in Tasks |-> 0]
    /\ winner = [t \in Tasks |-> None]

Moved(S, from, to) == [t \in Tasks |-> IF t \in S /\ phase[t] = from THEN to
                                       ELSE phase[t]]

\* A plan appears as a whole.
Create(S) ==
    /\ phase' = Moved(S, "absent", "pending")
    /\ UNCHANGED <<grants, winner>>

\* Tasks are given up: cancelled, out of attempts, or without a parent result.
Close(S) ==
    /\ phase' = Moved(S, "pending", "closed")
    /\ UNCHANGED <<grants, winner>>

\* One task is handed out; tasks that were found dead on the way are closed.
Grant(t, S) ==
    /\ phase[t] = "pending"
    /\ t \notin S
    /\ Parent[t] # None => phase[Parent[t]] = "committed"
    /\ grants[t] < MaxGrants
    /\ grants' = [grants EXCEPT ![t] = @ + 1]
    /\ phase' = Moved(S, "pending", "closed")
    /\ UNCHANGED winner

Commit(t) ==
    /\ phase[t] = "pending"
    /\ grants[t] > 0
    /\ phase' = [phase EXCEPT ![t] = "committed"]
    /\ winner' = [winner EXCEPT ![t] = grants[t]]
    /\ UNCHANGED grants

Next ==
    \/ \E S \in SUBSET Tasks : Create(S) \/ Close(S) \/ \E t \in Tasks : Grant(t, S)
    \/ \E t \in Tasks : Commit(t)

Spec == Init /\ [][Next]_vars
============================================================================
