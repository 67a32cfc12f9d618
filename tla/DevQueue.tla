------------------------------ MODULE DevQueue ------------------------------
(***************************************************************************)
(* The development queue of the control plane: Service.submit, claim and   *)
(* finish, and the artifact routes of the API.  Every call is one step: the *)
(* route of an upload reads the job before it writes the file, and that of *)
(* a finish checks the file before its transaction, but an attempt has one *)
(* content, so that neither write depends on what happened in between.     *)
(* A lease is followed by the ticks it has left: 0 is the very instant of  *)
(* lease_until, when a lease is neither active nor expired for a claim but *)
(* still good for a finish or a renewal; Lapsed is later.                  *)
(*                                                                         *)
(* Left out: owners, permissions and specifications of jobs, the desired   *)
(* profiles (a node claims what it is capable of) and the heartbeat's age, *)
(* which step() never lets grow.                                           *)
(***************************************************************************)
EXTENDS ModelStore, FiniteSets

CONSTANTS
    Jobs,           \* requests, by (owner, idempotency_key)
    Nodes,
    Wanted,         \* releases a request may pin, by content
    Lease,          \* ticks of a lease (120 s)
    MaxAttempts,    \* 3
    MaxUnfinished   \* 50

VARIABLES
    job,            \* jobs
    file            \* root/<job>/<attempt>/asset.*: content by job and attempt

queueVars == <<job, file>>

Contents == {r.content : r \in Releases}
Lapsed == Lease + 1          \* stands for every instant after lease_until
Attempts == 1..MaxAttempts

ASSUME QueueAssumption ==
    /\ Lease \in Nat /\ MaxAttempts \in Nat
    /\ Wanted \subseteq Contents
    /\ None \notin Jobs /\ None \notin Attempts /\ None \notin Contents

JobRow == [state : {"absent", "queued", "running", "done", "failed", "cancelled"},
           wants : Wanted \cup {None}, node : Nodes \cup {None},
           attempts : 0..MaxAttempts, left : 0..Lapsed, output : Contents \cup {None}]

QueueInit ==
    /\ job = [j \in Jobs |-> [state |-> "absent", wants |-> None, node |-> None,
                              attempts |-> 0, left |-> Lapsed, output |-> None]]
    /\ file = [j \in Jobs |-> [k \in Attempts |-> None]]

Unfinished == {j \in Jobs : job[j].state \in {"queued", "running"}}
Running(j) == job[j].state = "running"
Active(j) == Running(j) /\ job[j].left \in 1..Lease
Expired(j) == Running(j) /\ job[j].left = Lapsed

\* A repeated request answers with the prior row: no change.
Submit(j, content) ==
    /\ job[j].state = "absent"
    /\ Cardinality(Unfinished) < MaxUnfinished
    /\ job' = [job EXCEPT ![j].state = "queued", ![j].wants = content]
    /\ UNCHANGED file

Cancel(j) ==
    /\ j \in Unfinished
    /\ job' = [job EXCEPT ![j].state = "cancelled"]
    /\ UNCHANGED file

Claimable(j, contents) ==
    /\ job[j].wants \in contents
    /\ job[j].attempts < MaxAttempts
    /\ job[j].state = "queued" \/ Expired(j)

Occupied(n) == \E j \in Jobs : job[j].node = n /\ Active(j)

\* The oldest compatible job, of the first capability that has one: any, here.
ClaimJob(n, j, contents) ==
    /\ ~Occupied(n)
    /\ Claimable(j, contents)
    /\ job' = [job EXCEPT ![j].state = "running", ![j].node = n,
                          ![j].attempts = @ + 1, ![j].left = Lease]
    /\ UNCHANGED file

\* No job for the node: the cleanup of attempts that came to nothing.
ClaimNothing(n, contents) ==
    /\ ~Occupied(n)
    /\ \A j \in Jobs : ~Claimable(j, contents)
    /\ job' = [j \in Jobs |-> IF Expired(j) /\ job[j].attempts >= MaxAttempts
                              THEN [job[j] EXCEPT !.state = "failed"] ELSE job[j]]
    /\ UNCHANGED file

Owns(n, j, k) == job[j].node = n /\ job[j].attempts = k

MayFinish(n, j, k) == Owns(n, j, k) /\ Running(j) /\ job[j].left <= Lease

Renew(n, j, k) ==
    /\ MayFinish(n, j, k)
    /\ job' = [job EXCEPT ![j].left = Lease]
    /\ UNCHANGED file

MayUpload(n, j, k) == MayFinish(n, j, k)
Upload(n, j, k, content) ==
    /\ MayUpload(n, j, k)
    /\ file' = [file EXCEPT ![j][k] = content]
    /\ UNCHANGED job

\* Mutant: a repeated finish is stale.
NeverReplayed(n, j, k, content) == FALSE

Replayed(n, j, k, content) ==
    Owns(n, j, k) /\ job[j].state = "done" /\ job[j].output = content

\* Mutant: the manifest is believed.
FinishUnchecked(n, j, k, content) ==
    /\ MayFinish(n, j, k)
    /\ job' = [job EXCEPT ![j].state = "done", ![j].output = content]
    /\ UNCHANGED file

\* The manifest is checked against the stored bytes before the transaction.
Finish(n, j, k, content) ==
    /\ file[j][k] = content
    /\ MayFinish(n, j, k)
    /\ job' = [job EXCEPT ![j].state = "done", ![j].output = content]
    /\ UNCHANGED file

\* Mutant: an error only has to come from the attempt of the row.
FinishErrorLate(n, j, k) ==
    /\ Owns(n, j, k)
    /\ job' = [job EXCEPT ![j].state = "failed"]
    /\ UNCHANGED file

FinishError(n, j, k) ==
    /\ MayFinish(n, j, k)
    /\ job' = [job EXCEPT ![j].state = "failed"]
    /\ UNCHANGED file

\* Time goes on for every lease at once.
Tick ==
    /\ \E j \in Jobs : Running(j) /\ ~Expired(j)
    /\ job' = [j \in Jobs |-> IF ~Running(j) \/ Expired(j) THEN job[j]
                              ELSE [job[j] EXCEPT !.left = IF @ = 0 THEN Lapsed ELSE @ - 1]]
    /\ UNCHANGED file

----------------------------------------------------------------------------
(* Properties.                                                             *)

\* A finished job can be downloaded: the file of the attempt that finished it
\* holds the very content its output names, through retries of the upload,
\* takeovers and finishes that arrive late.
ArtifactServed ==
    \A j \in Jobs : job[j].state = "done" =>
        job[j].output # None /\ file[j][job[j].attempts] = job[j].output

\* A job that is done, failed or cancelled never changes again, whatever a late
\* call of an earlier attempt, a claim or a cancellation finds.
FinalIsFinal ==
    [][\A j \in Jobs : job[j].state \in {"done", "failed", "cancelled"} =>
          job'[j] = job[j]]_queueVars
=============================================================================
