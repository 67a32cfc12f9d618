------------------------------ MODULE DevFarm ------------------------------
(***************************************************************************)
(* The agent of a node: Agent.reconcile, step, flush and run, its outbox   *)
(* and its renewal thread, with the model store of the node and the        *)
(* development queue.  The other nodes are any client the queue allows.    *)
(* A call is answered, or the agent gives it up as offline (or dies) and   *)
(* it is executed later, or never.                                         *)
(*                                                                         *)
(* Left out: the node's status, and the admission of memory and battery,   *)
(* which only makes a claim find less.                                     *)
(***************************************************************************)
EXTENDS DevQueue

CONSTANTS
    Self,        \* the node of the agent
    MaxFaults    \* bound: calls given up and deaths of the agent

ASSUME FarmAssumption == Self \in Nodes /\ MaxFaults \in Nat

VARIABLES
    agent,       \* the agent: where it is, and the attempt it is at
    outbox,      \* pending.json, committed.json and stale.json by job and attempt
    wire,        \* calls given up that the server may still execute
    faults

agentVars == <<agent, outbox, wire, faults>>
farmVars == <<storeVars, queueVars, agentVars>>

Rivals == Nodes \ {Self}
At == {"down", "top", "checking", "flush", "beat", "claim", "lock", "compute", "deliver"}
AgentRow == [at : At, job : Jobs \cup {None}, attempt : Attempts \cup {None},
             offers : SUBSET Contents]
NoBox == [pending |-> None, uploaded |-> FALSE, committed |-> FALSE, stale |-> FALSE]
Box == [pending : Contents \cup {None}, uploaded : BOOLEAN,
        committed : BOOLEAN, stale : BOOLEAN]
Call == [kind : {"renew", "error"}, job : Jobs, attempt : Attempts]
          \cup [kind : {"finish"}, job : Jobs, attempt : Attempts, content : Contents]

FarmInit ==
    /\ StoreInit
    /\ QueueInit
    /\ agent = [at |-> "top", job |-> None, attempt |-> None, offers |-> {}]
    /\ outbox = [j \in Jobs |-> [k \in Attempts |-> NoBox]]
    /\ wire = {}
    /\ faults = 0

Goes(to) == agent' = [agent EXCEPT !.at = to]
Resting(at) == agent' = [agent EXCEPT !.at = at, !.job = None, !.attempt = None]
Holds == agent.job # None
Pendings == {b \in Jobs \X Attempts : outbox[b[1]][b[2]].pending # None}
Fault == faults < MaxFaults /\ faults' = faults + 1

----------------------------------------------------------------------------
(* run(), reconcile() and heartbeat().                                     *)

Start ==
    /\ agent.at = "down"
    /\ Goes("top")
    /\ UNCHANGED <<storeVars, queueVars, outbox, wire, faults>>

\* Only a built-in profile is installed without its operator, if the policy says so.
Reconcile ==
    /\ agent.at = "top"
    /\ \/ /\ BuiltinSync
          /\ Goes(IF current' # None /\ current'.verified THEN "flush" ELSE "checking")
       \/ Goes("flush") /\ UNCHANGED storeVars
    /\ UNCHANGED <<queueVars, outbox, wire, faults>>

\* The check holds the lock; run() does not survive its failure.
ReconcileVerify ==
    /\ agent.at = "checking"
    /\ \/ VerifyBegin("agent") /\ UNCHANGED agent
       \/ work # None /\ work.by = "agent" /\ VerifyActivate /\ UNCHANGED agent
       \/ work # None /\ work.by = "agent" /\ VerifyEnd /\ Goes("flush")
       \/ Abandon("agent") /\ Goes("down")
       \/ Unlocked /\ (current = None \/ ~Intact(current)) /\ Goes("down") /\ UNCHANGED storeVars
    /\ UNCHANGED <<queueVars, outbox, wire, faults>>

\* capabilities() reads current.json without the lock.
Heartbeat ==
    /\ agent.at = "beat"
    /\ agent' = [agent EXCEPT !.at = "claim",
          !.offers = IF Ready /\ Intact(current) THEN {current.release.content} ELSE {}]
    /\ UNCHANGED <<storeVars, queueVars, outbox, wire, faults>>

AgentClaim ==
    /\ agent.at = "claim"
    /\ \/ \E j \in Jobs :
            /\ ClaimJob(Self, j, agent.offers)
            /\ agent' = [agent EXCEPT !.at = "lock", !.job = j, !.attempt = job'[j].attempts]
       \/ ClaimNothing(Self, agent.offers) /\ Goes("top")
       \/ Occupied(Self) /\ Goes("top") /\ UNCHANGED queueVars
    /\ UNCHANGED <<storeVars, outbox, wire, faults>>

----------------------------------------------------------------------------
(* generate() and the renewal thread.  Another process's lock does not make *)
(* generate() wait: it raises a FarmError that ends the agent, which Crash  *)
(* stands for; here an agent that is to go on finds the models unlocked.    *)

GenerateBegin ==
    /\ agent.at = "lock"
    /\ Unlocked /\ Ready /\ Intact(current)
    /\ work' = [by |-> "agent", op |-> "generate", row |-> current]
    /\ Goes("compute")
    /\ UNCHANGED <<builtin, core, current, pending, ledger, queueVars, outbox, wire, faults>>

GenerateEnd ==
    /\ agent.at = "compute"
    /\ outbox' = [outbox EXCEPT ![agent.job][agent.attempt].pending = work.row.release.content]
    /\ work' = None
    /\ Resting("deliver")
    /\ UNCHANGED <<builtin, core, current, pending, ledger, queueVars, wire, faults>>

\* The model is not ready, the lease was lost or the runtime failed: the error
\* is reported once, whether or not it arrives, and the process ends.
GenerateFails ==
    /\ agent.at \in {"lock", "compute"}
    /\ IF agent.at = "lock" THEN Unlocked /\ UNCHANGED work ELSE work' = None
    /\ \/ FinishError(Self, agent.job, agent.attempt) /\ UNCHANGED <<wire, faults>>
       \/ ~MayFinish(Self, agent.job, agent.attempt) /\ UNCHANGED <<queueVars, wire, faults>>
       \/ /\ Fault /\ UNCHANGED queueVars
          /\ wire' = wire \cup {[kind |-> "error", job |-> agent.job, attempt |-> agent.attempt]}
    /\ Resting("down")
    /\ UNCHANGED <<builtin, core, current, pending, ledger, outbox>>

RenewLease ==
    /\ Holds
    /\ \/ Renew(Self, agent.job, agent.attempt) /\ UNCHANGED <<wire, faults>>
       \/ /\ Fault /\ UNCHANGED queueVars
          /\ wire' = wire \cup {[kind |-> "renew", job |-> agent.job, attempt |-> agent.attempt]}
    /\ UNCHANGED <<storeVars, agent, outbox>>

----------------------------------------------------------------------------
(* flush().                                                                *)

Flushing == agent.at \in {"flush", "deliver"}

\* The answer is in pending.json before the finish is sent.
FlushUpload(j, k) ==
    LET box == outbox[j][k]
    IN  /\ Flushing
        /\ box.pending # None /\ ~box.uploaded /\ ~box.committed /\ ~box.stale
        /\ \/ /\ Upload(Self, j, k, box.pending)
              /\ outbox' = [outbox EXCEPT ![j][k].uploaded = TRUE]
              /\ UNCHANGED <<agent, faults>>
           \/ /\ ~MayUpload(Self, j, k) /\ UNCHANGED <<queueVars, agent, faults>>
              /\ outbox' = [outbox EXCEPT ![j][k].stale = TRUE]
           \/ /\ Fault
              /\ Upload(Self, j, k, box.pending) \/ UNCHANGED queueVars
              /\ Resting("top") /\ UNCHANGED outbox
        /\ UNCHANGED <<storeVars, wire>>

FlushFinish(j, k) ==
    LET box == outbox[j][k]
    IN  /\ Flushing
        /\ box.pending # None /\ box.uploaded /\ ~box.committed /\ ~box.stale
        /\ \/ /\ \/ Finish(Self, j, k, box.pending)
                 \/ Replayed(Self, j, k, box.pending) /\ UNCHANGED queueVars
              /\ outbox' = [outbox EXCEPT ![j][k].committed = TRUE]
              /\ UNCHANGED <<agent, wire, faults>>
           \/ /\ ~MayFinish(Self, j, k) /\ ~Replayed(Self, j, k, box.pending)
              /\ outbox' = [outbox EXCEPT ![j][k].stale = TRUE]
              /\ UNCHANGED <<queueVars, agent, wire, faults>>
           \/ /\ Fault
              /\ wire' = wire \cup {[kind |-> "finish", job |-> j, attempt |-> k,
                                     content |-> box.pending]}
              /\ Resting("top") /\ UNCHANGED <<queueVars, outbox>>
        /\ UNCHANGED storeVars

\* The receipt is written, then pending.json removed.  After a death between
\* the two the agent sends the same upload and finish once more, which the
\* server answers as before; the model goes on to the removal.
FlushUnlink(j, k) ==
    /\ Flushing
    /\ outbox[j][k].pending # None
    /\ outbox[j][k].committed \/ outbox[j][k].stale
    /\ outbox' = [outbox EXCEPT ![j][k].pending = None]
    /\ UNCHANGED <<storeVars, queueVars, agent, wire, faults>>

FlushDone ==
    /\ Flushing /\ Pendings = {}
    /\ Goes(IF agent.at = "flush" THEN "beat" ELSE "top")
    /\ UNCHANGED <<storeVars, queueVars, outbox, wire, faults>>

----------------------------------------------------------------------------
(* Faults, and the others.                                                 *)

Crash ==
    /\ agent.at # "down"
    /\ Fault
    /\ IF work # None /\ work.by = "agent" THEN Abandon("agent") ELSE UNCHANGED storeVars
    /\ Resting("down")
    /\ UNCHANGED <<queueVars, outbox, wire>>

\* The server executes a call whose answer nobody waits for, or it is lost.
Arrive(call) ==
    LET j == call.job  k == call.attempt
    IN  /\ \/ call.kind = "renew" /\ Renew(Self, j, k)
           \/ call.kind = "error" /\ FinishError(Self, j, k)
           \/ call.kind = "finish" /\ Finish(Self, j, k, call.content)
           \/ UNCHANGED queueVars
        /\ wire' = wire \ {call}
        /\ UNCHANGED <<storeVars, agent, outbox, faults>>

\* A rival computes with the release it is asked for, and may stop anywhere.
Rival(n, j) ==
    LET k == job[j].attempts  wants == job[j].wants
    IN  /\ \/ ClaimJob(n, j, Contents)
           \/ ClaimNothing(n, Contents)
           \/ Running(j) /\ (Renew(n, j, k) \/ Upload(n, j, k, wants) \/ Finish(n, j, k, wants))
           \/ Running(j) /\ FinishError(n, j, k)
        /\ UNCHANGED <<storeVars, agentVars>>

AgentStep ==
    \/ Start \/ Reconcile \/ ReconcileVerify \/ Heartbeat \/ AgentClaim
    \/ GenerateBegin \/ GenerateEnd \/ GenerateFails
    \/ \E j \in Jobs, k \in Attempts :
          FlushUpload(j, k) \/ FlushFinish(j, k) \/ FlushUnlink(j, k)
    \/ FlushDone

FarmNext ==
    \/ OperatorNext /\ UNCHANGED <<queueVars, agentVars>>
    \/ AgentStep
    \/ RenewLease
    \/ Crash
    \/ \E call \in wire : Arrive(call)
    \/ \E n \in Rivals, j \in Jobs : Rival(n, j)
    \/ /\ \/ \E j \in Jobs : Cancel(j) \/ \E content \in Wanted : Submit(j, content)
          \/ Tick
       /\ UNCHANGED <<storeVars, agentVars>>

FarmSpec == FarmInit /\ [][FarmNext]_farmVars

----------------------------------------------------------------------------
(* Properties.                                                             *)

FarmTypeOK ==
    /\ builtin \in BOOLEAN
    /\ core \in 0..MaxDrift
    /\ {current, pending} \subseteq Installed \cup {None}
    /\ ledger \in Recipes \cup {None}
    /\ work \in Work \cup {None}
    /\ job \in [Jobs -> JobRow]
    /\ file \in [Jobs -> [Attempts -> Contents \cup {None}]]
    /\ agent \in AgentRow
    /\ outbox \in [Jobs -> [Attempts -> Box]]
    /\ wire \subseteq Call
    /\ faults \in 0..MaxFaults

\* The receipts of the outbox tell the truth for ever: committed.json stands for
\* the result the server holds, and stale.json never for one it has accepted, not
\* even by a finish given up as lost that arrives after its repetition.
ReceiptsAgree ==
    \A j \in Jobs, k \in Attempts :
        LET box == outbox[j][k]
            mine == job[j].state = "done" /\ job[j].attempts = k /\ job[j].node = Self
        IN  (box.committed => mine) /\ (box.stale => ~mine)

\* A job asks for a pinned release and is computed with that release.
PinnedRelease ==
    \A j \in Jobs : job[j].state = "done" => job[j].output = job[j].wants
=============================================================================
