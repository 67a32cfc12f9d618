------------------------------ MODULE Gateway ------------------------------
(***************************************************************************)
(* The gateway to the central queue and its private bucket, on top of the  *)
(* control plane: CentralBridge.upload, rpc and _validate_output.  A       *)
(* transfer authorises, writes to the bucket, authorises again and records *)
(* a receipt inside one transaction whose share locks hold back every      *)
(* change of the user, the node and the task; only time goes on.           *)
(*                                                                         *)
(* One task and one caller's staged input are followed.  The queue is the  *)
(* environment: FarmQueue has its calls in detail.  An object key carries  *)
(* the digest of its bytes, so a file stands for its content.              *)
(***************************************************************************)
EXTENDS Access

CONSTANTS
    Files,         \* artifacts of a result, by content
    MaxTurns,      \* attempts of the task (3)
    MaxRetries     \* bound: objects stored whose upload was then cut off

VARIABLES
    turn,        \* the task: its attempt, who holds it, whether the lease is valid
    submitted,   \* the caller's job exists
    stored,      \* objects of the bucket
    receipt,     \* bridge_artifacts: verified uploads
    output,      \* the committed manifest
    cut          \* uploads cut off so far

gatewayVars == <<turn, submitted, stored, receipt, output, cut>>
allVars == <<accessVars, gatewayVars>>

\* A staged input of a caller, or a file of an attempt.
InputKey(u) == [caller |-> u]
OutputKey(r, k, f) == [worker |-> r, attempt |-> k, file |-> f]
ObjectKeys == [caller : Users] \cup [worker : Requests, attempt : 1..MaxTurns, file : Files]
Manifests == SUBSET Files \ {{}}
Turn == [state : {"queued", "running", "done", "closed"}, attempt : 0..MaxTurns,
         holder : Requests \cup {None}, live : BOOLEAN]
Output == [attempt : 1..MaxTurns, worker : Requests, files : Manifests]

ASSUME GatewayAssumption ==
    /\ MaxTurns \in Nat /\ MaxRetries \in Nat
    /\ None \notin Requests \cup Output

ByUser(s, key) ==
    [step |-> "writing", user |-> SessionOf[s], node |-> None, session |-> s, key |-> key]
ByNode(r, key) ==
    [step |-> "writing", user |-> OwnerOf(r), node |-> r, session |-> None, key |-> key]
Transfer == {ByUser(s, InputKey(SessionOf[s])) : s \in Sessions}
              \cup {ByNode(r, OutputKey(r, k, f)) : r \in Requests, k \in 1..MaxTurns, f \in Files}
HandlerRow ==
    {Idle}
      \cup {SignedIn(s, role) : s \in Sessions, role \in {"member", "admin"}}
      \cup {Changing(s, r, want) : s \in Sessions, r \in Requests,
                                   want \in {"active", "paused", "revoked"}}
      \cup {OnDevice(r) : r \in Requests}
      \cup Transfer \cup {[t EXCEPT !.step = "written"] : t \in Transfer}

GatewayInit ==
    /\ AccessInit
    /\ turn = [state |-> "queued", attempt |-> 0, holder |-> None, live |-> FALSE]
    /\ submitted = FALSE
    /\ stored = {}
    /\ receipt = {}
    /\ output = None
    /\ cut = 0

----------------------------------------------------------------------------
(* Authorisation.                                                          *)

\* control_member, as CentralBridge._member calls it inside each transaction.
NodeAuthorised(r) == node[r] = "active" /\ member[OwnerOf(r)].status = "active"
UserAuthorised(s) ==
    LET row == member[SessionOf[s]]
    IN  row.status = "active" /\ "creator-basic" \in row.grants /\ s \notin revoked
Authorised(t) == IF t.node = None THEN UserAuthorised(t.session) ELSE NodeAuthorised(t.node)

\* control_storage for a write: the input of a job that does not exist yet, or
\* an artifact of the attempt the node holds under a valid lease.
Holding(r, k) ==
    /\ turn.state = "running" /\ turn.live
    /\ turn.holder = r /\ turn.attempt = k
InScope(t) ==
    IF t.node = None THEN ~submitted ELSE Holding(t.node, t.key.attempt)

TaskLocked == \E h \in Transferring : handler[h].node # None

----------------------------------------------------------------------------
(* Transfers.                                                              *)

BeginTransfer(h, t) ==
    /\ t.node = None => (At(h, "member") /\ handler[h].session = t.session)
    /\ t.node # None => (At(h, "device") /\ handler[h].node = t.node)
    /\ Authorised(t) /\ InScope(t)
    /\ Moved(h, t)
    /\ UNCHANGED <<member, request, node, revoked, calls, gatewayVars>>

\* storage.write: a new object, or one with the same bytes, the answer to whose
\* upload was lost.
Store(h) ==
    /\ At(h, "writing")
    /\ stored' = stored \cup {handler[h].key}
    /\ Moved(h, [handler[h] EXCEPT !.step = "written"])
    /\ UNCHANGED <<member, request, node, revoked, calls, turn, submitted, receipt, output, cut>>

\* The object is stored and its answer lost: the transaction rolls back.
StoreCut(h) ==
    /\ At(h, "writing")
    /\ cut < MaxRetries
    /\ cut' = cut + 1
    /\ stored' = stored \cup {handler[h].key}
    /\ Moved(h, Idle)
    /\ UNCHANGED <<member, request, node, revoked, calls, turn, submitted, receipt, output>>

\* The second check refuses an upload whose lease lapsed meanwhile: see Leave.
RecordReceipt(h) ==
    /\ At(h, "written")
    /\ Authorised(handler[h]) /\ InScope(handler[h])
    /\ receipt' = receipt \cup {handler[h].key}
    /\ Moved(h, Idle)
    /\ UNCHANGED <<member, request, node, revoked, calls, turn, submitted, stored, output, cut>>

----------------------------------------------------------------------------
(* Calls of the queue through rpc(): one transaction each.                 *)

Submit(h) ==
    /\ At(h, "member")
    /\ UserAuthorised(handler[h].session)
    /\ submitted' = TRUE
    /\ Moved(h, Idle)
    /\ UNCHANGED <<member, request, node, revoked, calls, turn, stored, receipt, output, cut>>

\* Mutant: the limit of attempts is not looked at.
ClaimBeyondLimit(h) ==
    LET r == handler[h].node
    IN  /\ At(h, "device")
        /\ NodeAuthorised(r)
        /\ submitted
        /\ turn.state = "queued" \/ (turn.state = "running" /\ ~turn.live)
        /\ ~TaskLocked
        /\ turn' = [state |-> "running", attempt |-> turn.attempt + 1,
                    holder |-> r, live |-> TRUE]
        /\ Moved(h, Idle)
        /\ UNCHANGED <<member, request, node, revoked, calls, submitted, stored, receipt,
                       output, cut>>

\* Rows that a transfer shares are skipped by a claim.
Claim(h) ==
    LET r == handler[h].node
    IN  /\ At(h, "device")
        /\ NodeAuthorised(r)
        /\ submitted
        /\ turn.state = "queued" \/ (turn.state = "running" /\ ~turn.live)
        /\ turn.attempt < MaxTurns
        /\ ~TaskLocked
        /\ turn' = [state |-> "running", attempt |-> turn.attempt + 1,
                    holder |-> r, live |-> TRUE]
        /\ Moved(h, Idle)
        /\ UNCHANGED <<member, request, node, revoked, calls, submitted, stored, receipt,
                       output, cut>>

\* Mutant: a repeated finish is checked like a first one, but for the lease.
FinishAgain(h, k, files) ==
    LET r == handler[h].node
    IN  /\ At(h, "device")
        /\ NodeAuthorised(r)
        /\ turn.holder = r /\ turn.attempt = k /\ turn.state \in {"running", "done"}
        /\ \A f \in files : OutputKey(r, k, f) \in receipt
        /\ ~TaskLocked
        /\ turn' = [turn EXCEPT !.state = "done", !.live = FALSE]
        /\ output' = [attempt |-> k, worker |-> r, files |-> files]
        /\ Moved(h, Idle)
        /\ UNCHANGED <<member, request, node, revoked, calls, submitted, stored, receipt, cut>>

\* Mutant: an artifact counts because its object exists.
FinishStored(h, k, files) ==
    LET r == handler[h].node
    IN  /\ At(h, "device")
        /\ NodeAuthorised(r)
        /\ Holding(r, k)
        /\ \A f \in files : OutputKey(r, k, f) \in stored
        /\ ~TaskLocked
        /\ turn' = [turn EXCEPT !.state = "done", !.live = FALSE]
        /\ output' = [attempt |-> k, worker |-> r, files |-> files]
        /\ Moved(h, Idle)
        /\ UNCHANGED <<member, request, node, revoked, calls, submitted, stored, receipt, cut>>

\* A repeat of the committed manifest is answered, any other one refused, even
\* after the lease: see Leave.
Finish(h, k, files) ==
    LET r == handler[h].node
    IN  /\ At(h, "device")
        /\ NodeAuthorised(r)
        /\ Holding(r, k)
        /\ \A f \in files : OutputKey(r, k, f) \in receipt
        /\ ~TaskLocked
        /\ turn' = [turn EXCEPT !.state = "done", !.live = FALSE]
        /\ output' = [attempt |-> k, worker |-> r, files |-> files]
        /\ Moved(h, Idle)
        /\ UNCHANGED <<member, request, node, revoked, calls, submitted, stored, receipt, cut>>

Cancel(h) ==
    /\ At(h, "member")
    /\ UserAuthorised(handler[h].session)
    /\ turn.state \in {"queued", "running"} /\ submitted
    /\ ~TaskLocked
    /\ turn' = [turn EXCEPT !.state = "closed", !.live = FALSE]
    /\ Moved(h, Idle)
    /\ UNCHANGED <<member, request, node, revoked, calls, submitted, stored, receipt, output, cut>>

Lapse ==
    /\ turn.live
    /\ turn' = [turn EXCEPT !.live = FALSE]
    /\ UNCHANGED <<accessVars, submitted, stored, receipt, output, cut>>

GatewayNext ==
    \/ AccessNext /\ UNCHANGED gatewayVars
    \/ \E h \in Handlers :
        \/ \E t \in Transfer : BeginTransfer(h, t)
        \/ Store(h)
        \/ StoreCut(h)
        \/ RecordReceipt(h)
        \/ Submit(h)
        \/ Claim(h)
        \/ \E k \in 1..MaxTurns, files \in Manifests : Finish(h, k, files)
        \/ Cancel(h)
    \/ Lapse

GatewaySpec == GatewayInit /\ [][GatewayNext]_allVars

----------------------------------------------------------------------------
(* Properties.                                                             *)

GatewayTypeOK ==
    /\ member \in [Users -> MemberRow]
    /\ request \in [Requests -> RequestRow]
    /\ node \in [Requests -> NodeStatus]
    /\ revoked \subseteq Sessions
    /\ handler \in [Handlers -> HandlerRow]
    /\ calls \in 0..MaxCalls
    /\ turn \in Turn
    /\ submitted \in BOOLEAN
    /\ stored \subseteq ObjectKeys
    /\ receipt \subseteq ObjectKeys
    /\ output \in Output \cup {None}
    /\ cut \in 0..MaxRetries

\* Suspension, revocation and logout are ordered before or after a transfer:
\* while one is under way its user, node and session are still authorised, and
\* a node still holds the attempt it writes for, whatever the others ask for.
TransferAuthorised ==
    \A h \in Transferring :
        /\ Authorised(handler[h])
        /\ handler[h].node # None =>
              /\ turn.holder = handler[h].node
              /\ turn.attempt = handler[h].key.attempt
              /\ turn.state = "running"

\* A committed result stands on verified uploads of the very attempt: each of
\* its files has a receipt of the node that committed it, and is in the bucket,
\* through cut-off uploads, takeovers and repeated calls.
CommitBacked ==
    /\ receipt \subseteq stored
    /\ turn.state = "done" <=> output # None
    /\ output # None =>
          /\ output.attempt = turn.attempt
          /\ output.worker = turn.holder
          /\ \A f \in output.files : OutputKey(output.worker, output.attempt, f) \in receipt

\* A committed manifest is immutable: no repeated finish of the same node and
\* attempt replaces it, however many other verified files the attempt has.
CommitImmutable ==
    [][output # None => output' = output]_allVars
=============================================================================
