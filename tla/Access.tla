------------------------------- MODULE Access -------------------------------
(***************************************************************************)
(* People and devices of the control plane: sign-in, join requests and     *)
(* their decisions, member changes, node status, session revocation and    *)
(* the authentication of a device.  An HTTP request is a thread of the     *)
(* server that authenticates in one transaction and acts in another; every *)
(* transaction is one step, and what a thread carries from one to the next *)
(* is in `handler'.  A gateway transfer keeps its row locks between two of *)
(* its steps (Gateway), so the steps here wait for it.                     *)
(*                                                                         *)
(* Left out: names, inventories, audit rows and events (Mailer has the     *)
(* events), and the capacity of request bodies.                            *)
(***************************************************************************)
EXTENDS Naturals, FiniteSets

CONSTANTS
    None,
    Users,
    Sessions, SessionOf, Strong,   \* login sessions, their user, those with AAL2
    Keys,                          \* idempotency keys of join requests
    PublicKeys,                    \* device keys
    Grants,                        \* grants an administrator may approve instead
    GrantLists,                    \* lists of grants an administrator may set
    Handlers,                      \* concurrent HTTP requests
    MaxPending,                    \* pending requests per member (5)
    MaxCalls                       \* bound: authenticated requests in a behaviour

AllowedGrants == {"creator-basic", "experimental", "release-manager"}
RequestGrants == {"creator-basic", "experimental"}
Requests == Users \X Keys           \* (owner, idempotency_key) is unique
OwnerOf(r) == r[1]

ASSUME AccessAssumption ==
    /\ SessionOf \in [Sessions -> Users]
    /\ Strong \subseteq Sessions
    /\ None \notin Users \cup Sessions \cup PublicKeys \cup AllowedGrants
    /\ Grants \subseteq AllowedGrants
    /\ GrantLists \subseteq SUBSET AllowedGrants
    /\ MaxPending \in Nat
    /\ MaxCalls \in Nat

VARIABLES
    member,     \* users: role, status and grants of each person
    request,    \* requests, by owner and key
    node,       \* nodes.status, by the id of the join request
    revoked,    \* revocations
    handler,    \* what each HTTP request has read so far
    calls       \* requests authenticated so far

accessVars == <<member, request, node, revoked, handler, calls>>

Payload == [kind : {"access"}, wants : RequestGrants]
             \cup [kind : {"node"}, wants : PublicKeys]
MemberRow == [role : {"member", "admin"}, grants : SUBSET AllowedGrants,
              status : {"absent", "active", "suspended"}]
RequestRow == [state : {"absent", "pending", "approved", "rejected"},
               payload : Payload \cup {None}]
NodeStatus == {"absent", "pending", "active", "paused", "revoked", "rejected"}

Idle == [step |-> "idle"]
SignedIn(s, role) == [step |-> "member", session |-> s, role |-> role]
Changing(s, r, want) == [step |-> "change", session |-> s, node |-> r, want |-> want]
OnDevice(r) == [step |-> "device", node |-> r]

NewFarm ==
    /\ member = [u \in Users |-> [role |-> "member", status |-> "absent", grants |-> {}]]
    /\ request = [r \in Requests |-> [state |-> "absent", payload |-> None]]
    /\ node = [r \in Requests |-> "absent"]

\* What earlier requests came to: an administrator, and an approved device of a
\* member who may create.
RunningFarm(boss, device, key) ==
    /\ member = [u \in Users |->
          IF u = boss THEN [role |-> "admin", status |-> "active", grants |-> AllowedGrants]
          ELSE IF u = OwnerOf(device)
               THEN [role |-> "member", status |-> "active", grants |-> {"creator-basic"}]
          ELSE [role |-> "member", status |-> "absent", grants |-> {}]]
    /\ request = [r \in Requests |->
          IF r = device
          THEN [state |-> "approved", payload |-> [kind |-> "node", wants |-> key]]
          ELSE [state |-> "absent", payload |-> None]]
    /\ node = [r \in Requests |-> IF r = device THEN "active" ELSE "absent"]

AccessInit ==
    /\ \/ NewFarm
       \/ \E boss \in {SessionOf[s] : s \in Strong}, device \in Requests, key \in PublicKeys :
             OwnerOf(device) # boss /\ RunningFarm(boss, device, key)
    /\ revoked = {}
    /\ handler = [h \in Handlers |-> Idle]
    /\ calls = 0

----------------------------------------------------------------------------
(* Row locks.  A transfer shares the rows of the user it acts for and, for *)
(* a device, of the node, until its transaction ends; an update waits.     *)

Transferring == {h \in Handlers : handler[h].step \in {"writing", "written"}}
UserLocked(u) == \E h \in Transferring : handler[h].user = u
NodeLocked(r) == \E h \in Transferring : handler[h].node = r

At(h, step) == handler[h].step = step
Moved(h, record) == handler' = [handler EXCEPT ![h] = record]
Admin(h) == handler[h].role = "admin" /\ handler[h].session \in Strong

----------------------------------------------------------------------------
(* Sign-in.                                                                *)

\* control bootstrap-admin, run by the operator on the database.
BootstrapAdmin(u) ==
    /\ (\E v \in Users : member[v].role = "admin") => member[u].role = "admin"
    /\ ~UserLocked(u)
    /\ calls < MaxCalls
    /\ calls' = calls + 1
    /\ member' = [member EXCEPT ![u] = [role |-> "admin", status |-> "active",
                                        grants |-> AllowedGrants]]
    /\ UNCHANGED <<request, node, revoked, handler>>

\* principal(): the first valid login inserts the member.
SignIn(h, s) ==
    LET u == SessionOf[s]
    IN  /\ At(h, "idle")
        /\ calls < MaxCalls
        /\ member[u].status # "suspended"
        /\ s \notin revoked
        /\ member' = [member EXCEPT ![u].status = "active"]
        /\ Moved(h, SignedIn(s, member[u].role))
        /\ calls' = calls + 1
        /\ UNCHANGED <<request, node, revoked>>

\* device_any() and device(): the node, its owner, the proof of the request.
DeviceIn(h, r) ==
    /\ At(h, "idle")
    /\ calls < MaxCalls
    /\ node[r] = "active"
    /\ member[OwnerOf(r)].status = "active"
    /\ Moved(h, OnDevice(r))
    /\ calls' = calls + 1
    /\ UNCHANGED <<member, request, node, revoked>>

\* The request only reads, is refused, fails or is a replay, or the server
\* dies: its transaction rolls back.
Leave(h) ==
    /\ ~At(h, "idle")
    /\ Moved(h, Idle)
    /\ UNCHANGED <<member, request, node, revoked, calls>>

----------------------------------------------------------------------------
(* Requests and decisions.                                                 *)

PendingOf(u) == {r \in Requests : OwnerOf(r) = u /\ request[r].state = "pending"}
Registered == {request[r].payload.wants : r \in {q \in Requests : node[q] # "absent"}}

\* A repeated key answers with the prior row, or conflicts: see Leave.
RequestAccess(h, k, payload) ==
    LET u == SessionOf[handler[h].session]
        r == <<u, k>>
    IN  /\ At(h, "member")
        /\ ~UserLocked(u)
        /\ request[r].state = "absent"
        /\ Cardinality(PendingOf(u)) < MaxPending
        /\ payload.kind = "node" => payload.wants \notin Registered
        /\ request' = [request EXCEPT ![r] = [state |-> "pending", payload |-> payload]]
        /\ node' = IF payload.kind = "node" THEN [node EXCEPT ![r] = "pending"] ELSE node
        /\ Moved(h, Idle)
        /\ UNCHANGED <<member, revoked, calls>>

\* Mutant: a second decision overrides the first.
DecideAgain(h, r, approve, grant) ==
    /\ At(h, "member") /\ Admin(h)
    /\ request[r].state # "absent"
    /\ ~NodeLocked(r)
    /\ request' = [request EXCEPT ![r].state = IF approve THEN "approved" ELSE "rejected"]
    /\ node' = IF request[r].payload.kind # "node" THEN node
               ELSE [node EXCEPT ![r] = IF approve THEN "active" ELSE "rejected"]
    /\ Moved(h, Idle)
    /\ UNCHANGED <<member, revoked, calls>>

\* Repeated with the same decision it is a replay, with another one refused.
Decide(h, r, approve, grant) ==
    LET row == request[r]
        u == OwnerOf(r)
        chosen == IF grant # None THEN grant ELSE row.payload.wants
        grants == approve /\ row.payload.kind = "access"
    IN  /\ At(h, "member") /\ Admin(h)
        /\ row.state = "pending"
        /\ grants => ~UserLocked(u)
        /\ row.payload.kind = "node" => ~NodeLocked(r)
        /\ member' = IF grants THEN [member EXCEPT ![u].grants = @ \cup {chosen}] ELSE member
        /\ node' = IF row.payload.kind # "node" THEN node
                   ELSE [node EXCEPT ![r] = IF approve THEN "active" ELSE "rejected"]
        /\ request' = [request EXCEPT ![r].state = IF approve THEN "approved" ELSE "rejected"]
        /\ Moved(h, Idle)
        /\ UNCHANGED <<revoked, calls>>

----------------------------------------------------------------------------
(* Members, nodes and sessions.                                            *)

UserChange(h, u, status, grants) ==
    /\ At(h, "member") /\ Admin(h)
    /\ member[u].status # "absent"
    /\ ~(member[u].role = "admin" /\ status = "suspended")
    /\ ~UserLocked(u)
    /\ member' = [member EXCEPT
                    ![u].status = IF status = None THEN @ ELSE status,
                    ![u].grants = IF grants = None THEN @ ELSE grants]
    /\ Moved(h, Idle)
    /\ UNCHANGED <<request, node, revoked, calls>>

\* Mutant: the refused statuses are the final ones.
ReadNodePending(h, r, want) ==
    LET s == handler[h].session
    IN  /\ At(h, "member")
        /\ OwnerOf(r) = SessionOf[s] \/ handler[h].role = "admin"
        /\ handler[h].role = "admin" => s \in Strong
        /\ node[r] \notin {"absent", "rejected", "revoked"}
        /\ Moved(h, Changing(s, r, want))
        /\ UNCHANGED <<member, request, node, revoked, calls>>

\* change_node_status reads the node, and decides on what it read ...
ReadNode(h, r, want) ==
    LET s == handler[h].session
    IN  /\ At(h, "member")
        /\ OwnerOf(r) = SessionOf[s] \/ handler[h].role = "admin"
        /\ handler[h].role = "admin" => s \in Strong
        /\ node[r] \notin {"absent", "pending", "rejected", "revoked"}
        /\ Moved(h, Changing(s, r, want))
        /\ UNCHANGED <<member, request, node, revoked, calls>>

\* ... and writes the status in a transaction of its own.
WriteNode(h) ==
    LET r == handler[h].node
    IN  /\ At(h, "change")
        /\ ~NodeLocked(r)
        /\ node' = [node EXCEPT ![r] = handler[h].want]
        /\ Moved(h, Idle)
        /\ UNCHANGED <<member, request, revoked, calls>>

\* Mutant: the revocation does not wait for the transfers of its user.
RevokeAtOnce(h) ==
    /\ At(h, "member")
    /\ revoked' = revoked \cup {handler[h].session}
    /\ Moved(h, Idle)
    /\ UNCHANGED <<member, request, node, calls>>

RevokeSession(h) ==
    /\ At(h, "member")
    /\ ~UserLocked(SessionOf[handler[h].session])
    /\ revoked' = revoked \cup {handler[h].session}
    /\ Moved(h, Idle)
    /\ UNCHANGED <<member, request, node, calls>>

AccessNext ==
    \/ \E u \in Users : BootstrapAdmin(u)
    \/ \E h \in Handlers :
        \/ \E s \in Sessions : SignIn(h, s)
        \/ \E r \in Requests : DeviceIn(h, r)
        \/ Leave(h)
        \/ \E k \in Keys, payload \in Payload : RequestAccess(h, k, payload)
        \/ \E r \in Requests, approve \in BOOLEAN, grant \in Grants \cup {None} :
              Decide(h, r, approve, grant)
        \/ \E u \in Users, status \in {None, "active", "suspended"},
              grants \in GrantLists \cup {None} : UserChange(h, u, status, grants)
        \/ \E r \in Requests, want \in {"active", "paused", "revoked"} :
              ReadNode(h, r, want)
        \/ WriteNode(h)
        \/ RevokeSession(h)

----------------------------------------------------------------------------
(* Properties.                                                             *)

\* A node takes part exactly as its join request was decided: it waits while
\* the request is pending, never starts after a rejection, and whatever status
\* its owner and the administrators set at once, it cannot get around approval.
NodeFollowsDecision ==
    \A r \in Requests :
        /\ node[r] # "absent" => request[r].payload.kind = "node"
        /\ node[r] = "pending" => request[r].state = "pending"
        /\ node[r] = "rejected" => request[r].state = "rejected"
        /\ node[r] \in {"active", "paused", "revoked"} => request[r].state = "approved"

\* A revocation can only be undone by a request that had read the node before
\* it: once no such request is left, the node stays revoked, whoever asks.
BehindRevocation(r) ==
    node[r] = "revoked" /\ \A h \in Handlers : At(h, "change") => handler[h].node # r
RevocationSettles ==
    [][\A r \in Requests : BehindRevocation(r) => node'[r] = "revoked"]_accessVars
=============================================================================
