--------------------------- MODULE Gateway_proofs ---------------------------
(***************************************************************************)
(* Access and the gateway for every value of the constants: any members,   *)
(* sessions, devices and concurrent requests, any files and attempts.      *)
(* GatewayInv is the conjunction of the invariants with what makes them    *)
(* inductive: a status is only written behind an approval (ChangeSound),   *)
(* and what a transfer is about to record is in the bucket (Written).      *)
(***************************************************************************)
EXTENDS Gateway, TLAPS

RequestSound == \A r \in Requests :
    request[r].state # "absent" => request[r].payload \in Payload

\* A request that is about to write a node's status has seen it approved.
ChangeSound == \A h \in Handlers :
    At(h, "change") =>
        /\ request[handler[h].node].state = "approved"
        /\ request[handler[h].node].payload.kind = "node"

Written == \A h \in Handlers : At(h, "written") => handler[h].key \in stored

DecisionInv == RequestSound /\ NodeFollowsDecision /\ ChangeSound
TransferInv == TransferAuthorised /\ Written

GatewayInv == GatewayTypeOK /\ DecisionInv /\ TransferInv /\ CommitBacked

----------------------------------------------------------------------------
(* What a handler may hold.                                                *)

UserTransfer(t) ==
    /\ t.node = None /\ t.session \in Sessions
    /\ t.user = SessionOf[t.session] /\ t.user \in Users
    /\ t.key \in ObjectKeys
NodeTransfer(t) ==
    /\ t.node \in Requests
    /\ t.user = OwnerOf(t.node) /\ t.user \in Users
    /\ t.key \in ObjectKeys

\* A transfer is one of a person or one of a device.
LEMMA TransferForms ==
    ASSUME NEW t \in Transfer
    PROVE  /\ t.step = "writing"
           /\ UserTransfer(t) \/ NodeTransfer(t)
           /\ [t EXCEPT !.step = "written"] \in HandlerRow
<1> USE AccessAssumption, GatewayAssumption
<1>1. CASE \E s \in Sessions : t = ByUser(s, InputKey(SessionOf[s]))
    <2>1. PICK s \in Sessions : t = ByUser(s, InputKey(SessionOf[s]))
        BY <1>1
    <2>2. SessionOf[s] \in Users
        OBVIOUS
    <2>3. InputKey(SessionOf[s]) \in ObjectKeys
        BY <2>2 DEF InputKey, ObjectKeys
    <2>4. t.step = "writing" /\ UserTransfer(t)
        BY <2>1, <2>2, <2>3 DEF ByUser, UserTransfer
    <2> QED BY <2>4 DEF HandlerRow
<1>2. CASE \E r \in Requests, k \in 1..MaxTurns, f \in Files : t = ByNode(r, OutputKey(r, k, f))
    <2>1. PICK r \in Requests, k \in 1..MaxTurns, f \in Files : t = ByNode(r, OutputKey(r, k, f))
        BY <1>2
    <2>2. OwnerOf(r) \in Users
        BY DEF OwnerOf, Requests
    <2>3. OutputKey(r, k, f) \in ObjectKeys
        BY DEF OutputKey, ObjectKeys
    <2>4. t.step = "writing" /\ NodeTransfer(t)
        BY <2>1, <2>2, <2>3 DEF ByNode, NodeTransfer
    <2> QED BY <2>4 DEF HandlerRow
<1> QED BY <1>1, <1>2 DEF Transfer

\* The step of a handler says what else it holds.
LEMMA RowForms ==
    ASSUME NEW row \in HandlerRow
    PROVE  /\ row.step = "member" => row.session \in Sessions /\ row.role \in {"member", "admin"}
           /\ row.step = "change" => /\ row.node \in Requests
                                     /\ row.want \in {"active", "paused", "revoked"}
           /\ row.step = "device" => row.node \in Requests
           /\ row.step \in {"writing", "written"} => UserTransfer(row) \/ NodeTransfer(row)
           /\ row.step = "writing" => [row EXCEPT !.step = "written"] \in HandlerRow
<1>1. CASE row = Idle
    BY <1>1 DEF Idle
<1>2. CASE \E s \in Sessions, role \in {"member", "admin"} : row = SignedIn(s, role)
    BY <1>2 DEF SignedIn
<1>3. CASE \E s \in Sessions, r \in Requests, want \in {"active", "paused", "revoked"} :
              row = Changing(s, r, want)
    BY <1>3 DEF Changing
<1>4. CASE \E r \in Requests : row = OnDevice(r)
    BY <1>4 DEF OnDevice
<1>5. CASE row \in Transfer
    BY <1>5, TransferForms
<1>6. CASE \E t \in Transfer : row = [t EXCEPT !.step = "written"]
    <2>1. PICK t \in Transfer : row = [t EXCEPT !.step = "written"]
        BY <1>6
    <2>2. /\ row.step = "written" /\ row.node = t.node /\ row.session = t.session
          /\ row.user = t.user /\ row.key = t.key
        BY <2>1 DEF Transfer, ByUser, ByNode
    <2>3. UserTransfer(t) \/ NodeTransfer(t)
        BY TransferForms
    <2>4. UserTransfer(row) \/ NodeTransfer(row)
        BY <2>2, <2>3 DEF UserTransfer, NodeTransfer
    <2> QED BY <2>2, <2>4
<1>7. \/ row = Idle
      \/ \E s \in Sessions, role \in {"member", "admin"} : row = SignedIn(s, role)
      \/ \E s \in Sessions, r \in Requests, want \in {"active", "paused", "revoked"} :
            row = Changing(s, r, want)
      \/ \E r \in Requests : row = OnDevice(r)
      \/ row \in Transfer
      \/ \E t \in Transfer : row = [t EXCEPT !.step = "written"]
    BY DEF HandlerRow
<1> QED BY <1>1, <1>2, <1>3, <1>4, <1>5, <1>6, <1>7

\* What the actions put into a handler is one of its forms.
LEMMA MoveForms ==
    /\ Idle \in HandlerRow
    /\ \A s \in Sessions, role \in {"member", "admin"} : SignedIn(s, role) \in HandlerRow
    /\ \A s \in Sessions, r \in Requests, want \in {"active", "paused", "revoked"} :
          Changing(s, r, want) \in HandlerRow
    /\ \A r \in Requests : OnDevice(r) \in HandlerRow
    /\ Transfer \subseteq HandlerRow
BY DEF HandlerRow

----------------------------------------------------------------------------
(* What leaves each part of the invariant alone.                           *)

NoNewChange == \A h \in Handlers :
    handler'[h].step = "change" => handler'[h] = handler[h]
NoNewTransfer == \A h \in Handlers :
    handler'[h].step \in {"writing", "written"} => handler'[h] = handler[h]

\* The row locks of the transfers under way.
LocksRespected ==
    /\ \A u \in Users : UserLocked(u) =>
          /\ member[u].status = "active" => member'[u].status = "active"
          /\ member[u].grants \subseteq member'[u].grants
    /\ \A r \in Requests : NodeLocked(r) /\ node[r] = "active" => node'[r] = "active"
    /\ \A s \in Sessions : UserLocked(SessionOf[s]) /\ s \notin revoked => s \notin revoked'
    /\ TaskLocked => /\ turn'.state = turn.state
                     /\ turn'.holder = turn.holder
                     /\ turn'.attempt = turn.attempt
    /\ stored \subseteq stored'

\* Steps that write no request and no status keep the decisions followed.
LEMMA DecisionKept ==
    ASSUME GatewayInv, NoNewChange, UNCHANGED <<request, node>>
    PROVE  DecisionInv'
<1> USE DEF GatewayInv, DecisionInv
<1>1. RequestSound' /\ NodeFollowsDecision'
    BY DEF RequestSound, NodeFollowsDecision
<1>2. ChangeSound'
    BY DEF ChangeSound, NoNewChange, At
<1> QED BY <1>1, <1>2

\* Steps that wait for the row locks keep every transfer authorised.
LEMMA TransfersKept ==
    ASSUME GatewayInv, NoNewTransfer, LocksRespected
    PROVE  TransferInv'
<1> USE DEF GatewayInv, TransferInv
<1>1. Written'
    BY DEF Written, NoNewTransfer, LocksRespected, At
<1>2. ASSUME NEW h \in Transferring'
      PROVE  /\ Authorised(handler[h])'
             /\ (handler[h].node # None =>
                    /\ turn.holder = handler[h].node
                    /\ turn.attempt = handler[h].key.attempt
                    /\ turn.state = "running")'
    <2>1. h \in Handlers /\ handler'[h] = handler[h] /\ h \in Transferring
        BY <1>2 DEF Transferring, NoNewTransfer
    <2>2. UserTransfer(handler[h]) \/ NodeTransfer(handler[h])
        BY <2>1, RowForms DEF GatewayTypeOK, Transferring
    <2>3. /\ Authorised(handler[h])
          /\ handler[h].node # None =>
                /\ turn.holder = handler[h].node
                /\ turn.attempt = handler[h].key.attempt
                /\ turn.state = "running"
        BY <2>1 DEF TransferAuthorised
    <2>4. CASE UserTransfer(handler[h])
        <3>1. UserLocked(SessionOf[handler[h].session])
            BY <2>1, <2>4 DEF UserLocked, UserTransfer
        <3> QED BY <2>1, <2>3, <2>4, <3>1
                DEF LocksRespected, UserTransfer, Authorised, UserAuthorised
    <2>5. CASE NodeTransfer(handler[h])
        <3>1. /\ UserLocked(OwnerOf(handler[h].node))
              /\ NodeLocked(handler[h].node)
              /\ TaskLocked
            BY <2>1, <2>5, GatewayAssumption DEF UserLocked, NodeLocked, TaskLocked, NodeTransfer
        <3>2. handler[h].node # None
            BY <2>5, GatewayAssumption DEF NodeTransfer
        <3> QED BY <2>1, <2>3, <2>5, <3>1, <3>2
                DEF LocksRespected, NodeTransfer, Authorised, NodeAuthorised
    <2> QED BY <2>2, <2>4, <2>5
<1> QED BY <1>1, <1>2 DEF TransferAuthorised

\* Steps that leave the task, the bucket and the receipts alone.
LEMMA CommitKept ==
    ASSUME CommitBacked, UNCHANGED <<turn, stored, receipt, output>>
    PROVE  CommitBacked'
BY DEF CommitBacked

----------------------------------------------------------------------------
(* The actions of the control plane.                                       *)

AccessTypes ==
    /\ member \in [Users -> MemberRow]
    /\ request \in [Requests -> RequestRow]
    /\ node \in [Requests -> NodeStatus]
    /\ revoked \subseteq Sessions
    /\ handler \in [Handlers -> HandlerRow]
    /\ calls \in 0..MaxCalls

\* An action of Access keeps the invariant if it keeps these four parts.
LEMMA AccessSuffices ==
    ASSUME GatewayInv, AccessTypes', DecisionInv', NoNewTransfer, LocksRespected,
           UNCHANGED gatewayVars
    PROVE  GatewayInv'
<1>1. TransferInv'
    BY TransfersKept
<1>2. CommitBacked'
    BY CommitKept DEF GatewayInv, gatewayVars
<1>3. GatewayTypeOK'
    BY DEF GatewayInv, GatewayTypeOK, AccessTypes, gatewayVars
<1> QED BY <1>1, <1>2, <1>3 DEF GatewayInv

\* The operator's bootstrap waits for the transfers of the user.
LEMMA BootstrapKeeps ==
    ASSUME NEW u \in Users, GatewayInv, BootstrapAdmin(u), UNCHANGED gatewayVars
    PROVE  GatewayInv'
<1> USE AccessAssumption DEF BootstrapAdmin
<1>1. AccessTypes'
    BY DEF GatewayInv, GatewayTypeOK, AccessTypes, MemberRow
<1>2. NoNewChange /\ NoNewTransfer
    BY DEF NoNewChange, NoNewTransfer
<1>3. LocksRespected
    BY DEF LocksRespected, gatewayVars, GatewayInv, GatewayTypeOK
<1>4. DecisionInv'
    BY <1>2, DecisionKept
<1> QED BY <1>1, <1>2, <1>3, <1>4, AccessSuffices

\* A sign-in only ever makes its user active.
LEMMA SignInKeeps ==
    ASSUME NEW h \in Handlers, NEW s \in Sessions, GatewayInv, SignIn(h, s),
           UNCHANGED gatewayVars
    PROVE  GatewayInv'
<1> USE AccessAssumption DEF SignIn
<1>1. SessionOf[s] \in Users
    OBVIOUS
<1>2. SignedIn(s, member[SessionOf[s]].role) \in HandlerRow
    BY <1>1, MoveForms DEF GatewayInv, GatewayTypeOK, MemberRow
<1>3. AccessTypes'
    BY <1>1, <1>2 DEF GatewayInv, GatewayTypeOK, AccessTypes, MemberRow, Moved
<1>4. NoNewChange /\ NoNewTransfer
    BY DEF NoNewChange, NoNewTransfer, Moved, SignedIn, GatewayInv, GatewayTypeOK
<1>5. LocksRespected
    BY DEF LocksRespected, gatewayVars, GatewayInv, GatewayTypeOK
<1>6. DecisionInv'
    BY <1>4, DecisionKept
<1> QED BY <1>3, <1>4, <1>5, <1>6, AccessSuffices

\* A device's authentication writes nothing.
LEMMA DeviceInKeeps ==
    ASSUME NEW h \in Handlers, NEW r \in Requests, GatewayInv, DeviceIn(h, r),
           UNCHANGED gatewayVars
    PROVE  GatewayInv'
<1> USE AccessAssumption DEF DeviceIn
<1>1. AccessTypes'
    BY MoveForms DEF GatewayInv, GatewayTypeOK, AccessTypes, Moved
<1>2. NoNewChange /\ NoNewTransfer
    BY DEF NoNewChange, NoNewTransfer, Moved, OnDevice, GatewayInv, GatewayTypeOK
<1>3. LocksRespected
    BY DEF LocksRespected, gatewayVars
<1>4. DecisionInv'
    BY <1>2, DecisionKept
<1> QED BY <1>1, <1>2, <1>3, <1>4, AccessSuffices

\* Nor does a request that ends without a write.
LEMMA LeaveKeeps ==
    ASSUME NEW h \in Handlers, GatewayInv, Leave(h), UNCHANGED gatewayVars
    PROVE  GatewayInv'
<1> USE DEF Leave
<1>1. AccessTypes'
    BY MoveForms DEF GatewayInv, GatewayTypeOK, AccessTypes, Moved
<1>2. NoNewChange /\ NoNewTransfer
    BY DEF NoNewChange, NoNewTransfer, Moved, Idle, GatewayInv, GatewayTypeOK
<1>3. LocksRespected
    BY DEF LocksRespected, gatewayVars
<1>4. DecisionInv'
    BY <1>2, DecisionKept
<1> QED BY <1>1, <1>2, <1>3, <1>4, AccessSuffices

\* A new request is under a key that had none, so its node was absent.
LEMMA RequestAccessKeeps ==
    ASSUME NEW h \in Handlers, NEW k \in Keys, NEW payload \in Payload, GatewayInv,
           RequestAccess(h, k, payload), UNCHANGED gatewayVars
    PROVE  GatewayInv'
<1> DEFINE r == <<SessionOf[handler[h].session], k>>
<1>1. handler[h].session \in Sessions /\ r \in Requests
    BY RowForms, AccessAssumption DEF GatewayInv, GatewayTypeOK, RequestAccess, At, Requests
<1> HIDE DEF r
<1>2. /\ request[r].state = "absent"
      /\ request' = [request EXCEPT ![r] = [state |-> "pending", payload |-> payload]]
      /\ node' = IF payload.kind = "node" THEN [node EXCEPT ![r] = "pending"] ELSE node
      /\ handler' = [handler EXCEPT ![h] = Idle]
      /\ UNCHANGED <<member, revoked, calls>>
    BY DEF RequestAccess, Moved, r
<1>3. node[r] = "absent"
    BY <1>1, <1>2 DEF GatewayInv, DecisionInv, GatewayTypeOK, NodeFollowsDecision, NodeStatus
<1>4. AccessTypes'
    BY <1>1, <1>2, MoveForms
       DEF GatewayInv, GatewayTypeOK, AccessTypes, RequestRow, NodeStatus
<1>5. NoNewChange /\ NoNewTransfer
    BY <1>2 DEF NoNewChange, NoNewTransfer, Idle, GatewayInv, GatewayTypeOK
<1>6. LocksRespected
    BY <1>1, <1>2, <1>3 DEF LocksRespected, gatewayVars, GatewayInv, GatewayTypeOK
<1>7. DecisionInv'
    <2>1. RequestSound'
        BY <1>1, <1>2 DEF GatewayInv, DecisionInv, GatewayTypeOK, RequestSound, RequestRow
    <2>2. NodeFollowsDecision'
        BY <1>1, <1>2, <1>3 DEF GatewayInv, DecisionInv, GatewayTypeOK, NodeFollowsDecision
    <2>3. ChangeSound'
        <3> SUFFICES ASSUME NEW g \in Handlers, handler'[g].step = "change"
                     PROVE  /\ request'[handler'[g].node].state = "approved"
                            /\ request'[handler'[g].node].payload.kind = "node"
            BY DEF ChangeSound, At
        <3>1. /\ handler'[g] = handler[g] /\ handler[g].node \in Requests
              /\ request[handler[g].node].state = "approved"
              /\ request[handler[g].node].payload.kind = "node"
            BY <1>5, RowForms
               DEF NoNewChange, GatewayInv, GatewayTypeOK, DecisionInv, ChangeSound, At
        <3> QED BY <1>1, <1>2, <3>1 DEF GatewayInv, GatewayTypeOK
    <2> QED BY <2>1, <2>2, <2>3 DEF DecisionInv
<1> QED BY <1>4, <1>5, <1>6, <1>7, AccessSuffices

\* A decision is made once: only a pending request's node changes its status.
LEMMA DecideKeeps ==
    ASSUME NEW h \in Handlers, NEW r \in Requests, NEW approve \in BOOLEAN,
           NEW grant \in Grants \cup {None}, GatewayInv,
           Decide(h, r, approve, grant), UNCHANGED gatewayVars
    PROVE  GatewayInv'
<1> DEFINE u == OwnerOf(r)
           chosen == IF grant # None THEN grant ELSE request[r].payload.wants
           grants == approve /\ request[r].payload.kind = "access"
           verdict == IF approve THEN "approved" ELSE "rejected"
<1>1. u \in Users
    BY DEF OwnerOf, Requests
<1>2. /\ request[r].state = "pending"
      /\ grants => ~UserLocked(u)
      /\ request[r].payload.kind = "node" => ~NodeLocked(r)
      /\ member' = IF grants THEN [member EXCEPT ![u].grants = @ \cup {chosen}] ELSE member
      /\ node' = IF request[r].payload.kind # "node" THEN node
                 ELSE [node EXCEPT ![r] = IF approve THEN "active" ELSE "rejected"]
      /\ request' = [request EXCEPT ![r].state = verdict]
      /\ handler' = [handler EXCEPT ![h] = Idle]
      /\ UNCHANGED <<revoked, calls>>
    BY DEF Decide, Moved
<1>3. request[r].payload \in Payload
    BY <1>2 DEF GatewayInv, DecisionInv, RequestSound
<1>4. grants => chosen \in AllowedGrants
    BY <1>3, AccessAssumption DEF Payload, RequestGrants, AllowedGrants
<1> HIDE DEF u, chosen, grants
<1>5. AccessTypes'
    <2>1. member' \in [Users -> MemberRow]
        BY <1>1, <1>2, <1>4 DEF GatewayInv, GatewayTypeOK, MemberRow
    <2>2. request' \in [Requests -> RequestRow]
        BY <1>2 DEF GatewayInv, GatewayTypeOK, RequestRow
    <2>3. node' \in [Requests -> NodeStatus]
        BY <1>2 DEF GatewayInv, GatewayTypeOK, NodeStatus
    <2> QED BY <1>2, <2>1, <2>2, <2>3, MoveForms
            DEF AccessTypes, GatewayInv, GatewayTypeOK
<1>6. NoNewChange /\ NoNewTransfer
    BY <1>2 DEF NoNewChange, NoNewTransfer, Idle, GatewayInv, GatewayTypeOK
<1>7. LocksRespected
    <2>1. \A v \in Users : UserLocked(v) =>
            /\ member[v].status = "active" => member'[v].status = "active"
            /\ member[v].grants \subseteq member'[v].grants
        BY <1>1, <1>2 DEF GatewayInv, GatewayTypeOK
    <2>2. \A q \in Requests : NodeLocked(q) /\ node[q] = "active" => node'[q] = "active"
        BY <1>2 DEF GatewayInv, GatewayTypeOK
    <2> QED BY <1>2, <2>1, <2>2 DEF LocksRespected, gatewayVars
<1>8. DecisionInv'
    <2>1. RequestSound'
        BY <1>2, <1>3 DEF GatewayInv, DecisionInv, GatewayTypeOK, RequestSound, RequestRow
    <2>2. NodeFollowsDecision'
        BY <1>2 DEF GatewayInv, DecisionInv, GatewayTypeOK, NodeFollowsDecision, RequestRow
    <2>3. ChangeSound'
        <3> SUFFICES ASSUME NEW g \in Handlers, handler'[g].step = "change"
                     PROVE  /\ request'[handler'[g].node].state = "approved"
                            /\ request'[handler'[g].node].payload.kind = "node"
            BY DEF ChangeSound, At
        <3>1. /\ handler'[g] = handler[g] /\ handler[g].node \in Requests
              /\ request[handler[g].node].state = "approved"
              /\ request[handler[g].node].payload.kind = "node"
            BY <1>6, RowForms
               DEF NoNewChange, GatewayInv, GatewayTypeOK, DecisionInv, ChangeSound, At
        <3> QED BY <1>2, <3>1 DEF GatewayInv, GatewayTypeOK
    <2> QED BY <2>1, <2>2, <2>3 DEF DecisionInv
<1> QED BY <1>5, <1>6, <1>7, <1>8, AccessSuffices

\* A suspension waits for the transfers of the user.
LEMMA UserChangeKeeps ==
    ASSUME NEW h \in Handlers, NEW u \in Users, NEW status \in {None, "active", "suspended"},
           NEW grants \in GrantLists \cup {None}, GatewayInv,
           UserChange(h, u, status, grants), UNCHANGED gatewayVars
    PROVE  GatewayInv'
<1>1. /\ ~UserLocked(u)
      /\ member' = [member EXCEPT ![u].status = IF status = None THEN @ ELSE status,
                                  ![u].grants = IF grants = None THEN @ ELSE grants]
      /\ handler' = [handler EXCEPT ![h] = Idle]
      /\ UNCHANGED <<request, node, revoked, calls>>
    BY DEF UserChange, Moved
<1>2. AccessTypes'
    <2>1. grants # None => grants \subseteq AllowedGrants
        BY AccessAssumption
    <2>2. \A row \in MemberRow, s \in {"active", "suspended"}, g \in SUBSET AllowedGrants :
            /\ [row EXCEPT !.status = s] \in MemberRow
            /\ [row EXCEPT !.grants = g] \in MemberRow
            /\ [row EXCEPT !.status = s, !.grants = g] \in MemberRow
        BY DEF MemberRow
    <2> DEFINE changed == [member[u] EXCEPT !.status = IF status = None THEN @ ELSE status,
                                            !.grants = IF grants = None THEN @ ELSE grants]
    <2>3. changed \in MemberRow
        <3>1. member[u] \in MemberRow
            BY DEF GatewayInv, GatewayTypeOK
        <3>2. CASE status = None /\ grants = None
            BY <3>1, <3>2 DEF MemberRow
        <3>3. CASE status # None /\ grants = None
            BY <3>1, <3>3 DEF MemberRow
        <3>4. CASE status = None /\ grants # None
            BY <2>1, <3>1, <3>4 DEF MemberRow
        <3>5. CASE status # None /\ grants # None
            BY <2>1, <2>2, <3>1, <3>5
        <3> QED BY <3>2, <3>3, <3>4, <3>5
    <2>4. member' = [member EXCEPT ![u] = changed]
        BY <1>1 DEF GatewayInv, GatewayTypeOK
    <2> HIDE DEF changed
    <2>5. member' \in [Users -> MemberRow]
        BY <2>3, <2>4 DEF GatewayInv, GatewayTypeOK
    <2> QED BY <1>1, <2>5, MoveForms DEF GatewayInv, GatewayTypeOK, AccessTypes
<1>3. NoNewChange /\ NoNewTransfer
    BY <1>1 DEF NoNewChange, NoNewTransfer, Idle, GatewayInv, GatewayTypeOK
<1>4. LocksRespected
    BY <1>1 DEF LocksRespected, gatewayVars, GatewayInv, GatewayTypeOK
<1>5. DecisionInv'
    BY <1>1, <1>3, DecisionKept
<1> QED BY <1>2, <1>3, <1>4, <1>5, AccessSuffices

\* change_node_status goes on only behind an approval.
LEMMA ReadNodeKeeps ==
    ASSUME NEW h \in Handlers, NEW r \in Requests,
           NEW want \in {"active", "paused", "revoked"}, GatewayInv,
           ReadNode(h, r, want), UNCHANGED gatewayVars
    PROVE  GatewayInv'
<1>1. handler[h].session \in Sessions
    BY RowForms DEF ReadNode, At, GatewayInv, GatewayTypeOK
<1> DEFINE row == Changing(handler[h].session, r, want)
<1>2. /\ handler' = [handler EXCEPT ![h] = row]
      /\ node[r] \notin {"absent", "pending", "rejected", "revoked"}
      /\ UNCHANGED <<member, request, node, revoked, calls>>
    BY DEF ReadNode, Moved
<1>3. row \in HandlerRow /\ row.step = "change" /\ row.node = r
    BY <1>1, MoveForms DEF Changing
<1> HIDE DEF row
<1>4. AccessTypes'
    BY <1>2, <1>3 DEF GatewayInv, GatewayTypeOK, AccessTypes
<1>5. NoNewTransfer
    BY <1>2, <1>3 DEF NoNewTransfer, GatewayInv, GatewayTypeOK
<1>6. LocksRespected
    BY <1>2 DEF LocksRespected, gatewayVars
<1>7. DecisionInv'
    <2>1. RequestSound' /\ NodeFollowsDecision'
        BY <1>2 DEF GatewayInv, DecisionInv, RequestSound, NodeFollowsDecision
    <2>2. request[r].state = "approved" /\ request[r].payload.kind = "node"
        BY <1>2 DEF GatewayInv, GatewayTypeOK, DecisionInv, NodeFollowsDecision, NodeStatus
    <2>3. ChangeSound'
        BY <1>2, <1>3, <2>2
           DEF GatewayInv, GatewayTypeOK, DecisionInv, ChangeSound, At
    <2> QED BY <2>1, <2>3 DEF DecisionInv
<1> QED BY <1>4, <1>5, <1>6, <1>7, AccessSuffices

\* ... and the write waits for the transfers of the node.
LEMMA WriteNodeKeeps ==
    ASSUME NEW h \in Handlers, GatewayInv, WriteNode(h), UNCHANGED gatewayVars
    PROVE  GatewayInv'
<1> DEFINE r == handler[h].node
           want == handler[h].want
<1>1. /\ handler[h].step = "change" /\ ~NodeLocked(r)
      /\ node' = [node EXCEPT ![r] = want]
      /\ handler' = [handler EXCEPT ![h] = Idle]
      /\ UNCHANGED <<member, request, revoked, calls>>
    BY DEF WriteNode, Moved, At
<1>2. r \in Requests /\ want \in {"active", "paused", "revoked"}
    BY <1>1, RowForms DEF GatewayInv, GatewayTypeOK
<1>3. request[r].state = "approved" /\ request[r].payload.kind = "node"
    BY <1>1 DEF GatewayInv, DecisionInv, ChangeSound, At
<1> HIDE DEF r, want
<1>4. AccessTypes'
    BY <1>1, <1>2, MoveForms DEF GatewayInv, GatewayTypeOK, AccessTypes, NodeStatus
<1>5. NoNewChange /\ NoNewTransfer
    BY <1>1 DEF NoNewChange, NoNewTransfer, Idle, GatewayInv, GatewayTypeOK
<1>6. LocksRespected
    BY <1>1, <1>2 DEF LocksRespected, gatewayVars, GatewayInv, GatewayTypeOK
<1>7. DecisionInv'
    <2>1. RequestSound'
        BY <1>1 DEF GatewayInv, DecisionInv, RequestSound
    <2>2. NodeFollowsDecision'
        BY <1>1, <1>2, <1>3 DEF GatewayInv, GatewayTypeOK, DecisionInv, NodeFollowsDecision
    <2>3. ChangeSound'
        BY <1>1, <1>5 DEF GatewayInv, DecisionInv, ChangeSound, NoNewChange, At
    <2> QED BY <2>1, <2>2, <2>3 DEF DecisionInv
<1> QED BY <1>4, <1>5, <1>6, <1>7, AccessSuffices

\* A logout waits for the transfers of its user.
LEMMA RevokeSessionKeeps ==
    ASSUME NEW h \in Handlers, GatewayInv, RevokeSession(h), UNCHANGED gatewayVars
    PROVE  GatewayInv'
<1>1. /\ handler[h].session \in Sessions
      /\ ~UserLocked(SessionOf[handler[h].session])
      /\ revoked' = revoked \cup {handler[h].session}
      /\ handler' = [handler EXCEPT ![h] = Idle]
      /\ UNCHANGED <<member, request, node, calls>>
    BY RowForms DEF RevokeSession, Moved, At, GatewayInv, GatewayTypeOK
<1>2. AccessTypes'
    BY <1>1, MoveForms DEF GatewayInv, GatewayTypeOK, AccessTypes
<1>3. NoNewChange /\ NoNewTransfer
    BY <1>1 DEF NoNewChange, NoNewTransfer, Idle, GatewayInv, GatewayTypeOK
<1>4. LocksRespected
    BY <1>1 DEF LocksRespected, gatewayVars
<1>5. DecisionInv'
    BY <1>1, <1>3, DecisionKept
<1> QED BY <1>2, <1>3, <1>4, <1>5, AccessSuffices

\* Every action of the control plane keeps the invariant.
LEMMA AccessKeeps == GatewayInv /\ AccessNext /\ UNCHANGED gatewayVars => GatewayInv'
<1> SUFFICES ASSUME GatewayInv, AccessNext, UNCHANGED gatewayVars PROVE GatewayInv'
    OBVIOUS
<1>1. ASSUME NEW u \in Users, BootstrapAdmin(u) PROVE GatewayInv'
    BY <1>1, BootstrapKeeps
<1>2. ASSUME NEW h \in Handlers, NEW s \in Sessions, SignIn(h, s) PROVE GatewayInv'
    BY <1>2, SignInKeeps
<1>3. ASSUME NEW h \in Handlers, NEW r \in Requests, DeviceIn(h, r) PROVE GatewayInv'
    BY <1>3, DeviceInKeeps
<1>4. ASSUME NEW h \in Handlers, Leave(h) PROVE GatewayInv'
    BY <1>4, LeaveKeeps
<1>5. ASSUME NEW h \in Handlers, NEW k \in Keys, NEW payload \in Payload,
             RequestAccess(h, k, payload)
      PROVE  GatewayInv'
    BY <1>5, RequestAccessKeeps
<1>6. ASSUME NEW h \in Handlers, NEW r \in Requests, NEW approve \in BOOLEAN,
             NEW grant \in Grants \cup {None}, Decide(h, r, approve, grant)
      PROVE  GatewayInv'
    BY <1>6, DecideKeeps
<1>7. ASSUME NEW h \in Handlers, NEW u \in Users, NEW status \in {None, "active", "suspended"},
             NEW grants \in GrantLists \cup {None}, UserChange(h, u, status, grants)
      PROVE  GatewayInv'
    BY <1>7, UserChangeKeeps
<1>8. ASSUME NEW h \in Handlers, NEW r \in Requests,
             NEW want \in {"active", "paused", "revoked"}, ReadNode(h, r, want)
      PROVE  GatewayInv'
    BY <1>8, ReadNodeKeeps
<1>9. ASSUME NEW h \in Handlers, WriteNode(h) PROVE GatewayInv'
    BY <1>9, WriteNodeKeeps
<1>10. ASSUME NEW h \in Handlers, RevokeSession(h) PROVE GatewayInv'
    BY <1>10, RevokeSessionKeeps
<1> QED BY <1>1, <1>2, <1>3, <1>4, <1>5, <1>6, <1>7, <1>8, <1>9, <1>10 DEF AccessNext

----------------------------------------------------------------------------
(* The actions of the gateway.                                             *)

GatewayTypes ==
    /\ turn \in Turn
    /\ submitted \in BOOLEAN
    /\ stored \subseteq ObjectKeys
    /\ receipt \subseteq ObjectKeys
    /\ output \in Output \cup {None}
    /\ cut \in 0..MaxRetries

Settles(h) ==
    /\ handler' = [handler EXCEPT ![h] = Idle]
    /\ UNCHANGED <<member, request, node, revoked, calls>>

\* A gateway action that ends its request keeps the invariant if it waits for
\* the transfers and keeps the committed result backed.
LEMMA SettledSuffices ==
    ASSUME NEW h \in Handlers, GatewayInv, Settles(h), GatewayTypes', CommitBacked',
           TaskLocked => /\ turn'.state = turn.state
                         /\ turn'.holder = turn.holder
                         /\ turn'.attempt = turn.attempt,
           stored \subseteq stored'
    PROVE  GatewayInv'
<1>1. GatewayTypeOK'
    BY MoveForms DEF Settles, GatewayTypes, GatewayInv, GatewayTypeOK
<1>2. NoNewChange /\ NoNewTransfer
    BY DEF Settles, NoNewChange, NoNewTransfer, Idle, GatewayInv, GatewayTypeOK
<1>3. LocksRespected
    BY DEF LocksRespected, Settles
<1>4. DecisionInv'
    BY <1>2, DecisionKept DEF Settles
<1>5. TransferInv'
    BY <1>2, <1>3, TransfersKept
<1> QED BY <1>1, <1>4, <1>5 DEF GatewayInv

\* A transfer begins authorised.
LEMMA BeginTransferKeeps ==
    ASSUME NEW h \in Handlers, NEW t \in Transfer, GatewayInv, BeginTransfer(h, t)
    PROVE  GatewayInv'
<1>1. /\ Authorised(t) /\ InScope(t)
      /\ handler' = [handler EXCEPT ![h] = t]
      /\ UNCHANGED <<member, request, node, revoked, calls, gatewayVars>>
    BY DEF BeginTransfer, Moved
<1>2. t \in HandlerRow /\ t.step = "writing"
    BY MoveForms, TransferForms
<1>3. GatewayTypeOK'
    BY <1>1, <1>2 DEF GatewayInv, GatewayTypeOK, gatewayVars
<1>4. NoNewChange
    BY <1>1, <1>2 DEF NoNewChange, GatewayInv, GatewayTypeOK
<1>5. DecisionInv'
    BY <1>1, <1>4, DecisionKept
<1>6. TransferInv'
    <2>1. Written'
        BY <1>1, <1>2 DEF Written, At, gatewayVars, GatewayInv, TransferInv, GatewayTypeOK
    <2>2. ASSUME NEW g \in Transferring'
          PROVE  /\ Authorised(handler[g])'
                 /\ (handler[g].node # None =>
                        /\ turn.holder = handler[g].node
                        /\ turn.attempt = handler[g].key.attempt
                        /\ turn.state = "running")'
        <3>1. CASE g = h
            <4>1. handler'[g] = t
                BY <3>1, <1>1 DEF GatewayInv, GatewayTypeOK
            <4>2. Authorised(handler[g])'
                BY <4>1, <1>1 DEF Authorised, NodeAuthorised, UserAuthorised, gatewayVars
            <4> QED BY <4>1, <4>2, <1>1 DEF InScope, Holding, gatewayVars
        <3>2. CASE g # h
            <4>1. handler'[g] = handler[g] /\ g \in Transferring
                BY <3>2, <1>1, <2>2 DEF GatewayInv, GatewayTypeOK, Transferring
            <4>2. /\ Authorised(handler[g])
                  /\ handler[g].node # None =>
                        /\ turn.holder = handler[g].node
                        /\ turn.attempt = handler[g].key.attempt
                        /\ turn.state = "running"
                BY <4>1 DEF GatewayInv, TransferInv, TransferAuthorised
            <4> QED BY <4>1, <4>2, <1>1
                    DEF Authorised, NodeAuthorised, UserAuthorised, gatewayVars
        <3> QED BY <3>1, <3>2
    <2> QED BY <2>1, <2>2 DEF TransferInv, TransferAuthorised
<1>7. CommitBacked'
    BY <1>1, CommitKept DEF GatewayInv, gatewayVars
<1> QED BY <1>3, <1>5, <1>6, <1>7 DEF GatewayInv

\* The bytes are in the bucket before the second check.
LEMMA StoreKeeps ==
    ASSUME NEW h \in Handlers, GatewayInv, Store(h) PROVE GatewayInv'
<1> DEFINE t == handler[h]
           row == [t EXCEPT !.step = "written"]
<1>1. /\ t.step = "writing"
      /\ stored' = stored \cup {t.key}
      /\ handler' = [handler EXCEPT ![h] = row]
      /\ UNCHANGED <<member, request, node, revoked, calls, turn, submitted, receipt, output, cut>>
    BY DEF Store, Moved, At
<1>2. t \in HandlerRow
    BY DEF GatewayInv, GatewayTypeOK
<1>3. /\ row \in HandlerRow /\ t.key \in ObjectKeys
      /\ UserTransfer(t) \/ NodeTransfer(t)
    BY <1>1, <1>2, RowForms DEF UserTransfer, NodeTransfer
<1>4. /\ row.step = "written" /\ row.key = t.key /\ row.node = t.node
      /\ row.user = t.user /\ row.session = t.session
    BY <1>1, <1>2
       DEF HandlerRow, Transfer, ByUser, ByNode, Idle, SignedIn, Changing, OnDevice
<1>5. GatewayTypeOK'
    BY <1>1, <1>3 DEF GatewayInv, GatewayTypeOK
<1>6. handler'[h] = row /\ \A g \in Handlers : g # h => handler'[g] = handler[g]
    BY <1>1 DEF GatewayInv, GatewayTypeOK
<1> HIDE DEF row
<1>7. NoNewChange
    BY <1>4, <1>6 DEF NoNewChange
<1>8. DecisionInv'
    BY <1>1, <1>7, DecisionKept
<1>9. TransferInv'
    <2>1. Written'
        BY <1>1, <1>4, <1>6 DEF Written, At, GatewayInv, TransferInv
    <2>2. ASSUME NEW g \in Transferring'
          PROVE  /\ Authorised(handler[g])'
                 /\ (handler[g].node # None =>
                        /\ turn.holder = handler[g].node
                        /\ turn.attempt = handler[g].key.attempt
                        /\ turn.state = "running")'
        <3>1. /\ g \in Transferring
              /\ handler'[g].node = handler[g].node /\ handler'[g].key = handler[g].key
              /\ handler'[g].session = handler[g].session
            BY <1>1, <1>4, <1>6, <2>2 DEF Transferring
        <3>2. /\ Authorised(handler[g])
              /\ handler[g].node # None =>
                    /\ turn.holder = handler[g].node
                    /\ turn.attempt = handler[g].key.attempt
                    /\ turn.state = "running"
            BY <3>1 DEF GatewayInv, TransferInv, TransferAuthorised
        <3> QED BY <1>1, <3>1, <3>2 DEF Authorised, NodeAuthorised, UserAuthorised
    <2> QED BY <2>1, <2>2 DEF TransferInv, TransferAuthorised
<1>10. CommitBacked'
    BY <1>1 DEF GatewayInv, CommitBacked
<1> QED BY <1>5, <1>8, <1>9, <1>10 DEF GatewayInv

\* An upload that is cut off leaves an object without a receipt.
LEMMA StoreCutKeeps ==
    ASSUME NEW h \in Handlers, GatewayInv, StoreCut(h) PROVE GatewayInv'
<1>1. handler[h].key \in ObjectKeys
    BY RowForms DEF StoreCut, At, GatewayInv, GatewayTypeOK, UserTransfer, NodeTransfer
<1>2. GatewayTypes'
    BY <1>1, GatewayAssumption DEF StoreCut, GatewayInv, GatewayTypeOK, GatewayTypes
<1>3. CommitBacked'
    BY DEF StoreCut, GatewayInv, CommitBacked
<1>4. Settles(h) /\ turn' = turn /\ stored \subseteq stored'
    BY DEF StoreCut, Settles, Moved
<1> QED BY <1>2, <1>3, <1>4, SettledSuffices

\* A receipt is for an object that is stored.
LEMMA RecordReceiptKeeps ==
    ASSUME NEW h \in Handlers, GatewayInv, RecordReceipt(h) PROVE GatewayInv'
<1>1. handler[h].key \in stored
    BY DEF RecordReceipt, GatewayInv, TransferInv, Written
<1>2. GatewayTypes'
    BY <1>1 DEF RecordReceipt, GatewayInv, GatewayTypeOK, GatewayTypes
<1>3. CommitBacked'
    BY <1>1 DEF RecordReceipt, GatewayInv, CommitBacked
<1>4. Settles(h) /\ turn' = turn /\ stored' = stored
    BY DEF RecordReceipt, Settles, Moved
<1> QED BY <1>2, <1>3, <1>4, SettledSuffices

\* A submission touches neither the task's rows nor the bucket.
LEMMA SubmitKeeps ==
    ASSUME NEW h \in Handlers, GatewayInv, Submit(h) PROVE GatewayInv'
<1>1. GatewayTypes'
    BY DEF Submit, GatewayInv, GatewayTypeOK, GatewayTypes
<1>2. CommitBacked'
    BY CommitKept DEF Submit, GatewayInv
<1>3. Settles(h) /\ turn' = turn /\ stored' = stored
    BY DEF Submit, Settles, Moved
<1> QED BY <1>1, <1>2, <1>3, SettledSuffices

\* A claim takes a task without a result, and skips one that a transfer shares.
LEMMA ClaimKeeps ==
    ASSUME NEW h \in Handlers, GatewayInv, Claim(h) PROVE GatewayInv'
<1> DEFINE r == handler[h].node
<1>1. r \in Requests
    BY RowForms DEF Claim, At, GatewayInv, GatewayTypeOK
<1> HIDE DEF r
<1>2. /\ turn.state \in {"queued", "running"} /\ turn.attempt < MaxTurns /\ ~TaskLocked
      /\ turn' = [state |-> "running", attempt |-> turn.attempt + 1, holder |-> r, live |-> TRUE]
      /\ UNCHANGED <<submitted, stored, receipt, output, cut>>
    BY DEF Claim, r
<1>3. GatewayTypes'
    <2>1. turn' \in Turn
        BY <1>1, <1>2, GatewayAssumption DEF GatewayInv, GatewayTypeOK, Turn
    <2> QED BY <1>2, <2>1 DEF GatewayInv, GatewayTypeOK, GatewayTypes
<1>4. CommitBacked'
    BY <1>2 DEF GatewayInv, CommitBacked
<1>5. Settles(h)
    BY DEF Claim, Settles, Moved
<1> QED BY <1>2, <1>3, <1>4, <1>5, SettledSuffices

\* A finish names verified files of the attempt that is held.
LEMMA FinishKeeps ==
    ASSUME NEW h \in Handlers, NEW k \in 1..MaxTurns, NEW files \in Manifests,
           GatewayInv, Finish(h, k, files)
    PROVE  GatewayInv'
<1> DEFINE r == handler[h].node
<1>1. r \in Requests
    BY RowForms DEF Finish, At, GatewayInv, GatewayTypeOK
<1> HIDE DEF r
<1>2. /\ turn.holder = r /\ turn.attempt = k /\ ~TaskLocked
      /\ \A f \in files : OutputKey(r, k, f) \in receipt
      /\ turn' = [turn EXCEPT !.state = "done", !.live = FALSE]
      /\ output' = [attempt |-> k, worker |-> r, files |-> files]
      /\ UNCHANGED <<submitted, stored, receipt, cut>>
    BY DEF Finish, Holding, r
<1>3. output' \in Output /\ output' # None
    BY <1>1, <1>2, GatewayAssumption DEF Output
<1>4. turn' \in Turn /\ turn'.state = "done" /\ turn'.attempt = k /\ turn'.holder = r
    BY <1>2 DEF GatewayInv, GatewayTypeOK, Turn
<1>5. GatewayTypes'
    BY <1>2, <1>3, <1>4 DEF GatewayInv, GatewayTypeOK, GatewayTypes
<1>6. CommitBacked'
    BY <1>2, <1>3, <1>4 DEF GatewayInv, CommitBacked
<1>7. Settles(h)
    BY DEF Finish, Settles, Moved
<1> QED BY <1>2, <1>5, <1>6, <1>7, SettledSuffices

\* A cancellation waits for the transfer, and finds no result.
LEMMA CancelKeeps ==
    ASSUME NEW h \in Handlers, GatewayInv, Cancel(h) PROVE GatewayInv'
<1>1. /\ turn.state \in {"queued", "running"} /\ ~TaskLocked
      /\ turn' = [turn EXCEPT !.state = "closed", !.live = FALSE]
      /\ UNCHANGED <<submitted, stored, receipt, output, cut>>
    BY DEF Cancel
<1>2. turn' \in Turn /\ turn'.state = "closed"
    BY <1>1 DEF GatewayInv, GatewayTypeOK, Turn
<1>3. GatewayTypes'
    BY <1>1, <1>2 DEF GatewayInv, GatewayTypeOK, GatewayTypes
<1>4. CommitBacked'
    BY <1>1, <1>2 DEF GatewayInv, CommitBacked
<1>5. Settles(h)
    BY DEF Cancel, Settles, Moved
<1> QED BY <1>1, <1>3, <1>4, <1>5, SettledSuffices

\* Time ends a lease, and nothing that the invariant speaks of.
LEMMA LapseKeeps == GatewayInv /\ Lapse => GatewayInv'
<1> SUFFICES ASSUME GatewayInv, Lapse PROVE GatewayInv'
    OBVIOUS
<1>1. /\ turn' = [turn EXCEPT !.live = FALSE]
      /\ UNCHANGED <<member, request, node, revoked, handler, calls>>
      /\ UNCHANGED <<submitted, stored, receipt, output, cut>>
    BY DEF Lapse, accessVars
<1>2. /\ turn' \in Turn /\ turn'.state = turn.state
      /\ turn'.holder = turn.holder /\ turn'.attempt = turn.attempt
    BY <1>1 DEF GatewayInv, GatewayTypeOK, Turn
<1>3. GatewayTypeOK'
    BY <1>1, <1>2 DEF GatewayInv, GatewayTypeOK
<1>4. NoNewChange /\ NoNewTransfer
    BY <1>1 DEF NoNewChange, NoNewTransfer
<1>5. LocksRespected
    BY <1>1, <1>2 DEF LocksRespected
<1>6. DecisionInv' /\ TransferInv'
    BY <1>1, <1>4, <1>5, DecisionKept, TransfersKept
<1>7. CommitBacked'
    BY <1>1, <1>2 DEF GatewayInv, CommitBacked
<1> QED BY <1>3, <1>6, <1>7 DEF GatewayInv

----------------------------------------------------------------------------
(* The theorems.                                                           *)

\* The invariant holds of an empty farm and of one with an approved device.
LEMMA GatewayInvInit == GatewayInit => GatewayInv
<1> SUFFICES ASSUME GatewayInit PROVE GatewayInv
    OBVIOUS
<1> USE AccessAssumption, GatewayAssumption
<1>1. /\ handler = [h \in Handlers |-> Idle] /\ calls = 0 /\ revoked = {}
      /\ turn = [state |-> "queued", attempt |-> 0, holder |-> None, live |-> FALSE]
      /\ submitted = FALSE /\ stored = {} /\ receipt = {} /\ output = None /\ cut = 0
    BY DEF GatewayInit, AccessInit
<1>2. /\ member \in [Users -> MemberRow]
      /\ request \in [Requests -> RequestRow]
      /\ node \in [Requests -> NodeStatus]
      /\ RequestSound /\ NodeFollowsDecision
    <2>1. CASE NewFarm
        <3>1. member \in [Users -> MemberRow]
            BY <2>1 DEF NewFarm, MemberRow
        <3>2. request \in [Requests -> RequestRow] /\ node \in [Requests -> NodeStatus]
            BY <2>1 DEF NewFarm, RequestRow, NodeStatus
        <3> QED BY <2>1, <3>1, <3>2 DEF NewFarm, RequestSound, NodeFollowsDecision
    <2>2. CASE \E boss \in {SessionOf[s] : s \in Strong}, device \in Requests,
                  key \in PublicKeys : RunningFarm(boss, device, key)
        <3>1. PICK boss \in {SessionOf[s] : s \in Strong}, device \in Requests,
                   key \in PublicKeys : RunningFarm(boss, device, key)
            BY <2>2
        <3>2. member \in [Users -> MemberRow]
            BY <3>1 DEF RunningFarm, MemberRow, AllowedGrants
        <3>3. [kind |-> "node", wants |-> key] \in Payload
            BY DEF Payload
        <3>4. request \in [Requests -> RequestRow]
            BY <3>1, <3>3 DEF RunningFarm, RequestRow
        <3>5. node \in [Requests -> NodeStatus]
            BY <3>1 DEF RunningFarm, NodeStatus
        <3>6. RequestSound
            BY <3>1, <3>3 DEF RunningFarm, RequestSound
        <3>7. NodeFollowsDecision
            BY <3>1 DEF RunningFarm, NodeFollowsDecision
        <3> QED BY <3>2, <3>4, <3>5, <3>6, <3>7
    <2> QED BY <2>1, <2>2 DEF GatewayInit, AccessInit
<1>3. GatewayTypeOK
    <2>1. turn \in Turn
        BY <1>1 DEF Turn
    <2>2. handler \in [Handlers -> HandlerRow]
        BY <1>1, MoveForms
    <2>3. calls \in 0..MaxCalls /\ cut \in 0..MaxRetries
        BY <1>1
    <2>4. /\ submitted \in BOOLEAN /\ revoked \subseteq Sessions
          /\ stored \subseteq ObjectKeys /\ receipt \subseteq ObjectKeys
          /\ output \in Output \cup {None}
        BY <1>1
    <2> QED BY <1>2, <2>1, <2>2, <2>3, <2>4 DEF GatewayTypeOK
<1>4. DecisionInv /\ TransferInv
    BY <1>1, <1>2 DEF DecisionInv, TransferInv, ChangeSound, Written, TransferAuthorised,
                      Transferring, At, Idle
<1>5. CommitBacked
    BY <1>1 DEF CommitBacked
<1> QED BY <1>3, <1>4, <1>5 DEF GatewayInv

\* Every reachable state satisfies the invariant.
THEOREM GatewayInvariant == GatewaySpec => []GatewayInv
<1>1. GatewayInv /\ [GatewayNext]_allVars => GatewayInv'
    <2> SUFFICES ASSUME GatewayInv, [GatewayNext]_allVars PROVE GatewayInv'
        OBVIOUS
    <2>1. CASE AccessNext /\ UNCHANGED gatewayVars
        BY <2>1, AccessKeeps
    <2>2. ASSUME NEW h \in Handlers, NEW t \in Transfer, BeginTransfer(h, t) PROVE GatewayInv'
        BY <2>2, BeginTransferKeeps
    <2>3. ASSUME NEW h \in Handlers, Store(h) PROVE GatewayInv'
        BY <2>3, StoreKeeps
    <2>4. ASSUME NEW h \in Handlers, StoreCut(h) PROVE GatewayInv'
        BY <2>4, StoreCutKeeps
    <2>5. ASSUME NEW h \in Handlers, RecordReceipt(h) PROVE GatewayInv'
        BY <2>5, RecordReceiptKeeps
    <2>6. ASSUME NEW h \in Handlers, Submit(h) PROVE GatewayInv'
        BY <2>6, SubmitKeeps
    <2>7. ASSUME NEW h \in Handlers, Claim(h) PROVE GatewayInv'
        BY <2>7, ClaimKeeps
    <2>8. ASSUME NEW h \in Handlers, NEW k \in 1..MaxTurns, NEW files \in Manifests,
                 Finish(h, k, files)
          PROVE  GatewayInv'
        BY <2>8, FinishKeeps
    <2>9. ASSUME NEW h \in Handlers, Cancel(h) PROVE GatewayInv'
        BY <2>9, CancelKeeps
    <2>10. CASE Lapse
        BY <2>10, LapseKeeps
    <2>11. CASE UNCHANGED allVars
        <3>1. /\ UNCHANGED <<member, request, node, revoked, handler, calls>>
              /\ UNCHANGED <<turn, submitted, stored, receipt, output, cut>>
            BY <2>11 DEF allVars, accessVars, gatewayVars
        <3>2. GatewayTypeOK'
            BY <3>1 DEF GatewayInv, GatewayTypeOK
        <3>3. NoNewChange /\ NoNewTransfer /\ LocksRespected
            BY <3>1 DEF NoNewChange, NoNewTransfer, LocksRespected
        <3> QED BY <3>1, <3>2, <3>3, DecisionKept, TransfersKept, CommitKept DEF GatewayInv
    <2> QED BY <2>1, <2>2, <2>3, <2>4, <2>5, <2>6, <2>7, <2>8, <2>9, <2>10, <2>11
            DEF GatewayNext
<1> QED BY <1>1, GatewayInvInit, PTL DEF GatewaySpec

\* Requests, statuses, handlers, the task, the bucket and the receipts keep
\* their shapes.
THEOREM GatewayTypeCorrect == GatewaySpec => []GatewayTypeOK
<1>1. GatewayInv => GatewayTypeOK
    BY DEF GatewayInv
<1> QED BY <1>1, GatewayInvariant, PTL

\* A node takes part as its join request was decided, however its owner and the
\* administrators race with the two transactions of change_node_status.
THEOREM NodesFollowDecisions == GatewaySpec => []NodeFollowsDecision
<1>1. GatewayInv => NodeFollowsDecision
    BY DEF GatewayInv, DecisionInv
<1> QED BY <1>1, GatewayInvariant, PTL

\* The share locks of CentralBridge.upload order every suspension, revocation,
\* logout and takeover before or after a transfer.
THEOREM TransfersStayAuthorised == GatewaySpec => []TransferAuthorised
<1>1. GatewayInv => TransferAuthorised
    BY DEF GatewayInv, TransferInv
<1> QED BY <1>1, GatewayInvariant, PTL

\* A committed manifest names verified uploads of the attempt that committed it,
\* all of them in the bucket.
THEOREM CommitsAreBacked == GatewaySpec => []CommitBacked
<1>1. GatewayInv => CommitBacked
    BY DEF GatewayInv
<1> QED BY <1>1, GatewayInvariant, PTL

\* A node that is revoked stays revoked once no request is left that had read
\* its status before.
THEOREM RevocationsSettle == GatewaySpec => RevocationSettles
<1>1. GatewayInv /\ [GatewayNext]_allVars =>
        [\A r \in Requests : BehindRevocation(r) => node'[r] = "revoked"]_accessVars
    <2> SUFFICES ASSUME GatewayInv, [GatewayNext]_allVars,
                        NEW r \in Requests, BehindRevocation(r)
                 PROVE  node'[r] = "revoked"
        OBVIOUS
    <2>1. node[r] = "revoked" /\ request[r].state = "approved"
        BY DEF BehindRevocation, GatewayInv, DecisionInv, NodeFollowsDecision
    <2>2. CASE UNCHANGED node
        BY <2>1, <2>2
    <2>3. ASSUME NEW h \in Handlers, NEW k \in Keys, NEW payload \in Payload,
                 RequestAccess(h, k, payload)
          PROVE  node'[r] = "revoked"
        BY <2>1, <2>3 DEF RequestAccess, GatewayInv, GatewayTypeOK
    <2>4. ASSUME NEW h \in Handlers, NEW q \in Requests, NEW approve \in BOOLEAN,
                 NEW grant \in Grants \cup {None}, Decide(h, q, approve, grant)
          PROVE  node'[r] = "revoked"
        BY <2>1, <2>4 DEF Decide, GatewayInv, GatewayTypeOK
    <2>5. ASSUME NEW h \in Handlers, WriteNode(h) PROVE node'[r] = "revoked"
        BY <2>1, <2>5 DEF WriteNode, BehindRevocation, At, GatewayInv, GatewayTypeOK
    <2>6. GatewayNext => \/ UNCHANGED node
                         \/ \E h \in Handlers, k \in Keys, payload \in Payload :
                               RequestAccess(h, k, payload)
                         \/ \E h \in Handlers, q \in Requests, approve \in BOOLEAN,
                               grant \in Grants \cup {None} : Decide(h, q, approve, grant)
                         \/ \E h \in Handlers : WriteNode(h)
        BY DEF GatewayNext, AccessNext, BootstrapAdmin, SignIn, DeviceIn, Leave, UserChange,
               ReadNode, RevokeSession, BeginTransfer, Store, StoreCut, RecordReceipt,
               Submit, Claim, Finish, Cancel, Lapse, accessVars
    <2> QED BY <2>2, <2>3, <2>4, <2>5, <2>6 DEF allVars, accessVars
<1> QED BY <1>1, GatewayInvariant, PTL DEF GatewaySpec, RevocationSettles

\* No repeated finish replaces a committed manifest.
THEOREM CommitsAreImmutable == GatewaySpec => CommitImmutable
<1>1. GatewayInv /\ [GatewayNext]_allVars => [output # None => output' = output]_allVars
    <2> SUFFICES ASSUME GatewayInv, GatewayNext, output # None PROVE output' = output
        OBVIOUS
    <2>1. turn.state = "done"
        BY DEF GatewayInv, CommitBacked
    <2>2. ASSUME NEW h \in Handlers, NEW k \in 1..MaxTurns, NEW files \in Manifests,
                 Finish(h, k, files)
          PROVE  output' = output
        BY <2>1, <2>2 DEF Finish, Holding
    <2>3. \/ output' = output
          \/ \E h \in Handlers, k \in 1..MaxTurns, files \in Manifests : Finish(h, k, files)
        BY DEF GatewayNext, BeginTransfer, Store, StoreCut, RecordReceipt,
               Submit, Claim, Cancel, Lapse, gatewayVars
    <2> QED BY <2>2, <2>3
<1> QED BY <1>1, GatewayInvariant, PTL DEF GatewaySpec, CommitImmutable
=============================================================================
