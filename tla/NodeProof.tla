----------------------------- MODULE NodeProof -----------------------------
(***************************************************************************)
(* The signed requests of one node and the nonces the server remembers:    *)
(* sign_headers, verify_headers and device_any.  A captured request may be *)
(* sent again at any time.  The signature is checked first, the nonce is   *)
(* recorded later, in a transaction of its own, so a slow request reaches  *)
(* the table up to MaxWait after it was verified.  Clocks of nodes differ  *)
(* from the server's by at most MaxSkew.                                   *)
(***************************************************************************)
EXTENDS Integers

CONSTANTS
    Proofs,         \* nonces, one per request that was signed
    Tolerance,      \* 180 s in the code
    Retention,      \* 600 s in the code
    MaxWait,        \* bound: from the verification to the transaction
    MaxSkew,        \* bound: a node's clock against the server's
    MaxNow          \* bound: the server's clock

ASSUME ProofAssumption ==
    /\ Tolerance \in Nat /\ Retention \in Nat
    /\ MaxWait \in Nat /\ MaxSkew \in Nat /\ MaxNow \in Nat
    /\ 2 * Tolerance + MaxWait <= Retention

VARIABLES
    clock,          \* the server's time
    signed,         \* proof -> the time stamp it carries
    verified,       \* <<proof, time>> of requests between check and transaction
    nonces,         \* proof -> created_at of its row, for the rows kept
    accepted        \* history: how often each proof let a request in

proofVars == <<clock, signed, verified, nonces, accepted>>

NeverSigned == -1 - MaxSkew
NoRow == -1

ProofInit ==
    /\ clock = 0
    /\ signed = [p \in Proofs |-> NeverSigned]
    /\ verified = {}
    /\ nonces = [p \in Proofs |-> NoRow]
    /\ accepted = [p \in Proofs |-> 0]

\* A request waits for the transaction no longer than MaxWait.
ProofTick ==
    /\ clock < MaxNow
    /\ \A v \in verified : clock < v[2] + MaxWait
    /\ clock' = clock + 1
    /\ UNCHANGED <<signed, verified, nonces, accepted>>

SignHeaders(p) ==
    /\ signed[p] = NeverSigned
    /\ \E skew \in -MaxSkew..MaxSkew : signed' = [signed EXCEPT ![p] = clock + skew]
    /\ UNCHANGED <<clock, verified, nonces, accepted>>

VerifyHeaders(p) ==
    /\ signed[p] # NeverSigned
    /\ clock - signed[p] <= Tolerance
    /\ signed[p] - clock <= Tolerance
    /\ verified' = verified \cup {<<p, clock>>}
    /\ UNCHANGED <<clock, signed, nonces, accepted>>

\* Old rows go first; the unique key then refuses a nonce that is still there.
KeptNonces(retention) ==
    [p \in Proofs |-> IF nonces[p] < clock - retention THEN NoRow ELSE nonces[p]]
Remember(retention) == \E v \in verified :
    /\ verified' = verified \ {v}
    /\ IF KeptNonces(retention)[v[1]] = NoRow
       THEN /\ nonces' = [KeptNonces(retention) EXCEPT ![v[1]] = clock]
            /\ accepted' = [accepted EXCEPT ![v[1]] = @ + 1]
       ELSE UNCHANGED <<nonces, accepted>>
    /\ UNCHANGED <<clock, signed>>

RecordWithin == Remember(Tolerance)
RecordNonce == Remember(Retention)

ProofNext ==
    \/ ProofTick \/ RecordNonce
    \/ \E p \in Proofs : SignHeaders(p) \/ VerifyHeaders(p)

ProofSpec == ProofInit /\ [][ProofNext]_proofVars

\* A signed request lets its sender in at most once, however late it is recorded
\* and however often it is sent again while its time stamp is still tolerated:
\* the nonce is remembered for longer than the stamp is.
ProofOnce == \A p \in Proofs : accepted[p] <= 1
=============================================================================
