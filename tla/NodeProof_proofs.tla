-------------------------- MODULE NodeProof_proofs --------------------------
(***************************************************************************)
(* A signed request lets its sender in at most once: for every number of   *)
(* requests, every skew, and every tolerance, wait and retention that      *)
(* ProofAssumption relates.                                                *)
(***************************************************************************)
EXTENDS NodeProof, TLAPS

ProofTypes ==
    /\ clock \in Int
    /\ signed \in [Proofs -> Int]
    /\ verified \subseteq Proofs \X Int
    /\ nonces \in [Proofs -> Int]
    /\ accepted \in [Proofs -> Nat]

\* A request that waits for the transaction was verified a short while ago,
\* when the time stamp of its proof was tolerated.
WaitingSound == \A v \in verified :
    /\ signed[v[1]] # NeverSigned
    /\ v[2] - signed[v[1]] <= Tolerance
    /\ signed[v[1]] - v[2] <= Tolerance
    /\ v[2] <= clock
    /\ clock <= v[2] + MaxWait

\* No request with this proof can reach the transaction any more.
Expired(p) == clock > signed[p] + Tolerance + MaxWait

\* A proof that let a request in is remembered, or has expired.
UsedSound == \A p \in Proofs :
    \/ accepted[p] = 0
    \/ /\ accepted[p] = 1
       /\ signed[p] # NeverSigned
       /\ \/ Expired(p)
          \/ nonces[p] >= 0 /\ nonces[p] >= signed[p] - Tolerance

ServerClock == clock >= 0

ProofInv == ProofTypes /\ ServerClock /\ WaitingSound /\ UsedSound

\* The invariant holds at the start: nothing is signed, waiting or used.
LEMMA ProofInvInit == ProofInit => ProofInv
BY ProofAssumption
   DEF ProofInit, ProofInv, ProofTypes, ServerClock, WaitingSound, UsedSound,
       NeverSigned, NoRow

\* Time does not pass beyond the wait of a verified request.
LEMMA TickKeeps == ProofInv /\ ProofTick => ProofInv'
<1> SUFFICES ASSUME ProofInv, ProofTick PROVE ProofInv'
    OBVIOUS
<1> USE ProofAssumption DEF ProofInv, ProofTick, NeverSigned
<1>1. ProofTypes' /\ ServerClock'
    BY DEF ProofTypes, ServerClock
<1>2. WaitingSound'
    <2> SUFFICES ASSUME NEW v \in verified
                 PROVE  /\ signed[v[1]] # NeverSigned
                        /\ v[2] - signed[v[1]] <= Tolerance
                        /\ signed[v[1]] - v[2] <= Tolerance
                        /\ v[2] <= clock + 1
                        /\ clock + 1 <= v[2] + MaxWait
        BY DEF WaitingSound
    <2>1. v[1] \in Proofs /\ v[2] \in Int /\ signed[v[1]] \in Int /\ clock \in Int
        BY DEF ProofTypes
    <2> QED BY <2>1 DEF WaitingSound
<1>3. UsedSound'
    BY DEF ProofTypes, UsedSound, Expired
<1> QED BY <1>1, <1>2, <1>3

\* Only a proof that nobody used or verified yet gets its time stamp.
LEMMA SignKeeps ==
    ASSUME NEW p \in Proofs, ProofInv, SignHeaders(p) PROVE ProofInv'
<1> USE ProofAssumption DEF ProofInv, SignHeaders
<1>1. PICK skew \in -MaxSkew..MaxSkew : signed' = [signed EXCEPT ![p] = clock + skew]
    OBVIOUS
<1>2. ProofTypes' /\ ServerClock'
    BY <1>1 DEF ProofTypes, ServerClock
<1>3. \A q \in Proofs : q # p => signed'[q] = signed[q]
    BY <1>1 DEF ProofTypes
<1>4. WaitingSound'
    <2>1. \A v \in verified : v[1] \in Proofs /\ v[1] # p
        BY DEF WaitingSound, ProofTypes
    <2> QED BY <1>3, <2>1 DEF WaitingSound, NeverSigned
<1>5. UsedSound'
    <2>1. accepted[p] = 0
        BY DEF UsedSound
    <2> QED BY <1>3, <2>1 DEF UsedSound, Expired, NeverSigned
<1> QED BY <1>2, <1>4, <1>5

\* What verify_headers lets through is as WaitingSound says.
LEMMA VerifyKeeps ==
    ASSUME NEW p \in Proofs, ProofInv, VerifyHeaders(p) PROVE ProofInv'
<1> USE ProofAssumption DEF ProofInv, VerifyHeaders
<1>1. ProofTypes' /\ ServerClock'
    BY DEF ProofTypes, ServerClock
<1>2. WaitingSound'
    <2> SUFFICES ASSUME NEW v \in verified'
                 PROVE  /\ signed[v[1]] # NeverSigned
                        /\ v[2] - signed[v[1]] <= Tolerance
                        /\ signed[v[1]] - v[2] <= Tolerance
                        /\ v[2] <= clock
                        /\ clock <= v[2] + MaxWait
        BY DEF WaitingSound, NeverSigned
    <2>1. CASE v \in verified
        BY <2>1 DEF WaitingSound
    <2>2. CASE v = <<p, clock>>
        BY <2>2 DEF ProofTypes
    <2> QED BY <2>1, <2>2
<1>3. UsedSound'
    BY DEF UsedSound, Expired, NeverSigned
<1> QED BY <1>1, <1>2, <1>3

\* A proof whose row is gone has expired, so it is not the one recorded: the
\* nonce table outlives every stamp that is still tolerated.
LEMMA RecordKeeps == ProofInv /\ RecordNonce => ProofInv'
<1> SUFFICES ASSUME ProofInv, RecordNonce PROVE ProofInv'
    OBVIOUS
<1> USE ProofAssumption DEF ProofInv
<1> DEFINE Kept == KeptNonces(Retention)
<1>1. PICK v \in verified :
        /\ verified' = verified \ {v}
        /\ IF Kept[v[1]] = NoRow
           THEN /\ nonces' = [Kept EXCEPT ![v[1]] = clock]
                /\ accepted' = [accepted EXCEPT ![v[1]] = @ + 1]
           ELSE UNCHANGED <<nonces, accepted>>
        /\ UNCHANGED <<clock, signed>>
    BY DEF RecordNonce, Remember
<1>2. v[1] \in Proofs /\ v[2] \in Int
    BY DEF ProofTypes
<1>3. WaitingSound'
    BY <1>1 DEF WaitingSound, NeverSigned
<1>4. CASE Kept[v[1]] # NoRow
    BY <1>1, <1>3, <1>4 DEF ProofTypes, ServerClock, UsedSound, Expired, NeverSigned
<1>5. CASE Kept[v[1]] = NoRow
    <2>1. /\ nonces' = [Kept EXCEPT ![v[1]] = clock]
          /\ accepted' = [accepted EXCEPT ![v[1]] = @ + 1]
          /\ clock' = clock /\ signed' = signed /\ verified' = verified \ {v}
        BY <1>1, <1>5
    <2>2. Kept \in [Proofs -> Int]
        BY DEF KeptNonces, ProofTypes, NoRow
    <2>3. ProofTypes' /\ ServerClock'
        BY <2>1, <2>2, <1>2 DEF ProofTypes, ServerClock
    <2>4. \A p \in Proofs : \/ Kept[p] = nonces[p]
                            \/ Kept[p] = NoRow /\ nonces[p] < clock - Retention
        BY DEF KeptNonces
    <2>5. /\ v[2] - signed[v[1]] <= Tolerance /\ signed[v[1]] - v[2] <= Tolerance
          /\ v[2] <= clock /\ clock <= v[2] + MaxWait
          /\ signed[v[1]] # NeverSigned
        BY DEF WaitingSound
    <2>6. accepted[v[1]] = 0
        <3> SUFFICES ASSUME accepted[v[1]] # 0 PROVE FALSE
            OBVIOUS
        <3>1. CASE Expired(v[1])
            BY <3>1, <2>5, <1>2 DEF Expired, ProofTypes
        <3>2. CASE nonces[v[1]] >= 0 /\ nonces[v[1]] >= signed[v[1]] - Tolerance
            BY <3>2, <2>4, <2>5, <1>2, <1>5 DEF ProofTypes, NoRow
        <3> QED BY <3>1, <3>2, <1>2 DEF UsedSound
    <2>7. UsedSound'
        <3> SUFFICES ASSUME NEW p \in Proofs
                     PROVE  \/ accepted'[p] = 0
                            \/ /\ accepted'[p] = 1
                               /\ signed[p] # NeverSigned
                               /\ \/ clock > signed[p] + Tolerance + MaxWait
                                  \/ nonces'[p] >= 0 /\ nonces'[p] >= signed[p] - Tolerance
            BY <2>1 DEF UsedSound, Expired, NeverSigned
        <3>1. CASE p = v[1]
            BY <3>1, <2>1, <2>2, <2>5, <2>6, <1>2 DEF ProofTypes, ServerClock
        <3>2. CASE p # v[1]
            <4>1. accepted'[p] = accepted[p] /\ nonces'[p] = Kept[p]
                BY <3>2, <2>1, <2>2 DEF ProofTypes
            <4>2. CASE Kept[p] = nonces[p]
                BY <4>1, <4>2 DEF UsedSound, Expired
            <4>3. CASE Kept[p] = NoRow /\ nonces[p] < clock - Retention
                BY <4>1, <4>3 DEF UsedSound, Expired, ProofTypes, NoRow
            <4> QED BY <2>4, <4>2, <4>3
        <3> QED BY <3>1, <3>2
    <2> QED BY <2>3, <1>3, <2>7
<1> QED BY <1>4, <1>5

\* Every reachable state satisfies the invariant.
THEOREM ProofInvariant == ProofSpec => []ProofInv
<1>1. ProofInit => ProofInv
    BY ProofInvInit
<1>2. ProofInv /\ [ProofNext]_proofVars => ProofInv'
    <2> SUFFICES ASSUME ProofInv, [ProofNext]_proofVars PROVE ProofInv'
        OBVIOUS
    <2>1. CASE ProofTick
        BY <2>1, TickKeeps
    <2>2. CASE RecordNonce
        BY <2>2, RecordKeeps
    <2>3. ASSUME NEW p \in Proofs, SignHeaders(p) PROVE ProofInv'
        BY <2>3, SignKeeps
    <2>4. ASSUME NEW p \in Proofs, VerifyHeaders(p) PROVE ProofInv'
        BY <2>4, VerifyKeeps
    <2>5. CASE UNCHANGED proofVars
        BY <2>5 DEF proofVars, ProofInv, ProofTypes, ServerClock, WaitingSound,
                    UsedSound, Expired, NeverSigned
    <2> QED BY <2>1, <2>2, <2>3, <2>4, <2>5 DEF ProofNext
<1> QED BY <1>1, <1>2, PTL DEF ProofSpec

\* device_any lets no captured request in a second time, whatever the skew and
\* however long a verified request waits, as long as the nonce table remembers
\* for two tolerances and the wait.
THEOREM RequestsNotReplayed == ProofSpec => []ProofOnce
<1>1. ProofInv => ProofOnce
    <2> SUFFICES ASSUME ProofInv, NEW p \in Proofs PROVE accepted[p] <= 1
        BY DEF ProofOnce
    <2>1. accepted[p] = 0 \/ accepted[p] = 1
        BY DEF ProofInv, UsedSound
    <2> QED BY <2>1
<1> QED BY <1>1, ProofInvariant, PTL
=============================================================================
