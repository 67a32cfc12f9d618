------------------------------ MODULE MfaSetup ------------------------------
(***************************************************************************)
(* Setting up the second factor from one home (mfa.py).  Commands of the   *)
(* home run side by side and may die between the authentication service    *)
(* and the vault; the person may use another home as well.  The service    *)
(* replaces an unverified ClayFarm factor when another is enrolled.        *)
(***************************************************************************)
EXTENDS Absent, Naturals

CONSTANTS
    MaxFactors      \* bound: factors enrolled

VARIABLES
    factor,         \* at the service: the factor, and whether it is verified
    factors,        \* factors enrolled so far
    reading,        \* commands that have seen a pending factor, not yet the vault
    keeping,        \* commands that have enrolled one, not yet kept its secret
    settling,       \* commands that have verified one, not yet looked into the vault
    clearing,       \* commands that have found its secret there, not yet deleted it
    cached,         \* vault: the factor whose secret is kept
    shown           \* the last answer: the factor and whose secret came with it

mfaVars == <<factor, factors, reading, keeping, settling, clearing, cached, shown>>

MfaInit ==
    /\ factor = None /\ factors = 0
    /\ reading = {} /\ keeping = {} /\ settling = {} /\ clearing = {}
    /\ cached = None /\ shown = None

Replaceable == factors < MaxFactors /\ (factor # None => ~factor.verified)
EnrolFactor == /\ factor' = [id |-> factors + 1, verified |-> FALSE]
               /\ factors' = factors + 1

EnrolElsewhere ==
    /\ Replaceable /\ EnrolFactor
    /\ UNCHANGED <<reading, keeping, settling, clearing, cached, shown>>

\* A verified factor is left alone; a pending one is looked up in the vault.
SeeFactor ==
    /\ factor # None
    /\ IF factor.verified
       THEN shown' = [factor |-> factor.id, secret |-> None] /\ UNCHANGED reading
       ELSE reading' = reading \cup {factor.id} /\ UNCHANGED shown
    /\ UNCHANGED <<factor, factors, keeping, settling, clearing, cached>>

ShowAnyPending(id) ==
    /\ id \in reading
    /\ reading' = reading \ {id}
    /\ shown' = [factor |-> id, secret |-> cached]
    /\ UNCHANGED <<factor, factors, keeping, settling, clearing, cached>>
ShowPending(id) ==
    /\ id \in reading
    /\ reading' = reading \ {id}
    /\ shown' = [factor |-> id, secret |-> IF cached = id THEN id ELSE None]
    /\ UNCHANGED <<factor, factors, keeping, settling, clearing, cached>>

\* No factor yet, or --restart.
PrepareEnrollment ==
    /\ Replaceable /\ EnrolFactor
    /\ keeping' = keeping \cup {factors + 1}
    /\ UNCHANGED <<reading, settling, clearing, cached, shown>>

KeepSecret(id) ==
    /\ id \in keeping
    /\ keeping' = keeping \ {id}
    /\ cached' = id
    /\ shown' = [factor |-> id, secret |-> id]
    /\ UNCHANGED <<factor, factors, reading, settling, clearing>>

DieInSetup(id) ==
    /\ id \in reading \cup keeping \cup settling \cup clearing
    /\ reading' = reading \ {id} /\ keeping' = keeping \ {id}
    /\ settling' = settling \ {id} /\ clearing' = clearing \ {id}
    /\ UNCHANGED <<factor, factors, cached, shown>>

VerifyFactor(id) ==
    /\ factor # None /\ factor.id = id /\ ~factor.verified
    /\ factor' = [factor EXCEPT !.verified = TRUE]
    /\ settling' = settling \cup {id}
    /\ UNCHANGED <<factors, reading, keeping, clearing, cached, shown>>

\* Only the secret of the factor that was verified is to be cleared, but what
\* is deleted is what the vault holds by then.
FindSecret(id) ==
    /\ id \in settling
    /\ settling' = settling \ {id}
    /\ clearing' = IF cached = id THEN clearing \cup {id} ELSE clearing
    /\ UNCHANGED <<factor, factors, reading, keeping, cached, shown>>

ForgetSecret(id) ==
    /\ id \in clearing
    /\ clearing' = clearing \ {id}
    /\ cached' = None
    /\ UNCHANGED <<factor, factors, reading, keeping, settling, shown>>

MfaNext ==
    \/ EnrolElsewhere \/ SeeFactor \/ PrepareEnrollment
    \/ \E id \in 1..MaxFactors :
         \/ ShowPending(id) \/ KeepSecret(id) \/ DieInSetup(id)
         \/ VerifyFactor(id) \/ FindSecret(id) \/ ForgetSecret(id)

\* A setup secret is only ever shown for the factor it belongs to, although the
\* factor may be replaced, and the vault overwritten, by another command while
\* this one is between the service and the vault.
SecretPaired == shown # None => shown.secret \in {shown.factor, None}
=============================================================================
