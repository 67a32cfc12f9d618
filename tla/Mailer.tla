------------------------------- MODULE Mailer -------------------------------
(***************************************************************************)
(* The event table and notify-deliver, which an operator or a timer runs:  *)
(* one transaction over the oldest undelivered events.  Mail leaves before *)
(* the row is updated; an SMTP error or a crash undoes the row updates of  *)
(* the whole batch and none of the mail.  An event addressed to a member   *)
(* has a recipient while the member is active; the administrators are one. *)
(***************************************************************************)
EXTENDS Naturals, Sequences, FiniteSets

CONSTANTS
    Audiences,      \* whom an event may be addressed to
    Standing,       \* of these, the ones that always have an active recipient
    Batch,          \* events of one delivery, 20 in the code
    MaxEvents,      \* bound: events
    MaxLost         \* bound: deliveries that fail in the middle

VARIABLES
    outbox,         \* the events, in the order of their id
    active,         \* audiences with an active recipient
    mailed,         \* history: times an event has been mailed
    lostDeliveries  \* deliveries that failed in the middle

mailVars == <<outbox, active, mailed, lostDeliveries>>

MailInit ==
    /\ outbox = <<>>
    /\ active = Audiences
    /\ mailed = [e \in 1..MaxEvents |-> 0]
    /\ lostDeliveries = 0

RecordEvent(a) ==
    /\ Len(outbox) < MaxEvents
    /\ outbox' = Append(outbox, [audience |-> a, delivered |-> FALSE])
    /\ UNCHANGED <<active, mailed, lostDeliveries>>

\* A member is suspended or rejected; the change is itself an event addressed
\* to that member, written in the same transaction.
Suspend(a) ==
    /\ a \in active \ Standing
    /\ active' = active \ {a}
    /\ Len(outbox) < MaxEvents
    /\ outbox' = Append(outbox, [audience |-> a, delivered |-> FALSE])
    /\ UNCHANGED <<mailed, lostDeliveries>>

Undelivered == {e \in DOMAIN outbox : ~outbox[e].delivered}
Pending == {e \in Undelivered : Cardinality({d \in Undelivered : d < e}) < Batch}
Mailable == {e \in Pending : outbox[e].audience \in active}

Mail(events) == mailed' = [e \in DOMAIN mailed |-> mailed[e] + (IF e \in events THEN 1 ELSE 0)]

Deliver ==
    /\ Mailable # {}
    /\ Mail(Mailable)
    /\ outbox' = [e \in DOMAIN outbox |->
                    [outbox[e] EXCEPT !.delivered = @ \/ e \in Mailable]]
    /\ UNCHANGED <<active, lostDeliveries>>

\* The mail of the first events is out, the transaction is rolled back.
DeliverCut ==
    /\ lostDeliveries < MaxLost
    /\ lostDeliveries' = lostDeliveries + 1
    /\ \E last \in Mailable : Mail({e \in Mailable : e <= last})
    /\ UNCHANGED <<outbox, active>>

MailNext ==
    \/ \E a \in Audiences : RecordEvent(a) \/ Suspend(a)
    \/ Deliver \/ DeliverCut

MailFairness == WF_mailVars(Deliver)

MailSpec == MailInit /\ [][MailNext]_mailVars /\ MailFairness

\* An event is mailed at least once, if its recipient stays active and the
\* operator keeps running the delivery.
AtLeastOnce == \A e \in 1..MaxEvents :
    [](e \in DOMAIN outbox => outbox[e].audience \in active)
      => [](e \in DOMAIN outbox => <>(mailed[e] > 0))
=============================================================================
