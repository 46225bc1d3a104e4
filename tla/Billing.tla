------------------------------ MODULE Billing ------------------------------
(***************************************************************************)
(* The plan of one user, as the webhooks of the payment provider set it:   *)
(* events that arrive in any order, several at a time and again and again, *)
(* each handled by a read of the user and a conditional update.            *)
(***************************************************************************)
EXTENDS Naturals

CONSTANTS
    Events,        \* the events
    Subscriptions,
    NoSubscription,
    EventTime,     \* occurred_at of each event
    EventSub,      \* the subscription of each event
    EventEffect    \* what each event says

Effects == {
    "entitled",    \* created or updated, active or trialing, with a known price
    "unpriced",    \* the same with a price this deployment does not know
    "unentitled",  \* created or updated, in any other status
    "canceled",    \* canceled at once
    "scheduled" }  \* canceled for the end of the period

ASSUME BillingAssumption ==
    /\ NoSubscription \notin Subscriptions
    /\ EventTime \in [Events -> Nat \ {0}]
    /\ EventSub \in [Events -> Subscriptions]
    /\ EventEffect \in [Events -> Effects]

VARIABLES
    user,    \* plan, paddleSubscriptionId, subscriptionUpdatedAt (0 for null)
    handler, \* what the handler of each event does
    settled  \* history: events that were written or found stale

biVars == <<user, handler, settled>>

BiTypeOK ==
    /\ user \in [plan : {"free", "paid"}, sub : Subscriptions \cup {NoSubscription}, at : Nat]
    /\ handler \in [Events -> {"idle", "writing"}]
    /\ settled \subseteq Events

BiInit ==
    /\ user = [plan |-> "free", sub |-> NoSubscription, at |-> 0]
    /\ handler = [e \in Events |-> "idle"]
    /\ settled = {}

ByCustomer(e) == EventEffect[e] \in {"entitled", "unpriced", "unentitled"}

\* handlePaddleEvent finds the user, by customer or by subscription, and drops a stale event.
\* The provider delivers an event once more when it likes.
Finds(e) ==
    /\ handler[e] = "idle"
    /\ ByCustomer(e) \/ user.sub = EventSub[e]
    /\ IF EventTime[e] < user.at
       THEN settled' = settled \cup {e} /\ UNCHANGED handler
       ELSE handler' = [handler EXCEPT ![e] = "writing"] /\ UNCHANGED settled
    /\ UNCHANGED user

Applied(e) ==
    [plan |-> CASE EventEffect[e] = "entitled" -> "paid"
                [] EventEffect[e] \in {"unentitled", "canceled"} -> "free"
                [] OTHER -> user.plan,
     sub |-> IF ByCustomer(e) THEN EventSub[e]
             ELSE IF EventEffect[e] = "canceled" THEN NoSubscription ELSE user.sub,
     at |-> EventTime[e]]

\* A variant of Writes: the update has no condition.
WritesAnyway(e) ==
    /\ handler[e] = "writing"
    /\ handler' = [handler EXCEPT ![e] = "idle"]
    /\ user' = Applied(e)
    /\ settled' = settled \cup {e}

\* The update, if no newer event was applied since the read.
Writes(e) ==
    /\ handler[e] = "writing"
    /\ handler' = [handler EXCEPT ![e] = "idle"]
    /\ user' = IF user.at <= EventTime[e] THEN Applied(e) ELSE user
    /\ settled' = settled \cup {e}

\* The update fails; the provider has its 200 already.
Fails(e) ==
    /\ handler[e] = "writing"
    /\ handler' = [handler EXCEPT ![e] = "idle"]
    /\ UNCHANGED <<user, settled>>

BiNext == \E e \in Events : Finds(e) \/ Writes(e) \/ Fails(e)

BiSpec == BiInit /\ [][BiNext]_biVars

-----------------------------------------------------------------------------

Says(e, plan) == /\ EventEffect[e] = "entitled" => plan = "paid"
                 /\ EventEffect[e] \in {"unentitled", "canceled"} => plan = "free"

\* The user is never older than an event that was taken in, and has the plan that a newest of
\* these events gives, although the read of one handler and its update have others between
\* them.
NewestEventStands ==
    /\ \A e \in settled : EventTime[e] <= user.at
    /\ user.at # 0 => \E e \in settled : EventTime[e] = user.at /\ Says(e, user.plan)

=============================================================================
