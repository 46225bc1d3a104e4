----------------------------- MODULE HandRaises -----------------------------
(***************************************************************************)
(* Raised hands: the host keeps the queue, numbers its updates and sends   *)
(* each to everybody.  Messages are text streams of LiveKit, which arrive  *)
(* in any order; a message of somebody who has left may still arrive.      *)
(*                                                                         *)
(* The host stays and does not reload her page, the members join before    *)
(* the first update, and nobody sends more than a receiver's limit.        *)
(***************************************************************************)
EXTENDS Naturals, Sequences
LOCAL INSTANCE SequencesExt

CONSTANTS
    Members,    \* the participants who are no host
    MaxGestures \* bound of the model: raises, lowers and answers of the host

ASSUME HandAssumption == MaxGestures \in Nat

VARIABLES
    gestures, \* how many there were
    asking,   \* messages to the host that have not arrived
    updates,  \* updates of the queue that have not arrived
    notices,  \* hand.approve and hand.dismiss that have not arrived
    queue,    \* localQueueRef of the host
    sequence, \* seqRef of the host
    shown,    \* of each member: queueSeqRef, handRaiseQueue
    raised,   \* isHandRaised of each member
    attending \* members in the room

handVars == <<gestures, asking, updates, notices, queue, sequence, shown, raised, attending>>

Hands == [who : Members, status : {"pending", "approved"}]

HaTypeOK ==
    /\ gestures \in 0..MaxGestures
    /\ asking \subseteq [who : Members, type : {"raise", "lower"}, nonce : 1..MaxGestures]
    /\ queue \in Seq(Hands) /\ sequence \in Nat
    /\ \A i, j \in DOMAIN queue : queue[i].who = queue[j].who => i = j
    /\ \A u \in updates : u.to \in Members /\ u.seq \in 1..sequence /\ u.queue \in Seq(Hands)
    /\ notices \subseteq [to : Members, seq : 1..sequence]
    /\ shown \in [Members -> [seq : 0..sequence, queue : Seq(Hands)]]
    /\ raised \in [Members -> BOOLEAN] /\ attending \subseteq Members

HaInit ==
    /\ gestures = 0 /\ asking = {} /\ updates = {} /\ notices = {}
    /\ queue = <<>> /\ sequence = 0
    /\ shown = [m \in Members |-> [seq |-> 0, queue |-> <<>>]]
    /\ raised = [m \in Members |-> FALSE] /\ attending = Members

-----------------------------------------------------------------------------

InQueue(m) == \E i \in DOMAIN queue : queue[i].who = m

\* The filter that drops the hand of m: nobody is in the queue twice.
Without(m) ==
    IF InQueue(m) THEN RemoveAt(queue, CHOOSE i \in DOMAIN queue : queue[i].who = m) ELSE queue

\* The queue becomes q, and everybody in the room is sent it.
BroadcastQueue(q, room) ==
    /\ queue' = q
    /\ sequence' = sequence + 1
    /\ updates' = {u \in updates : u.to \in room}
                    \cup {[to |-> m, seq |-> sequence + 1, queue |-> q] : m \in room}

Gesture == gestures < MaxGestures /\ gestures' = gestures + 1

\* A member raises her hand, or lowers it.
SendsHand(m, type) ==
    /\ m \in attending /\ Gesture
    /\ asking' = asking \cup {[who |-> m, type |-> type, nonce |-> gestures + 1]}
    /\ raised' = [raised EXCEPT ![m] = type = "raise"]
    /\ UNCHANGED <<updates, notices, queue, sequence, shown, attending>>

\* The host hears of a raised hand; one that is in the queue changes nothing there.
HearsRaise(message) ==
    /\ message \in asking /\ message.type = "raise"
    /\ asking' = asking \ {message}
    /\ IF InQueue(message.who) THEN UNCHANGED <<queue, sequence, updates>>
       ELSE BroadcastQueue(Append(queue, [who |-> message.who, status |-> "pending"]), attending)
    /\ UNCHANGED <<gestures, notices, shown, raised, attending>>

HearsLower(message) ==
    /\ message \in asking /\ message.type = "lower"
    /\ asking' = asking \ {message}
    /\ BroadcastQueue(Without(message.who), attending)
    /\ UNCHANGED <<gestures, notices, shown, raised, attending>>

\* The host answers a hand of her queue: the member is told, and then everybody.
Answers(m, q) ==
    /\ InQueue(m) /\ Gesture
    /\ notices' = notices \cup {[to |-> k, seq |-> sequence + 1] : k \in {m} \cap attending}
    /\ BroadcastQueue(q, attending)
    /\ UNCHANGED <<asking, shown, raised, attending>>

Approves(m) ==
    Answers(m, [i \in DOMAIN queue |->
                  IF queue[i].who = m THEN [queue[i] EXCEPT !.status = "approved"] ELSE queue[i]])

Dismisses(m) == Answers(m, Without(m))

\* A variant of HearsQueue that takes whatever arrives.
HearsAnyQueue(u) ==
    /\ u \in updates
    /\ updates' = updates \ {u}
    /\ shown' = [shown EXCEPT ![u.to] = [seq |-> u.seq, queue |-> u.queue]]
    /\ raised' = [raised EXCEPT ![u.to] =
                    [who |-> u.to, status |-> "pending"] \in ToSet(u.queue)]
    /\ UNCHANGED <<gestures, asking, notices, queue, sequence, attending>>

\* An update arrives: the older of two changes nothing.
HearsQueue(u) ==
    /\ u \in updates
    /\ updates' = updates \ {u}
    /\ IF u.seq > shown[u.to].seq
       THEN /\ shown' = [shown EXCEPT ![u.to] = [seq |-> u.seq, queue |-> u.queue]]
            /\ raised' = [raised EXCEPT ![u.to] =
                            [who |-> u.to, status |-> "pending"] \in ToSet(u.queue)]
       ELSE UNCHANGED <<shown, raised>>
    /\ UNCHANGED <<gestures, asking, notices, queue, sequence, attending>>

HearsAnswer(n) ==
    /\ n \in notices
    /\ notices' = notices \ {n}
    /\ raised' = [raised EXCEPT ![n.to] = FALSE]
    /\ UNCHANGED <<gestures, asking, updates, queue, sequence, shown, attending>>

\* A member disconnects, and her hand leaves the queue.
MemberLeaves(m) ==
    /\ m \in attending
    /\ attending' = attending \ {m}
    /\ notices' = {n \in notices : n.to # m}
    /\ IF InQueue(m) THEN BroadcastQueue(Without(m), attending')
       ELSE /\ updates' = {u \in updates : u.to # m}
            /\ UNCHANGED <<queue, sequence>>
    /\ UNCHANGED <<gestures, asking, shown, raised>>

HaNext ==
    \/ \E m \in Members :
        \/ SendsHand(m, "raise") \/ SendsHand(m, "lower")
        \/ Approves(m) \/ Dismisses(m) \/ MemberLeaves(m)
    \/ \E message \in asking : HearsRaise(message) \/ HearsLower(message)
    \/ \E u \in updates : HearsQueue(u)
    \/ \E n \in notices : HearsAnswer(n)

HaSpec == HaInit /\ [][HaNext]_handVars

-----------------------------------------------------------------------------

\* Whatever order messages arrive in: a member whom no update is under way to is shown the
\* queue that the host has, and while one is, the host's queue is among those she will take.
QueueAgrees ==
    \A m \in attending :
        \/ shown[m].queue = queue
        \/ \E u \in updates : u.to = m /\ u.queue = queue /\ u.seq > shown[m].seq

=============================================================================
