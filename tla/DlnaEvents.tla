------------------------------ MODULE DlnaEvents ------------------------------
(***************************************************************************)
(* internal/adapters/dlna/eventing.go: control points subscribe to the     *)
(* renderer's state and are notified of every change.  The state is read   *)
(* under the adapter's mutex, published under the event manager's, queued  *)
(* per subscription and sent by a goroutine that holds neither.            *)
(*                                                                         *)
(* The state is a number that grows with every change; a subscription is   *)
(* the number of its control point.                                        *)
(***************************************************************************)
EXTENDS Naturals, Sequences, FiniteSets

CONSTANT EventLimits    \* the instances: how many of what, and which faults

VARIABLES
    evLim,      \* the instance
    shown,      \* the transport state
    readers,    \* goroutines that have read it and have not published it
    snapshot,   \* e.snapshots
    subs,       \* per control point: its subscription
    queues,     \* e.deliveries
    workers,    \* per control point: goroutines in runDeliveryQueue, between two sends
    sending,    \* per control point: deliveries under way
    heard       \* per control point: what has been sent to it, and the last it took

eventVars == <<evLim, shown, readers, snapshot, subs, queues, workers, sending, heard>>

Points  == 1..evLim.points
NoQueue == [pending |-> <<>>, running |-> FALSE, exists |-> FALSE]
NoSub   == [at |-> "none", expired |-> FALSE, next |-> 0, fails |-> 0]

EventsInit ==
    /\ evLim \in EventLimits
    /\ shown = 0 /\ readers = <<>> /\ snapshot = 0
    /\ subs = [p \in Points |-> NoSub]
    /\ queues = [p \in Points |-> NoQueue]
    /\ workers = [p \in Points |-> 0]
    /\ sending = [p \in Points |-> {}]
    /\ heard = [p \in Points |-> [seqs |-> <<>>, last |-> 0]]

On(p)   == subs[p].at = "on"
Subscribed == {p \in Points : On(p)}

(* pruneExpiredLocked, first in every handler; deleteSubscriptionLocked    *)
(* takes the queue away too, and its goroutine stops at the next look.     *)
Pruned(p)  == On(p) /\ subs[p].expired
Gone(s)    == [s EXCEPT !.at = "gone"]
Remaining  == [p \in Points |-> IF Pruned(p) THEN Gone(subs[p]) ELSE subs[p]]
QueuesLeft == [p \in Points |-> IF Pruned(p) THEN NoQueue ELSE queues[p]]

(* The two limits of hasCapacityLocked are one here. *)
HasCapacity(now) == Cardinality({p \in Points : now[p].at = "on"}) < evLim.subscriptions

-----------------------------------------------------------------------------
(* The state changes, is read, and is published - at once, or, when two    *)
(* may cross, in any order.                                                *)
Change ==
    /\ shown < evLim.changes /\ (evLim.crossing \/ readers = <<>>)
    /\ shown' = shown + 1
    /\ readers' = Append(readers, shown + 1)
    /\ UNCHANGED <<evLim, snapshot, subs, queues, workers, sending, heard>>

(* nextEventSeq: after the largest comes 1, for 0 is the first event. *)
WrapsToZero(seq)  == (seq + 1) % (evLim.largest + 1)
NextEventSeq(seq) == IF seq = evLim.largest THEN 1 ELSE seq + 1

(* enqueueNotifyLocked: a subscriber that is too far behind is dropped.    *)
StartsWorker(q) == ~q.running

Behind(q) == Len(q.pending) >= evLim.pending

Queued(q, delivery) ==
    IF Behind(q) THEN NoQueue
    ELSE [pending |-> Append(q.pending, delivery), running |-> TRUE, exists |-> TRUE]

(* publish; the state it was given is the latest at that time, not now. *)
Without(s, i) == SubSeq(s, 1, i - 1) \o SubSeq(s, i + 1, Len(s))

Publish(i) ==
    LET said == readers[i]
        new  == said # snapshot
        To(p) == new /\ Remaining[p].at = "on"
        Delivery(p) == [seq |-> Remaining[p].next, state |-> said]
    IN /\ readers' = Without(readers, i)
       /\ snapshot' = said
       /\ subs' = [p \in Points |->
             CASE To(p) /\ Behind(QueuesLeft[p])  -> Gone(Remaining[p])
               [] To(p) /\ ~Behind(QueuesLeft[p]) -> [Remaining[p] EXCEPT !.next = NextEventSeq(@)]
               [] OTHER -> Remaining[p]]
       /\ queues' = [p \in Points |-> IF To(p) THEN Queued(QueuesLeft[p], Delivery(p)) ELSE QueuesLeft[p]]
       /\ workers' = [p \in Points |->
             IF To(p) /\ ~Behind(QueuesLeft[p]) /\ StartsWorker(QueuesLeft[p]) THEN workers[p] + 1 ELSE workers[p]]
    /\ UNCHANGED <<evLim, shown, sending, heard>>

-----------------------------------------------------------------------------
(* Subscribing: there is room, the callback is validated without the lock, *)
(* and there still is.                                                     *)
Subscribe(p) ==
    /\ subs[p].at = "none"
    /\ subs' = [Remaining EXCEPT ![p].at = IF HasCapacity(Remaining) THEN "checking" ELSE "gone"]
    /\ queues' = QueuesLeft
    /\ UNCHANGED <<evLim, shown, readers, snapshot, workers, sending, heard>>

StillRoom(now) == HasCapacity(now)

Subscribed1(p) ==
    /\ subs[p].at = "checking"
    /\ IF StillRoom(Remaining)
       THEN /\ subs' = [Remaining EXCEPT ![p] = [NoSub EXCEPT !.at = "on", !.next = 1]]
            /\ queues' = [QueuesLeft EXCEPT ![p] = Queued(NoQueue, [seq |-> 0, state |-> snapshot])]
            /\ workers' = [workers EXCEPT ![p] = @ + 1]
       ELSE /\ subs' = [Remaining EXCEPT ![p].at = "gone"]
            /\ queues' = QueuesLeft /\ UNCHANGED workers
    /\ UNCHANGED <<evLim, shown, readers, snapshot, sending, heard>>

BadCallback(p) ==
    /\ subs[p].at = "checking" /\ evLim.faults
    /\ subs' = [subs EXCEPT ![p].at = "gone"]
    /\ UNCHANGED <<evLim, shown, readers, snapshot, queues, workers, sending, heard>>

Unsubscribe(p) ==
    /\ On(p) /\ evLim.leaves
    /\ subs' = [Remaining EXCEPT ![p].at = "gone"]
    /\ queues' = [QueuesLeft EXCEPT ![p] = NoQueue]
    /\ UNCHANGED <<evLim, shown, readers, snapshot, workers, sending, heard>>

(* handleRenewal: too late when it has expired. *)
Renew(p) ==
    /\ On(p) /\ subs[p].expired
    /\ subs' = Remaining /\ queues' = QueuesLeft
    /\ UNCHANGED <<evLim, shown, readers, snapshot, workers, sending, heard>>

Expires(p) ==
    /\ On(p) /\ ~subs[p].expired /\ evLim.leaves
    /\ subs' = [subs EXCEPT ![p].expired = TRUE]
    /\ UNCHANGED <<evLim, shown, readers, snapshot, queues, workers, sending, heard>>

(* resetSubscriptions, when the adapter stops. *)
Reset ==
    /\ evLim.leaves /\ Subscribed # {}
    /\ subs' = [p \in Points |-> IF On(p) THEN Gone(subs[p]) ELSE subs[p]]
    /\ queues' = [p \in Points |-> NoQueue]
    /\ UNCHANGED <<evLim, shown, readers, snapshot, workers, sending, heard>>

-----------------------------------------------------------------------------
(* runDeliveryQueue: the goroutine stops when the queue is not its own any *)
(* more, or empty; the slip forgets to say that it stops.                  *)
StaysRunning(q) == q
Rests(q)        == [q EXCEPT !.running = FALSE]

TakeNext(p) ==
    /\ workers[p] > 0
    /\ workers' = [workers EXCEPT ![p] = @ - 1]
    /\ IF ~queues[p].exists \/ queues[p].pending = <<>>
       THEN /\ queues' = [queues EXCEPT ![p] = IF @.exists THEN Rests(@) ELSE @]
            /\ UNCHANGED <<sending, heard>>
       ELSE /\ queues' = [queues EXCEPT ![p].pending = Tail(@)]
            /\ sending' = [sending EXCEPT ![p] = @ \cup {Head(queues[p].pending)}]
            /\ UNCHANGED heard
    /\ UNCHANGED <<evLim, shown, readers, snapshot, subs>>

(* deliverNotify and what becomes of it.  Failures are counted in a row.   *)
Delivers(p, d) ==
    /\ d \in sending[p]
    /\ sending' = [sending EXCEPT ![p] = @ \ {d}]
    /\ workers' = [workers EXCEPT ![p] = @ + 1]
    /\ heard' = [heard EXCEPT ![p] = [seqs |-> Append(@.seqs, d.seq), last |-> d.state]]
    /\ subs' = [subs EXCEPT ![p].fails = IF On(p) THEN 0 ELSE @]
    /\ UNCHANGED <<evLim, shown, readers, snapshot, queues>>

Fails(p, d) ==
    /\ d \in sending[p] /\ evLim.faults
    /\ sending' = [sending EXCEPT ![p] = @ \ {d}]
    /\ workers' = [workers EXCEPT ![p] = @ + 1]
    /\ heard' = [heard EXCEPT ![p].seqs = Append(@, d.seq)]
    /\ LET gone == On(p) /\ subs[p].fails + 1 >= evLim.failures IN
       /\ subs' = [subs EXCEPT ![p].fails = IF On(p) THEN @ + 1 ELSE @,
                               ![p].at = IF gone THEN "gone" ELSE @]
       /\ queues' = IF gone THEN [queues EXCEPT ![p] = NoQueue] ELSE queues
    /\ UNCHANGED <<evLim, shown, readers, snapshot>>

Goroutine(p) == TakeNext(p) \/ \E d \in sending[p] : Delivers(p, d) \/ Fails(p, d)

EventsNext ==
    \/ Change
    \/ \E i \in DOMAIN readers : Publish(i)
    \/ \E p \in Points :
          \/ Subscribe(p) \/ Subscribed1(p) \/ BadCallback(p) \/ Unsubscribe(p) \/ Renew(p) \/ Expires(p)
          \/ Goroutine(p)
    \/ Reset

EventsSpec == EventsInit /\ [][EventsNext]_eventVars

EventsFairness == \A p \in 1..3 : WF_eventVars(p \in Points /\ Goroutine(p))

-----------------------------------------------------------------------------
(* What a subscriber is sent is one event after the other, from the first: *)
(* SEQ 0 once, then no number twice and none out of turn, whatever fails,  *)
(* expires or crosses - as UPnP's subscribers tell a lost event by a gap.  *)
(* There are never more subscribers than the limit, nor a longer queue.    *)
Turn(n) == IF n = 1 THEN 0 ELSE ((n - 2) % evLim.largest) + 1

EventsInOrder ==
    /\ Cardinality(Subscribed) <= evLim.subscriptions
    /\ \A p \in Points :
          /\ Cardinality(sending[p]) + workers[p] <= 1
          /\ Len(queues[p].pending) <= evLim.pending
          /\ \A n \in DOMAIN heard[p].seqs : heard[p].seqs[n] = Turn(n)

(* In the end every subscriber that is left has been sent everything, and  *)
(* knows the state that was published last unless sending it failed - the  *)
(* renderer's own state, unless two publishes crossed.                     *)
Knows(p) ==
    /\ queues[p].pending = <<>> /\ sending[p] = {}
    /\ subs[p].fails = 0 => heard[p].last = snapshot
    /\ ~evLim.crossing /\ readers = <<>> => snapshot = shown

SubscribersLearn == \A p \in 1..3 : <>[](p \in Points /\ On(p) => Knows(p))
=============================================================================
