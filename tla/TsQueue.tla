------------------------------ MODULE TsQueue ------------------------------
(***************************************************************************)
(* networking/net_tsqueue.h: the queue between the asio thread, which      *)
(* pushes complete messages, and the one thread that handles them: the     *)
(* server's main thread (server_interface::Update) or the client's network *)
(* thread (AmongUsSTE::handleNetworking).  Both run the same loop: wait()  *)
(* until the queue is not empty, then pop and handle until it is empty.    *)
(*                                                                         *)
(* The model is at the grain of the two mutexes: muxQueue protects the     *)
(* deque, muxBlocking belongs to the condition variable cvBlocking.  The   *)
(* emptiness test of wait() is made under muxQueue only, and muxBlocking   *)
(* is taken afterwards: a push may complete in between.                    *)
(*                                                                         *)
(* pop_back, push_front, front, back, count and clear are not used by the  *)
(* incoming queue and are left out.                                        *)
(***************************************************************************)
EXTENDS Naturals, Sequences

CONSTANTS Producers,    \* threads that push (the server and the client have one: asio's)
          Consumer,     \* the thread that waits, pops and handles
          Messages,     \* what is pushed
          None,         \* no thread, no message
          MaxPushes     \* bound on the number of pushes

ASSUME ThreadsAssumption ==
    /\ Consumer \notin Producers
    /\ None \notin Producers \cup {Consumer}
    /\ None \notin Messages
    /\ MaxPushes \in Nat

Threads == Producers \cup {Consumer}

VARIABLES
    deqQueue,       \* the deque
    muxQueue,       \* the thread that holds muxQueue, or None
    muxBlocking,    \* the thread that holds muxBlocking, or None
    asleep,         \* TRUE while the consumer is blocked in cvBlocking
    pc,             \* where each thread is
    hand,           \* the message popped and not handled yet, or None
    pushed,         \* history: every message pushed, in order
    handled         \* history: every message handled, in order

vars == <<deqQueue, muxQueue, muxBlocking, asleep, pc, hand, pushed, handled>>

ProducerPCs == {"idle", "pushed", "notify", "release", "leave"}
ConsumerPCs == {"wait", "park", "parked", "asleep", "wake", "woken",
                "drain", "pop", "handle"}

Init ==
    /\ deqQueue = <<>>
    /\ muxQueue = None
    /\ muxBlocking = None
    /\ asleep = FALSE
    /\ pc = [t \in Threads |-> IF t = Consumer THEN "wait" ELSE "idle"]
    /\ hand = None
    /\ pushed = <<>>
    /\ handled = <<>>

Goto(t, from, to) == pc[t] = from /\ pc' = [pc EXCEPT ![t] = to]

-----------------------------------------------------------------------------
(* push_back.  The locks are released in the reverse order of their        *)
(* declaration: ul (muxBlocking) first, then lock (muxQueue).              *)

PushBack(p, m) ==
    /\ Goto(p, "idle", "pushed")
    /\ Len(pushed) < MaxPushes
    /\ muxQueue = None
    /\ muxQueue' = p
    /\ deqQueue' = Append(deqQueue, m)
    /\ pushed' = Append(pushed, m)
    /\ UNCHANGED <<muxBlocking, asleep, hand, handled>>

PushLockBlocking(p) ==
    /\ Goto(p, "pushed", "notify")
    /\ muxBlocking = None
    /\ muxBlocking' = p
    /\ UNCHANGED <<deqQueue, muxQueue, asleep, hand, pushed, handled>>

\* Slip: the push forgets to notify.
PushNotifySilent(p) ==
    /\ Goto(p, "notify", "release")
    /\ UNCHANGED <<deqQueue, muxQueue, muxBlocking, asleep, hand, pushed, handled>>

\* notify_one wakes the consumer when it is blocked and is lost otherwise.
PushNotify(p) ==
    /\ Goto(p, "notify", "release")
    /\ asleep' = FALSE
    /\ UNCHANGED <<deqQueue, muxQueue, muxBlocking, hand, pushed, handled>>

PushUnlockBlocking(p) ==
    /\ Goto(p, "release", "leave")
    /\ muxBlocking' = None
    /\ UNCHANGED <<deqQueue, muxQueue, asleep, hand, pushed, handled>>

PushUnlockQueue(p) ==
    /\ Goto(p, "leave", "idle")
    /\ muxQueue' = None
    /\ UNCHANGED <<deqQueue, muxBlocking, asleep, hand, pushed, handled>>

Push(p) ==
    \/ \E m \in Messages : PushBack(p, m)
    \/ PushLockBlocking(p)
    \/ PushNotify(p)
    \/ PushUnlockBlocking(p)
    \/ PushUnlockQueue(p)

-----------------------------------------------------------------------------
(* empty() takes and releases muxQueue around one read of the deque, so it *)
(* is one step, possible when no push holds muxQueue.                      *)

Empty(ifEmpty, ifNot) ==
    /\ muxQueue = None
    /\ pc' = [pc EXCEPT ![Consumer] = IF deqQueue = <<>> THEN ifEmpty ELSE ifNot]
    /\ UNCHANGED <<deqQueue, muxQueue, muxBlocking, asleep, hand, pushed, handled>>

(* wait(): test, lock muxBlocking, block; the wait() of the condition      *)
(* variable gives muxBlocking up while blocked and takes it back on waking.*)

WaitTest == pc[Consumer] = "wait" /\ Empty("park", "drain")

WaitLock ==
    /\ Goto(Consumer, "park", "parked")
    /\ muxBlocking = None
    /\ muxBlocking' = Consumer
    /\ UNCHANGED <<deqQueue, muxQueue, asleep, hand, pushed, handled>>

WaitBlock ==
    /\ Goto(Consumer, "parked", "asleep")
    /\ muxBlocking' = None
    /\ asleep' = TRUE
    /\ UNCHANGED <<deqQueue, muxQueue, hand, pushed, handled>>

\* The consumer leaves the wait set, notified, and asks for muxBlocking.
WaitNotified ==
    /\ Goto(Consumer, "asleep", "wake")
    /\ ~asleep
    /\ UNCHANGED <<deqQueue, muxQueue, muxBlocking, asleep, hand, pushed, handled>>

\* A condition variable may also wake without a notification.
WaitSpurious ==
    /\ Goto(Consumer, "asleep", "wake")
    /\ asleep
    /\ asleep' = FALSE
    /\ UNCHANGED <<deqQueue, muxQueue, muxBlocking, hand, pushed, handled>>

WaitRelock ==
    /\ Goto(Consumer, "wake", "woken")
    /\ muxBlocking = None
    /\ muxBlocking' = Consumer
    /\ UNCHANGED <<deqQueue, muxQueue, asleep, hand, pushed, handled>>

\* Slip: ul outlives the loop body, so empty() runs with muxBlocking held.
WaitUnlockLate ==
    /\ Goto(Consumer, "woken", "wait")
    /\ UNCHANGED <<deqQueue, muxQueue, muxBlocking, asleep, hand, pushed, handled>>

\* ul is destroyed at the end of the loop body, before the next empty().
WaitUnlock ==
    /\ Goto(Consumer, "woken", "wait")
    /\ muxBlocking' = None
    /\ UNCHANGED <<deqQueue, muxQueue, asleep, hand, pushed, handled>>

-----------------------------------------------------------------------------
(* The handling loop of Update (and of handleNetworking).                  *)

\* Slip: the loop pops once more than it tested.
DrainTestUnchecked ==
    /\ Goto(Consumer, "drain", "pop")
    /\ muxQueue = None
    /\ UNCHANGED <<deqQueue, muxQueue, muxBlocking, asleep, hand, pushed, handled>>

DrainTest == pc[Consumer] = "drain" /\ Empty("wait", "pop")

\* Slip: pop_back where pop_front is meant.
PopBack ==
    /\ Goto(Consumer, "pop", "handle")
    /\ muxQueue = None
    /\ hand' = IF deqQueue = <<>> THEN None ELSE deqQueue[Len(deqQueue)]
    /\ deqQueue' = IF deqQueue = <<>> THEN <<>> ELSE SubSeq(deqQueue, 1, Len(deqQueue) - 1)
    /\ UNCHANGED <<muxQueue, muxBlocking, asleep, pushed, handled>>

\* deque::front on an empty deque is undefined: the model then yields None.
PopFront ==
    /\ Goto(Consumer, "pop", "handle")
    /\ muxQueue = None
    /\ hand' = IF deqQueue = <<>> THEN None ELSE Head(deqQueue)
    /\ deqQueue' = IF deqQueue = <<>> THEN <<>> ELSE Tail(deqQueue)
    /\ UNCHANGED <<muxQueue, muxBlocking, asleep, pushed, handled>>

Handle ==
    /\ Goto(Consumer, "handle", "drain")
    /\ handled' = Append(handled, hand)
    /\ hand' = None
    /\ UNCHANGED <<deqQueue, muxQueue, muxBlocking, asleep, pushed>>

Consume ==
    \/ WaitTest \/ WaitLock \/ WaitBlock \/ WaitNotified \/ WaitRelock \/ WaitUnlock
    \/ DrainTest \/ PopFront \/ Handle

Next == Consume \/ WaitSpurious \/ \E p \in Producers : Push(p)

Spec == Init /\ [][Next]_vars

(* The scheduler runs every thread that stays able to run.  Nothing obliges *)
(* a producer to start a push, nor the condition variable to wake           *)
(* spuriously.  With finitely many pushes every mutex is free in the end,   *)
(* so weak fairness is enough for a thread that waits for one.              *)
PushProgress(p) ==
    \/ PushLockBlocking(p) \/ PushNotify(p) \/ PushUnlockBlocking(p) \/ PushUnlockQueue(p)

Fairness ==
    /\ WF_vars(Consume)
    /\ \A p \in Producers : WF_vars(PushProgress(p))

FairSpec == Spec /\ Fairness

-----------------------------------------------------------------------------
(* Properties                                                              *)

TypeOK ==
    /\ deqQueue \in Seq(Messages)
    /\ muxQueue \in Producers \cup {None}
    /\ muxBlocking \in Threads \cup {None}
    /\ asleep \in BOOLEAN
    /\ pc \in [Threads -> ProducerPCs \cup ConsumerPCs]
    /\ pc[Consumer] \in ConsumerPCs
    /\ \A p \in Producers : pc[p] \in ProducerPCs
    /\ hand \in Messages \cup {None}
    /\ pushed \in Seq(Messages)
    /\ handled \in Seq(Messages)

\* The test empty() of the handling loop still holds when pop_front runs:
\* front() is never called on an empty deque, although the mutex was released
\* in between.
PopNonEmpty == pc[Consumer] = "pop" => deqQueue # <<>>

\* push_back takes muxBlocking while it holds muxQueue; no thread ever asks
\* for muxQueue while it holds muxBlocking, so the two cannot deadlock.
WantsMuxQueue(t) == pc[t] \in {"idle", "wait", "drain", "pop"}

LockOrder == muxBlocking # None => ~WantsMuxQueue(muxBlocking)

\* all is done, followed by the n <= 1 messages in hand, followed by rest.
Accounts(all, done, n, x, rest) ==
    /\ Len(all) = Len(done) + n + Len(rest)
    /\ \A i \in 1..Len(done) : done[i] = all[i]
    /\ n = 1 => x = all[Len(done) + 1]
    /\ \A i \in 1..Len(rest) : rest[i] = all[Len(done) + n + i]

InHand == IF pc[Consumer] = "handle" THEN 1 ELSE 0

\* At every moment the messages pushed are exactly those handled, the one in
\* the consumer's hand, and those in the deque, in this order.
Conserved == Accounts(pushed, handled, InHand, hand, deqQueue)

\* The queue, seen from push_back to the message handler, is a FIFO channel.
Fifo == INSTANCE FifoChannel WITH sent <- pushed, delivered <- handled

ImplementsFifo == Fifo!Spec

\* The consumer sleeps on a queue that holds messages, and no push is under
\* way that would wake it: the notification came between its test of the
\* queue and its wait.
Missed == asleep /\ deqQueue # <<>> /\ \A p \in Producers : pc[p] = "idle"

\* Nothing but a missed notification keeps a message from being handled:
\* neither the two mutexes nor the handling loop can.
OnlyMissedNotifyStalls == (deqQueue # <<>>) ~> (deqQueue = <<>> \/ Missed)

\* A consumer asleep on a non-empty queue handles everything once another
\* message is pushed.
NextPushEndsStall ==
    (asleep /\ \E p \in Producers : pc[p] = "pushed") ~> (deqQueue = <<>>)
=============================================================================
