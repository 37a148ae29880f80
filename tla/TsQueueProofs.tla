--------------------------- MODULE TsQueueProofs ---------------------------
(***************************************************************************)
(* Proofs about TsQueue, for any number of producers, any messages and any *)
(* bound.  The inductive invariant ties each mutex to the program counter  *)
(* of its holder (QueueOwner, BlockingOwner) and the consumer's hand to    *)
(* its program counter (HandFull); the other properties then follow.       *)
(***************************************************************************)
EXTENDS TsQueue, TLAPS

QueueOwner ==
    \A p \in Producers :
        (muxQueue = p) <=> (pc[p] \in {"pushed", "notify", "release", "leave"})

BlockingOwner ==
    \A t \in Threads :
        (muxBlocking = t) <=> (pc[t] \in {"notify", "release", "parked", "woken"})

HandFull == pc[Consumer] = "handle" => hand \in Messages

Inv ==
    /\ TypeOK
    /\ QueueOwner
    /\ BlockingOwner
    /\ PopNonEmpty
    /\ HandFull
    /\ Conserved

USE ThreadsAssumption DEF ThreadsAssumption, Threads, ProducerPCs, ConsumerPCs

LEMMA InitInv == Init => Inv
<1> SUFFICES ASSUME Init PROVE Inv
  OBVIOUS
<1> USE DEF Init
<1>1. TypeOK
  <2>1. pc \in [Threads -> ProducerPCs \cup ConsumerPCs]
    OBVIOUS
  <2>2. pc[Consumer] \in ConsumerPCs
    OBVIOUS
  <2>3. \A p \in Producers : pc[p] \in ProducerPCs
    OBVIOUS
  <2>4. /\ deqQueue \in Seq(Messages)
        /\ pushed \in Seq(Messages)
        /\ handled \in Seq(Messages)
    OBVIOUS
  <2>5. /\ muxQueue \in Producers \cup {None}
        /\ muxBlocking \in Threads \cup {None}
        /\ asleep \in BOOLEAN
        /\ hand \in Messages \cup {None}
    OBVIOUS
  <2> HIDE DEF Init
  <2>6. QED
    BY <2>1, <2>2, <2>3, <2>4, <2>5 DEF TypeOK
<1>2. QueueOwner
  BY DEF QueueOwner
<1>3. BlockingOwner
  BY DEF BlockingOwner
<1>4. PopNonEmpty /\ HandFull
  BY DEF PopNonEmpty, HandFull
<1>5. Conserved
  BY DEF Conserved, Accounts, InHand
<1>6. QED
  BY <1>1, <1>2, <1>3, <1>4, <1>5 DEF Inv

(* What happens to the account of the messages when one is pushed, popped  *)
(* and handled.                                                            *)
LEMMA AccountsPush ==
    ASSUME NEW all \in Seq(Messages), NEW done \in Seq(Messages),
           NEW rest \in Seq(Messages), NEW n \in {0, 1}, NEW x,
           NEW m \in Messages, Accounts(all, done, n, x, rest)
    PROVE  Accounts(Append(all, m), done, n, x, Append(rest, m))
<1>1. /\ Len(Append(all, m)) = Len(all) + 1
      /\ Len(Append(rest, m)) = Len(rest) + 1
  OBVIOUS
<1>2. \A i \in 1..Len(all) : Append(all, m)[i] = all[i]
  OBVIOUS
<1>3. Len(all) = Len(done) + n + Len(rest)
  BY DEF Accounts
<1>4. ASSUME NEW i \in 1..(Len(rest) + 1)
      PROVE  Append(rest, m)[i] = Append(all, m)[Len(done) + n + i]
  <2>1. CASE i = Len(rest) + 1
    <3>1. Append(rest, m)[i] = m
      BY <2>1
    <3>2. Len(done) + n + i = Len(all) + 1
      BY <2>1, <1>3
    <3>3. QED
      BY <3>1, <3>2
  <2>2. CASE i \in 1..Len(rest)
    <3>1. Append(rest, m)[i] = rest[i]
      BY <2>2
    <3>2. rest[i] = all[Len(done) + n + i]
      BY <2>2 DEF Accounts
    <3>3. Len(done) + n + i \in 1..Len(all)
      BY <2>2, <1>3
    <3>4. QED
      BY <3>1, <3>2, <3>3, <1>2
  <2>3. i = Len(rest) + 1 \/ i \in 1..Len(rest)
    <3>1. Len(rest) \in Nat
      OBVIOUS
    <3>2. QED
      BY <3>1
  <2>4. QED
    BY <2>1, <2>2, <2>3
<1>5. QED
  BY <1>1, <1>2, <1>3, <1>4 DEF Accounts

LEMMA AccountsPop ==
    ASSUME NEW all \in Seq(Messages), NEW done \in Seq(Messages),
           NEW rest \in Seq(Messages), NEW x, rest # <<>>,
           Accounts(all, done, 0, x, rest)
    PROVE  Accounts(all, done, 1, Head(rest), Tail(rest))
BY DEF Accounts

LEMMA AccountsHandle ==
    ASSUME NEW all \in Seq(Messages), NEW done \in Seq(Messages),
           NEW rest \in Seq(Messages), NEW x \in Messages, NEW y,
           Accounts(all, done, 1, x, rest)
    PROVE  Accounts(all, Append(done, x), 0, y, rest)
BY DEF Accounts

LEMMA PushBackInv ==
    ASSUME Inv, NEW p \in Producers, NEW m \in Messages, PushBack(p, m)
    PROVE  Inv'
<1> USE DEF Inv, PushBack, Goto
<1>1. TypeOK'
  BY DEF TypeOK
<1>2. QueueOwner' /\ BlockingOwner'
  BY DEF TypeOK, QueueOwner, BlockingOwner
<1>3. pc'[Consumer] = pc[Consumer]
  BY DEF TypeOK
<1>4. PopNonEmpty' /\ HandFull'
  <2>1. deqQueue \in Seq(Messages) /\ deqQueue' = Append(deqQueue, m)
    BY DEF TypeOK
  <2> HIDE DEF Inv, PushBack, Goto
  <2>2. deqQueue' # <<>>
    BY <2>1
  <2>3. QED
    BY <1>3, <2>2 DEF Inv, PushBack, PopNonEmpty, HandFull
<1>5. Conserved'
  <2>1. InHand' = InHand /\ InHand \in {0, 1}
    BY <1>3 DEF InHand
  <2>2. QED
    BY <2>1, AccountsPush DEF TypeOK, Conserved
<1>6. QED
  BY <1>1, <1>2, <1>4, <1>5

(* A step that moves no message keeps the account. *)
LEMMA QuietConserved ==
    ASSUME Conserved, UNCHANGED <<deqQueue, hand, pushed, handled>>,
           (pc'[Consumer] = "handle") <=> (pc[Consumer] = "handle")
    PROVE  Conserved'
BY DEF Conserved, InHand

LEMMA PushRestInv ==
    ASSUME Inv, NEW p \in Producers, PushProgress(p)
    PROVE  Inv'
<1> USE DEF Inv, PushProgress, PushLockBlocking, PushNotify,
            PushUnlockBlocking, PushUnlockQueue, Goto
<1>1. TypeOK'
  BY DEF TypeOK
<1>2. QueueOwner'
  BY DEF TypeOK, QueueOwner
<1>3. BlockingOwner'
  BY DEF TypeOK, BlockingOwner
<1>4. pc'[Consumer] = pc[Consumer] /\ UNCHANGED <<deqQueue, hand, pushed, handled>>
  BY DEF TypeOK
<1>5. PopNonEmpty' /\ HandFull'
  BY <1>4 DEF PopNonEmpty, HandFull
<1>6. Conserved'
  BY <1>4, QuietConserved
<1>7. QED
  BY <1>1, <1>2, <1>3, <1>5, <1>6

WaitStep == \/ WaitTest \/ WaitLock \/ WaitBlock \/ WaitNotified
            \/ WaitSpurious \/ WaitRelock \/ WaitUnlock

LEMMA WaitInv ==
    ASSUME Inv, WaitStep
    PROVE  Inv'
<1> USE DEF Inv, WaitStep, WaitTest, WaitLock, WaitBlock, WaitNotified,
            WaitSpurious, WaitRelock, WaitUnlock, Goto, Empty
<1>1. TypeOK'
  BY DEF TypeOK
<1>2. QueueOwner'
  BY DEF TypeOK, QueueOwner
<1>3. BlockingOwner'
  BY DEF TypeOK, BlockingOwner
<1>4. /\ pc[Consumer] \notin {"pop", "handle"}
      /\ pc'[Consumer] \notin {"pop", "handle"}
      /\ UNCHANGED <<deqQueue, hand, pushed, handled>>
  BY DEF TypeOK
<1>5. PopNonEmpty' /\ HandFull'
  BY <1>4 DEF PopNonEmpty, HandFull
<1>6. Conserved'
  BY <1>4, QuietConserved
<1>7. QED
  BY <1>1, <1>2, <1>3, <1>5, <1>6

LEMMA DrainTestInv ==
    ASSUME Inv, DrainTest
    PROVE  Inv'
<1> USE DEF Inv, DrainTest, Empty
<1>1. TypeOK'
  BY DEF TypeOK
<1>2. QueueOwner' /\ BlockingOwner'
  BY DEF TypeOK, QueueOwner, BlockingOwner
<1>3. /\ pc[Consumer] # "handle"
      /\ pc'[Consumer] = IF deqQueue = <<>> THEN "wait" ELSE "pop"
      /\ UNCHANGED <<deqQueue, hand, pushed, handled>>
  BY DEF TypeOK
<1>4. PopNonEmpty' /\ HandFull'
  BY <1>3 DEF PopNonEmpty, HandFull
<1>5. Conserved'
  BY <1>3, QuietConserved
<1>6. QED
  BY <1>1, <1>2, <1>4, <1>5

LEMMA PopFrontInv ==
    ASSUME Inv, PopFront
    PROVE  Inv'
<1> USE DEF PopFront, Goto
<1>1. deqQueue \in Seq(Messages) /\ deqQueue # <<>>
  BY DEF Inv, TypeOK, PopNonEmpty
<1>2. hand' = Head(deqQueue) /\ deqQueue' = Tail(deqQueue)
  BY <1>1
<1>3. hand' \in Messages /\ deqQueue' \in Seq(Messages)
  BY <1>1, <1>2
<1>4. pc[Consumer] = "pop" /\ pc'[Consumer] = "handle"
  BY DEF Inv, TypeOK
<1>5. TypeOK'
  BY <1>3 DEF Inv, TypeOK
<1>6. QueueOwner' /\ BlockingOwner'
  BY DEF Inv, TypeOK, QueueOwner, BlockingOwner
<1>7. PopNonEmpty' /\ HandFull'
  BY <1>3, <1>4 DEF PopNonEmpty, HandFull
<1>8. Conserved'
  <2>1. Accounts(pushed, handled, 0, hand, deqQueue)
    BY <1>4 DEF Inv, Conserved, InHand
  <2>2. pushed \in Seq(Messages) /\ handled \in Seq(Messages)
    BY DEF Inv, TypeOK
  <2>3. Accounts(pushed, handled, 1, Head(deqQueue), Tail(deqQueue))
    BY <1>1, <2>1, <2>2, AccountsPop
  <2>4. QED
    BY <1>2, <1>4, <2>3 DEF Conserved, InHand
<1>9. QED
  BY <1>5, <1>6, <1>7, <1>8 DEF Inv

LEMMA HandleInv ==
    ASSUME Inv, Handle
    PROVE  Inv'
<1> USE DEF Handle, Goto
<1>1. pc[Consumer] = "handle" /\ pc'[Consumer] = "drain" /\ hand \in Messages
  BY DEF Inv, TypeOK, HandFull
<1>2. TypeOK'
  BY <1>1 DEF Inv, TypeOK
<1>3. QueueOwner' /\ BlockingOwner'
  BY DEF Inv, TypeOK, QueueOwner, BlockingOwner
<1>4. PopNonEmpty' /\ HandFull'
  BY <1>1 DEF PopNonEmpty, HandFull
<1>5. Conserved'
  <2>1. Accounts(pushed, handled, 1, hand, deqQueue)
    BY <1>1 DEF Inv, Conserved, InHand
  <2>2. /\ pushed \in Seq(Messages)
        /\ handled \in Seq(Messages)
        /\ deqQueue \in Seq(Messages)
    BY DEF Inv, TypeOK
  <2>3. Accounts(pushed, Append(handled, hand), 0, hand', deqQueue)
    BY <1>1, <2>1, <2>2, AccountsHandle
  <2>4. QED
    BY <1>1, <2>3 DEF Conserved, InHand
<1>6. QED
  BY <1>2, <1>3, <1>4, <1>5 DEF Inv

LEMMA StutterInv ==
    ASSUME Inv, UNCHANGED vars
    PROVE  Inv'
BY DEF Inv, TypeOK, QueueOwner, BlockingOwner, PopNonEmpty, HandFull,
       Conserved, InHand, vars

THEOREM Invariance == Spec => []Inv
<1>1. Inv /\ [Next]_vars => Inv'
  <2> SUFFICES ASSUME Inv, [Next]_vars PROVE Inv'
    OBVIOUS
  <2>1. ASSUME NEW p \in Producers, Push(p) PROVE Inv'
    BY <2>1, PushBackInv, PushRestInv DEF Push, PushProgress
  <2>2. CASE WaitStep
    BY <2>2, WaitInv
  <2>3. CASE DrainTest
    BY <2>3, DrainTestInv
  <2>4. CASE PopFront
    BY <2>4, PopFrontInv
  <2>5. CASE Handle
    BY <2>5, HandleInv
  <2>6. CASE UNCHANGED vars
    BY <2>6, StutterInv
  <2>7. QED
    BY <2>1, <2>2, <2>3, <2>4, <2>5, <2>6 DEF Next, Consume, WaitStep
<1>2. QED
  BY InitInv, <1>1, PTL DEF Spec

(* Whatever the threads and their interleaving, every variable has its     *)
(* type: in particular nothing but a message is ever handled.              *)
THEOREM TypeCorrect == Spec => []TypeOK
BY Invariance, PTL DEF Inv

(* The handling loop pops without holding the lock of its emptiness test;  *)
(* front() is nevertheless never called on an empty deque.                 *)
THEOREM PopsAreSafe == Spec => []PopNonEmpty
BY Invariance, PTL DEF Inv

(* No thread asks for muxQueue while it holds muxBlocking.                 *)
THEOREM LocksAreOrdered == Spec => []LockOrder
<1>1. Inv => LockOrder
  BY DEF Inv, TypeOK, BlockingOwner, LockOrder, WantsMuxQueue
<1>2. QED
  BY <1>1, Invariance, PTL

(* No message is lost, duplicated, altered or reordered.                   *)
THEOREM NothingIsLost == Spec => []Conserved
BY Invariance, PTL DEF Inv

(* The queue implements the abstract FIFO channel.                         *)
THEOREM QueueImplementsFifo == Spec => ImplementsFifo
<1>1. Init => Fifo!Init
  BY DEF Init, Fifo!Init
<1>2. Inv /\ [Next]_vars => [Fifo!Next]_<<pushed, handled>>
  <2> SUFFICES ASSUME Inv, [Next]_vars
               PROVE  Fifo!Next \/ UNCHANGED <<pushed, handled>>
    OBVIOUS
  <2>1. ASSUME NEW p \in Producers, NEW m \in Messages, PushBack(p, m)
        PROVE  Fifo!Next
    BY <2>1 DEF PushBack, Fifo!Next, Fifo!Send
  <2>2. CASE Handle
    <3>1. pc[Consumer] = "handle"
      BY <2>2 DEF Handle, Goto
    <3>2. Accounts(pushed, handled, 1, hand, deqQueue)
      BY <3>1 DEF Inv, Conserved, InHand
    <3>3. Len(pushed) \in Nat /\ Len(handled) \in Nat /\ Len(deqQueue) \in Nat
      BY DEF Inv, TypeOK
    <3>4. Len(handled) < Len(pushed) /\ hand = pushed[Len(handled) + 1]
      BY <3>2, <3>3 DEF Accounts
    <3>5. QED
      BY <2>2, <3>4 DEF Handle, Fifo!Next, Fifo!Deliver
  <2>3. CASE UNCHANGED vars
    BY <2>3 DEF vars
  <2>4. ASSUME NEW p \in Producers, PushProgress(p)
        PROVE  UNCHANGED <<pushed, handled>>
    BY <2>4 DEF PushProgress, PushLockBlocking, PushNotify,
                PushUnlockBlocking, PushUnlockQueue
  <2>5. CASE WaitStep \/ DrainTest \/ PopFront
    BY <2>5 DEF WaitStep, WaitTest, WaitLock, WaitBlock, WaitNotified, WaitSpurious,
                WaitRelock, WaitUnlock, DrainTest, PopFront, Empty
  <2>6. QED
    BY <2>1, <2>2, <2>3, <2>4, <2>5
       DEF Next, Consume, WaitStep, Push, PushProgress
<1>3. QED
  BY <1>1, <1>2, Invariance, PTL DEF Spec, ImplementsFifo, Fifo!Spec
=============================================================================
