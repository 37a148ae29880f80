---------------------------- MODULE ServerProofs ----------------------------
(***************************************************************************)
(* What Server promises for any clients and limits, in five parts:         *)
(*                                                                         *)
(*   the lock     Server's steps are SharedLock's or leave it alone, so    *)
(*                SharedLock's theorem carries over;                       *)
(*   types        TypeOK, by kinds of steps;                               *)
(*   timers       OneTimer, DisconnectOnce, GivenUpForGood, from TimerInv; *)
(*   the count    CountBounded, inductive beside the types;                *)
(*   the order    AcceptFirst, from OrderInv.                              *)
(***************************************************************************)
EXTENDS Server, TLAPS

LockP == INSTANCE SharedLockProofs WITH Threads <- {Timer, Main}, NoThread <- None

USE ServerAssumption DEF ServerAssumption, Statuses

ClientStep(c) ==
    \/ Accept(c) \/ SocketFails(c) \/ RunDisconnect(c)
    \/ Answer(c) \/ Talk(c) \/ Vanish(c)
    \/ TimerExpires(c) \/ Check(c) \/ HandleAnswer(c)

LockStep == \E t \in {Timer, Main} : Step(t)

(* The lock's variables change only as SharedLock says. *)
LEMMA LockSteps == [Next]_vars => [Lock!Next]_lock
<1> SUFFICES ASSUME [Next]_vars PROVE Lock!Next \/ UNCHANGED lock
  OBVIOUS
<1> USE DEF lock
<1>1. ASSUME NEW t \in {Timer, Main}, Step(t) PROVE Lock!Next
  BY <1>1 DEF Step, Locking, Unlocked, Lock!Next, Lock!Finish
<1>2. ASSUME NEW t \in {Timer, Main}, Leave(t) PROVE Lock!Next
  BY <1>2 DEF Leave, Lock!Next, Lock!Finish
<1>3. ASSUME NEW c \in Clients, ClientStep(c) PROVE Lock!Next \/ UNCHANGED lock
  BY <1>2, <1>3 DEF ClientStep, Accept, SocketFails, RunDisconnect, Answer, Talk, Vanish,
     TimerExpires, Check, CheckExpired, CheckWaiting, CheckLive, HandleAnswer
<1>4. CASE TakeAnswer \/ HandleForAll \/ UNCHANGED vars
  BY <1>4 DEF TakeAnswer, HandleForAll, vars
<1>5. QED
  BY <1>1, <1>3, <1>4 DEF Next, ClientStep

(* The supervision uses the lock as SharedLock describes it, so the two     *)
(* threads' critical sections exclude each other.                          *)
THEOREM CriticalSectionsExclude == Spec => []LockExclusive
<1>1. Init => LockP!Init
  BY DEF Init, Lock!Init, LockP!Init
<1>2. [Next]_vars => [LockP!Next]_(LockP!lockVars)
  BY LockSteps DEF lock, LockP!lockVars, LockP!Next, LockP!Finish, LockP!TestOwns,
     LockP!Acquire, LockP!Claim, LockP!Release, LockP!Disclaim, LockP!Move, LockP!Alive,
     Lock!Next, Lock!Finish, Lock!TestOwns, Lock!Acquire, Lock!Claim, Lock!Release,
     Lock!Disclaim, Lock!Move, Lock!Alive
<1>3. Spec => LockP!Spec
  BY <1>1, <1>2, PTL DEF Spec, LockP!Spec
<1>4. None \notin {Timer, Main}
  OBVIOUS
<1>5. LockP!Spec => []LockP!MutualExclusion
  BY <1>4, LockP!Exclusion, PTL
<1>6. LockP!MutualExclusion => LockExclusive
  BY DEF LockP!MutualExclusion, LockExclusive, Lock!MutualExclusion
<1>7. QED
  BY <1>3, <1>5, <1>6, PTL

-----------------------------------------------------------------------------
(* Types. *)

LEMMA InitType == Init => TypeOK
<1> SUFFICES ASSUME Init PROVE TypeOK
  OBVIOUS
<1> USE DEF Init
<1>1. Lock!TypeOK
  BY DEF Lock!Init, Lock!TypeOK, Lock!Stages
<1>2. RecordsOK /\ TimersOK
  BY DEF RecordsOK, TimersOK
<1>3. LinksOK /\ ClientsOK
  BY DEF LinksOK, ClientsOK
<1>4. QueuesOK /\ JobsOK
  BY DEF QueuesOK, JobsOK
<1>5. QED
  BY <1>1, <1>2, <1>3, <1>4 DEF TypeOK

\* The steps that do not touch the lock, those of the lock alone, and those
\* that end a critical section.
AsioStep(c) == \/ Accept(c) \/ SocketFails(c) \/ RunDisconnect(c)
               \/ Answer(c) \/ Talk(c) \/ Vanish(c)
LoopStep == TakeAnswer \/ HandleForAll \/ \E c \in Clients : TimerExpires(c)
EndStep(c) == Check(c) \/ HandleAnswer(c)

LEMMA StepKinds ==
    ASSUME [Next]_vars
    PROVE  \/ \E c \in Clients : AsioStep(c) \/ EndStep(c)
           \/ LoopStep
           \/ LockStep
           \/ UNCHANGED vars
BY DEF Next, AsioStep, LoopStep, EndStep, LockStep

LEMMA LockTypeNext ==
    ASSUME Lock!TypeOK, [Next]_vars
    PROVE  Lock!TypeOK'
<1>1. Lock!Next \/ UNCHANGED lock
  BY LockSteps
<1>2. CASE UNCHANGED lock
  BY <1>2 DEF lock, Lock!TypeOK
<1>3. ASSUME NEW t \in {Timer, Main}, Lock!TestOwns(t) \/ Lock!Finish(t)
      PROVE  Lock!TypeOK'
  BY <1>3 DEF Lock!TypeOK, Lock!Stages, Lock!Move, Lock!TestOwns, Lock!Finish,
     Lock!Acquire, Lock!Claim, Lock!Release, Lock!Disclaim
<1>4. QED
  BY <1>1, <1>2, <1>3 DEF Lock!Next

LEMMA AsioType ==
    ASSUME TypeOK, NEW c \in Clients, AsioStep(c)
    PROVE  /\ RecordsOK' /\ TimersOK' /\ LinksOK' /\ QueuesOK' /\ JobsOK' /\ ClientsOK'
           /\ fault' \in {"none", "cancel", "null"}
<1> USE DEF TypeOK
<1>1. CASE Accept(c)
  <2>1. RecordsOK'
    BY <1>1 DEF Accept, RecordsOK, FirstStatus
  <2>2. TimersOK' /\ LinksOK'
    BY <1>1 DEF Accept, TimersOK, LinksOK
  <2>3. <<"ServerAccept">> \in Seq({"ServerAccept", "ClientPing"})
    OBVIOUS
  <2>4. QueuesOK'
    BY <1>1, <2>3 DEF Accept, QueuesOK
  <2>5. JobsOK' /\ ClientsOK' /\ fault' \in {"none", "cancel", "null"}
    BY <1>1 DEF Accept, JobsOK, ClientsOK, peers
  <2>6. QED
    BY <2>1, <2>2, <2>4, <2>5
<1>2. CASE SocketFails(c) \/ RunDisconnect(c)
  <2>1. UNCHANGED <<records, timers, toClient, inbox, job, peers, accepted>>
    BY <1>2 DEF SocketFails, RunDisconnect
  <2>2. RecordsOK' /\ TimersOK' /\ QueuesOK' /\ JobsOK' /\ ClientsOK'
    BY <2>1 DEF RecordsOK, TimersOK, QueuesOK, JobsOK, ClientsOK, records, timers, peers
  <2>3. LinksOK' /\ fault' \in {"none", "cancel", "null"}
    <3>1. CASE SocketFails(c)
      BY <3>1 DEF SocketFails, LinksOK
    <3>2. CASE RunDisconnect(c)
      <4>1. pending[c] \in Nat /\ pending[c] > 0
        BY <3>2 DEF RunDisconnect, LinksOK
      <4>2. pending[c] - 1 \in Nat
        BY <4>1
      <4>3. QED
        BY <3>2, <4>2 DEF RunDisconnect, LinksOK
    <3>3. QED
      BY <1>2, <3>1, <3>2
  <2>4. QED
    BY <2>2, <2>3
<1>3. CASE Answer(c) \/ Talk(c) \/ Vanish(c)
  <2>1. UNCHANGED <<records, timers, entry, links, job, fault, accepted>>
    BY <1>3 DEF Answer, Talk, Vanish
  <2>2. /\ RecordsOK' /\ TimersOK' /\ LinksOK' /\ JobsOK'
        /\ fault' \in {"none", "cancel", "null"}
    BY <2>1 DEF RecordsOK, TimersOK, LinksOK, JobsOK, records, timers, links
  <2>3. ClientsOK'
    <3>1. CASE Answer(c)
      BY <3>1 DEF Answer, ClientsOK
    <3>2. CASE Talk(c)
      BY <3>2 DEF Talk, ClientsOK
    <3>3. CASE Vanish(c)
      BY <3>3 DEF Vanish, ClientsOK
    <3>4. QED
      BY <1>3, <3>1, <3>2, <3>3
  <2>4. QueuesOK'
    <3>1. CASE Answer(c)
      <4>1. toClient[c] \in Seq({"ServerAccept", "ClientPing"}) /\ toClient[c] # <<>>
        BY <3>1 DEF Answer, QueuesOK
      <4>2. /\ Head(toClient[c]) \in {"ServerAccept", "ClientPing"}
            /\ Tail(toClient[c]) \in Seq({"ServerAccept", "ClientPing"})
        BY <4>1
      <4>3. [client |-> c, type |-> Reply(Head(toClient[c]))] \in Message
        BY <4>2 DEF Reply, Message
      <4>4. QED
        BY <3>1, <4>2, <4>3 DEF Answer, QueuesOK
    <3>2. CASE Talk(c)
      BY <3>2 DEF Talk, QueuesOK, Message
    <3>3. CASE Vanish(c)
      BY <3>3 DEF Vanish, QueuesOK
    <3>4. QED
      BY <1>3, <3>1, <3>2, <3>3
  <2>5. QED
    BY <2>2, <2>3, <2>4
<1>4. QED
  BY <1>1, <1>2, <1>3 DEF AsioStep

LEMMA LoopType ==
    ASSUME TypeOK, LoopStep
    PROVE  /\ RecordsOK' /\ TimersOK' /\ LinksOK' /\ QueuesOK' /\ JobsOK' /\ ClientsOK'
           /\ fault' \in {"none", "cancel", "null"}
<1> USE DEF TypeOK
<1>1. UNCHANGED <<records, links, fault, peers, accepted>>
  BY DEF LoopStep, TakeAnswer, HandleForAll, TimerExpires
<1>2. RecordsOK' /\ ClientsOK' /\ fault' \in {"none", "cancel", "null"}
  BY <1>1 DEF RecordsOK, ClientsOK, records, peers
<1>3. CASE TakeAnswer
  <2>1. inbox \in Seq(Message) /\ inbox # <<>>
    BY <1>3 DEF TakeAnswer, QueuesOK
  <2>2. Head(inbox) \in Message /\ Tail(inbox) \in Seq(Message)
    BY <2>1
  <2>3. Head(inbox) \in AnswerJob
    BY <1>3, <2>2 DEF TakeAnswer, Message, AnswerJob
  <2>4. JobsOK'
    BY <1>3, <2>3 DEF TakeAnswer, JobsOK
  <2>5. QueuesOK'
    BY <1>3, <2>2 DEF TakeAnswer, QueuesOK
  <2>6. TimersOK' /\ LinksOK'
    BY <1>1, <1>3 DEF TakeAnswer, TimersOK, LinksOK, timers, links
  <2>7. QED
    BY <1>2, <2>4, <2>5, <2>6
<1>4. CASE HandleForAll
  <2>1. inbox \in Seq(Message) /\ inbox # <<>>
    BY <1>4 DEF HandleForAll, QueuesOK
  <2>2. QueuesOK'
    BY <1>4, <2>1 DEF HandleForAll, QueuesOK
  <2>3. TimersOK' /\ JobsOK'
    BY <1>4 DEF HandleForAll, TimersOK, JobsOK, timers
  <2>4. LinksOK'
    BY <1>1, <1>4 DEF HandleForAll, LinksOK, links
  <2>5. QED
    BY <1>2, <2>2, <2>3, <2>4
<1>5. ASSUME NEW c \in Clients, TimerExpires(c)
      PROVE  TimersOK' /\ LinksOK' /\ QueuesOK' /\ JobsOK'
  <2>1. waits[c] \in Nat /\ waits[c] > 0
    BY <1>5 DEF TimerExpires, TimersOK
  <2>2. waits[c] - 1 \in Nat
    BY <2>1
  <2>3. TimersOK'
    BY <1>5, <2>2 DEF TimerExpires, TimersOK
  <2>4. LinksOK' /\ QueuesOK'
    BY <1>5 DEF TimerExpires, LinksOK, QueuesOK, links
  <2>5. PICK s \in StatusesRead(c), n \in CountsRead(c) :
            job' = [job EXCEPT ![Timer] = [client |-> c, status |-> s, count |-> n]]
    BY <1>5 DEF TimerExpires
  <2>6. JobsOK'
    <3>1. s \in Statuses /\ n \in Nat
      BY DEF StatusesRead, CountsRead, RecordsOK
    <3>2. [client |-> c, status |-> s, count |-> n] \in CheckJob
      BY <3>1 DEF CheckJob
    <3>3. QED
      BY <2>5, <3>2 DEF JobsOK
  <2>7. QED
    BY <2>3, <2>4, <2>6
<1>6. QED
  BY <1>2, <1>3, <1>4, <1>5 DEF LoopStep

LEMMA EndType ==
    ASSUME TypeOK, NEW c \in Clients, EndStep(c)
    PROVE  /\ RecordsOK' /\ TimersOK' /\ LinksOK' /\ QueuesOK' /\ JobsOK' /\ ClientsOK'
           /\ fault' \in {"none", "cancel", "null"}
<1> USE DEF TypeOK
<1>1. ASSUME NEW t \in {Timer, Main}, Leave(t) PROVE JobsOK'
  BY <1>1 DEF Leave, JobsOK
<1>2. JobsOK'
  BY <1>1 DEF EndStep, Check, CheckExpired, CheckWaiting, CheckLive, HandleAnswer
<1>3. UNCHANGED peers /\ UNCHANGED inbox
  BY DEF EndStep, Check, CheckExpired, CheckWaiting, CheckLive, HandleAnswer
<1>4. ClientsOK'
  BY <1>3 DEF ClientsOK, peers
<1>5. CASE CheckExpired(c)
  <2>1. RecordsOK' /\ TimersOK'
    BY <1>5 DEF CheckExpired, RecordsOK, TimersOK
  <2>2. LinksOK'
    BY <1>5 DEF CheckExpired, LinksOK
  <2>3. QueuesOK' /\ fault' \in {"none", "cancel", "null"}
    BY <1>5 DEF CheckExpired, QueuesOK
  <2>4. QED
    BY <1>2, <1>4, <2>1, <2>2, <2>3
<1>6. CASE CheckWaiting(c) \/ CheckLive(c)
  <2>1. job[Timer] \in CheckJob
    BY <1>6 DEF CheckWaiting, CheckLive, Leave, JobsOK
  <2>2. job[Timer].count + 1 \in Nat
    BY <2>1 DEF CheckJob
  <2>3. Rearm(c) /\ UNCHANGED <<status, accepted, tracked, links>>
    BY <1>6 DEF CheckWaiting, CheckLive
  <2>4. RecordsOK'
    BY <2>2, <2>3 DEF Rearm, RecordsOK
  <2>5. TimersOK'
    BY <2>3 DEF Rearm, TimersOK
  <2>6. (UNCHANGED <<entry, toClient, fault>>) \/ Ping(c)
    BY <1>6 DEF CheckWaiting, CheckLive
  <2>7. LinksOK' /\ fault' \in {"none", "cancel", "null"}
    BY <2>3, <2>6 DEF Ping, LinksOK, links
  <2>8. Append(toClient[c], "ClientPing") \in Seq({"ServerAccept", "ClientPing"})
    BY DEF QueuesOK
  <2>9. QueuesOK'
    BY <1>3, <2>6, <2>8 DEF Ping, QueuesOK
  <2>10. QED
    BY <1>2, <1>4, <2>4, <2>5, <2>7, <2>9
<1>7. CASE HandleAnswer(c)
  <2>1. RecordsOK'
    BY <1>7 DEF HandleAnswer, RecordsOK
  <2>2. TimersOK' /\ LinksOK' /\ QueuesOK' /\ fault' \in {"none", "cancel", "null"}
    BY <1>7 DEF HandleAnswer, TimersOK, LinksOK, QueuesOK, timers, links
  <2>3. QED
    BY <1>2, <1>4, <2>1, <2>2
<1>8. QED
  BY <1>5, <1>6, <1>7 DEF EndStep, Check

LEMMA StillType ==
    ASSUME TypeOK, LockStep \/ UNCHANGED vars
    PROVE  /\ RecordsOK' /\ TimersOK' /\ LinksOK' /\ QueuesOK' /\ JobsOK' /\ ClientsOK'
           /\ fault' \in {"none", "cancel", "null"}
<1>1. UNCHANGED <<records, timers, entry, links, toClient, inbox, job, fault, peers, accepted>>
  BY DEF LockStep, Step, Locking, Unlocked, vars
<1>2. QED
  BY <1>1 DEF TypeOK, RecordsOK, TimersOK, LinksOK, QueuesOK, JobsOK, ClientsOK,
     records, timers, links, peers

LEMMA TypeNext == ASSUME TypeOK, [Next]_vars PROVE TypeOK'
<1>1. Lock!TypeOK'
  BY LockTypeNext DEF TypeOK
<1>2. QED
  BY <1>1, StepKinds, AsioType, LoopType, EndType, StillType DEF TypeOK

(* Every variable keeps its type, for any set of clients and any limits.   *)
THEOREM TypeCorrect == Spec => []TypeOK
BY InitType, TypeNext, PTL DEF Spec

-----------------------------------------------------------------------------
(* Timers: one check coming per client, and none once it is disconnected.  *)

\* OneTimer of one client, and what makes it inductive: before it is accepted
\* a client has no timer; a client that has a check coming is Waiting or Live,
\* since only that check could declare it dead; a client that has been
\* disconnected has no check coming.
Watched(c) ==
    /\ waits[c] <= 1
    /\ Checking(c) => waits[c] = 0 /\ job[Timer].status \in {"Waiting", "Live"}
    /\ tracked[c] <=> Supervised(c)
    /\ socket[c] = "new" => ~Supervised(c) /\ disconnects[c] = 0
    /\ Supervised(c) => status[c] \in {"Waiting", "Live"}
    /\ disconnects[c] = 0 \/ (disconnects[c] = 1 /\ ~Supervised(c))

TimerInv == TypeOK /\ \A c \in Clients : Watched(c)

LEMMA InitTimer == Init => TimerInv
<1> SUFFICES ASSUME Init PROVE TimerInv
  OBVIOUS
<1>1. ASSUME NEW c \in Clients PROVE Watched(c)
  BY DEF Init, Watched, Supervised, Checking
<1>2. QED
  BY <1>1, InitType DEF TimerInv

\* A step that leaves a client's timer alone.
LEMMA QuietWatched ==
    ASSUME NEW d, Watched(d), job'[Timer] = job[Timer],
           waits'[d] = waits[d], tracked'[d] = tracked[d],
           disconnects'[d] = disconnects[d],
           socket'[d] = "new" => socket[d] = "new",
           status'[d] = status[d] \/ status'[d] = "Live"
    PROVE  Watched(d)'
BY DEF Watched, Supervised, Checking

LEMMA QuietSteps ==
    ASSUME TimerInv, NEW c \in Clients,
           \/ SocketFails(c) \/ RunDisconnect(c) \/ Answer(c) \/ Talk(c) \/ Vanish(c)
           \/ HandleAnswer(c) \/ TakeAnswer \/ HandleForAll
           \/ LockStep \/ UNCHANGED vars
    PROVE  \A d \in Clients : Watched(d)'
<1> SUFFICES ASSUME NEW d \in Clients PROVE Watched(d)'
  OBVIOUS
<1>1. /\ UNCHANGED <<waits, tracked, disconnects>>
      /\ UNCHANGED job \/ (\E x : job' = [job EXCEPT ![Main] = x])
  BY DEF SocketFails, RunDisconnect, Answer, Talk, Vanish, HandleAnswer, Leave, TakeAnswer,
     HandleForAll, LockStep, Step, Locking, Unlocked, vars, timers, links
<1>2. job'[Timer] = job[Timer]
  <2>1. CASE UNCHANGED job
    BY <2>1
  <2>2. CASE \E x : job' = [job EXCEPT ![Main] = x]
    <3>1. PICK x : job' = [job EXCEPT ![Main] = x]
      BY <2>2
    <3>2. Timer \in DOMAIN job
      BY DEF TimerInv, TypeOK, JobsOK
    <3>3. QED
      BY <3>1, <3>2, ServerAssumption
  <2>3. QED
    BY <1>1, <2>1, <2>2
<1>3. status'[d] = status[d] \/ status'[d] = "Live"
  <2>1. UNCHANGED status \/ status' = [status EXCEPT ![c] = "Live"]
    BY DEF SocketFails, RunDisconnect, Answer, Talk, Vanish, HandleAnswer, TakeAnswer,
       HandleForAll, LockStep, Step, Locking, Unlocked, vars, records
  <2>2. status \in [Clients -> Statuses]
    BY DEF TimerInv, TypeOK, RecordsOK
  <2>3. QED
    BY <2>1, <2>2
<1>4. socket'[d] = "new" => socket[d] = "new"
  <2>1. UNCHANGED socket \/ socket' = [socket EXCEPT ![c] = "closed"]
    BY DEF SocketFails, RunDisconnect, Answer, Talk, Vanish, HandleAnswer, TakeAnswer,
       HandleForAll, LockStep, Step, Locking, Unlocked, vars, links
  <2>2. socket \in [Clients -> {"new", "open", "closed"}]
    BY DEF TimerInv, TypeOK, LinksOK
  <2>3. QED
    BY <2>1, <2>2
<1>5. QED
  BY <1>1, <1>2, <1>3, <1>4, QuietWatched DEF TimerInv

\* A step that moves the timer thread from or to another client.
LEMMA OtherWatched ==
    ASSUME NEW d, Watched(d), ~Checking(d), ~Checking(d)',
           waits'[d] = waits[d], tracked'[d] = tracked[d],
           disconnects'[d] = disconnects[d],
           socket'[d] = socket[d], status'[d] = status[d]
    PROVE  Watched(d)'
BY DEF Watched, Supervised

LEMMA AcceptWatched ==
    ASSUME TimerInv, NEW c \in Clients, Accept(c)
    PROVE  \A d \in Clients : Watched(d)'
<1> SUFFICES ASSUME NEW d \in Clients PROVE Watched(d)'
  OBVIOUS
<1> USE DEF TimerInv, TypeOK
<1>1. CASE d = c
  <2>1. ~Checking(c) /\ disconnects[c] = 0
    BY DEF Accept, Watched, Supervised
  <2>2. ~Checking(c)' /\ disconnects'[c] = 0
    BY <2>1 DEF Accept, Checking
  <2>3. waits'[c] = 1 /\ tracked'[c] = TRUE /\ socket'[c] = "open" /\ status'[c] = "Waiting"
    BY DEF Accept, TimersOK, LinksOK, RecordsOK, FirstStatus
  <2>4. QED
    BY <1>1, <2>2, <2>3 DEF Watched, Supervised
<1>2. CASE d # c
  <2>1. /\ waits'[d] = waits[d] /\ tracked'[d] = tracked[d] /\ socket'[d] = socket[d]
        /\ disconnects'[d] = disconnects[d] /\ status'[d] = status[d]
        /\ job' = job
    BY <1>2 DEF Accept, TimersOK, LinksOK, RecordsOK
  <2>2. QED
    BY <2>1, QuietWatched
<1>3. QED
  BY <1>1, <1>2

LEMMA ExpiresWatched ==
    ASSUME TimerInv, NEW c \in Clients, TimerExpires(c)
    PROVE  \A d \in Clients : Watched(d)'
<1> SUFFICES ASSUME NEW d \in Clients PROVE Watched(d)'
  OBVIOUS
<1> USE DEF TimerInv, TypeOK
<1> PICK s \in StatusesRead(c), n \in CountsRead(c) :
        job' = [job EXCEPT ![Timer] = [client |-> c, status |-> s, count |-> n]]
  BY DEF TimerExpires
<1>0. s \in {status[c], "Live"} /\ s \in Statuses /\ n \in Nat
  BY DEF StatusesRead, CountsRead, RecordsOK
<1>1. job[Timer] = None /\ job'[Timer] = [client |-> c, status |-> s, count |-> n]
  BY DEF TimerExpires, JobsOK
<1>2. job'[Timer] # None
  <2>1. [client |-> c, status |-> s, count |-> n]
            \in [client : Clients, status : Statuses, count : Nat]
    BY <1>0
  <2>2. QED
    BY <1>1, <2>1
<1>3. /\ UNCHANGED <<status, tracked, socket, disconnects>>
      /\ waits' = [waits EXCEPT ![c] = @ - 1]
  BY DEF TimerExpires, records, links
<1>4. CASE d = c
  <2>1. waits[c] \in Nat /\ waits[c] <= 1 /\ waits[c] > 0
    BY DEF TimerExpires, TimersOK, Watched
  <2>2. waits'[c] = 0
    BY <1>3, <2>1 DEF TimersOK
  <2>3. status[c] \in {"Waiting", "Live"} /\ Supervised(c)
    BY <2>1 DEF Watched, Supervised
  <2>4. Checking(c)' /\ Supervised(c)'
    BY <1>1, <1>2 DEF Checking, Supervised
  <2>5. QED
    BY <1>0, <1>1, <1>3, <1>4, <2>2, <2>3, <2>4 DEF Watched
<1>5. CASE d # c
  <2>1. ~Checking(d) /\ ~Checking(d)'
    BY <1>1, <1>5 DEF Checking
  <2>2. waits'[d] = waits[d]
    BY <1>3, <1>5 DEF TimersOK
  <2>3. QED
    BY <1>3, <2>1, <2>2, OtherWatched
<1>6. QED
  BY <1>4, <1>5

LEMMA CheckWatched ==
    ASSUME TimerInv, NEW c \in Clients, Check(c)
    PROVE  \A d \in Clients : Watched(d)'
<1> SUFFICES ASSUME NEW d \in Clients PROVE Watched(d)'
  OBVIOUS
<1> USE DEF TimerInv, TypeOK
<1>1. Checking(c) /\ job'[Timer] = None
  BY DEF Check, CheckExpired, CheckWaiting, CheckLive, Leave, Checking, JobsOK
<1>2. ~Checking(d)'
  BY <1>1 DEF Checking
<1>3. waits[c] = 0 /\ tracked[c] /\ disconnects[c] = 0 /\ socket[c] # "new"
  BY <1>1 DEF Watched, Supervised
<1>4. CASE d = c
  <2>1. CASE CheckExpired(c)
    <3>1. waits'[c] = 0 /\ tracked'[c] = FALSE /\ socket'[c] # "new"
      BY <1>3, <2>1 DEF CheckExpired, TimersOK
    <3>2. disconnects'[c] \in {0, 1}
      BY <1>3, <2>1 DEF CheckExpired, LinksOK
    <3>3. QED
      BY <1>2, <1>4, <3>1, <3>2 DEF Watched, Supervised
  <2>2. CASE CheckWaiting(c) \/ CheckLive(c)
    <3>1. waits'[c] = 1
      BY <1>3, <2>2 DEF CheckWaiting, CheckLive, Rearm, TimersOK
    <3>2. UNCHANGED <<status, tracked, socket, disconnects>>
      BY <2>2 DEF CheckWaiting, CheckLive, links
    <3>3. status[c] \in {"Waiting", "Live"}
      BY <1>1 DEF Watched, Supervised
    <3>4. QED
      BY <1>2, <1>3, <1>4, <3>1, <3>2, <3>3 DEF Watched, Supervised
  <2>3. QED
    BY <2>1, <2>2 DEF Check
<1>5. CASE d # c
  <2>1. ~Checking(d)
    BY <1>1, <1>5 DEF Checking
  <2>2. /\ waits'[d] = waits[d] /\ tracked'[d] = tracked[d]
        /\ disconnects'[d] = disconnects[d]
        /\ socket'[d] = socket[d] /\ status'[d] = status[d]
    BY <1>5 DEF Check, CheckExpired, CheckWaiting, CheckLive, Rearm, TimersOK, LinksOK,
       RecordsOK, links
  <2>3. QED
    BY <1>2, <2>1, <2>2, OtherWatched
<1>6. QED
  BY <1>4, <1>5

LEMMA TimerNext == ASSUME TimerInv, [Next]_vars PROVE TimerInv'
<1>1. TypeOK'
  BY TypeNext DEF TimerInv
<1>2. \A d \in Clients : Watched(d)'
  BY QuietSteps, AcceptWatched, ExpiresWatched, CheckWatched
     DEF Next, LockStep
<1>3. QED
  BY <1>1, <1>2 DEF TimerInv

LEMMA TimerInvariant == Spec => []TimerInv
BY InitTimer, TimerNext, PTL DEF Spec

(* checkClientConnStatus and its timers: a client never has two checks     *)
(* coming, timersContainer holds the timers of the clients that have one,  *)
(* and no check finds its client dead: for any clients and limits.         *)
THEOREM TimersAreUnique == Spec => []OneTimer
<1>1. TimerInv => OneTimer
  BY DEF TimerInv, Watched, OneTimer
<1>2. QED
  BY <1>1, TimerInvariant, PTL

(* DisconnectClient: however late the answers that revive a client, the    *)
(* server disconnects it once.                                             *)
THEOREM OneDisconnect == Spec => []DisconnectOnce
<1>1. TimerInv => DisconnectOnce
  <2>1. ASSUME TimerInv, NEW c \in Clients PROVE disconnects[c] \in {0, 1}
    BY <2>1 DEF TimerInv, Watched
  <2>2. \A n \in {0, 1} : n <= 1
    OBVIOUS
  <2>3. QED
    BY <2>1, <2>2 DEF DisconnectOnce
<1>2. QED
  BY <1>1, TimerInvariant, PTL

\* Only Accept puts a client into timersContainer.
LEMMA TrackedOnce ==
    ASSUME TimerInv, [Next]_vars, NEW d \in Clients, socket[d] # "new", ~tracked[d]
    PROVE  ~tracked'[d]
<1> USE DEF TimerInv, TypeOK, TimersOK
<1>1. ASSUME NEW c \in Clients, Accept(c) PROVE ~tracked'[d]
  <2>1. c # d
    BY <1>1 DEF Accept
  <2>2. QED
    BY <1>1, <2>1 DEF Accept
<1>2. ASSUME NEW c \in Clients, CheckExpired(c) PROVE ~tracked'[d]
  BY <1>2 DEF CheckExpired
<1>3. ASSUME NEW c \in Clients,
             \/ SocketFails(c) \/ RunDisconnect(c) \/ Answer(c) \/ Talk(c) \/ Vanish(c)
             \/ TimerExpires(c) \/ CheckWaiting(c) \/ CheckLive(c) \/ HandleAnswer(c)
      PROVE tracked' = tracked
  BY <1>3 DEF SocketFails, RunDisconnect, Answer, Talk, Vanish, TimerExpires, CheckWaiting,
              CheckLive, HandleAnswer, timers
<1>4. ASSUME TakeAnswer \/ HandleForAll \/ LockStep \/ UNCHANGED vars
      PROVE tracked' = tracked
  BY <1>4 DEF TakeAnswer, HandleForAll, LockStep, Step, Locking, Unlocked, vars, timers
<1>5. QED
  BY <1>1, <1>2, <1>3, <1>4 DEF Next, Check, LockStep

(* Server.cpp, OnMessage and checkClientConnStatus: once a client is given *)
(* up nothing supervises it again, whatever answers come late.             *)
THEOREM NoRevival == Spec => GivenUpForGood
<1>1. ASSUME TimerInv, [Next]_vars, NEW c \in Clients, socket[c] # "new", ~Supervised(c)
      PROVE ~Supervised(c)'
  <2>1. ~tracked[c]
    BY <1>1 DEF TimerInv, Watched
  <2>2. ~tracked'[c]
    BY <1>1, <2>1, TrackedOnce
  <2>3. Watched(c)'
    BY <1>1, TimerNext DEF TimerInv
  <2>4. QED
    BY <2>2, <2>3 DEF Watched
<1>2. TimerInv /\ [Next]_vars =>
        [\A c \in Clients : socket[c] # "new" /\ ~Supervised(c) => ~Supervised(c)']_vars
  BY <1>1
<1>3. QED
  BY <1>2, TimerInvariant, PTL DEF Spec, GivenUpForGood

-----------------------------------------------------------------------------
(* The count. *)

LEMMA CountNext == ASSUME TypeOK, CountBounded, [Next]_vars PROVE CountBounded'
<1> SUFFICES ASSUME NEW d \in Clients
             PROVE  count'[d] <= MAX_TIME_CLIENT_ACCEPT + 1 \/ count'[d] <= MAX_FAIL_PINGS + 1
  BY DEF CountBounded
<1>1. count \in [Clients -> Nat]
  BY DEF TypeOK, RecordsOK
<1>2. CASE count' = count
  BY <1>2 DEF CountBounded
<1>3. ASSUME NEW c \in Clients, Accept(c) \/ HandleAnswer(c) PROVE count' = [count EXCEPT ![c] = 0]
  BY <1>3 DEF Accept, HandleAnswer
<1>4. ASSUME NEW c \in Clients, Accept(c) \/ HandleAnswer(c)
      PROVE  count'[d] \in {0, count[d]}
  BY <1>1, <1>3, <1>4
<1>5. ASSUME NEW c \in Clients, CheckWaiting(c) \/ CheckLive(c)
      PROVE  /\ count' = [count EXCEPT ![c] = job[Timer].count + 1]
             /\ job[Timer].count \in Nat
             /\ job[Timer].count <= MAX_TIME_CLIENT_ACCEPT \/ job[Timer].count <= MAX_FAIL_PINGS
  <2>1. job[Timer] \in CheckJob
    BY <1>5 DEF CheckWaiting, CheckLive, Leave, TypeOK, JobsOK
  <2>2. job[Timer].count \in Nat
    BY <2>1 DEF CheckJob
  <2>3. \/ job[Timer].status = "Waiting" /\ ~(job[Timer].count > Limit["Waiting"])
        \/ job[Timer].status = "Live" /\ ~(job[Timer].count > Limit["Live"])
    BY <1>5 DEF CheckWaiting, CheckLive, Over
  <2>4. Limit["Waiting"] = MAX_TIME_CLIENT_ACCEPT /\ Limit["Live"] = MAX_FAIL_PINGS
    BY DEF Limit
  <2>5. count' = [count EXCEPT ![c] = job[Timer].count + 1]
    BY <1>5 DEF CheckWaiting, CheckLive, Rearm
  <2>6. QED
    BY <2>2, <2>3, <2>4, <2>5
<1>6. \/ count' = count
      \/ \E c \in Clients : Accept(c) \/ HandleAnswer(c) \/ CheckWaiting(c) \/ CheckLive(c)
  BY DEF Next, SocketFails, RunDisconnect, Answer, Talk, Vanish, TimerExpires, Check,
     CheckExpired, TakeAnswer, HandleForAll, Step, Locking, Unlocked, records, vars
<1>7. CASE \E c \in Clients : Accept(c) \/ HandleAnswer(c)
  BY <1>1, <1>4, <1>7 DEF CountBounded
<1>8. CASE \E c \in Clients : CheckWaiting(c) \/ CheckLive(c)
  <2>1. PICK c \in Clients : CheckWaiting(c) \/ CheckLive(c)
    BY <1>8
  <2>2. CASE d = c
    <3>1. count'[d] = job[Timer].count + 1
      BY <1>1, <1>5, <2>1, <2>2
    <3>2. QED
      BY <1>5, <2>1, <3>1
  <2>3. CASE d # c
    <3>1. count'[d] = count[d]
      BY <1>1, <1>5, <2>1, <2>3
    <3>2. QED
      BY <3>1 DEF CountBounded
  <2>4. QED
    BY <2>2, <2>3
<1>9. QED
  BY <1>2, <1>6, <1>7, <1>8

(* checkClientConnStatus writes back the count it read before lock(), so   *)
(* an answer's reset may be lost: even so the count passes its limits by   *)
(* one at most.                                                            *)
THEOREM CountsStayBounded == Spec => []CountBounded
<1>1. Init => CountBounded
  <2> SUFFICES ASSUME Init, NEW c \in Clients PROVE count[c] <= MAX_FAIL_PINGS + 1
    BY DEF CountBounded
  <2>1. count[c] = 0
    BY DEF Init
  <2>2. QED
    BY <2>1
<1>2. TypeOK /\ CountBounded /\ [Next]_vars => CountBounded'
  BY CountNext
<1>3. QED
  BY <1>1, <1>2, TypeCorrect, PTL DEF Spec

-----------------------------------------------------------------------------
(* The order accept, live, ping. *)

\* AcceptFirst, and the same for everything a live status or a ping can be
\* derived from: the pings sent, the answers to them wherever they are, and
\* the status the timer thread has read, without the lock: it may have read
\* what the main thread was writing for the very ClientAccept.
LiveAccepted == \A c \in Clients : status[c] = "Live" => accepted[c]
SentAccepted ==
    \A c \in Clients :
        \A i \in DOMAIN toClient[c] : toClient[c][i] = "ClientPing" => accepted[c]
AnsweredAccepted ==
    \A i \in DOMAIN inbox : inbox[i].type = "ClientPing" => accepted[inbox[i].client]
CheckedAccepted ==
    job[Timer] # None =>
        (job[Timer].status = "Live" =>
            accepted[job[Timer].client] \/ Answering(job[Timer].client))
HandledAccepted ==
    job[Main] # None => (job[Main].type = "ClientPing" => accepted[job[Main].client])

OrderInv ==
    /\ TypeOK
    /\ LiveAccepted /\ SentAccepted /\ AnsweredAccepted /\ CheckedAccepted /\ HandledAccepted

\* Handling the message, the main thread leaves a client accepted.
LEMMA HandledIsAccepted ==
    ASSUME OrderInv, NEW c \in Clients, HandleAnswer(c)
    PROVE  accepted'[c]
<1>1. job[Main] # None /\ job[Main].client = c
  BY DEF HandleAnswer, Leave
<1>2. job[Main].type \in {"ClientAccept", "ClientPing"}
  BY <1>1 DEF OrderInv, TypeOK, JobsOK, AnswerJob
<1>3. accepted[c] \/ job[Main].type = "ClientAccept"
  BY <1>1, <1>2 DEF OrderInv, HandledAccepted
<1>4. accepted \in [Clients -> BOOLEAN]
  BY DEF OrderInv, TypeOK, RecordsOK
<1>5. QED
  BY <1>3, <1>4 DEF HandleAnswer

LEMMA InitOrder == Init => OrderInv
<1> SUFFICES ASSUME Init PROVE OrderInv
  OBVIOUS
<1>1. LiveAccepted /\ SentAccepted /\ AnsweredAccepted /\ CheckedAccepted /\ HandledAccepted
  BY DEF Init, LiveAccepted, SentAccepted, AnsweredAccepted, CheckedAccepted, HandledAccepted
<1>2. QED
  BY <1>1, InitType DEF OrderInv

\* ClientAccept is handled once and for all.
LEMMA AcceptedStays ==
    ASSUME TypeOK, [Next]_vars, NEW d \in Clients, accepted[d]
    PROVE  accepted'[d]
<1>1. accepted \in [Clients -> BOOLEAN]
  BY DEF TypeOK, RecordsOK
<1>2. \/ UNCHANGED accepted
      \/ \E c \in Clients : HandleAnswer(c)
  BY DEF Next, Accept, SocketFails, RunDisconnect, Answer, Talk, Vanish, TimerExpires, Check,
     CheckExpired, CheckWaiting, CheckLive, TakeAnswer, HandleForAll, Step, Locking, Unlocked,
     vars
<1>3. ASSUME NEW c \in Clients, HandleAnswer(c) PROVE accepted'[d]
  BY <1>1, <1>3 DEF HandleAnswer
<1>4. QED
  BY <1>2, <1>3

LEMMA LiveNext == ASSUME OrderInv, [Next]_vars PROVE LiveAccepted'
<1> SUFFICES ASSUME NEW d \in Clients, status'[d] = "Live" PROVE accepted'[d]
  BY DEF LiveAccepted
<1>1. status \in [Clients -> Statuses] /\ accepted \in [Clients -> BOOLEAN]
  BY DEF OrderInv, TypeOK, RecordsOK
<1>2. CASE status[d] = "Live"
  BY <1>2, AcceptedStays DEF OrderInv, LiveAccepted
<1>3. CASE status[d] # "Live"
  <2>1. \E c \in Clients : Accept(c) \/ CheckExpired(c) \/ HandleAnswer(c)
    BY <1>3 DEF Next, SocketFails, RunDisconnect, Answer, Talk, Vanish, TimerExpires, Check,
       CheckWaiting, CheckLive, TakeAnswer, HandleForAll, Step, Locking, Unlocked, records, vars
  <2>2. ASSUME NEW c \in Clients, Accept(c) PROVE FALSE
    BY <1>1, <1>3, <2>2 DEF Accept, FirstStatus
  <2>3. ASSUME NEW c \in Clients, CheckExpired(c) PROVE FALSE
    BY <1>1, <1>3, <2>3 DEF CheckExpired
  <2>4. ASSUME NEW c \in Clients, HandleAnswer(c) PROVE accepted'[d]
    <3>1. d = c
      BY <1>1, <1>3, <2>4 DEF HandleAnswer
    <3>2. QED
      BY <2>4, <3>1, HandledIsAccepted
  <2>5. QED
    BY <2>1, <2>2, <2>3, <2>4
<1>4. QED
  BY <1>2, <1>3

\* The queue towards a client grows by the ServerAccept and by pings to live
\* clients, and shrinks at its front.  The timer thread pings in its critical
\* section: the main thread has left its own.
LEMMA SentNext == ASSUME OrderInv, LockExclusive, [Next]_vars PROVE SentAccepted'
<1> SUFFICES ASSUME NEW d \in Clients,
                    NEW i \in DOMAIN toClient'[d], toClient'[d][i] = "ClientPing"
             PROVE  accepted[d]
  BY AcceptedStays DEF SentAccepted, OrderInv
<1>1. toClient \in [Clients -> Seq({"ServerAccept", "ClientPing"})]
  BY DEF OrderInv, TypeOK, QueuesOK
<1>2. CASE toClient'[d] = toClient[d]
  BY <1>2 DEF OrderInv, SentAccepted
<1>3. CASE toClient'[d] # toClient[d]
  <2>1. \E c \in Clients : Accept(c) \/ Answer(c) \/ CheckLive(c)
    BY <1>3 DEF Next, SocketFails, RunDisconnect, Talk, Vanish, TimerExpires, Check,
       CheckExpired, CheckWaiting, HandleAnswer, TakeAnswer, HandleForAll, Step, Locking,
       Unlocked, vars
  <2>2. ASSUME NEW c \in Clients, Accept(c) PROVE FALSE
    <3>1. toClient'[d] = <<"ServerAccept">>
      BY <1>1, <1>3, <2>2 DEF Accept
    <3>2. QED
      BY <3>1
  <2>3. ASSUME NEW c \in Clients, Answer(c) PROVE accepted[d]
    <3>1. toClient'[d] = Tail(toClient[d]) /\ toClient[d] # << >>
      BY <1>1, <1>3, <2>3 DEF Answer
    <3>2. toClient[d] \in Seq({"ServerAccept", "ClientPing"})
      BY <1>1
    <3>3. i + 1 \in DOMAIN toClient[d] /\ toClient[d][i + 1] = toClient'[d][i]
      BY <3>1, <3>2
    <3>4. QED
      BY <3>3 DEF OrderInv, SentAccepted
  <2>4. ASSUME NEW c \in Clients, CheckLive(c) PROVE accepted[d]
    <3>1. d = c
      BY <1>1, <1>3, <2>4 DEF CheckLive, Ping
    <3>2. job[Timer] # None /\ job[Timer].client = c /\ job[Timer].status = "Live"
      BY <2>4 DEF CheckLive, Leave
    <3>3. at[Timer] = "inside"
      BY <2>4 DEF CheckLive, Leave, Lock!Release, Lock!Move
    <3>4. ~Answering(c)
      BY <3>3 DEF Answering, LockExclusive, Lock!MutualExclusion
    <3>5. QED
      BY <3>1, <3>2, <3>4 DEF OrderInv, CheckedAccepted
  <2>5. QED
    BY <2>1, <2>2, <2>3, <2>4
<1>4. QED
  BY <1>2, <1>3

LEMMA AnsweredNext == ASSUME OrderInv, [Next]_vars PROVE AnsweredAccepted'
<1>1. inbox \in Seq(Message)
  BY DEF OrderInv, TypeOK, QueuesOK
<1>2. inbox' \in Seq(Message)
  BY TypeNext DEF OrderInv, TypeOK, QueuesOK
<1> SUFFICES ASSUME NEW i \in DOMAIN inbox', inbox'[i].type = "ClientPing"
             PROVE  accepted[inbox'[i].client]
  <2>1. \A i \in DOMAIN inbox' : inbox'[i] \in Message
    BY <1>2
  <2>2. \A i \in DOMAIN inbox' : inbox'[i].client \in Clients
    BY <2>1 DEF Message
  <2>3. QED
    BY <2>2, AcceptedStays DEF AnsweredAccepted, OrderInv
<1>3. CASE inbox' = inbox
  BY <1>3 DEF OrderInv, AnsweredAccepted
<1>4. CASE (TakeAnswer \/ HandleForAll)
  <2>1. inbox' = Tail(inbox) /\ inbox # << >>
    BY <1>4 DEF TakeAnswer, HandleForAll
  <2>2. i + 1 \in DOMAIN inbox /\ inbox[i + 1] = inbox'[i]
    BY <1>1, <2>1
  <2>3. QED
    BY <2>2 DEF OrderInv, AnsweredAccepted
<1>5. ASSUME NEW c \in Clients, Talk(c) PROVE accepted[inbox'[i].client]
  <2>1. PICK m : inbox' = Append(inbox, m) /\ m = [client |-> c, type |-> "MessageAll"]
    BY <1>5 DEF Talk
  <2>2. m.type # "ClientPing"
    BY <2>1
  <2>3. i \in DOMAIN inbox /\ inbox'[i] = inbox[i]
    BY <1>1, <2>1, <2>2
  <2>4. QED
    BY <2>3 DEF OrderInv, AnsweredAccepted
<1>6. ASSUME NEW c \in Clients, Answer(c) PROVE accepted[inbox'[i].client]
  <2>1. PICK m : /\ inbox' = Append(inbox, m)
                 /\ m = [client |-> c, type |-> Reply(Head(toClient[c]))]
    BY <1>6 DEF Answer
  <2>2. CASE i \in DOMAIN inbox
    <3>1. inbox'[i] = inbox[i]
      BY <1>1, <2>1, <2>2
    <3>2. QED
      BY <2>2, <3>1 DEF OrderInv, AnsweredAccepted
  <2>3. CASE i \notin DOMAIN inbox
    <3>1. inbox'[i] = m
      BY <1>1, <2>1, <2>3
    <3>2. Reply(Head(toClient[c])) = "ClientPing"
      BY <2>1, <3>1
    <3>3. toClient[c] \in Seq({"ServerAccept", "ClientPing"}) /\ toClient[c] # << >>
      BY <1>6 DEF Answer, OrderInv, TypeOK, QueuesOK
    <3>4. 1 \in DOMAIN toClient[c] /\ toClient[c][1] \in {"ServerAccept", "ClientPing"}
          /\ Head(toClient[c]) = toClient[c][1]
      BY <3>3
    <3>5. toClient[c][1] = "ClientPing"
      BY <3>2, <3>4 DEF Reply
    <3>6. accepted[c]
      BY <3>4, <3>5 DEF OrderInv, SentAccepted
    <3>7. QED
      BY <2>1, <3>1, <3>6
  <2>4. QED
    BY <2>2, <2>3
<1>7. QED
  BY <1>3, <1>4, <1>5, <1>6 DEF Next, Accept, SocketFails, RunDisconnect, Vanish, TimerExpires,
     Check, CheckExpired, CheckWaiting, CheckLive, HandleAnswer, Step, Locking, Unlocked, vars

\* The main thread ends its critical section by handling its message.
LEMMA AnsweringEnds ==
    ASSUME OrderInv, [Next]_vars, NEW d \in Clients, Answering(d)
    PROVE  Answering(d)' \/ accepted'[d]
<1>1. DOMAIN job = {Timer, Main} /\ at \in [{Timer, Main} -> Lock!Stages]
  BY DEF OrderInv, TypeOK, JobsOK, Lock!TypeOK
<1>2. at[Main] = "inside" /\ job[Main] # None /\ job[Main].client = d
  BY DEF Answering
<1>3. ASSUME at'[Main] = at[Main], job'[Main] = job[Main]
      PROVE  Answering(d)'
  BY <1>2, <1>3 DEF Answering
<1>4. CASE \E c \in Clients : AsioStep(c)
  <2>1. UNCHANGED <<at, job>>
    BY <1>4 DEF AsioStep, Accept, SocketFails, RunDisconnect, Answer, Talk, Vanish, lock
  <2>2. QED
    BY <1>3, <2>1
<1>5. CASE LoopStep
  <2>1. \E c \in Clients : TimerExpires(c)
    BY <1>2, <1>5 DEF LoopStep, TakeAnswer, HandleForAll
  <2>2. at' = at /\ \E x : job' = [job EXCEPT ![Timer] = x]
    BY <2>1 DEF TimerExpires, lock
  <2>3. QED
    BY <1>1, <1>3, <2>2
<1>6. ASSUME NEW c \in Clients, Check(c) PROVE Answering(d)'
  <2>1. Leave(Timer)
    BY <1>6 DEF Check, CheckExpired, CheckWaiting, CheckLive
  <2>2. (\E x : at' = [at EXCEPT ![Timer] = x]) /\ job' = [job EXCEPT ![Timer] = None]
    BY <2>1 DEF Leave, Lock!Release, Lock!Move
  <2>3. QED
    BY <1>1, <1>3, <2>2
<1>7. ASSUME NEW c \in Clients, HandleAnswer(c) PROVE accepted'[d]
  <2>1. c = d
    BY <1>2, <1>7 DEF HandleAnswer
  <2>2. QED
    BY <1>7, <2>1, HandledIsAccepted
<1>8. CASE LockStep
  <2>1. PICK t \in {Timer, Main} : Step(t)
    BY <1>8 DEF LockStep
  <2>2. /\ at[t] # "inside" /\ job' = job
        /\ \E x : at' = [at EXCEPT ![t] = x]
    BY <2>1 DEF Step, Locking, Unlocked, Lock!TestOwns, Lock!Acquire, Lock!Claim,
       Lock!Disclaim, Lock!Move
  <2>3. t = Timer
    BY <1>2, <2>2
  <2>4. QED
    BY <1>1, <1>3, <2>2, <2>3
<1>9. CASE UNCHANGED vars
  BY <1>3, <1>9 DEF vars, lock
<1>10. QED
  BY <1>4, <1>5, <1>6, <1>7, <1>8, <1>9, StepKinds DEF EndStep

LEMMA CheckedStays ==
    ASSUME OrderInv, [Next]_vars, job'[Timer] = None \/ job'[Timer] = job[Timer]
    PROVE  CheckedAccepted'
<1> SUFFICES ASSUME job'[Timer] = job[Timer], job[Timer] # None, job[Timer].status = "Live"
             PROVE  accepted'[job[Timer].client] \/ Answering(job[Timer].client)'
  BY DEF CheckedAccepted, Answering
<1>1. job[Timer].client \in Clients
  BY DEF OrderInv, TypeOK, JobsOK, CheckJob
<1>2. accepted[job[Timer].client] \/ Answering(job[Timer].client)
  BY DEF OrderInv, CheckedAccepted
<1>3. PICK c : c = job[Timer].client
  OBVIOUS
<1>4. accepted'[c] \/ Answering(c)'
  BY <1>1, <1>2, <1>3, AcceptedStays, AnsweringEnds DEF OrderInv
<1>5. QED
  BY <1>3, <1>4 DEF Answering

LEMMA HandledStays ==
    ASSUME OrderInv, [Next]_vars, job'[Main] = None \/ job'[Main] = job[Main]
    PROVE  HandledAccepted'
<1>1. job[Main] # None => job[Main].client \in Clients
  BY DEF OrderInv, TypeOK, JobsOK, AnswerJob
<1>2. QED
  BY <1>1, AcceptedStays DEF HandledAccepted, OrderInv

LEMMA JobsNext == ASSUME OrderInv, [Next]_vars PROVE CheckedAccepted' /\ HandledAccepted'
<1>1. DOMAIN job = {Timer, Main} /\ DOMAIN job' = {Timer, Main}
  BY TypeNext DEF OrderInv, TypeOK, JobsOK
<1>2. CASE UNCHANGED job
  BY <1>2, CheckedStays, HandledStays
<1>3. ASSUME NEW t \in {Timer, Main}, job' = [job EXCEPT ![t] = None]
      PROVE  CheckedAccepted' /\ HandledAccepted'
  <2>1. ASSUME NEW u \in {Timer, Main} PROVE job'[u] = None \/ job'[u] = job[u]
    BY <1>1, <1>3
  <2>2. job'[Timer] = None \/ job'[Timer] = job[Timer]
    BY <2>1
  <2>3. job'[Main] = None \/ job'[Main] = job[Main]
    BY <2>1
  <2>4. QED
    BY <2>2, <2>3, CheckedStays, HandledStays
<1>4. ASSUME NEW c \in Clients, TimerExpires(c) PROVE CheckedAccepted' /\ HandledAccepted'
  <2> PICK s \in StatusesRead(c), n \in CountsRead(c) :
          job' = [job EXCEPT ![Timer] = [client |-> c, status |-> s, count |-> n]]
    BY <1>4 DEF TimerExpires
  <2>1. job'[Timer] = [client |-> c, status |-> s, count |-> n] /\ job'[Main] = job[Main]
    BY <1>1
  <2>2. job'[Timer].status = s /\ job'[Timer].client = c
    BY <2>1
  <2>3. s = "Live" => accepted[c] \/ Answering(c)
    BY DEF StatusesRead, OrderInv, LiveAccepted
  <2>4. s = "Live" => accepted'[c] \/ Answering(c)'
    BY <2>3, AcceptedStays, AnsweringEnds DEF OrderInv
  <2>5. CheckedAccepted'
    BY <2>2, <2>4 DEF CheckedAccepted, Answering
  <2>6. QED
    BY <2>1, <2>5, HandledStays
<1>5. CASE TakeAnswer
  <2>1. job' = [job EXCEPT ![Main] = Head(inbox)]
    BY <1>5 DEF TakeAnswer
  <2>2. job'[Main] = Head(inbox) /\ job'[Timer] = job[Timer]
    BY <1>1, <2>1
  <2>3. inbox \in Seq(Message) /\ inbox # << >>
    BY <1>5 DEF TakeAnswer, OrderInv, TypeOK, QueuesOK
  <2>4. 1 \in DOMAIN inbox /\ Head(inbox) = inbox[1] /\ inbox[1] \in Message
    BY <2>3
  <2>5. job'[Main].client \in Clients
    BY <2>2, <2>4 DEF Message
  <2>6. job'[Main].type = "ClientPing" => accepted[job'[Main].client]
    BY <2>2, <2>4 DEF OrderInv, AnsweredAccepted
  <2>7. HandledAccepted'
    BY <2>5, <2>6, AcceptedStays DEF HandledAccepted, OrderInv
  <2>8. QED
    BY <2>2, <2>7, CheckedStays
<1>6. \/ UNCHANGED job \/ TakeAnswer
      \/ \E t \in {Timer, Main} : job' = [job EXCEPT ![t] = None]
      \/ \E c \in Clients : TimerExpires(c)
  BY DEF Next, Accept, SocketFails, RunDisconnect, Answer, Talk, Vanish, Check, CheckExpired,
     CheckWaiting, CheckLive, HandleAnswer, Leave, HandleForAll, Step, Locking, Unlocked, vars
<1>7. QED
  BY <1>2, <1>3, <1>4, <1>5, <1>6

(* OnClientConnect, checkClientConnStatus and OnMessage together: no       *)
(* client counts as live, and none is pinged, before its ClientAccept has  *)
(* been handled.                                                           *)
THEOREM AcceptComesFirst == Spec => []AcceptFirst
<1>1. OrderInv /\ LockExclusive /\ [Next]_vars => OrderInv'
  BY TypeNext, LiveNext, SentNext, AnsweredNext, JobsNext DEF OrderInv
<1>2. OrderInv => AcceptFirst
  BY DEF OrderInv, LiveAccepted, SentAccepted, AcceptFirst
<1>3. QED
  BY <1>1, <1>2, InitOrder, CriticalSectionsExclude, PTL DEF Spec
=============================================================================
