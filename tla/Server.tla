------------------------------- MODULE Server -------------------------------
(***************************************************************************)
(* Server.cpp and networking/net_server.h: the server's supervision of its *)
(* clients.  Three threads share its state:                                *)
(*                                                                         *)
(*   asio    accepts connections, receives messages, runs what Disconnect  *)
(*           posted;                                                       *)
(*   Timer   runs checkClientConnStatus each time a client's steady_timer  *)
(*           expires;                                                      *)
(*   Main    runs Update, that is OnMessage for each incoming message.     *)
(*                                                                         *)
(* Timer and Main change clientStatus between lock() and unlock() of the   *)
(* one clientStatusLock (SharedLock); checkClientConnStatus reads its      *)
(* entry before lock().  The connections container has no lock.            *)
(*                                                                         *)
(* Time is not measured: an armed timer may expire at any moment.  A       *)
(* client answers what it is sent, in order, until it vanishes.  A channel *)
(* of Connection is one queue here, towards the client, and an answer goes *)
(* straight to the incoming queue (TsQueue).                               *)
(***************************************************************************)
EXTENDS Naturals, Sequences

CONSTANTS Clients,          \* client ids
          Timer, Main,      \* the two threads that use the lock
          None,             \* no thread, no job
          MAX_TIME_CLIENT_ACCEPT, MAX_FAIL_PINGS,
          MaxTalk,          \* bound: how many messages for all each client sends
          MaxAnswers        \* bound: how many messages each client answers

Statuses == {"New", "Waiting", "Live", "Dead"}

ASSUME ServerAssumption ==
    /\ Timer # Main
    /\ None \notin {Timer, Main}
    /\ None \notin [client : Clients, status : Statuses, count : Nat]
    /\ None \notin [client : Clients, type : {"ClientAccept", "ClientPing", "MessageAll"}]
    /\ MAX_TIME_CLIENT_ACCEPT \in Nat
    /\ MAX_FAIL_PINGS \in Nat
    /\ MaxTalk \in Nat /\ MaxAnswers \in Nat

VARIABLES
    owns, mutex, at,    \* clientStatusLock
    status, count,      \* clientStatus[id][0] and [1]; "New" before any entry
    waits,              \* pending async_waits on the client's timer
    tracked,            \* the client is in timersContainer
    entry,              \* its connectionsContainer entry: absent, conn or null
    socket,             \* its connection's socket
    pending,            \* Disconnect lambdas posted and not run yet
    toClient,           \* messages sent and not answered yet
    inbox,              \* m_qMessagesIn
    job,                \* the client check, the message, each thread is at
    fault,              \* why the process ended, lock exceptions apart
    gone,               \* the client has vanished, silently
    talked, answered,   \* messages for all sent, and answers, by the client
    accepted,           \* history: its ClientAccept has been handled
    disconnects         \* history: how often Disconnect posted a lambda

lock == <<owns, mutex, at>>
records == <<status, count>>
timers == <<waits, tracked>>
links == <<socket, pending, disconnects>>
peers == <<gone, talked, answered>>

vars == <<lock, records, timers, entry, links, toClient, inbox, job, fault,
          peers, accepted>>

Lock == INSTANCE SharedLock WITH Threads <- {Timer, Main}, NoThread <- None

Alive == Lock!Alive /\ fault = "none"

Init ==
    /\ Lock!Init
    /\ status = [c \in Clients |-> "New"]
    /\ count = [c \in Clients |-> 0]
    /\ waits = [c \in Clients |-> 0]
    /\ tracked = [c \in Clients |-> FALSE]
    /\ entry = [c \in Clients |-> "absent"]
    /\ socket = [c \in Clients |-> "new"]
    /\ pending = [c \in Clients |-> 0]
    /\ toClient = [c \in Clients |-> <<>>]
    /\ inbox = <<>>
    /\ job = [t \in {Timer, Main} |-> None]
    /\ fault = "none"
    /\ gone = [c \in Clients |-> FALSE]
    /\ talked = [c \in Clients |-> 0]
    /\ answered = [c \in Clients |-> 0]
    /\ accepted = [c \in Clients |-> FALSE]
    /\ disconnects = [c \in Clients |-> 0]

-----------------------------------------------------------------------------
\* Slip: the client is taken for live before it has accepted.
FirstStatusLive == "Live"

FirstStatus == "Waiting"

(* asio: the accept handler, OnClientConnect included.  clientStatus is    *)
(* written without the lock.                                               *)
Accept(c) ==
    /\ Alive /\ socket[c] = "new"
    /\ socket' = [socket EXCEPT ![c] = "open"]
    /\ toClient' = [toClient EXCEPT ![c] = <<"ServerAccept">>]
    /\ status' = [status EXCEPT ![c] = FirstStatus]
    /\ count' = [count EXCEPT ![c] = 0]
    /\ waits' = [waits EXCEPT ![c] = 1]
    /\ tracked' = [tracked EXCEPT ![c] = TRUE]
    /\ entry' = [entry EXCEPT ![c] = "conn"]
    /\ UNCHANGED <<lock, pending, disconnects, inbox, job, fault, peers, accepted>>

\* A read or a write failed: the handler closes the socket.
SocketFails(c) ==
    /\ Alive /\ socket[c] = "open"
    /\ socket' = [socket EXCEPT ![c] = "closed"]
    /\ UNCHANGED <<lock, records, timers, entry, pending, disconnects, toClient,
                   inbox, job, fault, peers, accepted>>

\* The lambda of Disconnect: cancel() throws when the socket is closed by now.
RunDisconnect(c) ==
    /\ Alive /\ pending[c] > 0
    /\ pending' = [pending EXCEPT ![c] = @ - 1]
    /\ socket' = [socket EXCEPT ![c] = "closed"]
    /\ fault' = IF socket[c] = "open" THEN fault ELSE "cancel"
    /\ UNCHANGED <<lock, records, timers, entry, disconnects, toClient, inbox, job,
                   peers, accepted>>

-----------------------------------------------------------------------------
(* The client, seen from the server.                                       *)

\* Slip: the client echoes whatever it is sent.
ReplyEcho(m) == m

Reply(m) == IF m = "ServerAccept" THEN "ClientAccept" ELSE "ClientPing"

Answer(c) ==
    /\ Alive /\ ~gone[c] /\ socket[c] = "open" /\ toClient[c] # <<>>
    /\ answered[c] < MaxAnswers
    /\ answered' = [answered EXCEPT ![c] = @ + 1]
    /\ toClient' = [toClient EXCEPT ![c] = Tail(@)]
    /\ inbox' = Append(inbox, [client |-> c, type |-> Reply(Head(toClient[c]))])
    /\ UNCHANGED <<lock, records, timers, entry, links, job, fault, gone, talked,
                   accepted>>

Talk(c) ==
    /\ Alive /\ ~gone[c] /\ socket[c] = "open" /\ talked[c] < MaxTalk
    /\ talked' = [talked EXCEPT ![c] = @ + 1]
    /\ inbox' = Append(inbox, [client |-> c, type |-> "MessageAll"])
    /\ UNCHANGED <<lock, records, timers, entry, links, toClient, job, fault, gone,
                   answered, accepted>>

\* Without a reset: the server is told nothing.
Vanish(c) ==
    /\ Alive /\ ~gone[c] /\ socket[c] # "new"
    /\ gone' = [gone EXCEPT ![c] = TRUE]
    /\ UNCHANGED <<lock, records, timers, entry, links, toClient, inbox, job, fault,
                   talked, answered, accepted>>

-----------------------------------------------------------------------------
(* Both threads go through lock() and unlock() once they have a job.       *)
Locking(t) ==
    /\ Alive /\ job[t] # None
    /\ Lock!TestOwns(t) \/ Lock!Acquire(t) \/ Lock!Claim(t)
    /\ UNCHANGED <<records, timers, entry, links, toClient, inbox, job, fault, peers,
                   accepted>>

Unlocked(t) ==
    /\ Alive /\ Lock!Disclaim(t)
    /\ UNCHANGED <<records, timers, entry, links, toClient, inbox, job, fault, peers,
                   accepted>>

\* The body of a critical section is one step with the unlock() that ends it.
Leave(t) ==
    /\ Alive /\ Lock!Release(t) /\ job[t] # None
    /\ job' = [job EXCEPT ![t] = None]

-----------------------------------------------------------------------------
(* Timer: checkClientConnStatus.  The entry is read before lock().         *)

\* The status and the count are two reads.  While the main thread is about to
\* write both for an answer of the client, each may find the one value or the
\* other.
Answering(c) == job[Main] # None /\ job[Main].client = c /\ at[Main] = "inside"
StatusesRead(c) == {status[c]} \cup {s \in {"Live"} : Answering(c)}
CountsRead(c) == {count[c]} \cup {n \in {0} : Answering(c)}

TimerExpires(c) ==
    /\ Alive /\ job[Timer] = None /\ at[Timer] = "out" /\ waits[c] > 0
    /\ waits' = [waits EXCEPT ![c] = @ - 1]
    /\ \E s \in StatusesRead(c), n \in CountsRead(c) :
            job' = [job EXCEPT ![Timer] = [client |-> c, status |-> s, count |-> n]]
    /\ UNCHANGED <<lock, records, tracked, entry, links, toClient, inbox, fault, peers,
                   accepted>>

Limit == [Waiting |-> MAX_TIME_CLIENT_ACCEPT, Live |-> MAX_FAIL_PINGS]

\* Slip: the limit is not looked at.
OverNever(j) == FALSE

Over(j) == j.status \in {"Waiting", "Live"} /\ j.count > Limit[j.status]

\* Slip: the timer is armed again although the client is given up.
CheckExpiredRearmed(c) ==
    /\ Leave(Timer) /\ job[Timer].client = c /\ Over(job[Timer])
    /\ status' = [status EXCEPT ![c] = "Dead"]
    /\ waits' = [waits EXCEPT ![c] = @ + 1]
    /\ IF socket[c] = "open"
       THEN /\ pending' = [pending EXCEPT ![c] = @ + 1]
            /\ disconnects' = [disconnects EXCEPT ![c] = @ + 1]
       ELSE UNCHANGED <<pending, disconnects>>
    /\ UNCHANGED <<count, tracked, entry, socket, toClient, inbox, fault, peers, accepted>>

\* case Waiting and case Live, the limit passed.
CheckExpired(c) ==
    /\ Leave(Timer) /\ job[Timer].client = c /\ Over(job[Timer])
    /\ status' = [status EXCEPT ![c] = "Dead"]
    /\ tracked' = [tracked EXCEPT ![c] = FALSE]
    /\ IF socket[c] = "open"
       THEN /\ pending' = [pending EXCEPT ![c] = @ + 1]
            /\ disconnects' = [disconnects EXCEPT ![c] = @ + 1]
       ELSE UNCHANGED <<pending, disconnects>>
    /\ UNCHANGED <<count, waits, entry, socket, toClient, inbox, fault, peers, accepted>>

\* Slips: case Waiting falls through and arms the timer twice; the count is
\* read, tested and written back as it was.
RearmTwice(c) ==
    /\ waits' = [waits EXCEPT ![c] = @ + 2]
    /\ count' = [count EXCEPT ![c] = job[Timer].count + 1]
RearmSameCount(c) ==
    /\ waits' = [waits EXCEPT ![c] = @ + 1]
    /\ count' = [count EXCEPT ![c] = job[Timer].count]

Rearm(c) ==
    /\ waits' = [waits EXCEPT ![c] = @ + 1]
    /\ count' = [count EXCEPT ![c] = job[Timer].count + 1]

CheckWaiting(c) ==
    /\ Leave(Timer) /\ job[Timer].client = c
    /\ job[Timer].status = "Waiting" /\ ~Over(job[Timer])
    /\ Rearm(c)
    /\ UNCHANGED <<status, tracked, entry, links, toClient, inbox, fault, peers, accepted>>

\* pingClient: operator[] creates a null entry when there is none, and the
\* call through it ends the process.
Ping(c) ==
    IF entry[c] = "conn"
    THEN /\ toClient' = [toClient EXCEPT ![c] =
                IF socket[c] = "open" THEN Append(@, "ClientPing") ELSE @]
         /\ UNCHANGED <<entry, fault>>
    ELSE /\ entry' = [entry EXCEPT ![c] = "null"]
         /\ fault' = "null"
         /\ UNCHANGED toClient

CheckLive(c) ==
    /\ Leave(Timer) /\ job[Timer].client = c
    /\ job[Timer].status = "Live" /\ ~Over(job[Timer])
    /\ Rearm(c)
    /\ Ping(c)
    /\ UNCHANGED <<status, tracked, links, inbox, peers, accepted>>

\* case Dead and case Unstable do nothing, and are never reached: OneTimer.

-----------------------------------------------------------------------------
(* Main: Update and OnMessage.                                             *)

TakeAnswer ==
    /\ Alive /\ job[Main] = None /\ at[Main] = "out"
    /\ inbox # <<>> /\ Head(inbox).type # "MessageAll"
    /\ job' = [job EXCEPT ![Main] = Head(inbox)]
    /\ inbox' = Tail(inbox)
    /\ UNCHANGED <<lock, records, timers, entry, links, toClient, fault, peers, accepted>>

\* Slip: the answer of a client that has no timer any more arms it again.
HandleAnswerRearms(c) ==
    /\ Leave(Main) /\ job[Main].client = c
    /\ status' = [status EXCEPT ![c] = "Live"]
    /\ count' = [count EXCEPT ![c] = 0]
    /\ accepted' = [accepted EXCEPT ![c] = @ \/ job[Main].type = "ClientAccept"]
    /\ waits' = [waits EXCEPT ![c] = IF tracked[c] THEN @ ELSE 1]
    /\ tracked' = [tracked EXCEPT ![c] = TRUE]
    /\ UNCHANGED <<entry, links, toClient, inbox, fault, peers>>

\* ClientAccept and ClientPing, whatever the client's status was.
HandleAnswer(c) ==
    /\ Leave(Main) /\ job[Main].client = c
    /\ status' = [status EXCEPT ![c] = "Live"]
    /\ count' = [count EXCEPT ![c] = 0]
    /\ accepted' = [accepted EXCEPT ![c] = @ \/ job[Main].type = "ClientAccept"]
    /\ UNCHANGED <<timers, entry, links, toClient, inbox, fault, peers>>

\* MessageAll and ClientUpdateGS end in MessageAllClients, which also erases
\* the connections it finds closed.  The messages need no answer.
HandleForAll ==
    /\ Alive /\ job[Main] = None /\ at[Main] = "out"
    /\ inbox # <<>> /\ Head(inbox).type = "MessageAll"
    /\ inbox' = Tail(inbox)
    /\ entry' = [c \in Clients |->
            IF entry[c] = "conn" /\ socket[c] # "open" THEN "absent" ELSE entry[c]]
    /\ UNCHANGED <<lock, records, timers, links, toClient, job, fault, peers, accepted>>

-----------------------------------------------------------------------------
Check(c) == CheckExpired(c) \/ CheckWaiting(c) \/ CheckLive(c)

Step(t) == Locking(t) \/ Unlocked(t)

Next ==
    \/ \E c \in Clients :
        \/ Accept(c) \/ SocketFails(c) \/ RunDisconnect(c)
        \/ Answer(c) \/ Talk(c) \/ Vanish(c)
        \/ TimerExpires(c) \/ Check(c) \/ HandleAnswer(c)
    \/ TakeAnswer \/ HandleForAll
    \/ Step(Timer) \/ Step(Main)

Spec == Init /\ [][Next]_vars

(* The three threads keep running.  Armed timers expire, and the timer     *)
(* thread runs the expired ones in the order of their expiry, so none is   *)
(* passed over for ever: strong fairness.  A mutex may pass over a thread  *)
(* that waits for it, but this one is taken for moments, every half second *)
(* or so, and a thread that keeps asking gets it: strong fairness again.   *)
(* Clients owe the server nothing.                                         *)
Fairness ==
    /\ \A c \in Clients : SF_vars(TimerExpires(c)) /\ WF_vars(RunDisconnect(c))
    /\ SF_vars(Step(Timer) \/ \E c \in Clients : Check(c))
    /\ SF_vars(Step(Main) \/ \E c \in Clients : HandleAnswer(c))
    /\ WF_vars(TakeAnswer \/ HandleForAll)

FairSpec == Spec /\ Fairness

-----------------------------------------------------------------------------
(* Properties                                                              *)

CheckJob == [client : Clients, status : Statuses, count : Nat]
AnswerJob == [client : Clients, type : {"ClientAccept", "ClientPing"}]
Message == [client : Clients, type : {"ClientAccept", "ClientPing", "MessageAll"}]

RecordsOK ==
    /\ status \in [Clients -> Statuses]
    /\ count \in [Clients -> Nat]
    /\ accepted \in [Clients -> BOOLEAN]

TimersOK ==
    /\ waits \in [Clients -> Nat]
    /\ tracked \in [Clients -> BOOLEAN]

LinksOK ==
    /\ entry \in [Clients -> {"absent", "conn", "null"}]
    /\ socket \in [Clients -> {"new", "open", "closed"}]
    /\ pending \in [Clients -> Nat]
    /\ disconnects \in [Clients -> Nat]

QueuesOK ==
    /\ toClient \in [Clients -> Seq({"ServerAccept", "ClientPing"})]
    /\ inbox \in Seq(Message)

JobsOK ==
    /\ DOMAIN job = {Timer, Main}
    /\ job[Timer] \in CheckJob \cup {None}
    /\ job[Main] \in AnswerJob \cup {None}

ClientsOK ==
    /\ gone \in [Clients -> BOOLEAN]
    /\ talked \in [Clients -> Nat]
    /\ answered \in [Clients -> Nat]

TypeOK ==
    /\ Lock!TypeOK
    /\ RecordsOK /\ TimersOK /\ LinksOK /\ QueuesOK /\ JobsOK /\ ClientsOK
    /\ fault \in {"none", "cancel", "null"}

\* The client's next check is armed, or under way and not decided yet.
Checking(c) == job[Timer] # None /\ job[Timer].client = c
Supervised(c) == waits[c] > 0 \/ Checking(c)

\* A client never has two checks coming, and timersContainer holds exactly
\* the timers of the clients that have one.  No check finds its client dead.
OneTimer ==
    \A c \in Clients :
        /\ waits[c] <= 1
        /\ Checking(c) => waits[c] = 0 /\ job[Timer].status \in {"Waiting", "Live"}
        /\ tracked[c] <=> Supervised(c)

\* The properties of SharedLock, for the two threads and what they do between
\* one lock() and the next: clientStatus is never written by both at once, and
\* no lock() blocks for ever.
LockExclusive == Lock!MutualExclusion
LockReturns ==
    \A t \in {Timer, Main} : (at[t] = "tested") ~> (at[t] = "inside" \/ ~Alive)

\* A second Disconnect would throw out of the asio thread: however late the
\* answers and whatever they revive, a client is disconnected once.
DisconnectOnce == \A c \in Clients : disconnects[c] <= 1

\* No client counts as live, and none is pinged, before its ClientAccept has
\* been handled.
AcceptFirst ==
    \A c \in Clients :
        status[c] = "Live" \/ (\E i \in DOMAIN toClient[c] : toClient[c][i] = "ClientPing")
            => accepted[c]

\* Stale writes of the count included, it exceeds its limits by one at most.
CountBounded ==
    \A c \in Clients :
        count[c] <= MAX_TIME_CLIENT_ACCEPT + 1 \/ count[c] <= MAX_FAIL_PINGS + 1

\* A supervised client that vanishes is given up.
GoneDies ==
    \A c \in Clients : (gone[c] /\ Supervised(c)) ~> (status[c] = "Dead" \/ ~Alive)

\* A client whose supervision has ended is never supervised again, although a
\* late answer makes its record Live for good: the connection, if it is still
\* open, is neither pinged nor timed out.
GivenUpForGood ==
    [][\A c \in Clients :
        socket[c] # "new" /\ ~Supervised(c) => ~Supervised(c)']_vars

\* net_server.h:287: "Container of active validated connections": an entry of
\* the container is a connection.
ContainerOfConnections == \A c \in Clients : entry[c] # "null"

\* README.md:28: "Loop check client-server connectivity": the loop does not
\* end in an exception of its own lock.
LoopSurvives == Lock!Alive
=============================================================================
