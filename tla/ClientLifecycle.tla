--------------------------- MODULE ClientLifecycle ---------------------------
(***************************************************************************)
(* networking/net_client.h and the network thread of Client.cpp: the life  *)
(* of a client's connections.  Three threads:                              *)
(*                                                                         *)
(*   app   the application: Connect, Disconnect, Send, and its own exit;   *)
(*   thr   thrContext, which is in m_context.run() and runs the handlers   *)
(*         and the posted lambdas;                                         *)
(*   net   networkThread: handleNetworking, for ever.                      *)
(*                                                                         *)
(* m_connection is written by the application and read by the network      *)
(* thread with no lock, twice for each call through it (a test, a use): a  *)
(* data race.  The use may see the pointer that was tested or the one that *)
(* is there now.                                                           *)
(*                                                                         *)
(* What travels on a connection is Connection's, how a thread sleeps on    *)
(* the incoming queue TsQueue's; the queue is a count here.                *)
(***************************************************************************)
EXTENDS Naturals, Sequences

CONSTANTS MaxConnects,  \* bound: how many connections are made
          MaxMessages,  \* bound: how many messages arrive
          MaxSends      \* bound: how many messages the application sends

ASSUME LifecycleAssumption ==
    MaxConnects \in Nat /\ MaxMessages \in Nat /\ MaxSends \in Nat

\* Connection objects in the order they are made; Null is the null pointer.
Objects == 1..MaxConnects
Null == 0

VARIABLES
    app,        \* where the application is
    net,        \* where the network thread is
    ptr,        \* the pointer the network thread has tested
    thr,        \* thrContext: none (not joinable), running, returned
    stopped,    \* m_context.stopped()
    conn,       \* m_connection
    made,       \* how many connection objects have been made
    alive,      \* the object has not been deleted
    open,       \* its m_socket.is_open()
    op,         \* its async_connect or async_read, or that one's failure
    up,         \* history: its handshake was completed
    posted,     \* its lambdas that wait to be run
    wrote,      \* it has a write under way or behind it
    inbox,      \* length of m_qMessagesIn
    arrived, sends,
    ended,      \* why the process ended
    reconnected \* history: Connect was called with a connection in place

objects == <<made, alive, open, op, up, posted, wrote>>
queue == <<inbox, arrived>>
vars == <<app, net, ptr, thr, stopped, conn, objects, queue, sends, ended, reconnected>>

Init ==
    /\ app = "idle" /\ net = "test" /\ ptr = Null
    /\ thr = "none" /\ stopped = FALSE
    /\ conn = Null /\ made = 0
    /\ alive = [k \in Objects |-> FALSE]
    /\ open = [k \in Objects |-> FALSE]
    /\ op = [k \in Objects |-> "none"]
    /\ up = [k \in Objects |-> FALSE]
    /\ posted = [k \in Objects |-> <<>>]
    /\ wrote = [k \in Objects |-> FALSE]
    /\ inbox = 0 /\ arrived = 0 /\ sends = 0
    /\ ended = "none" /\ reconnected = FALSE

Runs == ended = "none"

\* Closing a socket makes what is under way on it fail.
Aborted(o) == IF o = "none" THEN "none" ELSE "failed"

-----------------------------------------------------------------------------
(* The application.  A Connect whose resolve() throws changes nothing and  *)
(* is no step.                                                             *)

\* Connect: make_unique deletes the connection that was there, and the
\* async_connect of the new one opens its socket at once.
ConnectCreates ==
    /\ Runs /\ app = "idle" /\ made < MaxConnects
    /\ app' = "connecting"
    /\ made' = made + 1
    /\ conn' = made'
    /\ alive' = [k \in Objects |-> k = made' \/ (alive[k] /\ k # conn)]
    /\ open' = [k \in Objects |-> k = made' \/ (open[k] /\ k # conn)]
    /\ op' = [k \in Objects |->
            IF k = made' THEN "connect" ELSE IF k = conn THEN Aborted(op[k]) ELSE op[k]]
    /\ reconnected' = (reconnected \/ conn # Null)
    /\ UNCHANGED <<net, ptr, thr, stopped, up, posted, wrote, queue, sends, ended>>

\* Connect: assigning to a thread that is joinable is std::terminate.  When no
\* thread can be had Connect returns false and leaves the connection in place.
ConnectStarts ==
    /\ Runs /\ app = "connecting"
    /\ app' = "idle"
    /\ IF thr = "none"
       THEN thr' \in {"running", "none"} /\ UNCHANGED ended
       ELSE ended' = "terminate" /\ UNCHANGED thr
    /\ UNCHANGED <<net, ptr, stopped, conn, objects, queue, sends, reconnected>>

IsConnected == conn # Null /\ open[conn]

Post(k, lambda) == posted' = [posted EXCEPT ![k] = Append(@, lambda)]

\* Disconnect: the connection's Disconnect posts its lambda.
DisconnectPosts ==
    /\ Runs /\ app = "idle"
    /\ app' = "stopping"
    /\ IF IsConnected THEN Post(conn, "bye") ELSE UNCHANGED posted
    /\ UNCHANGED <<net, ptr, thr, stopped, conn, made, alive, open, op, up, wrote,
                   queue, sends, ended, reconnected>>

\* Slip: the context is left to run out of work by itself.
DisconnectStopsNot ==
    /\ Runs /\ app = "stopping"
    /\ app' = "joining"
    /\ UNCHANGED <<net, ptr, thr, stopped, conn, objects, queue, sends, ended, reconnected>>

DisconnectStops ==
    /\ Runs /\ app = "stopping"
    /\ app' = "joining"
    /\ stopped' = TRUE
    /\ UNCHANGED <<net, ptr, thr, conn, objects, queue, sends, ended, reconnected>>

\* Slip: the thread is detached, not joined.
DisconnectJoinsNot ==
    /\ Runs /\ app = "joining"
    /\ app' = "releasing"
    /\ UNCHANGED <<net, ptr, thr, stopped, conn, objects, queue, sends, ended, reconnected>>

DisconnectJoins ==
    /\ Runs /\ app = "joining" /\ thr # "running"
    /\ app' = "releasing"
    /\ thr' = "none"
    /\ UNCHANGED <<net, ptr, stopped, conn, objects, queue, sends, ended, reconnected>>

\* Slip: reset() in place of release(): the object is deleted.
DisconnectResets ==
    /\ Runs /\ app = "releasing"
    /\ app' = "idle"
    /\ conn' = Null
    /\ alive' = [k \in Objects |-> alive[k] /\ k # conn]
    /\ open' = [k \in Objects |-> open[k] /\ k # conn]
    /\ op' = [k \in Objects |-> IF k = conn THEN Aborted(op[k]) ELSE op[k]]
    /\ UNCHANGED <<net, ptr, thr, stopped, made, up, posted, wrote, queue, sends, ended,
                   reconnected>>

\* Disconnect: release() gives the pointer up and deletes nothing.
DisconnectReleases ==
    /\ Runs /\ app = "releasing"
    /\ app' = "idle"
    /\ conn' = Null
    /\ UNCHANGED <<net, ptr, thr, stopped, objects, queue, sends, ended, reconnected>>

Send ==
    /\ Runs /\ app = "idle" /\ sends < MaxSends
    /\ sends' = sends + 1
    /\ IF IsConnected THEN Post(conn, "send") ELSE UNCHANGED posted
    /\ UNCHANGED <<app, net, ptr, thr, stopped, conn, made, alive, open, op, up, wrote,
                   queue, ended, reconnected>>

\* OnUserUpdate returns false, Start returns, and the game is destroyed:
\* networkThread is joinable, and its destructor is std::terminate.  The
\* client's destructor, which would disconnect, is never reached.
Exit ==
    /\ Runs /\ app = "idle"
    /\ ended' = "terminate"
    /\ UNCHANGED <<app, net, ptr, thr, stopped, conn, objects, queue, sends, reconnected>>

-----------------------------------------------------------------------------
(* The context's thread.                                                   *)

InRun == Runs /\ thr = "running" /\ ~stopped

Handler(k) == InRun /\ alive[k]

Refused(k) == op[k] = "none" /\ ~up[k]

HasWork ==
    \E k \in Objects :
        op[k] # "none" \/ posted[k] # <<>> \/ (wrote[k] /\ open[k] /\ Refused(k))

\* run() returns when it is stopped, or stops the context itself when there
\* is nothing left to do.
RunReturns ==
    /\ Runs /\ thr = "running" /\ (stopped \/ ~HasWork)
    /\ thr' = "returned"
    /\ stopped' = TRUE
    /\ UNCHANGED <<app, net, ptr, conn, objects, queue, sends, ended, reconnected>>

Established(k) ==
    /\ Handler(k) /\ op[k] = "connect"
    /\ op' = [op EXCEPT ![k] = "read"]
    /\ up' = [up EXCEPT ![k] = TRUE]
    /\ UNCHANGED <<app, net, ptr, thr, stopped, conn, made, alive, open, posted, wrote,
                   queue, sends, ended, reconnected>>

\* The handler does nothing on an error, and the socket stays open.
ConnectFails(k) ==
    /\ Handler(k) /\ op[k] = "connect"
    /\ op' = [op EXCEPT ![k] = "none"]
    /\ UNCHANGED <<app, net, ptr, thr, stopped, conn, made, alive, open, up, posted, wrote,
                   queue, sends, ended, reconnected>>

\* A whole message has been read: it is pushed, and the next read is started.
Receive(k) ==
    /\ Handler(k) /\ op[k] = "read" /\ arrived < MaxMessages
    /\ arrived' = arrived + 1
    /\ inbox' = inbox + 1
    /\ UNCHANGED <<app, net, ptr, thr, stopped, conn, objects, sends, ended, reconnected>>

\* The server closed, a reset, or an operation aborted by close().
OperationFails(k) ==
    /\ Handler(k) /\ op[k] \in {"read", "failed"}
    /\ op' = [op EXCEPT ![k] = "none"]
    /\ open' = [open EXCEPT ![k] = FALSE]
    /\ UNCHANGED <<app, net, ptr, thr, stopped, conn, made, alive, up, posted, wrote,
                   queue, sends, ended, reconnected>>

RunSend(k) ==
    /\ Handler(k) /\ posted[k] # <<>> /\ Head(posted[k]) = "send"
    /\ posted' = [posted EXCEPT ![k] = Tail(@)]
    /\ wrote' = [wrote EXCEPT ![k] = TRUE]
    /\ UNCHANGED <<app, net, ptr, thr, stopped, conn, made, alive, open, op, up, queue,
                   sends, ended, reconnected>>

WriteFails(k) ==
    /\ Handler(k) /\ wrote[k] /\ open[k] /\ op[k] # "connect"
    /\ open' = [open EXCEPT ![k] = FALSE]
    /\ op' = [op EXCEPT ![k] = Aborted(@)]
    /\ UNCHANGED <<app, net, ptr, thr, stopped, conn, made, alive, up, posted, wrote,
                   queue, sends, ended, reconnected>>

\* cancel() throws on a closed socket, shutdown() on one that is not connected
\* or was reset.
RunBye(k) ==
    /\ Handler(k) /\ posted[k] # <<>> /\ Head(posted[k]) = "bye"
    /\ posted' = [posted EXCEPT ![k] = Tail(@)]
    /\ \/ /\ open[k] /\ ~Refused(k)
          /\ open' = [open EXCEPT ![k] = FALSE]
          /\ op' = [op EXCEPT ![k] = Aborted(@)]
          /\ UNCHANGED ended
       \/ /\ ~open[k] \/ Refused(k) \/ up[k]
          /\ ended' = "terminate"
          /\ UNCHANGED <<open, op>>
    /\ UNCHANGED <<app, net, ptr, thr, stopped, conn, made, alive, up, wrote, queue, sends,
                   reconnected>>

\* Handlers and lambdas capture this.  A write of the deleted connection may
\* have been under way too.
HandlerDangles(k) ==
    /\ InRun /\ ~alive[k] /\ (op[k] # "none" \/ posted[k] # <<>> \/ wrote[k])
    /\ ended' = "freed"
    /\ UNCHANGED <<app, net, ptr, thr, stopped, conn, objects, queue, sends, reconnected>>

-----------------------------------------------------------------------------
(* The network thread: handleNetworking.                                   *)

\* Slip: IsConnected does not look whether there is a connection.
NetTestsNot(from, to, otherwise) ==
    /\ Runs /\ net = from
    /\ ptr' = conn
    /\ net' = to
    /\ UNCHANGED <<app, thr, stopped, conn, objects, queue, sends, ended, reconnected>>

\* client_interface::IsConnected, first read of the pointer.
NetTests(from, to, otherwise) ==
    /\ Runs /\ net = from
    /\ ptr' = conn
    /\ net' = IF conn = Null THEN otherwise ELSE to
    /\ UNCHANGED <<app, thr, stopped, conn, objects, queue, sends, ended, reconnected>>

\* A call through the pointer: it ends the process if that is null or dangles.
NetUses(from, p) ==
    /\ Runs /\ net = from /\ p \in {ptr, conn}
    /\ UNCHANGED <<app, ptr, thr, stopped, conn, made, alive, open, op, up, wrote, queue,
                   sends, reconnected>>

Broken(p) == IF p = Null THEN TRUE ELSE ~alive[p]

NetCrashes(from) ==
    \E p \in {Null} \cup Objects :
        /\ NetUses(from, p)
        /\ Broken(p)
        /\ ended' = IF p = Null THEN "null" ELSE "freed"
        /\ UNCHANGED <<net, posted>>

\* m_connection->IsConnected()
NetAsks(from, to, otherwise) ==
    \E p \in Objects :
        /\ NetUses(from, p)
        /\ alive[p]
        /\ net' = IF open[p] THEN to ELSE otherwise
        /\ UNCHANGED <<ended, posted>>

\* m_connection->Send(msg): a third read of the pointer.
NetPosts ==
    \E p \in Objects :
        /\ NetUses("sendUse", p)
        /\ alive[p]
        /\ Post(p, "send")
        /\ net' = "drain"
        /\ UNCHANGED ended

\* wait() returns once the queue is not empty.
NetWaits ==
    /\ Runs /\ net = "wait" /\ inbox > 0
    /\ net' = "drain"
    /\ UNCHANGED <<app, ptr, thr, stopped, conn, objects, queue, sends, ended, reconnected>>

\* Slip: the drain loop pops once before it looks whether there is anything.
NetPopsUnchecked ==
    /\ Runs /\ net = "drain"
    /\ inbox' = inbox - 1
    /\ net' \in {"sendTest", "drain"}
    /\ UNCHANGED <<app, ptr, thr, stopped, conn, objects, arrived, sends, ended, reconnected>>

\* One message: ServerAccept and ClientPing are answered, the others are not.
NetPops ==
    /\ Runs /\ net = "drain" /\ inbox > 0
    /\ inbox' = inbox - 1
    /\ net' \in {"sendTest", "drain"}
    /\ UNCHANGED <<app, ptr, thr, stopped, conn, objects, arrived, sends, ended, reconnected>>

NetDrained ==
    /\ Runs /\ net = "drain" /\ inbox = 0
    /\ net' = "test"
    /\ UNCHANGED <<app, ptr, thr, stopped, conn, objects, queue, sends, ended, reconnected>>

-----------------------------------------------------------------------------
Disconnecting == DisconnectPosts \/ DisconnectStops \/ DisconnectJoins \/ DisconnectReleases

App == ConnectCreates \/ ConnectStarts \/ Disconnecting \/ Send \/ Exit

Context ==
    \/ RunReturns
    \/ \E k \in Objects :
        \/ Established(k) \/ ConnectFails(k) \/ Receive(k) \/ OperationFails(k)
        \/ RunSend(k) \/ WriteFails(k) \/ RunBye(k) \/ HandlerDangles(k)

Network ==
    \/ NetTests("test", "use", "test") \/ NetAsks("use", "wait", "test")
    \/ NetWaits \/ NetPops \/ NetDrained
    \/ NetTests("sendTest", "sendAsk", "drain") \/ NetAsks("sendAsk", "sendUse", "drain")
    \/ NetPosts
    \/ \E at \in {"use", "sendAsk", "sendUse"} : NetCrashes(at)

Next == App \/ Context \/ Network

Spec == Init /\ [][Next]_vars

(* A call of Disconnect goes on, and run() returns once it may.  Nothing   *)
(* else is asked for: that Disconnect returns does not rest on its lambda  *)
(* being run, or on the server.                                            *)
Fairness ==
    /\ WF_vars(DisconnectStops \/ DisconnectJoins \/ DisconnectReleases)
    /\ WF_vars(RunReturns)

FairSpec == Spec /\ Fairness

-----------------------------------------------------------------------------
(* Properties                                                              *)

ThreadsOK ==
    /\ app \in {"idle", "connecting", "stopping", "joining", "releasing"}
    /\ net \in {"test", "use", "wait", "drain", "sendTest", "sendAsk", "sendUse"}
    /\ thr \in {"none", "running", "returned"}
    /\ stopped \in BOOLEAN

ObjectsOK ==
    /\ made \in 0..MaxConnects
    /\ conn \in 0..made /\ ptr \in 0..made
    /\ alive \in [Objects -> BOOLEAN] /\ open \in [Objects -> BOOLEAN]
    /\ op \in [Objects -> {"none", "connect", "read", "failed"}]
    /\ up \in [Objects -> BOOLEAN] /\ wrote \in [Objects -> BOOLEAN]
    /\ posted \in [Objects -> Seq({"send", "bye"})]

CountsOK ==
    /\ inbox \in Nat /\ arrived \in Nat /\ sends \in Nat
    /\ ended \in {"none", "null", "freed", "terminate"}
    /\ reconnected \in BOOLEAN

TypeOK == ThreadsOK /\ ObjectsOK /\ CountsOK

\* No handler runs while the client has no connection: Disconnect returns
\* only when the context's thread is gone, and one thread at most is ever in
\* run().
QuietWithoutConnection == conn = Null => thr # "running"

\* No thread ever uses a deleted connection, unless Connect was called over a
\* connection that was still there: the network thread may hold the pointer
\* for as long as it likes, because Disconnect leaks the object.
OnlyReconnectDangles == ended = "freed" => reconnected

\* The network thread calls through a null pointer only when a Disconnect gave
\* up, between its test of m_connection and its use of it, the connection that
\* was tested: the context is stopped by then and its thread joined.
OnlyDisconnectNulls ==
    ended = "null" => ptr # Null /\ conn = Null /\ stopped /\ thr = "none"

\* Disconnect returns, whatever is pending on the connection.
DisconnectReturns ==
    (app \in {"stopping", "joining", "releasing"}) ~> (app = "idle" \/ ~Runs)

\* net_client.h:103: "disconnect from server gracefully": once Disconnect has
\* returned, the socket of the connection it ended is closed.
DisconnectIsGraceful ==
    \A k \in Objects : Runs /\ up[k] /\ k <= made /\ conn = Null => ~open[k]
=============================================================================
