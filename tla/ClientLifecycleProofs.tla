------------------------ MODULE ClientLifecycleProofs ------------------------
(***************************************************************************)
(* What ClientLifecycle promises for any numbers of connections and        *)
(* messages:                                                               *)
(*                                                                         *)
(*   types        TypeOK, one lemma for each thread's steps;               *)
(*   the join     QuietWithoutConnection, from QuietInv;                   *)
(*   the objects  OnlyReconnectDangles, from ObjectInv: an object that is  *)
(*                not made yet has nothing pending, and without a second   *)
(*                Connect over a connection none that is made is deleted;  *)
(*   the null     OnlyDisconnectNulls, from NullInv: what is about to be   *)
(*                used was not null when it was tested.                    *)
(***************************************************************************)
EXTENDS ClientLifecycle, TLAPS

USE LifecycleAssumption DEF LifecycleAssumption, Objects, Null

AppStep == ConnectCreates \/ ConnectStarts \/ Disconnecting \/ Send \/ Exit

ContextStep(k) ==
    \/ Established(k) \/ ConnectFails(k) \/ Receive(k) \/ OperationFails(k)
    \/ RunSend(k) \/ WriteFails(k) \/ RunBye(k) \/ HandlerDangles(k)

TestStep == NetTests("test", "use", "test") \/ NetTests("sendTest", "sendAsk", "drain")

AskStep == NetAsks("use", "wait", "test") \/ NetAsks("sendAsk", "sendUse", "drain")

CrashStep == \E at \in {"use", "sendAsk", "sendUse"} : NetCrashes(at)

QueueStep == NetWaits \/ NetPops \/ NetDrained

\* The steps, thread by thread.
LEMMA StepKinds ==
    ASSUME [Next]_vars
    PROVE  \/ AppStep \/ RunReturns \/ (\E k \in Objects : ContextStep(k))
           \/ TestStep \/ AskStep \/ CrashStep \/ NetPosts \/ QueueStep
           \/ UNCHANGED vars
BY DEF Next, App, Context, Network, AppStep, ContextStep, TestStep, AskStep, CrashStep, QueueStep

-----------------------------------------------------------------------------
(* Types.                                                                  *)

LEMMA InitType == Init => TypeOK
<1> SUFFICES ASSUME Init PROVE TypeOK
  OBVIOUS
<1>1. ThreadsOK /\ CountsOK
  BY DEF Init, ThreadsOK, CountsOK
<1>2. << >> \in Seq({"send", "bye"})
  OBVIOUS
<1>3. ObjectsOK
  BY <1>2 DEF Init, ObjectsOK
<1>4. QED
  BY <1>1, <1>3 DEF TypeOK

\* A posted lambda keeps the type of posted.
LEMMA PostType ==
    ASSUME ObjectsOK, NEW k, NEW l \in {"send", "bye"}, Post(k, l)
    PROVE  posted' \in [Objects -> Seq({"send", "bye"})]
<1>1. ASSUME NEW s \in Seq({"send", "bye"}) PROVE Append(s, l) \in Seq({"send", "bye"})
  OBVIOUS
<1>2. QED
  BY <1>1 DEF ObjectsOK, Post

LEMMA TailType ==
    ASSUME ObjectsOK, NEW k \in Objects, posted[k] # << >>
    PROVE  [posted EXCEPT ![k] = Tail(@)] \in [Objects -> Seq({"send", "bye"})]
<1>1. ASSUME NEW s \in Seq({"send", "bye"}), s # << >> PROVE Tail(s) \in Seq({"send", "bye"})
  BY <1>1
<1>2. QED
  BY <1>1 DEF ObjectsOK

LEMMA AppType == ASSUME TypeOK, AppStep PROVE TypeOK'
<1> USE DEF TypeOK
<1>1. ThreadsOK'
  BY DEF AppStep, ConnectCreates, ConnectStarts, Disconnecting, DisconnectPosts,
         DisconnectStops, DisconnectJoins, DisconnectReleases, Send, Exit, ThreadsOK
<1>2. CountsOK'
  <2>1. UNCHANGED <<inbox, arrived>> /\ sends' \in {sends, sends + 1}
    BY DEF AppStep, ConnectCreates, ConnectStarts, Disconnecting, DisconnectPosts,
           DisconnectStops, DisconnectJoins, DisconnectReleases, Send, Exit, queue
  <2>2. ended' \in {ended, "terminate"}
    BY DEF AppStep, ConnectCreates, ConnectStarts, Disconnecting, DisconnectPosts,
           DisconnectStops, DisconnectJoins, DisconnectReleases, Send, Exit
  <2>3. reconnected' \in BOOLEAN
    BY DEF AppStep, ConnectCreates, ConnectStarts, Disconnecting, DisconnectPosts,
           DisconnectStops, DisconnectJoins, DisconnectReleases, Send, Exit, CountsOK
  <2>4. QED
    BY <2>1, <2>2, <2>3 DEF CountsOK
<1>3. ObjectsOK'
  <2>1. CASE ConnectCreates
    <3>1. made' \in 0..MaxConnects /\ made' = made + 1 /\ conn' = made' /\ ptr' = ptr
      BY <2>1 DEF ConnectCreates, ObjectsOK
    <3>2. UNCHANGED <<up, posted, wrote>>
      BY <2>1 DEF ConnectCreates
    <3>3. alive' \in [Objects -> BOOLEAN] /\ open' \in [Objects -> BOOLEAN]
      BY <2>1 DEF ConnectCreates, ObjectsOK
    <3>4. \A k \in Objects : op[k] \in {"none", "connect", "read", "failed"}
                /\ Aborted(op[k]) \in {"none", "connect", "read", "failed"}
      BY DEF Aborted, ObjectsOK
    <3>5. op' \in [Objects -> {"none", "connect", "read", "failed"}]
      <4>1. op' = [k \in Objects |-> IF k = made' THEN "connect"
                                     ELSE IF k = conn THEN Aborted(op[k]) ELSE op[k]]
        BY <2>1 DEF ConnectCreates
      <4>2. QED
        BY <3>4, <4>1
    <3>6. QED
      BY <3>1, <3>2, <3>3, <3>5 DEF ObjectsOK
  <2>2. CASE ConnectStarts \/ DisconnectStops \/ DisconnectJoins \/ Exit
    BY <2>2 DEF ConnectStarts, DisconnectStops, DisconnectJoins, Exit, objects, ObjectsOK
  <2>3. CASE DisconnectReleases
    BY <2>3 DEF DisconnectReleases, objects, ObjectsOK
  <2>4. CASE DisconnectPosts \/ Send
    <3>1. UNCHANGED <<made, conn, ptr, alive, open, op, up, wrote>>
      BY <2>4 DEF DisconnectPosts, Send
    <3>2. posted' \in [Objects -> Seq({"send", "bye"})]
      BY <2>4, PostType DEF DisconnectPosts, Send, ObjectsOK
    <3>3. QED
      BY <3>1, <3>2 DEF ObjectsOK
  <2>5. QED
    BY <2>1, <2>2, <2>3, <2>4 DEF AppStep, Disconnecting
<1>4. QED
  BY <1>1, <1>2, <1>3

LEMMA ContextType ==
    ASSUME TypeOK, NEW k \in Objects, ContextStep(k)
    PROVE  TypeOK'
<1> USE DEF TypeOK
<1>1. ThreadsOK'
  BY DEF ContextStep, Established, ConnectFails, Receive, OperationFails, RunSend, WriteFails,
         RunBye, HandlerDangles, ThreadsOK
<1>2. CountsOK'
  BY DEF ContextStep, Established, ConnectFails, Receive, OperationFails, RunSend, WriteFails,
         RunBye, HandlerDangles, CountsOK, queue
<1>3. ObjectsOK'
  <2>1. CASE Established(k) \/ ConnectFails(k) \/ OperationFails(k)
    BY <2>1 DEF Established, ConnectFails, OperationFails, ObjectsOK
  <2>2. CASE Receive(k) \/ HandlerDangles(k)
    BY <2>2 DEF Receive, HandlerDangles, objects, ObjectsOK
  <2>3. Aborted(op[k]) \in {"none", "connect", "read", "failed"}
    BY DEF Aborted
  <2>4. CASE WriteFails(k)
    BY <2>3, <2>4 DEF WriteFails, ObjectsOK
  <2>5. CASE RunSend(k)
    BY <2>5, TailType DEF RunSend, ObjectsOK
  <2>6. CASE RunBye(k)
    <3>1. UNCHANGED <<made, conn, ptr, alive, up, wrote>>
      BY <2>6 DEF RunBye
    <3>2. posted' \in [Objects -> Seq({"send", "bye"})]
      BY <2>6, TailType DEF RunBye
    <3>3. open' \in [Objects -> BOOLEAN]
      BY <2>6 DEF RunBye, ObjectsOK
    <3>4. op' \in [Objects -> {"none", "connect", "read", "failed"}]
      BY <2>3, <2>6 DEF RunBye, ObjectsOK
    <3>5. QED
      BY <3>1, <3>2, <3>3, <3>4 DEF ObjectsOK
  <2>7. QED
    BY <2>1, <2>2, <2>4, <2>5, <2>6 DEF ContextStep
<1>4. QED
  BY <1>1, <1>2, <1>3

LEMMA NetworkType ==
    ASSUME TypeOK, TestStep \/ AskStep \/ CrashStep \/ NetPosts \/ QueueStep
    PROVE  TypeOK'
<1> USE DEF TypeOK
<1>1. CASE TestStep
  BY <1>1 DEF TestStep, NetTests, ThreadsOK, CountsOK, ObjectsOK, objects, queue
<1>2. CASE AskStep
  BY <1>2 DEF AskStep, NetAsks, NetUses, ThreadsOK, CountsOK, ObjectsOK, queue
<1>3. CASE CrashStep
  BY <1>3 DEF CrashStep, NetCrashes, NetUses, ThreadsOK, CountsOK, ObjectsOK, queue
<1>4. CASE NetPosts
  <2>1. ThreadsOK' /\ CountsOK'
    BY <1>4 DEF NetPosts, NetUses, ThreadsOK, CountsOK, queue
  <2>2. posted' \in [Objects -> Seq({"send", "bye"})]
    BY <1>4, PostType DEF NetPosts
  <2>3. QED
    BY <1>4, <2>1, <2>2 DEF NetPosts, NetUses, ObjectsOK
<1>5. CASE QueueStep
  BY <1>5 DEF QueueStep, NetWaits, NetPops, NetDrained, ThreadsOK, CountsOK, ObjectsOK,
              objects, queue
<1>6. QED
  BY <1>1, <1>2, <1>3, <1>4, <1>5

LEMMA TypeNext == ASSUME TypeOK, [Next]_vars PROVE TypeOK'
<1>1. CASE RunReturns
  BY <1>1 DEF RunReturns, TypeOK, ThreadsOK, ObjectsOK, CountsOK, objects, queue
<1>2. CASE UNCHANGED vars
  BY <1>2 DEF vars, TypeOK, ThreadsOK, ObjectsOK, CountsOK, objects, queue
<1>3. QED
  BY <1>1, <1>2, StepKinds, AppType, ContextType, NetworkType

(* Every variable of the client's life cycle keeps its type.  In           *)
(* particular no message is popped from an empty queue.                    *)
THEOREM TypeCorrect == Spec => []TypeOK
BY InitType, TypeNext, PTL DEF Spec

-----------------------------------------------------------------------------
(* The join: no handler runs without a connection.                         *)

\* Between the creation of a connection and the start of its thread the
\* pointer is set; between the join and the release no thread is there.
QuietInv ==
    /\ ThreadsOK
    /\ app = "connecting" => conn # Null
    /\ app = "releasing" => thr = "none"
    /\ QuietWithoutConnection

LEMMA QuietNext == ASSUME TypeOK, QuietInv, [Next]_vars PROVE QuietInv'
<1>1. ThreadsOK'
  BY TypeNext DEF TypeOK
<1>2. CASE AppStep
  <2>1. CASE ConnectCreates
    <3>1. app' = "connecting" /\ thr' = thr /\ conn' # Null
      BY <2>1 DEF ConnectCreates, TypeOK, ObjectsOK
    <3>2. QED
      BY <1>1, <3>1 DEF QuietInv, QuietWithoutConnection
  <2>2. CASE ConnectStarts
    BY <1>1, <2>2 DEF ConnectStarts, QuietInv, QuietWithoutConnection
  <2>3. CASE Disconnecting \/ Send \/ Exit
    BY <1>1, <2>3 DEF Disconnecting, DisconnectPosts, DisconnectStops, DisconnectJoins,
                      DisconnectReleases, Send, Exit, QuietInv, QuietWithoutConnection
  <2>4. QED
    BY <1>2, <2>1, <2>2, <2>3 DEF AppStep
<1>3. CASE RunReturns
  BY <1>1, <1>3 DEF RunReturns, QuietInv, QuietWithoutConnection
<1>4. ASSUME ~AppStep, ~RunReturns PROVE UNCHANGED <<app, thr, conn>>
  BY <1>4, StepKinds
     DEF ContextStep, Established, ConnectFails, Receive, OperationFails, RunSend, WriteFails,
         RunBye, HandlerDangles, TestStep, NetTests, AskStep, NetAsks, NetUses, CrashStep,
         NetCrashes, NetPosts, QueueStep, NetWaits, NetPops, NetDrained, vars
<1>5. QED
  BY <1>1, <1>2, <1>3, <1>4 DEF QuietInv, QuietWithoutConnection

(* net_client.h, Disconnect: it stops the context, joins its thread and    *)
(* only then gives the connection up, so no handler of a connection runs   *)
(* while the client has none, and no two threads are ever in run().        *)
THEOREM NoHandlerWithoutConnection == Spec => []QuietWithoutConnection
<1>1. Init => QuietInv
  BY DEF Init, QuietInv, ThreadsOK, QuietWithoutConnection
<1>2. TypeOK /\ QuietInv /\ [Next]_vars => QuietInv'
  BY QuietNext
<1>3. QuietInv => QuietWithoutConnection
  BY DEF QuietInv
<1>4. QED
  BY <1>1, <1>2, <1>3, TypeCorrect, PTL DEF Spec

-----------------------------------------------------------------------------
(* The objects.                                                            *)

\* Nothing is pending on a connection that has not been made.
Fresh(k) == k > made => ~alive[k] /\ op[k] = "none" /\ posted[k] = << >> /\ ~wrote[k]

\* Until Connect is called over a connection none is deleted.
Kept(k) == k <= made /\ ~reconnected => alive[k]

ObjectInv ==
    /\ \A k \in Objects : Fresh(k) /\ Kept(k)
    /\ OnlyReconnectDangles

\* A step at an object that has been made, and deletes none.
LEMMA AtMade ==
    ASSUME TypeOK, ObjectInv, NEW k \in Objects, k <= made, made' = made, alive' = alive,
           reconnected' = reconnected,
           \A j \in Objects \ {k} : op'[j] = op[j] /\ posted'[j] = posted[j] /\ wrote'[j] = wrote[j]
    PROVE  \A j \in Objects : Fresh(j)' /\ Kept(j)'
<1> SUFFICES ASSUME NEW j \in Objects PROVE Fresh(j)' /\ Kept(j)'
  OBVIOUS
<1>1. made \in Nat /\ j \in Nat /\ k \in Nat
  BY DEF TypeOK, ObjectsOK
<1>2. Fresh(j) /\ Kept(j)
  BY DEF ObjectInv
<1>3. CASE j = k
  BY <1>1, <1>2, <1>3 DEF Fresh, Kept
<1>4. CASE j # k
  BY <1>2, <1>4 DEF Fresh, Kept
<1>5. QED
  BY <1>3, <1>4

LEMMA ObjectApp == ASSUME TypeOK, ObjectInv, AppStep PROVE ObjectInv'
<1>1. OnlyReconnectDangles'
  <2>1. ended' \in {ended, "terminate"}
    BY DEF AppStep, ConnectCreates, ConnectStarts, Disconnecting, DisconnectPosts,
           DisconnectStops, DisconnectJoins, DisconnectReleases, Send, Exit
  <2>2. reconnected => reconnected'
    BY Zenon
       DEF AppStep, ConnectCreates, ConnectStarts, Disconnecting, DisconnectPosts,
           DisconnectStops, DisconnectJoins, DisconnectReleases, Send, Exit
  <2>3. QED
    BY <2>1, <2>2 DEF ObjectInv, OnlyReconnectDangles
<1>2. CASE ConnectCreates
  <2>1. ASSUME NEW k \in Objects PROVE Fresh(k)' /\ Kept(k)'
    <3>1. made \in Nat /\ conn \in Nat /\ conn <= made /\ made' = made + 1 /\ k \in Nat /\ k > 0
      BY <1>2 DEF ConnectCreates, TypeOK, ObjectsOK
    <3>2. Fresh(k) /\ Kept(k)
      BY DEF ObjectInv
    <3>3. /\ alive'[k] <=> k = made' \/ (alive[k] /\ k # conn)
          /\ op'[k] = IF k = made' THEN "connect"
                      ELSE IF k = conn THEN Aborted(op[k]) ELSE op[k]
          /\ posted' = posted /\ wrote' = wrote
          /\ reconnected' <=> reconnected \/ conn # Null
      BY <1>2 DEF ConnectCreates
    <3>4. CASE k > made'
      BY <3>1, <3>2, <3>3, <3>4 DEF Fresh, Kept
    <3>5. CASE k <= made'
      BY <3>1, <3>2, <3>3, <3>5 DEF Fresh, Kept
    <3>6. QED
      BY <3>1, <3>4, <3>5
  <2>2. QED
    BY <1>1, <2>1 DEF ObjectInv
<1>3. CASE DisconnectPosts \/ Send
  <2>1. /\ UNCHANGED <<made, alive, op, wrote, reconnected>>
        /\ UNCHANGED posted \/ (IsConnected /\ \E l : Post(conn, l))
    BY <1>3 DEF DisconnectPosts, Send
  <2>2. CASE UNCHANGED posted
    BY <1>1, <2>1, <2>2 DEF ObjectInv, Fresh, Kept
  <2>3. CASE IsConnected /\ \E l : Post(conn, l)
    <3>1. conn \in Objects /\ conn <= made
      BY <2>3 DEF IsConnected, TypeOK, ObjectsOK
    <3>2. \A j \in Objects \ {conn} : posted'[j] = posted[j]
      BY <2>3 DEF Post, TypeOK, ObjectsOK
    <3>3. \A j \in Objects : Fresh(j)' /\ Kept(j)'
      BY <2>1, <3>1, <3>2, AtMade
    <3>4. QED
      BY <1>1, <3>3 DEF ObjectInv
  <2>4. QED
    BY <2>1, <2>2, <2>3
<1>4. CASE ConnectStarts \/ DisconnectStops \/ DisconnectJoins \/ DisconnectReleases \/ Exit
  <2>1. UNCHANGED <<made, alive, op, posted, wrote, reconnected>>
    BY <1>4 DEF ConnectStarts, DisconnectStops, DisconnectJoins, DisconnectReleases, Exit, objects
  <2>2. QED
    BY <1>1, <2>1 DEF ObjectInv, Fresh, Kept
<1>5. QED
  BY <1>2, <1>3, <1>4 DEF AppStep, Disconnecting

LEMMA ObjectContext ==
    ASSUME TypeOK, ObjectInv, NEW k \in Objects, ContextStep(k)
    PROVE  ObjectInv'
<1>0. made \in Nat /\ k \in Nat /\ Fresh(k) /\ Kept(k)
  BY DEF TypeOK, ObjectsOK, ObjectInv
<1>1. UNCHANGED <<made, alive, reconnected>>
  BY DEF ContextStep, Established, ConnectFails, Receive, OperationFails, RunSend, WriteFails,
         RunBye, HandlerDangles, objects
<1>2. CASE HandlerDangles(k)
  <2>1. ~alive[k] /\ (op[k] # "none" \/ posted[k] # << >> \/ wrote[k])
    BY <1>2 DEF HandlerDangles
  <2>2. reconnected
    BY <1>0, <2>1 DEF Fresh, Kept
  <2>3. UNCHANGED <<op, posted, wrote>>
    BY <1>2 DEF HandlerDangles, objects
  <2>4. QED
    BY <1>1, <2>2, <2>3 DEF ObjectInv, Fresh, Kept, OnlyReconnectDangles
<1>3. CASE ~HandlerDangles(k)
  <2>1. alive[k] /\ ended' \in {ended, "terminate"}
    BY <1>3 DEF ContextStep, Established, ConnectFails, Receive, OperationFails, RunSend,
                WriteFails, RunBye, Handler
  <2>2. k <= made
    BY <1>0, <2>1 DEF Fresh
  <2>3. \A j \in Objects \ {k} : op'[j] = op[j] /\ posted'[j] = posted[j] /\ wrote'[j] = wrote[j]
    BY <1>3 DEF ContextStep, Established, ConnectFails, Receive, OperationFails, RunSend,
                WriteFails, RunBye, objects, TypeOK, ObjectsOK
  <2>4. \A j \in Objects : Fresh(j)' /\ Kept(j)'
    BY <1>1, <2>2, <2>3, AtMade
  <2>5. QED
    BY <1>1, <2>1, <2>4 DEF ObjectInv, OnlyReconnectDangles
<1>4. QED
  BY <1>2, <1>3

LEMMA ObjectNetwork ==
    ASSUME TypeOK, ObjectInv, TestStep \/ AskStep \/ CrashStep \/ NetPosts \/ QueueStep
    PROVE  ObjectInv'
<1>1. CASE NetPosts
  <2>1. PICK p \in Objects : NetUses("sendUse", p) /\ alive[p] /\ Post(p, "send") /\ UNCHANGED ended
    BY <1>1 DEF NetPosts
  <2>2. p <= made
    BY <2>1 DEF NetUses, TypeOK, ObjectsOK
  <2>3. UNCHANGED <<made, alive, op, wrote, reconnected>>
    BY <2>1 DEF NetUses
  <2>4. \A j \in Objects \ {p} : posted'[j] = posted[j]
    BY <2>1 DEF Post, TypeOK, ObjectsOK
  <2>5. \A j \in Objects : Fresh(j)' /\ Kept(j)'
    BY <2>2, <2>3, <2>4, AtMade
  <2>6. QED
    BY <2>1, <2>3, <2>5 DEF ObjectInv, OnlyReconnectDangles
<1>2. CASE TestStep \/ AskStep \/ QueueStep
  <2>1. UNCHANGED <<made, alive, op, posted, wrote, reconnected, ended>>
    BY <1>2 DEF TestStep, NetTests, AskStep, NetAsks, NetUses, QueueStep, NetWaits, NetPops,
                NetDrained, objects
  <2>2. QED
    BY <2>1 DEF ObjectInv, Fresh, Kept, OnlyReconnectDangles
<1>3. CASE CrashStep
  <2>1. UNCHANGED <<made, alive, op, posted, wrote, reconnected>>
    BY <1>3 DEF CrashStep, NetCrashes, NetUses
  <2>2. PICK p \in {Null} \cup Objects :
            /\ p \in {ptr, conn} /\ Broken(p)
            /\ ended' = IF p = Null THEN "null" ELSE "freed"
    BY <1>3 DEF CrashStep, NetCrashes, NetUses
  <2>3. ended' = "freed" => reconnected
    <3>1. CASE p = Null
      BY <2>2, <3>1
    <3>2. CASE p # Null
      <4>1. p \in Objects /\ p <= made /\ ~alive[p]
        BY <2>2, <3>2 DEF TypeOK, ObjectsOK, Broken
      <4>2. Kept(p)
        BY <4>1 DEF ObjectInv
      <4>3. QED
        BY <4>1, <4>2 DEF Kept
    <3>3. QED
      BY <3>1, <3>2
  <2>4. QED
    BY <2>1, <2>3 DEF ObjectInv, Fresh, Kept, OnlyReconnectDangles
<1>4. QED
  BY <1>1, <1>2, <1>3

LEMMA ObjectNext == ASSUME TypeOK, ObjectInv, [Next]_vars PROVE ObjectInv'
<1>1. CASE RunReturns \/ UNCHANGED vars
  <2>1. UNCHANGED <<made, alive, op, posted, wrote, reconnected, ended>>
    BY <1>1 DEF RunReturns, vars, objects
  <2>2. QED
    BY <2>1 DEF ObjectInv, Fresh, Kept, OnlyReconnectDangles
<1>2. QED
  BY <1>1, StepKinds, ObjectApp, ObjectContext, ObjectNetwork

(* net_client.h: release() deletes nothing, so the pointer the network     *)
(* thread has tested, and this in a handler, stay good, however the        *)
(* threads interleave; only make_unique over a connection deletes one.     *)
THEOREM DanglingNeedsReconnect == Spec => []OnlyReconnectDangles
<1>1. Init => ObjectInv
  BY DEF Init, ObjectInv, Fresh, Kept, OnlyReconnectDangles
<1>2. TypeOK /\ ObjectInv /\ [Next]_vars => ObjectInv'
  BY ObjectNext
<1>3. ObjectInv => OnlyReconnectDangles
  BY DEF ObjectInv
<1>4. QED
  BY <1>1, <1>2, <1>3, TypeCorrect, PTL DEF Spec

-----------------------------------------------------------------------------
(* The null pointer.                                                       *)

\* A pointer the network thread is about to use was not null when it was
\* tested.  Disconnect has stopped the context and joined its thread before it
\* gives the connection up.
NullInv ==
    /\ net \in {"use", "sendAsk", "sendUse"} => ptr # Null
    /\ app \in {"joining", "releasing"} => stopped
    /\ conn = Null => thr = "none"
    /\ conn = Null /\ made > 0 => stopped
    /\ OnlyDisconnectNulls

LEMMA NullApp == ASSUME TypeOK, QuietInv, NullInv, AppStep PROVE NullInv'
<1>1. ended = "none" /\ ended' # "null" /\ UNCHANGED <<net, ptr>>
  BY DEF AppStep, ConnectCreates, ConnectStarts, Disconnecting, DisconnectPosts,
         DisconnectStops, DisconnectJoins, DisconnectReleases, Send, Exit, Runs
<1>2. CASE ConnectCreates
  <2>1. app' = "connecting" /\ conn' # Null
    BY <1>2 DEF ConnectCreates, TypeOK, ObjectsOK
  <2>2. QED
    BY <1>1, <2>1 DEF NullInv, OnlyDisconnectNulls
<1>3. CASE ConnectStarts
  <2>1. app' = "idle" /\ conn' = conn /\ conn # Null
    BY <1>3 DEF ConnectStarts, QuietInv
  <2>2. QED
    BY <1>1, <2>1 DEF NullInv, OnlyDisconnectNulls
<1>4. CASE DisconnectPosts \/ Send \/ Exit
  <2>1. UNCHANGED <<thr, stopped, conn, made>> /\ app' \notin {"joining", "releasing"}
    BY <1>4 DEF DisconnectPosts, Send, Exit, objects
  <2>2. QED
    BY <1>1, <2>1 DEF NullInv, OnlyDisconnectNulls
<1>5. CASE DisconnectStops
  <2>1. UNCHANGED <<thr, conn, made>> /\ stopped'
    BY <1>5 DEF DisconnectStops, objects
  <2>2. QED
    BY <1>1, <2>1 DEF NullInv, OnlyDisconnectNulls
<1>6. CASE DisconnectJoins
  <2>1. UNCHANGED <<conn, made>> /\ stopped' = stopped /\ stopped /\ thr' = "none"
    BY <1>6 DEF DisconnectJoins, objects, NullInv
  <2>2. QED
    BY <1>1, <2>1 DEF NullInv, OnlyDisconnectNulls
<1>7. CASE DisconnectReleases
  <2>1. stopped' = stopped /\ stopped /\ thr' = thr /\ thr = "none"
    BY <1>7 DEF DisconnectReleases, NullInv, QuietInv
  <2>2. QED
    BY <1>1, <2>1 DEF NullInv, OnlyDisconnectNulls
<1>8. QED
  BY <1>2, <1>3, <1>4, <1>5, <1>6, <1>7 DEF AppStep, Disconnecting

LEMMA NullContext ==
    ASSUME NullInv, RunReturns \/ \E k \in Objects : ContextStep(k)
    PROVE  NullInv'
<1>1. ended = "none" /\ ended' # "null" /\ UNCHANGED <<app, net, ptr, conn, made>>
  BY DEF RunReturns, ContextStep, Established, ConnectFails, Receive, OperationFails, RunSend,
         WriteFails, RunBye, HandlerDangles, Handler, InRun, Runs, objects
<1>2. thr = "running" /\ (stopped => stopped')
  BY DEF RunReturns, ContextStep, Established, ConnectFails, Receive, OperationFails, RunSend,
         WriteFails, RunBye, HandlerDangles, Handler, InRun
<1>3. QED
  BY <1>1, <1>2 DEF NullInv, OnlyDisconnectNulls

LEMMA NullNetwork ==
    ASSUME TypeOK, NullInv, TestStep \/ AskStep \/ CrashStep \/ NetPosts \/ QueueStep
    PROVE  NullInv'
<1>1. ended = "none" /\ UNCHANGED <<app, thr, stopped, conn, made>>
  BY DEF TestStep, NetTests, AskStep, NetAsks, NetUses, CrashStep, NetCrashes, NetPosts,
         QueueStep, NetWaits, NetPops, NetDrained, Runs, objects
<1>2. CASE TestStep
  <2>1. ended' # "null" /\ ptr' = conn /\ (conn = Null => net' \in {"test", "drain"})
    BY <1>1, <1>2 DEF TestStep, NetTests
  <2>2. QED
    BY <1>1, <2>1 DEF NullInv, OnlyDisconnectNulls
<1>3. CASE AskStep
  <2>1. /\ ended' # "null" /\ ptr' = ptr
        /\ net \in {"use", "sendAsk"}
    BY <1>1, <1>3 DEF AskStep, NetAsks, NetUses
  <2>2. QED
    BY <1>1, <2>1 DEF NullInv, OnlyDisconnectNulls
<1>4. CASE NetPosts \/ QueueStep
  <2>1. /\ ended' # "null" /\ ptr' = ptr
        /\ net' \notin {"use", "sendAsk", "sendUse"}
    BY <1>1, <1>4 DEF NetPosts, NetUses, QueueStep, NetWaits, NetPops, NetDrained
  <2>2. QED
    BY <1>1, <2>1 DEF NullInv, OnlyDisconnectNulls
<1>5. CASE CrashStep
  <2>1. PICK p \in {Null} \cup Objects :
            /\ p \in {ptr, conn} /\ ptr' = ptr /\ net' = net
            /\ net \in {"use", "sendAsk", "sendUse"}
            /\ ended' = IF p = Null THEN "null" ELSE "freed"
    BY <1>5 DEF CrashStep, NetCrashes, NetUses
  <2>2. ptr # Null /\ made > 0
    BY <2>1 DEF NullInv, TypeOK, ObjectsOK
  <2>3. ended' = "null" => conn = Null
    BY <2>1, <2>2
  <2>4. QED
    BY <1>1, <2>1, <2>2, <2>3 DEF NullInv, OnlyDisconnectNulls
<1>6. QED
  BY <1>2, <1>3, <1>4, <1>5

(* net_client.h: the network thread reads m_connection two or three times  *)
(* for one call and Disconnect may come in between, so the use may be of a *)
(* null pointer; nothing but that makes it null: never a call before the   *)
(* first Connect, nor one while another Connect replaces the connection.   *)
THEOREM NullNeedsDisconnect == Spec => []OnlyDisconnectNulls
<1>1. Init => QuietInv /\ NullInv
  <2>1. Init => QuietInv
    BY DEF Init, QuietInv, ThreadsOK, QuietWithoutConnection
  <2>2. Init => NullInv
    BY DEF Init, NullInv, OnlyDisconnectNulls
  <2>3. QED
    BY <2>1, <2>2
<1>2. TypeOK /\ QuietInv /\ NullInv /\ [Next]_vars => QuietInv' /\ NullInv'
  <2> SUFFICES ASSUME TypeOK, QuietInv, NullInv, [Next]_vars PROVE NullInv'
    BY QuietNext
  <2>1. CASE UNCHANGED vars
    BY <2>1 DEF vars, objects, NullInv, OnlyDisconnectNulls
  <2>2. QED
    BY <2>1, StepKinds, NullApp, NullContext, NullNetwork
<1>3. NullInv => OnlyDisconnectNulls
  BY DEF NullInv
<1>4. QED
  BY <1>1, <1>2, <1>3, TypeCorrect, PTL DEF Spec
=============================================================================
