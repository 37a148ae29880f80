----------------------------- MODULE Connection -----------------------------
(***************************************************************************)
(* networking/net_connection.h: the two ends of one TCP connection, the    *)
(* server's object and the client's.  At each end one thread runs the asio *)
(* context: posted lambdas in order, and the completion handler of every   *)
(* finished read or write.  The application's threads only post.           *)
(*                                                                         *)
(* A message is sent as a header chunk and, when it has a body, a body     *)
(* chunk.  An async_read completes once a whole chunk has arrived, so a    *)
(* chunk is the unit of transfer.  A body is a value, NoBytes the empty    *)
(* one; header.size is kept as 0 or 1: all that is ever asked of it is     *)
(* whether it is 0, and the read of a body asks for exactly the bytes that *)
(* were announced.                                                         *)
(***************************************************************************)
EXTENDS Naturals, Sequences

CONSTANTS Server, Client,   \* the two ends
          Types, ZeroType,  \* message types, among them the enumerator of value 0
          Bodies, NoBytes,  \* message bodies, among them the empty one
          Bye,              \* the lambda posted by Disconnect
          MaxSends          \* bound: how many messages are sent, both ends together

Ends == {Server, Client}
Message == [type : Types, body : Bodies]
Header == [type : Types, size : {0, 1}]

ASSUME EndsAssumption ==
    /\ Server # Client
    /\ ZeroType \in Types
    /\ NoBytes \in Bodies
    /\ Bye \notin Message
    /\ MaxSends \in Nat

Peer(e) == IF e = Server THEN Client ELSE Server

VARIABLES
    link,       \* the network between the two ends
    open,       \* m_socket.is_open()
    posted,     \* lambdas posted to the end's context
    out,        \* m_qMessagesOut
    writes,     \* async_writes under way or completed and not handled yet
    wire,       \* chunks written by an end and not read by its peer
    read,       \* the async_read under way, or completed and not handled yet
    tmp,        \* m_msgTemporaryIn
    incoming,   \* history: what the end pushed into its incoming queue
    sent,       \* history: what Send was called with
    dead        \* an exception left the context's run(): std::terminate

vars == <<link, open, posted, out, writes, wire, read, tmp, incoming, sent, dead>>

\* Slips: the header is counted in its own size; the size is not set at all.
HeaderCounted(m) == [type |-> m.type, size |-> IF m.body = NoBytes THEN 1 ELSE 2]
HeaderUnsized(m) == [type |-> m.type, size |-> 0]

\* header.size follows the body: operator<< sets it after every push.
HeaderOf(m) == [type |-> m.type, size |-> IF m.body = NoBytes THEN 0 ELSE 1]

\* Starting an operation on a closed socket completes it with an error.
Issue(e, part) == [part |-> part, status |-> IF open[e] THEN "pending" ELSE "error"]

Abort(op) == IF op.status = "pending" THEN [op EXCEPT !.status = "error"] ELSE op

Idle == [part |-> "none", status |-> "ok"]

\* close() aborts what is pending; what has completed stays completed.
CloseWith(e, nextRead, nextWrites) ==
    /\ open' = [open EXCEPT ![e] = FALSE]
    /\ read' = [read EXCEPT ![e] = Abort(nextRead)]
    /\ writes' = [writes EXCEPT ![e] =
            [i \in DOMAIN nextWrites |-> Abort(nextWrites[i])]]

Running(e) == ~dead[e] /\ (e = Server => read[Server] # Idle)

Init ==
    /\ link = "connecting"
    /\ open = [e \in Ends |-> TRUE]
    /\ posted = [e \in Ends |-> <<>>]
    /\ out = [e \in Ends |-> <<>>]
    /\ writes = [e \in Ends |-> <<>>]
    /\ wire = [e \in Ends |-> <<>>]
    /\ read = [e \in Ends |-> Idle]
    /\ tmp = [e \in Ends |-> [header |-> [type |-> ZeroType, size |-> 0], body |-> NoBytes]]
    /\ incoming = [e \in Ends |-> <<>>]
    /\ sent = [e \in Ends |-> <<>>]
    /\ dead = [e \in Ends |-> FALSE]

-----------------------------------------------------------------------------
(* Connecting: the client's async_connect and the server's async_accept.   *)

Established ==
    /\ link = "connecting"
    /\ open[Client]
    /\ link' = "up"
    /\ read' = [read EXCEPT ![Client] = Issue(Client, "header")]
    /\ UNCHANGED <<open, posted, out, writes, wire, tmp, incoming, sent, dead>>

\* The handler does nothing on an error: the socket is left open.
Refused ==
    /\ link = "connecting"
    /\ link' = "refused"
    /\ UNCHANGED <<open, posted, out, writes, wire, read, tmp, incoming, sent, dead>>

Accept ==
    /\ link \in {"up", "down"}
    /\ ~dead[Server] /\ read[Server] = Idle
    /\ read' = [read EXCEPT ![Server] = Issue(Server, "header")]
    /\ UNCHANGED <<link, open, posted, out, writes, wire, tmp, incoming, sent, dead>>

Die(e) ==
    /\ dead' = [dead EXCEPT ![e] = TRUE]
    /\ open' = [open EXCEPT ![e] = FALSE]
    /\ UNCHANGED <<link, out, writes, wire, read, tmp, incoming, sent>>

\* remote_endpoint() throws when the connection has been reset by then.
AcceptThrows ==
    /\ link = "down"
    /\ ~dead[Server] /\ read[Server] = Idle
    /\ Die(Server)
    /\ UNCHANGED posted

-----------------------------------------------------------------------------
(* The application: Send and Disconnect only post.                         *)

Send(e, m) ==
    /\ Running(e)
    /\ Len(sent[Server]) + Len(sent[Client]) < MaxSends
    /\ sent' = [sent EXCEPT ![e] = Append(@, m)]
    /\ posted' = [posted EXCEPT ![e] = Append(@, m)]
    /\ UNCHANGED <<link, open, out, writes, wire, read, tmp, incoming, dead>>

\* Bound: one pending Disconnect at a time.
Disconnect(e) ==
    /\ Running(e)
    /\ open[e]
    /\ \A i \in DOMAIN posted[e] : posted[e][i] # Bye
    /\ posted' = [posted EXCEPT ![e] = Append(@, Bye)]
    /\ UNCHANGED <<link, open, out, writes, wire, read, tmp, incoming, sent, dead>>

\* Slip: the lambda always starts a write.
RunSendAlways(e) ==
    /\ Running(e)
    /\ posted[e] # <<>> /\ Head(posted[e]) # Bye
    /\ posted' = [posted EXCEPT ![e] = Tail(@)]
    /\ out' = [out EXCEPT ![e] = Append(@, Head(posted[e]))]
    /\ writes' = [writes EXCEPT ![e] = Append(@, Issue(e, "header"))]
    /\ UNCHANGED <<link, open, wire, read, tmp, incoming, sent, dead>>

\* Slip: the new message goes in front of those that wait.
RunSendFront(e) ==
    /\ Running(e)
    /\ posted[e] # <<>> /\ Head(posted[e]) # Bye
    /\ posted' = [posted EXCEPT ![e] = Tail(@)]
    /\ out' = [out EXCEPT ![e] = <<Head(posted[e])>> \o @]
    /\ writes' = [writes EXCEPT ![e] =
            IF out[e] = <<>> THEN <<Issue(e, "header")>> ELSE @]
    /\ UNCHANGED <<link, open, wire, read, tmp, incoming, sent, dead>>

RunSend(e) ==
    /\ Running(e)
    /\ posted[e] # <<>> /\ Head(posted[e]) # Bye
    /\ posted' = [posted EXCEPT ![e] = Tail(@)]
    /\ out' = [out EXCEPT ![e] = Append(@, Head(posted[e]))]
    /\ writes' = [writes EXCEPT ![e] =
            IF out[e] = <<>> THEN Append(@, Issue(e, "header")) ELSE @]
    /\ UNCHANGED <<link, open, wire, read, tmp, incoming, sent, dead>>

\* cancel() throws on a closed socket, shutdown() on a connection that was
\* refused or reset.
RunDisconnect(e) ==
    /\ Running(e)
    /\ posted[e] # <<>> /\ Head(posted[e]) = Bye
    /\ posted' = [posted EXCEPT ![e] = Tail(@)]
    /\ \/ /\ open[e] /\ link # "refused"
          /\ CloseWith(e, read[e], writes[e])
          /\ link' = IF link = "connecting" THEN "refused" ELSE link
          /\ UNCHANGED <<out, wire, tmp, incoming, sent, dead>>
       \/ (~open[e] \/ link \in {"down", "refused"}) /\ Die(e)

-----------------------------------------------------------------------------
(* Writing.  asio::buffer points into the front message of m_qMessagesOut. *)

Transmit(e) ==
    /\ Running(e) /\ open[e] /\ link = "up"
    /\ writes[e] # <<>> /\ Head(writes[e]).status = "pending"
    /\ LET m == Head(out[e])
           part == Head(writes[e]).part
       IN  wire' = [wire EXCEPT ![e] = Append(@, [part |-> part,
                data |-> IF part = "header" THEN HeaderOf(m) ELSE m.body])]
    /\ writes' = [writes EXCEPT ![e][1].status = "ok"]
    /\ UNCHANGED <<link, open, posted, out, read, tmp, incoming, sent, dead>>

WriteReset(e) ==
    /\ Running(e) /\ link \in {"down", "refused"}
    /\ writes[e] # <<>> /\ Head(writes[e]).status = "pending"
    /\ writes' = [writes EXCEPT ![e][1].status = "error"]
    /\ UNCHANGED <<link, open, posted, out, wire, read, tmp, incoming, sent, dead>>

\* The handler of WriteHeader when the message has a body.
HeaderWritten(e) ==
    /\ Running(e) /\ writes[e] # <<>>
    /\ Head(writes[e]) = [part |-> "header", status |-> "ok"]
    /\ Head(out[e]).body # NoBytes
    /\ writes' = [writes EXCEPT ![e] = Append(Tail(@), Issue(e, "body"))]
    /\ UNCHANGED <<link, open, posted, out, wire, read, tmp, incoming, sent, dead>>

\* Slip: the next message waits for another Send.
MessageWrittenStops(e) ==
    /\ Running(e) /\ writes[e] # <<>>
    /\ Head(writes[e]).status = "ok"
    /\ Head(writes[e]).part = "header" => Head(out[e]).body = NoBytes
    /\ out' = [out EXCEPT ![e] = Tail(@)]
    /\ writes' = [writes EXCEPT ![e] = Tail(@)]
    /\ UNCHANGED <<link, open, posted, wire, read, tmp, incoming, sent, dead>>

\* The handlers once the last chunk of the front message is out.
MessageWritten(e) ==
    /\ Running(e) /\ writes[e] # <<>>
    /\ Head(writes[e]).status = "ok"
    /\ Head(writes[e]).part = "header" => Head(out[e]).body = NoBytes
    /\ out' = [out EXCEPT ![e] = Tail(@)]
    /\ writes' = [writes EXCEPT ![e] =
            IF Len(out[e]) > 1 THEN Append(Tail(@), Issue(e, "header")) ELSE Tail(@)]
    /\ UNCHANGED <<link, open, posted, wire, read, tmp, incoming, sent, dead>>

WriteFailed(e) ==
    /\ Running(e) /\ writes[e] # <<>>
    /\ Head(writes[e]).status = "error"
    /\ CloseWith(e, read[e], Tail(writes[e]))
    /\ UNCHANGED <<link, posted, out, wire, tmp, incoming, sent, dead>>

-----------------------------------------------------------------------------
(* Reading.                                                                *)

Reading(e, part, status) == Running(e) /\ read[e] = [part |-> part, status |-> status]

Receive(e) ==
    /\ Running(e) /\ read[e].status = "pending"
    /\ wire[Peer(e)] # <<>>
    /\ tmp' = [tmp EXCEPT ![e] = IF read[e].part = "header"
            THEN [@ EXCEPT !.header = Head(wire[Peer(e)]).data]
            ELSE [@ EXCEPT !.body = Head(wire[Peer(e)]).data]]
    /\ wire' = [wire EXCEPT ![Peer(e)] = Tail(@)]
    /\ read' = [read EXCEPT ![e].status = "ok"]
    /\ UNCHANGED <<link, open, posted, out, writes, incoming, sent, dead>>

EndOfFile(e) ==
    /\ Running(e) /\ read[e].status = "pending"
    /\ link = "up" /\ ~open[Peer(e)] /\ wire[Peer(e)] = <<>>
    /\ read' = [read EXCEPT ![e].status = "error"]
    /\ UNCHANGED <<link, open, posted, out, writes, wire, tmp, incoming, sent, dead>>

ReadReset(e) ==
    /\ Running(e) /\ read[e].status = "pending" /\ link = "down"
    /\ read' = [read EXCEPT ![e].status = "error"]
    /\ UNCHANGED <<link, open, posted, out, writes, wire, tmp, incoming, sent, dead>>

HeaderRead(e) ==
    /\ Reading(e, "header", "ok") /\ tmp[e].header.size > 0
    /\ read' = [read EXCEPT ![e] = Issue(e, "body")]
    /\ UNCHANGED <<link, open, posted, out, writes, wire, tmp, incoming, sent, dead>>

\* AddToIncomingMessageQueue: m_msgTemporaryIn is copied, never cleared.
MessageRead(e) ==
    /\ \/ Reading(e, "header", "ok") /\ tmp[e].header.size = 0
       \/ Reading(e, "body", "ok")
    /\ incoming' = [incoming EXCEPT ![e] = Append(@, tmp[e])]
    /\ read' = [read EXCEPT ![e] = Issue(e, "header")]
    /\ UNCHANGED <<link, open, posted, out, writes, wire, tmp, sent, dead>>

\* Slip: the read that failed leaves the socket open.
ReadFailedOpen(e) ==
    /\ Running(e) /\ read[e].status = "error"
    /\ read' = [read EXCEPT ![e] = [part |-> "ended", status |-> "ok"]]
    /\ UNCHANGED <<link, open, posted, out, writes, wire, tmp, incoming, sent, dead>>

ReadFailed(e) ==
    /\ Running(e) /\ read[e].status = "error"
    /\ CloseWith(e, [part |-> "ended", status |-> "ok"], writes[e])
    /\ UNCHANGED <<link, posted, out, wire, tmp, incoming, sent, dead>>

-----------------------------------------------------------------------------
(* The network breaks: silently, or with a reset that either end may see.  *)
LinkFails ==
    /\ link = "up"
    /\ link' = "down"
    /\ UNCHANGED <<open, posted, out, writes, wire, read, tmp, incoming, sent, dead>>

App(e) == Disconnect(e) \/ \E m \in Message : Send(e, m)

Network(e) == Transmit(e) \/ Receive(e) \/ EndOfFile(e)

Context(e) ==
    \/ RunSend(e) \/ RunDisconnect(e)
    \/ HeaderWritten(e) \/ MessageWritten(e) \/ WriteFailed(e)
    \/ HeaderRead(e) \/ MessageRead(e) \/ ReadFailed(e)

Next ==
    \/ Established \/ Refused \/ Accept \/ AcceptThrows \/ LinkFails
    \/ \E e \in Ends : App(e) \/ Network(e) \/ Context(e) \/ WriteReset(e) \/ ReadReset(e)

Spec == Init /\ [][Next]_vars

(* Each context's thread keeps running what is ready, and a working link   *)
(* carries data and the end of the stream.  Nothing obliges a connection   *)
(* to be established, an application to send, or a broken link to say so.  *)
Fairness ==
    /\ WF_vars(Accept)
    /\ \A e \in Ends :
        /\ WF_vars(RunSend(e) \/ RunDisconnect(e))
        /\ WF_vars(HeaderWritten(e) \/ MessageWritten(e) \/ WriteFailed(e))
        /\ WF_vars(HeaderRead(e) \/ MessageRead(e) \/ ReadFailed(e))
        /\ WF_vars(Transmit(e))
        /\ WF_vars(Receive(e) \/ EndOfFile(e))

FairSpec == Spec /\ Fairness

-----------------------------------------------------------------------------
(* Properties                                                              *)

Status == {"pending", "ok", "error"}

TypeOK ==
    /\ link \in {"connecting", "refused", "up", "down"}
    /\ open \in [Ends -> BOOLEAN]
    /\ posted \in [Ends -> Seq(Message \cup {Bye})]
    /\ out \in [Ends -> Seq(Message)]
    /\ writes \in [Ends -> Seq([part : {"header", "body"}, status : Status])]
    /\ wire \in [Ends -> Seq([part : {"header"}, data : Header]
                             \cup [part : {"body"}, data : Bodies])]
    /\ read \in [Ends -> [part : {"none", "header", "body", "ended"}, status : Status]]
    /\ tmp \in [Ends -> [header : Header, body : Bodies]]
    /\ incoming \in [Ends -> Seq([header : Header, body : Bodies])]
    /\ sent \in [Ends -> Seq(Message)]
    /\ dead \in [Ends -> BOOLEAN]

\* The reader never takes a body for a header or a header for a body: it
\* waits for the chunk that the writer, judging by the body's size and not by
\* the header's, sends next.
Framed ==
    \A e \in Ends :
        read[e].status = "pending" /\ wire[Peer(e)] # <<>>
            => Head(wire[Peer(e)]).part = read[e].part

\* At most one write is under way at each end, it is for the message at the
\* front, and an open connection with something to send is sending.
OneWriter ==
    \A e \in Ends :
        /\ Len(writes[e]) <= 1
        /\ writes[e] # <<>> => out[e] # <<>>
        /\ open[e] /\ out[e] # <<>> => writes[e] # <<>>

\* A delivered message as the peer sent it.  The body of a message whose
\* header announces none is not part of it.
Received(e) ==
    [i \in DOMAIN incoming[e] |->
        [type |-> incoming[e][i].header.type,
         body |-> IF incoming[e][i].header.size = 0 THEN NoBytes ELSE incoming[e][i].body]]

ToServer == INSTANCE FifoChannel WITH
    Messages <- Message, sent <- sent[Client], delivered <- Received(Server)
ToClient == INSTANCE FifoChannel WITH
    Messages <- Message, sent <- sent[Server], delivered <- Received(Client)

\* Each direction is a FIFO channel, from Send to the incoming queue, whatever
\* the other direction does and however the connection ends.
ImplementsFifo == ToServer!Spec /\ ToClient!Spec

\* The connection works: up, and neither end has closed it.
Healthy == link = "up" /\ \A e \in Ends : open[e]

\* On a connection that keeps working every message sent is delivered.
HealthyDelivers ==
    \A e \in Ends : \A n \in 1..MaxSends :
        (Healthy /\ Len(sent[e]) >= n) ~> (Len(incoming[Peer(e)]) >= n \/ ~Healthy)

\* When one end closes and the link holds, the other end closes too.
PeerCloses ==
    \A e \in Ends : (link = "up" /\ ~open[e]) ~> (link # "up" \/ ~open[Peer(e)])
=============================================================================
