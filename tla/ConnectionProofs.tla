--------------------------- MODULE ConnectionProofs ---------------------------
(***************************************************************************)
(* Theorems about Connection: its types, one write at a time, the framing  *)
(* of the stream, and that each direction implements FifoChannel.          *)
(*                                                                         *)
(* Framed is not inductive: that the next chunk is the one the reader is   *)
(* waiting for depends on every chunk behind it and on what the writer     *)
(* will send next.  ConnInv follows a direction from end to end: what the  *)
(* reader Expects is at the front of the wire, each chunk is followed by   *)
(* the one it announces, and what the writer Emits next follows the last   *)
(* chunk, or meets the reader when the wire is empty.  An end that failed  *)
(* is asked nothing.  Most steps leave the wire alone and keep both ends   *)
(* (Kept); only Transmit and Receive move a chunk.                         *)
(***************************************************************************)
EXTENDS Connection, TLAPS

\* Sequences of at most one element.
LEMMA OneElement ==
    ASSUME NEW S, NEW w \in Seq(S), w # << >>, Len(w) <= 1
    PROVE  /\ w = <<Head(w)>> /\ Head(w) \in S /\ w[1] = Head(w) /\ Tail(w) = << >>
<1>1. Len(w) \in Nat
  OBVIOUS
<1>2. Len(w) # 0
  OBVIOUS
<1>3. Len(w) = 1
  <2>1. \A n \in Nat : n <= 1 /\ n # 0 => n = 1
    OBVIOUS
  <2>2. QED
    BY <1>1, <1>2, <2>1
<1>4. w[1] \in S
  BY <1>3
<1>5. w = <<w[1]>>
  BY <1>3
<1>6. Head(w) = w[1]
  OBVIOUS
<1>7. Tail(w) \in Seq(S)
  OBVIOUS
<1>8. Len(Tail(w)) = 0
  BY <1>3
<1>9. Tail(w) = << >>
  BY <1>7, <1>8
<1>10. QED
  BY <1>4, <1>5, <1>6, <1>9

LEMMA HeadTail ==
    ASSUME NEW S, NEW w \in Seq(S), w # << >>
    PROVE  /\ Head(w) \in S /\ Tail(w) \in Seq(S) /\ w[1] = Head(w) /\ Len(w) \in Nat
           /\ Len(w) # 0 /\ Len(Tail(w)) = Len(w) - 1 /\ \A i \in 1..Len(w)-1 : Tail(w)[i] = w[i+1]
OBVIOUS

Op == [part : {"header", "body"}, status : Status]
Chunk == [part : {"header"}, data : Header] \cup [part : {"body"}, data : Bodies]
Delivered == [header : Header, body : Bodies]

\* TypeOK, in groups: the network, what an end sends, what it receives.
NetOK == link \in {"connecting", "refused", "up", "down"} /\ open \in [Ends -> BOOLEAN]
         /\ dead \in [Ends -> BOOLEAN]
QueuesOK == posted \in [Ends -> Seq(Message \cup {Bye})] /\ out \in [Ends -> Seq(Message)]
            /\ sent \in [Ends -> Seq(Message)]
WritesOK == writes \in [Ends -> Seq(Op)]
WireOK == wire \in [Ends -> Seq(Chunk)]
ReadOK == read \in [Ends -> [part : {"none", "header", "body", "ended"}, status : Status]]
TmpOK == tmp \in [Ends -> Delivered] /\ incoming \in [Ends -> Seq(Delivered)]

LEMMA TypeParts == TypeOK <=> NetOK /\ QueuesOK /\ WritesOK /\ WireOK /\ ReadOK /\ TmpOK
BY DEF TypeOK, NetOK, QueuesOK, WritesOK, WireOK, ReadOK, TmpOK, Op, Chunk, Delivered

LEMMA PeerFacts == \A e \in Ends : Peer(e) \in Ends /\ Peer(e) # e /\ Peer(Peer(e)) = e
BY EndsAssumption DEF EndsAssumption, Ends, Peer

LEMMA IssueIn == \A e \in Ends, part \in {"header", "body"} :
    /\ Issue(e, part) \in Op /\ Issue(e, part).part = part
    /\ Issue(e, part).status = IF open[e] THEN "pending" ELSE "error"
BY DEF Issue, Op, Status

LEMMA HeaderIn == \A m \in Message :
    /\ HeaderOf(m) \in Header
    /\ HeaderOf(m).size = IF m.body = NoBytes THEN 0 ELSE 1
    /\ HeaderOf(m).type = m.type
BY DEF HeaderOf, Header, Message

\* What close() does to the operations.
LEMMA AbortIs == \A op :
    /\ op.status # "pending" => Abort(op) = op
    /\ op \in Op => Abort(op) \in Op /\ Abort(op).part = op.part
                    /\ (op.status = "pending" => Abort(op).status = "error")
BY DEF Abort, Op, Status

LEMMA AbortSeq ==
    ASSUME NEW s \in Seq(Op)
    PROVE  /\ [i \in DOMAIN s |-> Abort(s[i])] \in Seq(Op)
           /\ Len([i \in DOMAIN s |-> Abort(s[i])]) = Len(s)
<1>1. s \in [1 .. Len(s) -> Op] /\ DOMAIN s = 1 .. Len(s)
  OBVIOUS
<1>2. [i \in DOMAIN s |-> Abort(s[i])] \in [1 .. Len(s) -> Op]
  BY <1>1, AbortIs
<1>3. QED
  BY <1>2

-----------------------------------------------------------------------------
(* The facts an action starts from: types, and one write at a time.        *)

Base == NetOK /\ QueuesOK /\ WritesOK /\ WireOK /\ ReadOK /\ OneWriter

LEMMA OneOp ==
    ASSUME Base, NEW e \in Ends, writes[e] # << >>
    PROVE  /\ writes[e] = <<Head(writes[e])>> /\ Head(writes[e]) \in Op
           /\ Tail(writes[e]) = << >> /\ writes[e][1] = Head(writes[e])
<1>1. writes[e] \in Seq(Op) /\ Len(writes[e]) <= 1
  BY DEF Base, WritesOK, OneWriter
<1>2. QED
  BY <1>1, OneElement

LEMMA Front ==
    ASSUME Base, NEW e \in Ends, writes[e] # << >>
    PROVE  /\ out[e] # << >> /\ Head(out[e]) \in Message
           /\ Tail(out[e]) \in Seq(Message)
<1>1. out[e] \in Seq(Message) /\ out[e] # << >>
  BY DEF Base, QueuesOK, OneWriter
<1>2. QED
  BY <1>1, HeadTail

LEMMA Posted ==
    ASSUME Base, NEW e \in Ends, posted[e] # << >>
    PROVE  /\ Head(posted[e]) \in Message \cup {Bye}
           /\ Tail(posted[e]) \in Seq(Message \cup {Bye})
<1>1. posted[e] \in Seq(Message \cup {Bye})
  BY DEF Base, QueuesOK
<1>2. QED
  BY <1>1, HeadTail

\* One end's operations, and its messages to send, are replaced.
LEMMA OneWriterKept ==
    ASSUME Base, NEW e \in Ends, NEW X \in Seq(Op), NEW Y \in Seq(Message), Len(X) <= 1,
           writes' = [writes EXCEPT ![e] = X], out' = [out EXCEPT ![e] = Y],
           \A d \in Ends : open'[d] => open[d],
           X # << >> => Y # << >>,
           open'[e] /\ Y # << >> => X # << >>
    PROVE  OneWriter' /\ WritesOK' /\ out' \in [Ends -> Seq(Message)]
BY DEF Base, WritesOK, QueuesOK, OneWriter

\* The same when no message is taken or added.
LEMMA OneWriterSame ==
    ASSUME Base, NEW e \in Ends, NEW X \in Seq(Op), Len(X) <= 1, out' = out,
           writes' = [writes EXCEPT ![e] = X],
           \A d \in Ends : open'[d] => open[d],
           X # << >> => writes[e] # << >>,
           open'[e] => (X = << >> => writes[e] = << >>)
    PROVE  OneWriter' /\ WritesOK'
BY DEF Base, WritesOK, QueuesOK, OneWriter

\* close(): nextRead and nextWrites as the caller leaves them.
LEMMA CloseIs ==
    ASSUME Base, NEW e \in Ends, NEW r \in [part : {"none", "header", "body", "ended"}, status : Status],
           NEW w \in Seq(Op), Len(w) <= 1, w # << >> => writes[e] # << >>, out' = out,
           CloseWith(e, r, w)
    PROVE  /\ OneWriter' /\ WritesOK' /\ ReadOK' /\ open' \in [Ends -> BOOLEAN]
           /\ open' = [open EXCEPT ![e] = FALSE]
           /\ read' = [read EXCEPT ![e] = Abort(r)]
           /\ Abort(r).part = r.part
           /\ writes' = [writes EXCEPT ![e] = [i \in DOMAIN w |-> Abort(w[i])]]
<1> DEFINE X == [i \in DOMAIN w |-> Abort(w[i])]
<1>1. /\ open' = [open EXCEPT ![e] = FALSE] /\ read' = [read EXCEPT ![e] = Abort(r)]
      /\ writes' = [writes EXCEPT ![e] = X]
  BY DEF CloseWith
<1>2. open' \in [Ends -> BOOLEAN] /\ (\A d \in Ends : open'[d] => open[d]) /\ ~open'[e]
  BY <1>1 DEF Base, NetOK
<1>3. /\ Abort(r) \in [part : {"none", "header", "body", "ended"}, status : Status]
      /\ Abort(r).part = r.part
  BY DEF Abort, Status
<1>4. ReadOK'
  BY <1>1, <1>3 DEF Base, ReadOK
<1>5. X \in Seq(Op) /\ Len(X) <= 1 /\ (X # << >> => w # << >>)
  BY AbortSeq
<1> HIDE DEF X
<1>6. OneWriter' /\ WritesOK'
  BY <1>1, <1>2, <1>5, OneWriterSame
<1>7. QED
  BY <1>1, <1>2, <1>3, <1>4, <1>6 DEF X

-----------------------------------------------------------------------------
(* Framing.  Expects: the part that a reader takes next, from its read and *)
(* what it has read; Emits: the part that a writer puts on the wire next,  *)
(* from its writes and what it has to send; After: the part that follows a *)
(* chunk.  A reader that failed or a writer that failed is asked nothing.  *)

Expects(r, t) ==
    IF r.status = "pending" THEN r.part
    ELSE IF r.part = "header" /\ t.header.size > 0 THEN "body" ELSE "header"
Receives(r) == r.status # "error" /\ r.part # "ended"

Emits(w, o) ==
    IF w = << >> THEN "header"
    ELSE IF Head(w).status = "pending" THEN Head(w).part
    ELSE IF Head(w).part = "header" /\ Head(o).body # NoBytes THEN "body" ELSE "header"
Sends(w, isOpen) == IF w = << >> THEN isOpen ELSE Head(w).status # "error"

After(chunk) == IF chunk.part = "header" /\ chunk.data.size = 1 THEN "body" ELSE "header"

\* The wire from the writer d to its peer: framed inside, at the reader's end,
\* at the writer's end, and when it is empty.
Inside(d) == \A i \in 1 .. Len(wire[d]) - 1 : wire[d][i + 1].part = After(wire[d][i])
AtReader(d) ==
    Receives(read[Peer(d)]) /\ wire[d] # << >>
        => Head(wire[d]).part = Expects(read[Peer(d)], tmp[Peer(d)])
AtWriter(d) ==
    Sends(writes[d], open[d]) /\ wire[d] # << >>
        => Emits(writes[d], out[d]) = After(wire[d][Len(wire[d])])
Across(d) ==
    Sends(writes[d], open[d]) /\ Receives(read[Peer(d)]) /\ wire[d] = << >>
        => Emits(writes[d], out[d]) = Expects(read[Peer(d)], tmp[Peer(d)])

Stream(d) == Inside(d) /\ AtReader(d) /\ AtWriter(d) /\ Across(d)

\* An operation under way or failed is one of the two reads, and neither end
\* reads before the connection is established.
ReadShape == \A d \in Ends : read[d].status # "ok" => read[d].part \in {"header", "body"}
Quiet == link = "connecting" => \A d \in Ends : read[d] = Idle

ConnInv == Base /\ TmpOK /\ ReadShape /\ Quiet /\ \A d \in Ends : Stream(d)

WriterKept(d) ==
    Sends(writes[d], open[d])' =>
        Sends(writes[d], open[d]) /\ Emits(writes[d], out[d])' = Emits(writes[d], out[d])
ReaderKept(d) ==
    Receives(read[d])' =>
        Receives(read[d]) /\ Expects(read[d], tmp[d])' = Expects(read[d], tmp[d])

LEMMA InvGives == ConnInv => TypeOK /\ OneWriter /\ Framed
<1> SUFFICES ASSUME ConnInv PROVE TypeOK /\ OneWriter /\ Framed
  OBVIOUS
<1>1. TypeOK /\ OneWriter
  BY TypeParts DEF ConnInv, Base
<1>2. Framed
  <2> SUFFICES ASSUME NEW e \in Ends, read[e].status = "pending", wire[Peer(e)] # << >>
               PROVE  Head(wire[Peer(e)]).part = read[e].part
    BY DEF Framed
  <2>1. Peer(e) \in Ends /\ Peer(Peer(e)) = e
    BY PeerFacts
  <2>2. Receives(read[e]) /\ Expects(read[e], tmp[e]) = read[e].part
    BY DEF ConnInv, ReadShape, Receives, Expects
  <2>3. AtReader(Peer(e))
    BY <2>1 DEF ConnInv, Stream
  <2>4. QED
    BY <2>1, <2>2, <2>3 DEF AtReader
<1>3. QED
  BY <1>1, <1>2

\* A step that puts nothing on a wire and takes nothing from it.
LEMMA StreamKept ==
    ASSUME NEW d \in Ends, Stream(d), wire'[d] = wire[d], WriterKept(d), ReaderKept(Peer(d))
    PROVE  Stream(d)'
<1>1. Inside(d)'
  BY DEF Stream, Inside, After
<1>2. AtReader(d)'
  BY DEF Stream, AtReader, ReaderKept
<1>3. AtWriter(d)'
  BY DEF Stream, AtWriter, WriterKept, After
<1>4. Across(d)'
  BY DEF Stream, Across, WriterKept, ReaderKept
<1>5. QED
  BY <1>1, <1>2, <1>3, <1>4 DEF Stream

\* The read of one end is replaced.
LEMMA ReadSet ==
    ASSUME Base, ReadShape, NEW e \in Ends, tmp' = tmp,
           NEW r \in [part : {"none", "header", "body", "ended"}, status : Status],
           read' = [read EXCEPT ![e] = r],
           r.status # "ok" => r.part \in {"header", "body"},
           Receives(r) => Receives(read[e]) /\ Expects(r, tmp[e]) = Expects(read[e], tmp[e])
    PROVE  ReadOK' /\ ReadShape' /\ \A d \in Ends : ReaderKept(d)
<1>1. ReadOK' /\ \A d \in Ends : read'[d] = IF d = e THEN r ELSE read[d]
  BY DEF Base, ReadOK
<1>2. ReadShape'
  BY <1>1 DEF ReadShape
<1>3. ASSUME NEW d \in Ends PROVE ReaderKept(d)
  <2>1. CASE d = e
    BY <1>1, <2>1 DEF ReaderKept
  <2>2. CASE d # e
    BY <1>1, <2>2 DEF ReaderKept
  <2>3. QED
    BY <2>1, <2>2
<1>4. QED
  BY <1>1, <1>2, <1>3

LEMMA ReadSame ==
    ASSUME UNCHANGED <<read, tmp>>, ReadOK, ReadShape
    PROVE  ReadOK' /\ ReadShape' /\ \A d \in Ends : ReaderKept(d)
BY DEF ReadOK, ReadShape, ReaderKept

\* The writes, and the messages to send, of one end are replaced.
LEMMA WritesSet ==
    ASSUME Base, NEW e \in Ends, NEW X \in Seq(Op), NEW Y \in Seq(Message), open' = open,
           writes' = [writes EXCEPT ![e] = X], out' = [out EXCEPT ![e] = Y],
           Sends(X, open[e]) => Sends(writes[e], open[e]) /\ Emits(X, Y) = Emits(writes[e], out[e])
    PROVE  \A d \in Ends : WriterKept(d)
<1>1. \A d \in Ends : writes'[d] = (IF d = e THEN X ELSE writes[d])
                      /\ out'[d] = IF d = e THEN Y ELSE out[d]
  BY DEF Base, WritesOK, QueuesOK
<1>2. ASSUME NEW d \in Ends PROVE WriterKept(d)
  <2>1. CASE d = e
    BY <1>1, <2>1 DEF WriterKept
  <2>2. CASE d # e
    BY <1>1, <2>2 DEF WriterKept
  <2>3. QED
    BY <2>1, <2>2
<1>3. QED
  BY <1>2

\* An end closes, and nothing else happens to its writes.
LEMMA WritesSame ==
    ASSUME UNCHANGED <<writes, out>>, \A d \in Ends : open'[d] => open[d]
    PROVE  \A d \in Ends : WriterKept(d)
BY DEF WriterKept, Sends

-----------------------------------------------------------------------------
(* The steps.  A quiet step leaves the wire alone and keeps both halves of *)
(* every stream.                                                           *)

Kept ==
    /\ Base' /\ TmpOK' /\ ReadShape' /\ Quiet' /\ wire' = wire
    /\ \A d \in Ends : WriterKept(d) /\ ReaderKept(d)

LEMMA KeptIsEnough == ASSUME ConnInv, Kept PROVE ConnInv'
<1>1. ASSUME NEW d \in Ends PROVE Stream(d)'
  <2>1. Peer(d) \in Ends
    BY PeerFacts
  <2>2. QED
    BY <2>1, StreamKept DEF ConnInv, Kept
<1>2. QED
  BY <1>1 DEF ConnInv, Kept

\* Steps of the network or the application, and an exception.
LEMMA OutsideKept ==
    ASSUME ConnInv, UNCHANGED <<out, writes, wire, read, tmp, incoming>>, NetOK',
           posted' \in [Ends -> Seq(Message \cup {Bye})], sent' \in [Ends -> Seq(Message)],
           \A d \in Ends : open'[d] => open[d],
           link' = "connecting" => link = "connecting"
    PROVE  Kept
<1> USE DEF ConnInv
<1>1. QueuesOK' /\ WritesOK' /\ WireOK' /\ TmpOK'
  BY DEF Base, QueuesOK, WritesOK, WireOK, TmpOK
<1>2. OneWriter'
  BY DEF Base, OneWriter
<1>3. ReadOK' /\ ReadShape' /\ \A d \in Ends : ReaderKept(d)
  BY ReadSame DEF Base
<1>4. \A d \in Ends : WriterKept(d)
  BY WritesSame
<1>5. Quiet'
  BY DEF Quiet
<1>6. QED
  BY <1>1, <1>2, <1>3, <1>4, <1>5 DEF Kept, Base

LEMMA NetworkKept == ConnInv /\ (Refused \/ LinkFails \/ AcceptThrows) => Kept
<1> SUFFICES ASSUME ConnInv, Refused \/ LinkFails \/ AcceptThrows PROVE Kept
  OBVIOUS
<1>1. NetOK /\ QueuesOK
  BY DEF ConnInv, Base
<1>2. NetOK' /\ \A d \in Ends : open'[d] => open[d]
  BY <1>1 DEF Refused, LinkFails, AcceptThrows, Die, NetOK
<1>3. /\ UNCHANGED <<out, writes, wire, read, tmp, incoming, posted, sent>>
      /\ link' = "connecting" => link = "connecting"
  BY DEF Refused, LinkFails, AcceptThrows, Die
<1>4. QED
  BY <1>1, <1>2, <1>3, OutsideKept DEF QueuesOK

LEMMA AppKept == \A e \in Ends : ConnInv /\ App(e) => Kept
<1> SUFFICES ASSUME NEW e \in Ends, ConnInv, App(e) PROVE Kept
  OBVIOUS
<1>1. NetOK /\ posted[e] \in Seq(Message \cup {Bye}) /\ sent[e] \in Seq(Message)
      /\ posted \in [Ends -> Seq(Message \cup {Bye})] /\ sent \in [Ends -> Seq(Message)]
  BY DEF ConnInv, Base, QueuesOK
<1>2. /\ UNCHANGED <<link, open, out, writes, wire, read, tmp, incoming, dead>>
      /\ \E m \in Message \cup {Bye} : posted' = [posted EXCEPT ![e] = Append(@, m)]
      /\ sent' = sent \/ \E m \in Message : sent' = [sent EXCEPT ![e] = Append(@, m)]
  BY DEF App, Send, Disconnect
<1>3. posted' \in [Ends -> Seq(Message \cup {Bye})]
  <2>1. PICK m \in Message \cup {Bye} : posted' = [posted EXCEPT ![e] = Append(@, m)]
    BY <1>2
  <2>2. Append(posted[e], m) \in Seq(Message \cup {Bye})
    BY <1>1
  <2>3. QED
    BY <1>1, <2>1, <2>2
<1>4. sent' \in [Ends -> Seq(Message)]
  <2>1. CASE sent' = sent
    BY <1>1, <2>1
  <2>2. ASSUME NEW m \in Message, sent' = [sent EXCEPT ![e] = Append(@, m)]
        PROVE  sent' \in [Ends -> Seq(Message)]
    <3>1. Append(sent[e], m) \in Seq(Message)
      BY <1>1
    <3>2. QED
      BY <1>1, <2>2, <3>1
  <2>3. QED
    BY <1>2, <2>1, <2>2
<1>5. NetOK'
  BY <1>1, <1>2 DEF NetOK
<1>6. QED
  BY <1>2, <1>3, <1>4, <1>5, OutsideKept

\* Steps that only replace one end's read.
LEMMA ReadKept ==
    ASSUME ConnInv, NEW e \in Ends, NetOK',
           UNCHANGED <<open, posted, out, writes, wire, tmp, sent>>,
           incoming' \in [Ends -> Seq(Delivered)], Quiet',
           NEW r \in [part : {"none", "header", "body", "ended"}, status : Status],
           read' = [read EXCEPT ![e] = r],
           r.status # "ok" => r.part \in {"header", "body"},
           Receives(r) => Receives(read[e]) /\ Expects(r, tmp[e]) = Expects(read[e], tmp[e])
    PROVE  Kept
<1> USE DEF ConnInv
<1>1. QueuesOK' /\ WritesOK' /\ WireOK' /\ TmpOK'
  BY DEF Base, QueuesOK, WritesOK, WireOK, TmpOK
<1>2. OneWriter'
  BY DEF Base, OneWriter
<1>3. ReadOK' /\ ReadShape' /\ \A d \in Ends : ReaderKept(d)
  BY ReadSet
<1>4. \A d \in Ends : WriterKept(d)
  BY WritesSame
<1>5. QED
  BY <1>1, <1>2, <1>3, <1>4 DEF Kept, Base

LEMMA IssueRead == \A e \in Ends, part \in {"header", "body"} :
    /\ Issue(e, part) \in [part : {"none", "header", "body", "ended"}, status : Status]
    /\ Issue(e, part).part = part /\ Issue(e, part).status # "ok"
    /\ Receives(Issue(e, part)) => \A t : Expects(Issue(e, part), t) = part
BY DEF Issue, Status, Receives, Expects

LEMMA IdleExpects == Receives(Idle) /\ \A t : Expects(Idle, t) = "header"
BY DEF Idle, Receives, Expects

LEMMA StartKept == ConnInv /\ (Established \/ Accept) => Kept
<1>1. ASSUME ConnInv, Established PROVE Kept
  <2>1. Client \in Ends /\ read[Client] = Idle /\ NetOK /\ TmpOK
    BY <1>1 DEF Ends, Established, ConnInv, Quiet, Base
  <2>2. /\ link' = "up" /\ read' = [read EXCEPT ![Client] = Issue(Client, "header")]
        /\ UNCHANGED <<open, posted, out, writes, wire, tmp, incoming, sent, dead>>
    BY <1>1 DEF Established
  <2>3. NetOK' /\ Quiet' /\ incoming' \in [Ends -> Seq(Delivered)]
    BY <2>1, <2>2 DEF NetOK, Quiet, TmpOK
  <2>4. QED
    BY <1>1, <2>1, <2>2, <2>3, IssueRead, IdleExpects, ReadKept
<1>2. ASSUME ConnInv, Accept PROVE Kept
  <2>1. Server \in Ends /\ read[Server] = Idle /\ NetOK /\ TmpOK
    BY <1>2 DEF Ends, Accept, ConnInv, Base
  <2>2. /\ link' = link /\ link # "connecting"
        /\ read' = [read EXCEPT ![Server] = Issue(Server, "header")]
        /\ UNCHANGED <<open, posted, out, writes, wire, tmp, incoming, sent, dead>>
    BY <1>2 DEF Accept
  <2>3. NetOK' /\ Quiet' /\ incoming' \in [Ends -> Seq(Delivered)]
    BY <2>1, <2>2 DEF NetOK, Quiet, TmpOK
  <2>4. QED
    BY <1>2, <2>1, <2>2, <2>3, IssueRead, IdleExpects, ReadKept
<1>3. QED
  BY <1>1, <1>2

\* Nobody reads while the connection is being established.
LEMMA BusyIsConnected ==
    ASSUME ConnInv, NEW e \in Ends, read[e] # Idle, link' = link
    PROVE  Quiet'
BY DEF ConnInv, Quiet

\* The end of the stream, or a reset, seen by a read.
LEMMA ReadErrorKept == \A e \in Ends : ConnInv /\ (EndOfFile(e) \/ ReadReset(e)) => Kept
<1> SUFFICES ASSUME NEW e \in Ends, ConnInv, EndOfFile(e) \/ ReadReset(e) PROVE Kept
  OBVIOUS
<1> DEFINE r == [read[e] EXCEPT !.status = "error"]
<1>1. /\ read[e].status = "pending" /\ read' = [read EXCEPT ![e] = r]
      /\ UNCHANGED <<link, open, posted, out, writes, wire, tmp, incoming, sent, dead>>
  BY DEF EndOfFile, ReadReset
<1>2. read[e] \in [part : {"none", "header", "body", "ended"}, status : Status]
      /\ read[e].part \in {"header", "body"} /\ NetOK /\ TmpOK
      /\ \A d \in Ends : d # e => read'[d] = read[d]
  BY <1>1 DEF ConnInv, Base, ReadOK, ReadShape
<1>3. r \in [part : {"none", "header", "body", "ended"}, status : Status]
      /\ r.status = "error" /\ r.part = read[e].part
  BY <1>2 DEF Status
<1>4. NetOK' /\ incoming' \in [Ends -> Seq(Delivered)]
  BY <1>1, <1>2 DEF NetOK, TmpOK
<1>5. Quiet'
  BY <1>1, <1>2, BusyIsConnected DEF Idle
<1> HIDE DEF r
<1>6. ~Receives(r)
  BY <1>3 DEF Receives
<1>7. QED
  BY <1>1, <1>2, <1>3, <1>4, <1>5, <1>6, ReadKept

LEMMA ReadDoneKept == \A e \in Ends : ConnInv /\ (HeaderRead(e) \/ MessageRead(e)) => Kept
<1> SUFFICES ASSUME NEW e \in Ends, ConnInv, HeaderRead(e) \/ MessageRead(e) PROVE Kept
  OBVIOUS
<1>1. /\ tmp \in [Ends -> Delivered] /\ incoming \in [Ends -> Seq(Delivered)] /\ NetOK
      /\ read \in [Ends -> [part : {"none", "header", "body", "ended"}, status : Status]]
  BY DEF ConnInv, Base, TmpOK, ReadOK
<1>2. tmp[e] \in Delivered /\ tmp[e].header.size \in {0, 1}
  BY <1>1 DEF Delivered, Header
<1>3. read[e].status = "ok" /\ read[e].part \in {"header", "body"}
      /\ UNCHANGED <<link, open, posted, out, writes, wire, tmp, sent, dead>>
  BY DEF HeaderRead, MessageRead, Reading
<1>4. PICK part \in {"header", "body"} :
        /\ read' = [read EXCEPT ![e] = Issue(e, part)]
        /\ Expects(read[e], tmp[e]) = part
  <2>1. CASE HeaderRead(e)
    BY <2>1, <1>2 DEF HeaderRead, Reading, Expects
  <2>2. CASE MessageRead(e)
    BY <2>2, <1>2 DEF MessageRead, Reading, Expects
  <2>3. QED
    BY <2>1, <2>2
<1>5. incoming' \in [Ends -> Seq(Delivered)]
  <2>1. CASE HeaderRead(e)
    BY <1>1, <2>1 DEF HeaderRead
  <2>2. CASE MessageRead(e)
    <3>1. Append(incoming[e], tmp[e]) \in Seq(Delivered)
      BY <1>1, <1>2
    <3>2. QED
      BY <1>1, <2>2, <3>1 DEF MessageRead
  <2>3. QED
    BY <2>1, <2>2
<1>6. NetOK'
  BY <1>1, <1>3 DEF NetOK
<1>7. Quiet'
  <2>1. \A d \in Ends : d # e => read'[d] = read[d]
    BY <1>1, <1>4
  <2>2. read[e] # Idle
    BY <1>3 DEF Idle
  <2>3. QED
    BY <1>3, <2>1, <2>2, BusyIsConnected
<1>8. Receives(read[e])
  BY <1>3 DEF Receives
<1>9. QED
  BY <1>3, <1>4, <1>5, <1>6, <1>7, <1>8, IssueRead, ReadKept

-----------------------------------------------------------------------------
(* Closing.                                                                *)

LEMMA EmptyWrites == << >> \in Seq(Op) /\ Len(<< >>) = 0 /\ ~Sends(<< >>, FALSE)
BY DEF Sends

\* A writer whose socket is closed sends what has been completed, no more.
LEMMA CloseWrites ==
    ASSUME Base, NEW e \in Ends, NEW w \in Seq(Op), w = writes[e] \/ w = << >>,
           open' = [open EXCEPT ![e] = FALSE], out' = out,
           writes' = [writes EXCEPT ![e] = [i \in DOMAIN w |-> Abort(w[i])]]
    PROVE  \A d \in Ends : WriterKept(d)
<1> DEFINE X == [i \in DOMAIN w |-> Abort(w[i])]
<1>1. \A d \in Ends : /\ writes'[d] = IF d = e THEN X ELSE writes[d]
                      /\ open'[d] = IF d = e THEN FALSE ELSE open[d]
  BY DEF Base, WritesOK, NetOK
<1>2. X \in Seq(Op) /\ Len(X) = Len(w) /\ Len(w) \in Nat
  BY AbortSeq
<1>3. ASSUME Sends(X, FALSE)
      PROVE  Sends(writes[e], open[e]) /\ Emits(X, out[e]) = Emits(writes[e], out[e])
  <2>1. X # << >>
    BY <1>3 DEF Sends
  <2>2. w # << >>
    BY <1>2, <2>1
  <2>3. w = writes[e] /\ Head(w) \in Op /\ w[1] = Head(w) /\ 1 \in DOMAIN w
    BY <2>2, HeadTail
  <2>4. Head(X) = Abort(Head(w))
    <3>1. X[1] = Abort(w[1])
      BY <2>3
    <3>2. Head(X) = X[1]
      BY <1>2, <2>1, HeadTail
    <3>3. QED
      BY <2>3, <3>1, <3>2
  <2> HIDE DEF X
  <2>5. Abort(Head(w)).status # "error"
    BY <1>3, <2>1, <2>4 DEF Sends
  <2>6. Abort(Head(w)) = Head(w)
    BY <2>3, <2>5, AbortIs
  <2>7. QED
    BY <2>1, <2>2, <2>3, <2>4, <2>5, <2>6 DEF Sends, Emits
<1> HIDE DEF X
<1>4. ASSUME NEW d \in Ends PROVE WriterKept(d)
  <2>1. CASE d = e
    BY <1>1, <1>3, <2>1 DEF WriterKept
  <2>2. CASE d # e
    BY <1>1, <2>2 DEF WriterKept
  <2>3. QED
    BY <2>1, <2>2
<1>5. QED
  BY <1>4

LEMMA CloseKept ==
    ASSUME ConnInv, NEW e \in Ends,
           NEW r \in [part : {"none", "header", "body", "ended"}, status : Status],
           r = read[e] \/ r = [part |-> "ended", status |-> "ok"],
           NEW w \in Seq(Op), w = writes[e] \/ w = << >>,
           CloseWith(e, r, w), posted' \in [Ends -> Seq(Message \cup {Bye})],
           link' \in {"connecting", "refused", "up", "down"},
           link' = "connecting" => link = "connecting" /\ r = read[e],
           UNCHANGED <<out, wire, tmp, incoming, sent, dead>>
    PROVE  Kept
<1> USE DEF ConnInv
<1>1. Len(w) <= 1 /\ (w # << >> => writes[e] # << >>)
  <2>1. Len(writes[e]) <= 1 /\ Len(<< >>) = 0
    BY DEF Base, OneWriter
  <2>2. CASE w = writes[e]
    BY <2>1, <2>2
  <2>3. CASE w = << >>
    BY <2>1, <2>3
  <2>4. QED
    BY <2>2, <2>3
<1>2. /\ OneWriter' /\ WritesOK' /\ ReadOK' /\ open' \in [Ends -> BOOLEAN]
      /\ open' = [open EXCEPT ![e] = FALSE] /\ read' = [read EXCEPT ![e] = Abort(r)]
      /\ Abort(r).part = r.part
      /\ writes' = [writes EXCEPT ![e] = [i \in DOMAIN w |-> Abort(w[i])]]
  BY <1>1, CloseIs
<1>3. NetOK' /\ QueuesOK' /\ WireOK' /\ TmpOK'
  BY <1>2 DEF Base, NetOK, QueuesOK, WireOK, TmpOK
<1>4. \A d \in Ends : WriterKept(d)
  BY <1>2, CloseWrites
<1>5. ReadShape' /\ \A d \in Ends : ReaderKept(d)
  <2>1. read[e] \in [part : {"none", "header", "body", "ended"}, status : Status]
        /\ (read[e].status # "ok" => read[e].part \in {"header", "body"})
    BY DEF Base, ReadOK, ReadShape
  <2>2. /\ Abort(r) \in [part : {"none", "header", "body", "ended"}, status : Status]
        /\ Abort(r).status # "ok" => Abort(r).part \in {"header", "body"}
        /\ Receives(Abort(r)) => Abort(r) = r /\ r = read[e]
    BY <2>1 DEF Abort, Status, Receives
  <2>3. QED
    BY <1>2, <2>2, ReadSet
<1>6. Quiet'
  <2> SUFFICES ASSUME link' = "connecting", NEW d \in Ends PROVE read'[d] = Idle
    BY DEF Quiet
  <2>1. read[d] = Idle /\ (e = d => r = Idle)
    BY DEF Quiet
  <2>2. Abort(Idle) = Idle
    BY DEF Abort, Idle
  <2>3. read'[d] = IF d = e THEN Abort(r) ELSE read[d]
    BY <1>2 DEF Base, ReadOK
  <2>4. QED
    BY <2>1, <2>2, <2>3
<1>7. QED
  BY <1>2, <1>3, <1>4, <1>5, <1>6 DEF Kept, Base

LEMMA FailedKept == \A e \in Ends : ConnInv /\ (ReadFailed(e) \/ WriteFailed(e)) => Kept
<1> SUFFICES ASSUME NEW e \in Ends, ConnInv, ReadFailed(e) \/ WriteFailed(e) PROVE Kept
  OBVIOUS
<1>1. Base /\ read[e] \in [part : {"none", "header", "body", "ended"}, status : Status]
      /\ writes[e] \in Seq(Op) /\ link \in {"connecting", "refused", "up", "down"}
      /\ posted \in [Ends -> Seq(Message \cup {Bye})]
  BY DEF ConnInv, Base, ReadOK, WritesOK, NetOK, QueuesOK
<1>2. CASE ReadFailed(e)
  <2> DEFINE r == [part |-> "ended", status |-> "ok"]
  <2>1. r \in [part : {"none", "header", "body", "ended"}, status : Status]
    BY DEF Status
  <2>2. CloseWith(e, r, writes[e]) /\ UNCHANGED <<link, posted, out, wire, tmp, incoming, sent, dead>>
        /\ read[e].status = "error"
    BY <1>2 DEF ReadFailed
  <2>3. link # "connecting"
    BY <2>2 DEF ConnInv, Quiet, Idle
  <2>4. QED
    BY <1>1, <2>1, <2>2, <2>3, CloseKept
<1>3. CASE WriteFailed(e)
  <2>1. Tail(writes[e]) = << >>
    BY <1>1, <1>3, OneOp DEF WriteFailed
  <2>2. CloseWith(e, read[e], << >>) /\ UNCHANGED <<link, posted, out, wire, tmp, incoming, sent, dead>>
    BY <1>3, <2>1 DEF WriteFailed
  <2>3. << >> \in Seq(Op)
    BY EmptyWrites
  <2>4. QED
    BY <1>1, <2>2, <2>3, CloseKept
<1>4. QED
  BY <1>2, <1>3

LEMMA DisconnectKept == \A e \in Ends : ConnInv /\ RunDisconnect(e) => Kept
<1> SUFFICES ASSUME NEW e \in Ends, ConnInv, RunDisconnect(e) PROVE Kept
  OBVIOUS
<1>1. Base /\ read[e] \in [part : {"none", "header", "body", "ended"}, status : Status]
      /\ writes[e] \in Seq(Op) /\ NetOK /\ QueuesOK
  BY DEF ConnInv, Base, ReadOK, WritesOK
<1>2. posted' \in [Ends -> Seq(Message \cup {Bye})]
  <2>1. posted[e] # << >> /\ posted' = [posted EXCEPT ![e] = Tail(@)]
    BY DEF RunDisconnect
  <2>2. Tail(posted[e]) \in Seq(Message \cup {Bye})
    BY <1>1, <2>1, Posted
  <2>3. QED
    BY <1>1, <2>1, <2>2 DEF QueuesOK
<1>3. CASE /\ CloseWith(e, read[e], writes[e])
           /\ link' = IF link = "connecting" THEN "refused" ELSE link
           /\ UNCHANGED <<out, wire, tmp, incoming, sent, dead>>
  <2>1. link' \in {"connecting", "refused", "up", "down"} /\ link' # "connecting"
    BY <1>1, <1>3 DEF NetOK
  <2>2. QED
    BY <1>1, <1>2, <1>3, <2>1, CloseKept
<1>4. CASE Die(e)
  <2>1. NetOK' /\ \A d \in Ends : open'[d] => open[d]
    BY <1>1, <1>4 DEF Die, NetOK
  <2>2. QED
    BY <1>1, <1>2, <1>4, <2>1, OutsideKept DEF Die, QueuesOK
<1>5. QED
  BY <1>3, <1>4 DEF RunDisconnect

-----------------------------------------------------------------------------
(* Writing.                                                                *)

LEMMA WriterKeptStep ==
    ASSUME ConnInv, NEW e \in Ends, NEW X \in Seq(Op), NEW Y \in Seq(Message), Len(X) <= 1,
           posted' \in [Ends -> Seq(Message \cup {Bye})],
           UNCHANGED <<link, open, wire, read, tmp, incoming, sent, dead>>,
           writes' = [writes EXCEPT ![e] = X], out' = [out EXCEPT ![e] = Y],
           X # << >> => Y # << >>,
           open[e] /\ Y # << >> => X # << >>,
           Sends(X, open[e]) => Sends(writes[e], open[e]) /\ Emits(X, Y) = Emits(writes[e], out[e])
    PROVE  Kept
<1> USE DEF ConnInv
<1>1. NetOK' /\ WireOK' /\ TmpOK' /\ Quiet' /\ sent' \in [Ends -> Seq(Message)]
  BY DEF Base, NetOK, QueuesOK, WireOK, TmpOK, Quiet
<1>2. OneWriter' /\ WritesOK' /\ out' \in [Ends -> Seq(Message)]
  BY OneWriterKept
<1>3. ReadOK' /\ ReadShape' /\ \A d \in Ends : ReaderKept(d)
  BY ReadSame DEF Base
<1>4. \A d \in Ends : WriterKept(d)
  BY WritesSet
<1>5. QED
  BY <1>1, <1>2, <1>3, <1>4 DEF Kept, Base, QueuesOK

\* A sequence of one operation.
LEMMA Single == \A op \in Op :
    <<op>> \in Seq(Op) /\ Len(<<op>>) <= 1 /\ <<op>> # << >> /\ Head(<<op>>) = op
    /\ Append(<< >>, op) = <<op>>
OBVIOUS

\* A new message goes behind those that wait.
LEMMA Queued ==
    ASSUME NEW S, NEW s \in Seq(S), NEW m \in S
    PROVE  Append(s, m) \in Seq(S) /\ Append(s, m) # << >>
           /\ (s # << >> => Head(Append(s, m)) = Head(s))
OBVIOUS

\* More than one message waits exactly when one is left behind the front.
LEMMA Behind ==
    ASSUME NEW S, NEW s \in Seq(S), s # << >>
    PROVE  Len(s) > 1 <=> Tail(s) # << >>
<1>1. Len(s) \in Nat /\ Len(s) # 0 /\ Tail(s) \in Seq(S) /\ Len(Tail(s)) = Len(s) - 1
  OBVIOUS
<1>2. \A t \in Seq(S) : t = << >> <=> Len(t) = 0
  OBVIOUS
<1>3. Tail(s) = << >> <=> Len(Tail(s)) = 0
  BY <1>1, <1>2
<1>4. \A n \in Nat : n # 0 => (n > 1 <=> n - 1 # 0)
  OBVIOUS
<1>5. Len(s) > 1 <=> Len(Tail(s)) # 0
  BY <1>1, <1>4
<1>6. QED
  BY <1>3, <1>5

LEMMA RunSendKept == \A e \in Ends : ConnInv /\ RunSend(e) => Kept
<1> SUFFICES ASSUME NEW e \in Ends, ConnInv, RunSend(e) PROVE Kept
  OBVIOUS
<1> DEFINE m == Head(posted[e])
           X == IF out[e] = << >> THEN <<Issue(e, "header")>> ELSE writes[e]
           Y == Append(out[e], m)
<1>1. /\ Base /\ posted \in [Ends -> Seq(Message \cup {Bye})] /\ out[e] \in Seq(Message)
      /\ writes[e] \in Seq(Op) /\ Len(writes[e]) <= 1
      /\ out[e] = << >> => writes[e] = << >>
      /\ open[e] /\ out[e] # << >> => writes[e] # << >>
  BY DEF ConnInv, Base, QueuesOK, WritesOK, OneWriter
<1>2. m \in Message /\ posted' \in [Ends -> Seq(Message \cup {Bye})]
  <2>1. posted[e] # << >> /\ m # Bye /\ posted' = [posted EXCEPT ![e] = Tail(@)]
    BY DEF RunSend
  <2>2. m \in Message \cup {Bye} /\ Tail(posted[e]) \in Seq(Message \cup {Bye})
    BY <1>1, <2>1, Posted
  <2>3. QED
    BY <1>1, <2>1, <2>2
<1>3. Issue(e, "header") \in Op /\ Issue(e, "header").part = "header"
      /\ Issue(e, "header").status = IF open[e] THEN "pending" ELSE "error"
  BY IssueIn
<1>4. writes' = [writes EXCEPT ![e] = X] /\ out' = [out EXCEPT ![e] = Y]
  <2>1. Append(<< >>, Issue(e, "header")) = <<Issue(e, "header")>>
    BY <1>3, Single
  <2>2. QED
    BY <1>1, <2>1 DEF RunSend
<1>5. Y \in Seq(Message) /\ Y # << >> /\ (out[e] # << >> => Head(Y) = Head(out[e]))
  BY <1>1, <1>2, Queued
<1>6. X \in Seq(Op) /\ Len(X) <= 1 /\ (open[e] => X # << >>)
  BY <1>1, <1>3, Single
<1>7. ASSUME Sends(X, open[e])
      PROVE  Sends(writes[e], open[e]) /\ Emits(X, Y) = Emits(writes[e], out[e])
  <2>1. CASE out[e] = << >>
    <3>1. X # << >> /\ Head(X) = Issue(e, "header")
      BY <1>3, <2>1, Single
    <3> HIDE DEF X, Y
    <3>2. QED
      BY <1>1, <1>3, <1>7, <2>1, <3>1 DEF Sends, Emits
  <2>2. CASE out[e] # << >>
    <3>1. X = writes[e] /\ Head(Y) = Head(out[e])
      BY <1>5, <2>2
    <3> HIDE DEF X, Y
    <3>2. QED
      BY <1>7, <3>1 DEF Emits
  <2>3. QED
    BY <2>1, <2>2
<1>8. UNCHANGED <<link, open, wire, read, tmp, incoming, sent, dead>>
  BY DEF RunSend
<1> HIDE DEF X, Y
<1>9. QED
  BY <1>2, <1>4, <1>5, <1>6, <1>7, <1>8, WriterKeptStep

LEMMA HeaderWrittenKept == \A e \in Ends : ConnInv /\ HeaderWritten(e) => Kept
<1> SUFFICES ASSUME NEW e \in Ends, ConnInv, HeaderWritten(e) PROVE Kept
  OBVIOUS
<1> DEFINE X == <<Issue(e, "body")>>
<1>1. Base /\ out \in [Ends -> Seq(Message)] /\ posted \in [Ends -> Seq(Message \cup {Bye})]
  BY DEF ConnInv, Base, QueuesOK
<1>2. /\ writes[e] # << >> /\ Head(out[e]).body # NoBytes
      /\ Head(writes[e]).part = "header" /\ Head(writes[e]).status = "ok"
      /\ writes' = [writes EXCEPT ![e] = Append(Tail(@), Issue(e, "body"))]
      /\ UNCHANGED <<link, open, posted, out, wire, read, tmp, incoming, sent, dead>>
  BY DEF HeaderWritten
<1>3. Issue(e, "body") \in Op /\ Issue(e, "body").part = "body"
      /\ Issue(e, "body").status = IF open[e] THEN "pending" ELSE "error"
  BY IssueIn
<1>4. writes' = [writes EXCEPT ![e] = X]
  BY <1>1, <1>2, <1>3, OneOp, Single
<1>5. X \in Seq(Op) /\ Len(X) <= 1 /\ X # << >> /\ Head(X) = Issue(e, "body")
  BY <1>3, Single
<1>6. out[e] \in Seq(Message) /\ out[e] # << >> /\ out' = [out EXCEPT ![e] = out[e]]
  BY <1>1, <1>2, Front
<1> HIDE DEF X
<1>7. Sends(X, open[e]) => Sends(writes[e], open[e]) /\ Emits(X, out[e]) = Emits(writes[e], out[e])
  BY <1>2, <1>3, <1>5 DEF Sends, Emits
<1>8. QED
  BY <1>1, <1>2, <1>4, <1>5, <1>6, <1>7, WriterKeptStep

LEMMA MessageWrittenKept == \A e \in Ends : ConnInv /\ MessageWritten(e) => Kept
<1> SUFFICES ASSUME NEW e \in Ends, ConnInv, MessageWritten(e) PROVE Kept
  OBVIOUS
<1> DEFINE X == IF Len(out[e]) > 1 THEN <<Issue(e, "header")>> ELSE << >>
           Y == Tail(out[e])
<1>1. Base /\ out \in [Ends -> Seq(Message)] /\ posted \in [Ends -> Seq(Message \cup {Bye})]
  BY DEF ConnInv, Base, QueuesOK
<1>2. /\ writes[e] # << >> /\ Head(writes[e]).status = "ok"
      /\ Head(writes[e]).part = "header" => Head(out[e]).body = NoBytes
      /\ out' = [out EXCEPT ![e] = Y]
      /\ writes' = [writes EXCEPT ![e] =
            IF Len(out[e]) > 1 THEN Append(Tail(@), Issue(e, "header")) ELSE Tail(@)]
      /\ UNCHANGED <<link, open, posted, wire, read, tmp, incoming, sent, dead>>
  BY DEF MessageWritten
<1>3. Issue(e, "header") \in Op /\ Issue(e, "header").part = "header"
      /\ Issue(e, "header").status = IF open[e] THEN "pending" ELSE "error"
  BY IssueIn
<1>4. Tail(writes[e]) = << >> /\ Append(<< >>, Issue(e, "header")) = <<Issue(e, "header")>>
  BY <1>1, <1>2, <1>3, OneOp, Single
<1>5. writes' = [writes EXCEPT ![e] = X]
  BY <1>2, <1>4
<1>6. Y \in Seq(Message) /\ (Len(out[e]) > 1 <=> Y # << >>)
  BY <1>1, <1>2, Front, Behind
<1>7. X \in Seq(Op) /\ Len(X) <= 1 /\ (X # << >> <=> Len(out[e]) > 1)
      /\ (X # << >> => Head(X) = Issue(e, "header"))
  BY <1>3, EmptyWrites, Single
<1> HIDE DEF X, Y
<1>8. Sends(X, open[e]) => Sends(writes[e], open[e]) /\ Emits(X, Y) = Emits(writes[e], out[e])
  BY <1>2, <1>3, <1>7 DEF Sends, Emits
<1>9. QED
  BY <1>1, <1>2, <1>5, <1>6, <1>7, <1>8, WriterKeptStep

\* The status of the one write is replaced.
LEMMA StatusSet ==
    ASSUME Base, NEW e \in Ends, writes[e] # << >>, NEW s \in Status,
           writes' = [writes EXCEPT ![e][1].status = s]
    PROVE  writes' = [writes EXCEPT ![e] = <<[Head(writes[e]) EXCEPT !.status = s]>>]
<1> DEFINE op == Head(writes[e])
<1>1. writes[e] = <<op>> /\ op \in Op /\ writes[e][1] = op
  BY OneOp
<1>2. writes' = [writes EXCEPT ![e] = [writes[e] EXCEPT ![1] = [writes[e][1] EXCEPT !.status = s]]]
  OBVIOUS
<1>3. [<<op>> EXCEPT ![1] = [op EXCEPT !.status = s]] = <<[op EXCEPT !.status = s]>>
  OBVIOUS
<1>4. QED
  BY <1>1, <1>2, <1>3

LEMMA WriteResetKept == \A e \in Ends : ConnInv /\ WriteReset(e) => Kept
<1> SUFFICES ASSUME NEW e \in Ends, ConnInv, WriteReset(e) PROVE Kept
  OBVIOUS
<1> DEFINE op == [Head(writes[e]) EXCEPT !.status = "error"]
<1>1. Base /\ out \in [Ends -> Seq(Message)] /\ posted \in [Ends -> Seq(Message \cup {Bye})]
  BY DEF ConnInv, Base, QueuesOK
<1>2. /\ writes[e] # << >> /\ writes' = [writes EXCEPT ![e][1].status = "error"]
      /\ UNCHANGED <<link, open, posted, out, wire, read, tmp, incoming, sent, dead>>
  BY DEF WriteReset
<1>3. Head(writes[e]) \in Op /\ "error" \in Status
  BY <1>1, <1>2, OneOp DEF Status
<1>4. op \in Op /\ op.status = "error"
  BY <1>3 DEF Op, Status
<1>5. writes' = [writes EXCEPT ![e] = <<op>>]
  BY <1>1, <1>2, <1>3, StatusSet
<1> HIDE DEF op
<1>6. <<op>> \in Seq(Op) /\ Len(<<op>>) <= 1 /\ <<op>> # << >> /\ ~Sends(<<op>>, open[e])
  BY <1>4, Single DEF Sends
<1>7. out[e] \in Seq(Message) /\ out[e] # << >> /\ out' = [out EXCEPT ![e] = out[e]]
  BY <1>1, <1>2, Front
<1>8. QED
  BY <1>1, <1>2, <1>5, <1>6, <1>7, WriterKeptStep

-----------------------------------------------------------------------------
(* A chunk on the wire, put there by Transmit and taken by Receive.        *)

LEMMA Appended ==
    ASSUME NEW S, NEW s \in Seq(S), NEW c \in S
    PROVE  LET t == Append(s, c)
           IN  /\ t \in Seq(S) /\ Len(t) = Len(s) + 1 /\ t[Len(t)] = c
               /\ \A i \in 1 .. Len(s) : t[i] = s[i]
               /\ Head(t) = IF s = << >> THEN c ELSE Head(s)
OBVIOUS

LEMMA Taken ==
    ASSUME NEW S, NEW s \in Seq(S), s # << >>
    PROVE  LET t == Tail(s)
           IN  /\ t \in Seq(S) /\ Len(t) = Len(s) - 1 /\ Len(s) \in Nat /\ s[1] = Head(s)
               /\ \A i \in 1 .. Len(t) : t[i] = s[i + 1]
               /\ t # << >> => Head(t) = s[2] /\ 1 \in 1 .. Len(s) - 1 /\ t[Len(t)] = s[Len(s)]
               /\ t = << >> => s[Len(s)] = Head(s)
<1> DEFINE t == Tail(s)
<1>1. /\ t \in Seq(S) /\ Len(t) = Len(s) - 1 /\ Len(s) \in Nat /\ Len(s) # 0 /\ s[1] = Head(s)
      /\ \A i \in 1 .. Len(t) : t[i] = s[i + 1]
  OBVIOUS
<1>2. \A u \in Seq(S) : u = << >> <=> Len(u) = 0
  OBVIOUS
<1>3. ASSUME t # << >>
      PROVE  Head(t) = s[2] /\ 1 \in 1 .. Len(s) - 1 /\ t[Len(t)] = s[Len(s)]
  <2>1. Len(t) # 0
    BY <1>1, <1>2, <1>3
  <2>2. \A n \in Nat : n # 0 /\ n - 1 # 0 => 1 \in 1 .. n - 1 /\ n - 1 \in 1 .. n - 1 /\ (n - 1) + 1 = n
    OBVIOUS
  <2>3. 1 \in 1 .. Len(t) /\ Len(t) \in 1 .. Len(t) /\ Len(t) + 1 = Len(s)
    BY <1>1, <2>1, <2>2
  <2>4. t[1] = s[2] /\ t[Len(t)] = s[Len(s)]
    BY <1>1, <2>3
  <2>5. Head(t) = t[1]
    BY <1>1, <1>3
  <2>6. QED
    BY <1>1, <2>3, <2>4, <2>5
<1>4. ASSUME t = << >> PROVE s[Len(s)] = Head(s)
  <2>1. Len(t) = 0
    BY <1>1, <1>2, <1>4
  <2>2. \A n \in Nat : n - 1 = 0 => n = 1
    OBVIOUS
  <2>3. Len(s) = 1
    BY <1>1, <2>1, <2>2
  <2>4. QED
    BY <1>1, <2>3
<1>5. QED
  BY <1>1, <1>3, <1>4

\* What a writer puts on the wire is what follows what it put there last.
LEMMA StreamGrows ==
    ASSUME NEW d \in Ends, Stream(d), NEW c \in Chunk, WireOK,
           wire'[d] = Append(wire[d], c), UNCHANGED <<read, tmp>>,
           Sends(writes[d], open[d]), Emits(writes[d], out[d]) = c.part,
           Emits(writes[d], out[d])' = After(c)
    PROVE  Stream(d)'
<1> DEFINE W == wire[d]
           V == Append(W, c)
<1>1. W \in Seq(Chunk)
  BY DEF WireOK
<1>2. /\ Len(V) = Len(W) + 1 /\ V[Len(V)] = c /\ Len(W) \in Nat
      /\ \A i \in 1 .. Len(W) : V[i] = W[i]
      /\ Head(V) = (IF W = << >> THEN c ELSE Head(W)) /\ V # << >>
  BY <1>1, Appended
<1>3. W # << >> => After(W[Len(W)]) = c.part
  BY DEF Stream, AtWriter
<1>4. \A i \in 1 .. Len(W) - 1 : W[i + 1].part = After(W[i])
  BY DEF Stream, Inside
<1>5. ASSUME NEW i \in 1 .. Len(V) - 1 PROVE V[i + 1].part = After(V[i])
  <2>1. i \in 1 .. Len(W) /\ V[i] = W[i]
    BY <1>2
  <2>2. CASE i = Len(W)
    <3>1. V[i + 1] = c /\ W # << >>
      BY <1>1, <1>2, <2>1, <2>2
    <3> HIDE DEF V, W
    <3>2. QED
      BY <1>3, <2>1, <2>2, <3>1
  <2>3. CASE i # Len(W)
    <3>1. \A n \in Nat : \A k \in 1 .. n : k # n => k \in 1 .. n - 1 /\ k + 1 \in 1 .. n
      OBVIOUS
    <3>2. i \in 1 .. Len(W) - 1 /\ i + 1 \in 1 .. Len(W)
      BY <1>2, <2>1, <2>3, <3>1
    <3> HIDE DEF V, W
    <3>3. QED
      BY <1>2, <1>4, <2>1, <3>2
  <2>4. QED
    BY <2>2, <2>3
<1>6. wire'[d] = V
  OBVIOUS
<1>7. Receives(read[Peer(d)]) => Head(V).part = Expects(read[Peer(d)], tmp[Peer(d)])
  BY <1>2 DEF Stream, AtReader, Across
<1> HIDE DEF V, W
<1>8. Inside(d)'
  BY <1>5, <1>6 DEF Inside, After
<1>9. AtReader(d)'
  BY <1>6, <1>7 DEF AtReader
<1>10. AtWriter(d)'
  BY <1>2, <1>6 DEF AtWriter, After
<1>11. Across(d)'
  BY <1>2, <1>6 DEF Across
<1>12. QED
  BY <1>8, <1>9, <1>10, <1>11 DEF Stream

\* What a reader expects is what follows the chunk that it took.
LEMMA StreamShrinks ==
    ASSUME NEW d \in Ends, Stream(d), WireOK, wire[d] # << >>,
           wire'[d] = Tail(wire[d]), UNCHANGED <<writes, out, open>>,
           Expects(read[Peer(d)], tmp[Peer(d)])' = After(Head(wire[d]))
    PROVE  Stream(d)'
<1> DEFINE W == wire[d]
           V == Tail(W)
<1>1. W \in Seq(Chunk)
  BY DEF WireOK
<1>2. /\ Len(V) = Len(W) - 1 /\ Len(W) \in Nat /\ W[1] = Head(W)
      /\ \A i \in 1 .. Len(V) : V[i] = W[i + 1]
      /\ V # << >> => Head(V) = W[2] /\ 1 \in 1 .. Len(W) - 1 /\ V[Len(V)] = W[Len(W)]
      /\ V = << >> => W[Len(W)] = Head(W)
  BY <1>1, Taken
<1>3. \A i \in 1 .. Len(W) - 1 : W[i + 1].part = After(W[i])
  BY DEF Stream, Inside
<1>4. ASSUME NEW i \in 1 .. Len(V) - 1 PROVE V[i + 1].part = After(V[i])
  <2>1. \A n \in Nat : \A k \in 1 .. (n - 1) - 1 : k \in 1 .. n - 1 /\ k + 1 \in 1 .. n - 1
    OBVIOUS
  <2>2. i \in 1 .. Len(V) /\ i + 1 \in 1 .. Len(V) /\ i + 1 \in 1 .. Len(W) - 1
    BY <1>2, <2>1
  <2>3. V[i] = W[i + 1] /\ V[i + 1] = W[(i + 1) + 1]
    BY <1>2, <2>2
  <2> HIDE DEF V, W
  <2>4. QED
    BY <1>3, <2>2, <2>3
<1>5. wire'[d] = V
  OBVIOUS
<1>6. V # << >> => Head(V).part = After(Head(W))
  <2> HIDE DEF V, W
  <2>1. QED
    BY <1>2, <1>3
<1>7. Sends(writes[d], open[d]) => Emits(writes[d], out[d]) = After(W[Len(W)])
  BY DEF Stream, AtWriter
<1> HIDE DEF V, W
<1>8. Inside(d)'
  BY <1>4, <1>5 DEF Inside, After
<1>9. AtReader(d)'
  BY <1>5, <1>6 DEF AtReader, W
<1>10. AtWriter(d)'
  BY <1>2, <1>5, <1>7 DEF AtWriter, After
<1>11. Across(d)'
  BY <1>2, <1>5, <1>7 DEF Across, W
<1>12. QED
  BY <1>8, <1>9, <1>10, <1>11 DEF Stream

LEMMA TransmitInv == \A e \in Ends : ConnInv /\ Transmit(e) => ConnInv'
<1> SUFFICES ASSUME NEW e \in Ends, ConnInv, Transmit(e) PROVE ConnInv'
  OBVIOUS
<1> DEFINE op == Head(writes[e])
           m == Head(out[e])
           done == [op EXCEPT !.status = "ok"]
           c == [part |-> op.part, data |-> IF op.part = "header" THEN HeaderOf(m) ELSE m.body]
<1>1. /\ Base /\ TmpOK /\ ReadShape /\ Quiet /\ \A d \in Ends : Stream(d)
      /\ out \in [Ends -> Seq(Message)] /\ wire \in [Ends -> Seq(Chunk)]
      /\ writes \in [Ends -> Seq(Op)]
  BY DEF ConnInv, Base, QueuesOK, WireOK, WritesOK
<1>2. /\ open[e] /\ writes[e] # << >> /\ op.status = "pending"
      /\ wire' = [wire EXCEPT ![e] = Append(@, c)]
      /\ writes' = [writes EXCEPT ![e][1].status = "ok"]
      /\ UNCHANGED <<link, open, posted, out, read, tmp, incoming, sent, dead>>
  BY DEF Transmit
<1>3. op \in Op /\ m \in Message /\ out[e] # << >> /\ out[e] \in Seq(Message)
  BY <1>1, <1>2, OneOp, Front
<1>4. c \in Chunk /\ c.part = op.part
  BY <1>3, HeaderIn DEF Chunk, Op, Message
<1>5. After(c) = IF op.part = "header" /\ m.body # NoBytes THEN "body" ELSE "header"
  BY <1>3, HeaderIn DEF After
<1>6. "ok" \in Status /\ done \in Op /\ done.part = op.part /\ done.status = "ok"
  BY <1>3 DEF Op, Status
<1>7. writes' = [writes EXCEPT ![e] = <<done>>]
  BY <1>1, <1>2, <1>6, StatusSet
<1> HIDE DEF c, done
<1>8. <<done>> \in Seq(Op) /\ Len(<<done>>) <= 1 /\ <<done>> # << >> /\ Head(<<done>>) = done
  BY <1>6, Single
<1>9. OneWriter' /\ WritesOK'
  BY <1>1, <1>2, <1>7, <1>8, OneWriterSame
<1>10. Append(wire[e], c) \in Seq(Chunk)
  BY <1>1, <1>4, Appended
<1>11. WireOK' /\ wire'[e] = Append(wire[e], c) /\ \A d \in Ends : d # e => wire'[d] = wire[d]
  BY <1>1, <1>2, <1>10 DEF WireOK
<1>12. writes'[e] = <<done>> /\ \A d \in Ends : d # e => writes'[d] = writes[d]
  BY <1>1, <1>7
<1>13. Base' /\ TmpOK' /\ Quiet'
  BY <1>1, <1>2, <1>9, <1>11 DEF Base, NetOK, QueuesOK, ReadOK, TmpOK, Quiet
<1>14. ReadShape' /\ \A d \in Ends : ReaderKept(d)
  BY <1>1, <1>2, ReadSame DEF Base
<1>15. ASSUME NEW d \in Ends PROVE Stream(d)'
  <2>1. CASE d = e
    <3>1. Sends(writes[e], open[e]) /\ Emits(writes[e], out[e]) = c.part
      BY <1>2, <1>4 DEF Sends, Emits
    <3>2. Emits(writes[e], out[e])' = After(c)
      BY <1>2, <1>5, <1>6, <1>8, <1>12 DEF Emits
    <3>3. QED
      BY <1>1, <1>2, <1>4, <1>11, <2>1, <3>1, <3>2, StreamGrows DEF WireOK
  <2>2. CASE d # e
    <3>1. WriterKept(d) /\ Peer(d) \in Ends
      BY <1>2, <1>12, <2>2, PeerFacts DEF WriterKept
    <3>2. QED
      BY <1>1, <1>11, <1>14, <2>2, <3>1, StreamKept
  <2>3. QED
    BY <2>1, <2>2
<1>16. QED
  BY <1>13, <1>14, <1>15 DEF ConnInv

LEMMA ReceiveInv == \A e \in Ends : ConnInv /\ Receive(e) => ConnInv'
<1> SUFFICES ASSUME NEW e \in Ends, ConnInv, Receive(e) PROVE ConnInv'
  OBVIOUS
<1> DEFINE p == Peer(e)
           c == Head(wire[p])
           part == read[e].part
           got == IF part = "header" THEN [tmp[e] EXCEPT !.header = c.data]
                  ELSE [tmp[e] EXCEPT !.body = c.data]
           done == [read[e] EXCEPT !.status = "ok"]
<1>1. /\ Base /\ TmpOK /\ ReadShape /\ Quiet /\ \A d \in Ends : Stream(d)
      /\ wire \in [Ends -> Seq(Chunk)] /\ tmp \in [Ends -> Delivered]
      /\ read \in [Ends -> [part : {"none", "header", "body", "ended"}, status : Status]]
      /\ p \in Ends /\ p # e /\ Peer(p) = e
  BY PeerFacts DEF ConnInv, Base, TmpOK, ReadOK, WireOK
<1>2. /\ read[e].status = "pending" /\ wire[p] # << >>
      /\ tmp' = [tmp EXCEPT ![e] = got]
      /\ wire' = [wire EXCEPT ![p] = Tail(@)]
      /\ read' = [read EXCEPT ![e] = done]
      /\ UNCHANGED <<link, open, posted, out, writes, incoming, sent, dead>>
  BY DEF Receive
<1>3. c \in Chunk /\ Tail(wire[p]) \in Seq(Chunk)
  BY <1>1, <1>2, HeadTail
<1>4. part \in {"header", "body"} /\ c.part = part
  <2>1. Receives(read[e]) /\ Expects(read[e], tmp[e]) = part
    BY <1>1, <1>2 DEF ReadShape, Receives, Expects
  <2>2. AtReader(p)
    BY <1>1 DEF Stream
  <2>3. QED
    BY <1>1, <1>2, <2>1, <2>2 DEF AtReader, ReadShape
<1>5. /\ part = "header" => c.data \in Header
      /\ part = "body" => c.data \in Bodies
  BY <1>3, <1>4 DEF Chunk
<1>6. tmp[e] \in Delivered
  BY <1>1
<1>7. got \in Delivered /\ (part = "header" => got.header = c.data)
  <2>1. CASE part = "header"
    BY <1>5, <1>6, <2>1 DEF Delivered
  <2>2. CASE part = "body"
    BY <1>5, <1>6, <2>2 DEF Delivered
  <2>3. QED
    BY <1>4, <2>1, <2>2
<1>8. done \in [part : {"none", "header", "body", "ended"}, status : Status]
      /\ done.part = part /\ done.status = "ok" /\ read[e] # Idle
  BY <1>1, <1>2 DEF Status, Idle
<1> HIDE DEF got, done
<1>9. /\ tmp'[e] = got /\ read'[e] = done /\ wire'[p] = Tail(wire[p])
      /\ \A d \in Ends : d # e => tmp'[d] = tmp[d] /\ read'[d] = read[d]
      /\ \A d \in Ends : d # p => wire'[d] = wire[d]
      /\ TmpOK' /\ ReadOK' /\ WireOK'
  BY <1>1, <1>2, <1>3, <1>7, <1>8 DEF TmpOK, ReadOK, WireOK
<1>10. Base'
  BY <1>1, <1>2, <1>9 DEF Base, NetOK, QueuesOK, WritesOK, OneWriter
<1>11. ReadShape' /\ Quiet'
  BY <1>1, <1>2, <1>8, <1>9 DEF ReadShape, Quiet
<1>12. ASSUME NEW d \in Ends PROVE Stream(d)'
  <2>1. CASE d = p
    <3>1. c.part = "header" => c.data.size \in {0, 1}
      BY <1>4, <1>5 DEF Header
    <3>2. Expects(read[e], tmp[e])' = After(c)
      BY <1>4, <1>7, <1>8, <1>9, <3>1 DEF Expects, After
    <3>3. QED
      BY <1>1, <1>2, <1>9, <2>1, <3>2, StreamShrinks DEF WireOK
  <2>2. CASE d # p
    <3>1. Peer(d) # e /\ Peer(d) \in Ends
      BY <1>1, <2>2, PeerFacts
    <3>2. WriterKept(d) /\ ReaderKept(Peer(d))
      BY <1>2, <1>9, <3>1 DEF WriterKept, ReaderKept
    <3>3. QED
      BY <1>1, <1>9, <2>2, <3>2, StreamKept
  <2>3. QED
    BY <2>1, <2>2
<1>13. QED
  BY <1>9, <1>10, <1>11, <1>12 DEF ConnInv

-----------------------------------------------------------------------------
(* The specification.                                                      *)

LEMMA InitConn == Init => ConnInv
<1> SUFFICES ASSUME Init PROVE ConnInv
  OBVIOUS
<1>1. NoBytes \in Bodies /\ [type |-> ZeroType, size |-> 0] \in Header
  BY EndsAssumption DEF EndsAssumption, Header
<1>2. Idle \in [part : {"none", "header", "body", "ended"}, status : Status]
  BY DEF Idle, Status
<1>3. \A S : << >> \in Seq(S)
  OBVIOUS
<1>4. NetOK /\ QueuesOK /\ WritesOK /\ WireOK /\ ReadOK
  BY <1>2, <1>3 DEF Init, NetOK, QueuesOK, WritesOK, WireOK, ReadOK
<1>5. TmpOK
  BY <1>1, <1>3 DEF Init, TmpOK, Delivered
<1>6. OneWriter
  BY EmptyWrites DEF Init, OneWriter
<1>7. ReadShape /\ Quiet
  BY DEF Init, ReadShape, Quiet, Idle
<1>8. ASSUME NEW d \in Ends PROVE Stream(d)
  <2>1. wire[d] = << >> /\ writes[d] = << >> /\ Peer(d) \in Ends
    BY PeerFacts DEF Init
  <2>2. read[Peer(d)] = Idle
    BY <2>1 DEF Init
  <2>3. Emits(writes[d], out[d]) = "header" /\ Expects(read[Peer(d)], tmp[Peer(d)]) = "header"
    BY <2>1, <2>2, IdleExpects DEF Emits
  <2>4. Inside(d)
    BY <2>1, EmptyWrites DEF Inside
  <2>5. QED
    BY <2>1, <2>3, <2>4 DEF Stream, AtReader, AtWriter, Across
<1>9. QED
  BY <1>4, <1>5, <1>6, <1>7, <1>8 DEF ConnInv, Base

LEMMA NextConn == ConnInv /\ [Next]_vars => ConnInv'
<1> SUFFICES ASSUME ConnInv, [Next]_vars PROVE ConnInv'
  OBVIOUS
<1>1. ASSUME NEW e \in Ends, App(e) \/ Network(e) \/ Context(e) \/ WriteReset(e) \/ ReadReset(e)
      PROVE  ConnInv'
  <2>1. CASE App(e)
    BY <2>1, AppKept, KeptIsEnough
  <2>2. CASE Transmit(e) \/ Receive(e)
    BY <2>2, TransmitInv, ReceiveInv
  <2>3. CASE EndOfFile(e) \/ ReadReset(e)
    BY <2>3, ReadErrorKept, KeptIsEnough
  <2>4. CASE RunSend(e) \/ HeaderWritten(e) \/ MessageWritten(e) \/ WriteReset(e)
    BY <2>4, RunSendKept, HeaderWrittenKept, MessageWrittenKept, WriteResetKept, KeptIsEnough
  <2>5. CASE RunDisconnect(e) \/ WriteFailed(e) \/ ReadFailed(e)
    BY <2>5, DisconnectKept, FailedKept, KeptIsEnough
  <2>6. CASE HeaderRead(e) \/ MessageRead(e)
    BY <2>6, ReadDoneKept, KeptIsEnough
  <2>7. QED
    BY <1>1, <2>1, <2>2, <2>3, <2>4, <2>5, <2>6 DEF Network, Context
<1>2. CASE Established \/ Accept
  BY <1>2, StartKept, KeptIsEnough
<1>3. CASE Refused \/ LinkFails \/ AcceptThrows
  BY <1>3, NetworkKept, KeptIsEnough
<1>4. CASE UNCHANGED vars
  <2>1. NetOK' /\ posted' \in [Ends -> Seq(Message \cup {Bye})] /\ sent' \in [Ends -> Seq(Message)]
    BY <1>4 DEF ConnInv, Base, NetOK, QueuesOK, vars
  <2>2. Kept
    BY <1>4, <2>1, OutsideKept DEF vars
  <2>3. QED
    BY <2>2, KeptIsEnough
<1>5. QED
  BY <1>1, <1>2, <1>3, <1>4 DEF Next

LEMMA Invariant == Spec => []ConnInv
<1>1. QED
  BY InitConn, NextConn, PTL DEF Spec

\* Every variable of a connection keeps its type: a header read is a header,
\* a body a body, and what is queued and delivered are messages.
THEOREM TypeCorrect == Spec => []TypeOK
<1>1. ConnInv => TypeOK
  BY InvGives
<1>2. QED
  BY <1>1, Invariant, PTL

\* However the posted lambdas and the completion handlers of an end follow one
\* another, and whatever the other end and the network do, at most one
\* async_write is under way, it sends the message at the front, and while the
\* socket is open a message that waits is being sent.
THEOREM OneAtATime == Spec => []OneWriter
<1>1. ConnInv => OneWriter
  BY InvGives
<1>2. QED
  BY <1>1, Invariant, PTL

\* A reader never takes the chunk of one kind for that of the other: the wire
\* is framed from what the reader expects to what the writer does next.
THEOREM StaysFramed == Spec => []Framed
<1>1. ConnInv => Framed
  BY InvGives
<1>2. QED
  BY <1>1, Invariant, PTL

-----------------------------------------------------------------------------
(***************************************************************************)
(* Connection implements FifoChannel in each direction.                    *)
(*                                                                         *)
(* A connection may carry the same message twice, and drops what is queued *)
(* when it fails, so no comparison of contents tells which message a chunk *)
(* belongs to.  The proof numbers messages by their place in sent: there   *)
(* are a number b of messages that have left the writer, a function g from *)
(* places among the posted lambdas to numbers, and a function h from       *)
(* places on the wire to numbers, such that posted, out, the wire, the     *)
(* message half read and the incoming queue all hold consecutive messages  *)
(* of sent (InOrder).  Each action gives new witnesses for them.  An end   *)
(* that failed owes nothing: its messages stay where they are.             *)
(***************************************************************************)

(* Numbering.  s is what an end has been asked to send: sent[d].           *)

\* b messages have left; those of o and, Bye apart, of p come next, in the
\* order of s.  g[i] is the number of the last message among the first i of p.
Sending(s, p, o, b, g) ==
    /\ b \in Nat /\ g \in [0 .. Len(p) -> 0 .. Len(s)]
    /\ g[0] = b + Len(o) /\ g[Len(p)] = Len(s)
    /\ \A i \in 1 .. Len(p) :
        IF p[i] = Bye THEN g[i] = g[i - 1] ELSE g[i] = g[i - 1] + 1 /\ s[g[i]] = p[i]
    /\ \A j \in 1 .. Len(o) : o[j] = s[b + j]

\* h[i] is the number of the message that chunk i of the wire is of, h[0] that
\* of the last chunk taken.
Carried(s, w, h) ==
    /\ h \in [0 .. Len(w) -> 0 .. Len(s)]
    /\ \A i \in 1 .. Len(w) :
        IF w[i].part = "header"
        THEN h[i] = h[i - 1] + 1 /\ w[i].data = HeaderOf(s[h[i]])
        ELSE h[i] = h[i - 1] /\ h[i] # 0 /\ w[i].data = s[h[i]].body

\* The header of the front message is on the wire.
Begun(x) == x # << >> /\ (Head(x).part = "body" \/ Head(x).status # "pending")

\* The header of the message being read has been taken.
Mid(r) == r.part = "body" \/ (r.part = "header" /\ r.status = "ok")

WriterAt(w, x, isOpen, b, h) ==
    Sends(x, isOpen) => h[Len(w)] = IF Begun(x) THEN b + 1 ELSE b

ReaderAt(s, r, t, n, h) ==
    Receives(r) =>
        /\ h[0] = IF Mid(r) THEN n + 1 ELSE n
        /\ Mid(r) => t.header = HeaderOf(s[n + 1])
        /\ r.part = "body" /\ r.status = "ok" => t.body = s[n + 1].body

\* What has been delivered, as Received reads it.
Arrived(s, inc) ==
    /\ Len(inc) <= Len(s)
    /\ \A i \in 1 .. Len(inc) :
        inc[i].header = HeaderOf(s[i]) /\ (inc[i].header.size # 0 => inc[i].body = s[i].body)

InOrder(s, p, o, w, x, isOpen, r, t, inc) ==
    /\ Arrived(s, inc)
    /\ \E b, g, h :
        /\ Sending(s, p, o, b, g) /\ Carried(s, w, h)
        /\ WriterAt(w, x, isOpen, b, h) /\ ReaderAt(s, r, t, Len(inc), h)

Fifo(d) == InOrder(sent[d], posted[d], out[d], wire[d], writes[d], open[d],
                   read[Peer(d)], tmp[Peer(d)], incoming[Peer(d)])

ReadOp == [part : {"none", "header", "body", "ended"}, status : Status]

-----------------------------------------------------------------------------
(* The application posts.                                                  *)

LEMMA Longer ==
    ASSUME NEW S, NEW s \in Seq(S), NEW c \in S
    PROVE  /\ Append(s, c) \in Seq(S) /\ Len(Append(s, c)) = Len(s) + 1 /\ Len(s) \in Nat
           /\ Append(s, c)[Len(s) + 1] = c
           /\ \A i \in 1 .. Len(s) : Append(s, c)[i] = s[i]
OBVIOUS

LEMMA Shorter ==
    ASSUME NEW S, NEW s \in Seq(S), s # << >>
    PROVE  /\ Tail(s) \in Seq(S) /\ Len(Tail(s)) = Len(s) - 1
           /\ Len(s) \in Nat /\ Len(s) >= 1 /\ s[1] = Head(s)
           /\ \A i \in 1 .. Len(s) - 1 : Tail(s)[i] = s[i + 1]
OBVIOUS

\* A lambda is posted: that of a Send, with its message, or that of Disconnect.
LEMMA PostedSending ==
    ASSUME NEW s \in Seq(Message), NEW p \in Seq(Message \cup {Bye}), NEW o \in Seq(Message),
           NEW b, NEW g, Sending(s, p, o, b, g),
           NEW l \in Message \cup {Bye}, NEW s2 \in Seq(Message),
           IF l = Bye THEN s2 = s ELSE s2 = Append(s, l)
    PROVE  \E g2 : Sending(s2, Append(p, l), o, b, g2)
<1> DEFINE q == Append(p, l)
           g2 == [i \in 0 .. Len(q) |-> IF i = Len(q) THEN Len(s2) ELSE g[i]]
<1>1. /\ Len(q) = Len(p) + 1 /\ Len(p) \in Nat /\ q[Len(p) + 1] = l
      /\ \A i \in 1 .. Len(p) : q[i] = p[i]
  BY Longer
<1>2. Len(s) \in Nat /\ Len(o) \in Nat
  OBVIOUS
<1>3. /\ Len(s2) = IF l = Bye THEN Len(s) ELSE Len(s) + 1
      /\ \A i \in 1 .. Len(s) : s2[i] = s[i]
      /\ l # Bye => s2[Len(s) + 1] = l
  <2>1. CASE l = Bye
    BY <2>1
  <2>2. CASE l # Bye
    BY <2>2, Longer
  <2>3. QED
    BY <2>1, <2>2
<1>4. /\ b \in Nat /\ g \in [0 .. Len(p) -> 0 .. Len(s)]
      /\ g[0] = b + Len(o) /\ g[Len(p)] = Len(s)
      /\ \A i \in 1 .. Len(p) :
           IF p[i] = Bye THEN g[i] = g[i - 1] ELSE g[i] = g[i - 1] + 1 /\ s[g[i]] = p[i]
      /\ \A j \in 1 .. Len(o) : o[j] = s[b + j]
  BY DEF Sending
<1> HIDE DEF q
<1>5. /\ \A i \in 0 .. Len(p) : g2[i] = g[i] /\ g[i] \in 0 .. Len(s)
      /\ g2[Len(p) + 1] = Len(s2)
      /\ g2 \in [0 .. Len(q) -> 0 .. Len(s2)]
  <2>1. \A i \in 0 .. Len(p) : i \in 0 .. Len(q) /\ i # Len(q) /\ g[i] \in 0 .. Len(s)
    BY <1>1, <1>4
  <2>2. Len(q) \in 0 .. Len(q) /\ Len(s2) \in 0 .. Len(s2) /\ 0 .. Len(s) \subseteq 0 .. Len(s2)
    BY <1>1, <1>2, <1>3
  <2>3. \A i \in 0 .. Len(q) : i = Len(q) \/ i \in 0 .. Len(p)
    BY <1>1
  <2>4. QED
    BY <1>1, <2>1, <2>2, <2>3
<1> HIDE DEF g2
<1>6. g2[0] = b + Len(o) /\ g2[Len(q)] = Len(s2)
  BY <1>1, <1>4, <1>5
<1>7. ASSUME NEW i \in 1 .. Len(q)
      PROVE  IF q[i] = Bye THEN g2[i] = g2[i - 1] ELSE g2[i] = g2[i - 1] + 1 /\ s2[g2[i]] = q[i]
  <2>1. CASE i = Len(p) + 1
    <3>1. g2[i] = Len(s2) /\ g2[i - 1] = Len(s) /\ q[i] = l
      BY <1>1, <1>4, <1>5, <2>1
    <3>2. QED
      BY <1>2, <1>3, <3>1
  <2>2. CASE i # Len(p) + 1
    <3>1. i \in 1 .. Len(p) /\ i - 1 \in 0 .. Len(p) /\ i \in 0 .. Len(p)
      BY <1>1, <2>2
    <3>2. g2[i] = g[i] /\ g2[i - 1] = g[i - 1] /\ q[i] = p[i] /\ g[i] \in 0 .. Len(s)
          /\ g[i - 1] \in 0 .. Len(s)
      BY <1>1, <1>5, <3>1
    <3>3. CASE p[i] = Bye
      BY <1>4, <3>1, <3>2, <3>3
    <3>4. CASE p[i] # Bye
      <4>1. g[i] = g[i - 1] + 1 /\ s[g[i]] = p[i]
        BY <1>4, <3>1, <3>4
      <4>2. g[i] \in 1 .. Len(s)
        BY <1>2, <3>2, <4>1
      <4>3. QED
        BY <1>3, <3>2, <3>4, <4>1, <4>2
    <3>5. QED
      BY <3>3, <3>4
  <2>3. QED
    BY <2>1, <2>2
<1>8. ASSUME NEW j \in 1 .. Len(o) PROVE o[j] = s2[b + j]
  <2>1. b + Len(o) \in 0 .. Len(s)
    BY <1>1, <1>4, <1>5
  <2>2. b + j \in 1 .. Len(s)
    BY <1>2, <1>4, <2>1
  <2>3. QED
    BY <1>3, <1>4, <2>2
<1>9. Sending(s2, q, o, b, g2)
  BY <1>4, <1>5, <1>6, <1>7, <1>8 DEF Sending
<1>10. QED
  BY <1>9 DEF q

\* The other parts do not see that s has grown.
LEMMA GrownSent ==
    ASSUME NEW s \in Seq(Message), NEW m \in Message, NEW w \in Seq(Chunk), NEW h, Carried(s, w, h),
           NEW inc \in Seq(Delivered), Arrived(s, inc), NEW r, NEW t, ReaderAt(s, r, t, Len(inc), h)
    PROVE  LET s2 == Append(s, m)
           IN  Carried(s2, w, h) /\ Arrived(s2, inc) /\ ReaderAt(s2, r, t, Len(inc), h)
<1> DEFINE s2 == Append(s, m)
<1>1. Len(s2) = Len(s) + 1 /\ Len(s) \in Nat /\ \A i \in 1 .. Len(s) : s2[i] = s[i]
  BY Longer
<1>2. Len(inc) \in Nat /\ Len(w) \in Nat
  OBVIOUS
<1> HIDE DEF s2
<1>3. Arrived(s2, inc)
  BY <1>1, <1>2 DEF Arrived
<1>4. h \in [0 .. Len(w) -> 0 .. Len(s)] /\ 0 \in 0 .. Len(w)
  BY <1>2 DEF Carried
<1>5. Carried(s2, w, h)
  <2>1. h \in [0 .. Len(w) -> 0 .. Len(s2)]
    BY <1>1, <1>4
  <2>2. ASSUME NEW i \in 1 .. Len(w)
        PROVE  IF w[i].part = "header"
               THEN h[i] = h[i - 1] + 1 /\ w[i].data = HeaderOf(s2[h[i]])
               ELSE h[i] = h[i - 1] /\ h[i] # 0 /\ w[i].data = s2[h[i]].body
    <3>1. i \in 0 .. Len(w) /\ i - 1 \in 0 .. Len(w)
      BY <1>2
    <3>2. h[i] \in 0 .. Len(s) /\ h[i - 1] \in 0 .. Len(s)
      BY <1>4, <3>1
    <3>3. /\ w[i].part = "header" => h[i] = h[i - 1] + 1 /\ w[i].data = HeaderOf(s[h[i]])
          /\ w[i].part # "header" => h[i] = h[i - 1] /\ h[i] # 0 /\ w[i].data = s[h[i]].body
      BY DEF Carried
    <3>4. h[i] \in 1 .. Len(s)
      BY <1>1, <3>2, <3>3
    <3>5. QED
      BY <1>1, <3>3, <3>4
  <2>3. QED
    BY <2>1, <2>2 DEF Carried
<1>6. ReaderAt(s2, r, t, Len(inc), h)
  <2>1. h[0] \in 0 .. Len(s)
    BY <1>4
  <2>2. Receives(r) /\ Mid(r) => Len(inc) + 1 \in 1 .. Len(s)
    BY <1>1, <1>2, <2>1 DEF ReaderAt
  <2>3. QED
    BY <1>1, <2>2 DEF ReaderAt, Mid
<1>7. QED
  BY <1>3, <1>5, <1>6 DEF s2

-----------------------------------------------------------------------------
(* The context takes the first lambda.                                     *)

Numbers(s, p, g) ==
    /\ g \in [0 .. Len(p) -> 0 .. Len(s)]
    /\ \A i \in 1 .. Len(p) :
        IF p[i] = Bye THEN g[i] = g[i - 1] ELSE g[i] = g[i - 1] + 1 /\ s[g[i]] = p[i]

\* Taking the first of p leaves the numbers of the others.
LEMMA ShiftedSending ==
    ASSUME NEW s \in Seq(Message), NEW p \in Seq(Message \cup {Bye}), p # << >>,
           NEW o \in Seq(Message), NEW b, NEW g, Sending(s, p, o, b, g)
    PROVE  /\ \E g2 : Numbers(s, Tail(p), g2) /\ g2[0] = g[1] /\ g2[Len(Tail(p))] = Len(s)
           /\ IF Head(p) = Bye THEN g[1] = g[0] ELSE g[1] = g[0] + 1 /\ s[g[1]] = Head(p)
<1> DEFINE q == Tail(p)
           g2 == [i \in 0 .. Len(q) |-> g[i + 1]]
<1>1. /\ Len(q) = Len(p) - 1 /\ Len(p) \in Nat /\ Len(p) >= 1 /\ p[1] = Head(p)
      /\ \A i \in 1 .. Len(p) - 1 : q[i] = p[i + 1]
  BY Shorter
<1>2. /\ g \in [0 .. Len(p) -> 0 .. Len(s)] /\ g[Len(p)] = Len(s)
      /\ \A i \in 1 .. Len(p) :
           IF p[i] = Bye THEN g[i] = g[i - 1] ELSE g[i] = g[i - 1] + 1 /\ s[g[i]] = p[i]
  BY DEF Sending
<1> HIDE DEF q
<1>3. \A i \in 0 .. Len(q) : i + 1 \in 0 .. Len(p) /\ g2[i] = g[i + 1]
  BY <1>1
<1>4. g2 \in [0 .. Len(q) -> 0 .. Len(s)]
  BY <1>2, <1>3
<1>5. 0 \in 0 .. Len(q) /\ Len(q) \in 0 .. Len(q) /\ Len(q) + 1 = Len(p) /\ 0 + 1 = 1
      /\ 1 \in 1 .. Len(p) /\ 1 \in 0 .. Len(p) /\ 1 - 1 = 0
  BY <1>1
<1>6. g2[0] = g[1] /\ g2[Len(q)] = Len(s)
  BY <1>2, <1>3, <1>5
<1> HIDE DEF g2
<1>7. ASSUME NEW i \in 1 .. Len(q)
      PROVE  IF q[i] = Bye THEN g2[i] = g2[i - 1] ELSE g2[i] = g2[i - 1] + 1 /\ s[g2[i]] = q[i]
  <2>1. i \in 0 .. Len(q) /\ i - 1 \in 0 .. Len(q) /\ (i - 1) + 1 = i /\ i + 1 \in 1 .. Len(p)
        /\ (i + 1) - 1 = i /\ i \in 1 .. Len(p) - 1
    BY <1>1
  <2>2. g2[i] = g[i + 1] /\ g2[i - 1] = g[i] /\ q[i] = p[i + 1]
    BY <1>1, <1>3, <2>1
  <2>3. IF p[i + 1] = Bye THEN g[i + 1] = g[i]
        ELSE g[i + 1] = g[i] + 1 /\ s[g[i + 1]] = p[i + 1]
    BY <1>2, <2>1
  <2>4. QED
    BY <2>2, <2>3
<1>8. IF Head(p) = Bye THEN g[1] = g[0] ELSE g[1] = g[0] + 1 /\ s[g[1]] = Head(p)
  BY <1>1, <1>2, <1>5
<1>9. Numbers(s, q, g2)
  BY <1>4, <1>7 DEF Numbers
<1>10. QED
  BY <1>6, <1>8, <1>9 DEF q

\* The lambda of Disconnect: no message moves.
LEMMA ByeTaken ==
    ASSUME NEW s \in Seq(Message), NEW p \in Seq(Message \cup {Bye}), p # << >>, Head(p) = Bye,
           NEW o \in Seq(Message), NEW b, NEW g, Sending(s, p, o, b, g)
    PROVE  \E g2 : Sending(s, Tail(p), o, b, g2)
<1>1. PICK g2 : /\ Numbers(s, Tail(p), g2) /\ g2[0] = g[1] /\ g2[Len(Tail(p))] = Len(s)
                /\ g[1] = g[0]
  BY ShiftedSending
<1>2. b \in Nat /\ g[0] = b + Len(o) /\ \A j \in 1 .. Len(o) : o[j] = s[b + j]
  BY DEF Sending
<1>3. Sending(s, Tail(p), o, b, g2)
  BY <1>1, <1>2 DEF Sending, Numbers
<1>4. QED
  BY <1>3

\* The lambda of a Send: its message goes behind those that wait.
LEMMA MessageTaken ==
    ASSUME NEW s \in Seq(Message), NEW p \in Seq(Message \cup {Bye}), p # << >>,
           Head(p) # Bye, NEW o \in Seq(Message), NEW b, NEW g, Sending(s, p, o, b, g)
    PROVE  \E g2 : Sending(s, Tail(p), Append(o, Head(p)), b, g2)
<1> DEFINE m == Head(p)
           o2 == Append(o, m)
<1>1. PICK g2 : /\ Numbers(s, Tail(p), g2) /\ g2[0] = g[1] /\ g2[Len(Tail(p))] = Len(s)
                /\ g[1] = g[0] + 1 /\ s[g[1]] = m
  BY ShiftedSending
<1>2. m \in Message
  BY HeadTail
<1>3. /\ Len(o2) = Len(o) + 1 /\ Len(o) \in Nat /\ o2[Len(o) + 1] = m
      /\ \A j \in 1 .. Len(o) : o2[j] = o[j]
  BY <1>2, Longer
<1> HIDE DEF o2, m
<1>4. b \in Nat /\ g[0] = b + Len(o) /\ \A j \in 1 .. Len(o) : o[j] = s[b + j]
  BY DEF Sending
<1>5. g2[0] = b + Len(o2) /\ g[1] = b + (Len(o) + 1)
  BY <1>1, <1>3, <1>4
<1>6. ASSUME NEW j \in 1 .. Len(o2) PROVE o2[j] = s[b + j]
  <2>1. CASE j = Len(o) + 1
    BY <1>1, <1>3, <1>5, <2>1
  <2>2. CASE j # Len(o) + 1
    <3>1. j \in 1 .. Len(o)
      BY <1>3, <2>2
    <3>2. QED
      BY <1>3, <1>4, <3>1
  <2>3. QED
    BY <2>1, <2>2
<1>7. Sending(s, Tail(p), o2, b, g2)
  BY <1>1, <1>4, <1>5, <1>6 DEF Sending, Numbers
<1>8. QED
  BY <1>7 DEF o2, m

\* The front message has left.
LEMMA FrontLeft ==
    ASSUME NEW s \in Seq(Message), NEW p, NEW o \in Seq(Message), o # << >>,
           NEW b, NEW g, Sending(s, p, o, b, g)
    PROVE  Sending(s, p, Tail(o), b + 1, g)
<1> DEFINE o2 == Tail(o)
<1>1. /\ Len(o2) = Len(o) - 1 /\ Len(o) \in Nat /\ Len(o) >= 1
      /\ \A j \in 1 .. Len(o) - 1 : o2[j] = o[j + 1]
  BY Shorter
<1> HIDE DEF o2
<1>2. b \in Nat /\ g[0] = b + Len(o) /\ \A j \in 1 .. Len(o) : o[j] = s[b + j]
  BY DEF Sending
<1>3. b + 1 \in Nat /\ g[0] = (b + 1) + Len(o2)
  BY <1>1, <1>2
<1>4. ASSUME NEW j \in 1 .. Len(o2) PROVE o2[j] = s[(b + 1) + j]
  <2>1. j + 1 \in 1 .. Len(o) /\ b + (j + 1) = (b + 1) + j /\ j \in 1 .. Len(o) - 1
    BY <1>1, <1>2
  <2>2. o2[j] = o[j + 1] /\ o[j + 1] = s[b + (j + 1)]
    BY <1>1, <1>2, <2>1
  <2>3. QED
    BY <2>1, <2>2
<1>5. Sending(s, p, o2, b + 1, g)
  BY <1>3, <1>4 DEF Sending
<1>6. QED
  BY <1>5 DEF o2

\* The front message is the next one to leave, and has a number.
LEMMA FrontNumber ==
    ASSUME NEW s \in Seq(Message), NEW p \in Seq(Message \cup {Bye}), NEW o \in Seq(Message),
           o # << >>, NEW b, NEW g, Sending(s, p, o, b, g)
    PROVE  Head(o) = s[b + 1] /\ b + 1 \in 1 .. Len(s) /\ b \in Nat
<1>1. Len(o) \in Nat /\ Len(o) >= 1 /\ o[1] = Head(o)
  BY Shorter
<1>2. b \in Nat /\ g[0] = b + Len(o) /\ (\A j \in 1 .. Len(o) : o[j] = s[b + j])
      /\ g \in [0 .. Len(p) -> 0 .. Len(s)]
  BY DEF Sending
<1>3. 0 \in 0 .. Len(p) /\ Len(s) \in Nat
  OBVIOUS
<1>4. b + Len(o) \in 0 .. Len(s)
  BY <1>2, <1>3
<1>5. 1 \in 1 .. Len(o) /\ b + 1 \in 1 .. Len(s)
  BY <1>1, <1>2, <1>3, <1>4
<1>6. QED
  BY <1>1, <1>2, <1>5

-----------------------------------------------------------------------------
(* A chunk is put on the wire, and taken.                                  *)

LEMMA ChunkPut ==
    ASSUME NEW s \in Seq(Message), NEW w \in Seq(Chunk), NEW h, Carried(s, w, h),
           NEW c \in Chunk, NEW k \in 1 .. Len(s),
           IF c.part = "header" THEN h[Len(w)] + 1 = k /\ c.data = HeaderOf(s[k])
           ELSE h[Len(w)] = k /\ c.data = s[k].body
    PROVE  \E h2 : Carried(s, Append(w, c), h2) /\ h2[0] = h[0] /\ h2[Len(Append(w, c))] = k
<1> DEFINE v == Append(w, c)
           h2 == [i \in 0 .. Len(v) |-> IF i = Len(v) THEN k ELSE h[i]]
<1>1. /\ Len(v) = Len(w) + 1 /\ Len(w) \in Nat /\ v[Len(w) + 1] = c
      /\ \A i \in 1 .. Len(w) : v[i] = w[i]
  BY Longer
<1>2. /\ h \in [0 .. Len(w) -> 0 .. Len(s)]
      /\ \A i \in 1 .. Len(w) :
            IF w[i].part = "header"
            THEN h[i] = h[i - 1] + 1 /\ w[i].data = HeaderOf(s[h[i]])
            ELSE h[i] = h[i - 1] /\ h[i] # 0 /\ w[i].data = s[h[i]].body
  BY DEF Carried
<1> HIDE DEF v
<1>3. k \in 0 .. Len(s) /\ k # 0
  OBVIOUS
<1>4. /\ \A i \in 0 .. Len(w) : h2[i] = h[i]
      /\ h2[Len(w) + 1] = k /\ h2 \in [0 .. Len(v) -> 0 .. Len(s)]
  <2>1. \A i \in 0 .. Len(w) : i \in 0 .. Len(v) /\ i # Len(v) /\ h[i] \in 0 .. Len(s)
    BY <1>1, <1>2
  <2>2. Len(v) \in 0 .. Len(v)
    BY <1>1
  <2>3. \A i \in 0 .. Len(v) : i = Len(v) \/ i \in 0 .. Len(w)
    BY <1>1
  <2>4. QED
    BY <1>1, <1>3, <2>1, <2>2, <2>3
<1> HIDE DEF h2
<1>5. ASSUME NEW i \in 1 .. Len(v)
      PROVE  IF v[i].part = "header"
             THEN h2[i] = h2[i - 1] + 1 /\ v[i].data = HeaderOf(s[h2[i]])
             ELSE h2[i] = h2[i - 1] /\ h2[i] # 0 /\ v[i].data = s[h2[i]].body
  <2>1. CASE i = Len(w) + 1
    <3>1. h2[i] = k /\ h2[i - 1] = h[Len(w)] /\ v[i] = c
      BY <1>1, <1>4, <2>1
    <3>2. QED
      BY <1>3, <3>1
  <2>2. CASE i # Len(w) + 1
    <3>1. i \in 1 .. Len(w) /\ i \in 0 .. Len(w) /\ i - 1 \in 0 .. Len(w)
      BY <1>1, <2>2
    <3>2. h2[i] = h[i] /\ h2[i - 1] = h[i - 1] /\ v[i] = w[i]
      BY <1>1, <1>4, <3>1
    <3>3. QED
      BY <1>2, <3>1, <3>2
  <2>3. QED
    BY <2>1, <2>2
<1>6. Carried(s, v, h2)
  BY <1>4, <1>5 DEF Carried
<1>7. h2[0] = h[0] /\ h2[Len(v)] = k
  BY <1>1, <1>4
<1>8. QED
  BY <1>6, <1>7 DEF v

LEMMA ChunkTaken ==
    ASSUME NEW s \in Seq(Message), NEW w \in Seq(Chunk), w # << >>, NEW h, Carried(s, w, h)
    PROVE  /\ \E h2 : /\ Carried(s, Tail(w), h2) /\ h2[0] = h[1]
                      /\ h2[Len(Tail(w))] = h[Len(w)]
           /\ h[1] \in 0 .. Len(s) /\ h[0] \in 0 .. Len(s)
           /\ IF Head(w).part = "header"
              THEN h[1] = h[0] + 1 /\ Head(w).data = HeaderOf(s[h[1]])
              ELSE h[1] = h[0] /\ Head(w).data = s[h[1]].body
<1> DEFINE v == Tail(w)
           h2 == [i \in 0 .. Len(v) |-> h[i + 1]]
<1>1. /\ Len(v) = Len(w) - 1 /\ Len(w) \in Nat /\ Len(w) >= 1 /\ w[1] = Head(w)
      /\ \A i \in 1 .. Len(w) - 1 : v[i] = w[i + 1]
  BY Shorter
<1>2. /\ h \in [0 .. Len(w) -> 0 .. Len(s)]
      /\ \A i \in 1 .. Len(w) :
            IF w[i].part = "header"
            THEN h[i] = h[i - 1] + 1 /\ w[i].data = HeaderOf(s[h[i]])
            ELSE h[i] = h[i - 1] /\ h[i] # 0 /\ w[i].data = s[h[i]].body
  BY DEF Carried
<1> HIDE DEF v
<1>3. \A i \in 0 .. Len(v) : i + 1 \in 0 .. Len(w) /\ h2[i] = h[i + 1]
  BY <1>1
<1>4. h2 \in [0 .. Len(v) -> 0 .. Len(s)]
  BY <1>2, <1>3
<1>5. 0 \in 0 .. Len(v) /\ Len(v) \in 0 .. Len(v) /\ Len(v) + 1 = Len(w) /\ 0 + 1 = 1
      /\ 1 \in 1 .. Len(w) /\ 1 \in 0 .. Len(w) /\ 0 \in 0 .. Len(w) /\ 1 - 1 = 0
  BY <1>1
<1>6. h2[0] = h[1] /\ h2[Len(v)] = h[Len(w)]
  BY <1>3, <1>5
<1> HIDE DEF h2
<1>7. ASSUME NEW i \in 1 .. Len(v)
      PROVE  IF v[i].part = "header"
             THEN h2[i] = h2[i - 1] + 1 /\ v[i].data = HeaderOf(s[h2[i]])
             ELSE h2[i] = h2[i - 1] /\ h2[i] # 0 /\ v[i].data = s[h2[i]].body
  <2>1. i \in 0 .. Len(v) /\ i - 1 \in 0 .. Len(v) /\ (i - 1) + 1 = i /\ i + 1 \in 1 .. Len(w)
        /\ (i + 1) - 1 = i /\ i \in 1 .. Len(w) - 1
    BY <1>1
  <2>2. h2[i] = h[i + 1] /\ h2[i - 1] = h[i] /\ v[i] = w[i + 1]
    BY <1>1, <1>3, <2>1
  <2>3. IF w[i + 1].part = "header"
        THEN h[i + 1] = h[i] + 1 /\ w[i + 1].data = HeaderOf(s[h[i + 1]])
        ELSE h[i + 1] = h[i] /\ h[i + 1] # 0 /\ w[i + 1].data = s[h[i + 1]].body
    BY <1>2, <2>1
  <2>4. QED
    BY <2>2, <2>3
<1>8. Carried(s, v, h2)
  BY <1>4, <1>7 DEF Carried
<1>9. h[1] \in 0 .. Len(s) /\ h[0] \in 0 .. Len(s)
  BY <1>2, <1>5
<1>10. IF Head(w).part = "header"
       THEN h[1] = h[0] + 1 /\ Head(w).data = HeaderOf(s[h[1]])
       ELSE h[1] = h[0] /\ Head(w).data = s[h[1]].body
  BY <1>1, <1>2, <1>5
<1>11. QED
  BY <1>6, <1>8, <1>9, <1>10 DEF v

-----------------------------------------------------------------------------
(* The steps, for the values of one direction.                             *)

LEMMA InOrderPost ==
    ASSUME NEW s \in Seq(Message), NEW p \in Seq(Message \cup {Bye}), NEW o \in Seq(Message),
           NEW w \in Seq(Chunk), NEW x, NEW isOpen, NEW r, NEW t, NEW inc \in Seq(Delivered),
           InOrder(s, p, o, w, x, isOpen, r, t, inc),
           NEW l \in Message \cup {Bye}, NEW s2, IF l = Bye THEN s2 = s ELSE s2 = Append(s, l)
    PROVE  InOrder(s2, Append(p, l), o, w, x, isOpen, r, t, inc)
<1>1. PICK b, g, h : /\ Sending(s, p, o, b, g) /\ Carried(s, w, h)
                     /\ WriterAt(w, x, isOpen, b, h) /\ ReaderAt(s, r, t, Len(inc), h)
  BY DEF InOrder
<1>2. Arrived(s, inc)
  BY DEF InOrder
<1>3. s2 \in Seq(Message)
  <2>1. CASE l = Bye
    BY <2>1
  <2>2. CASE l # Bye
    <3>1. l \in Message /\ s2 = Append(s, l)
      BY <2>2
    <3>2. Append(s, l) \in Seq(Message)
      BY <3>1, Longer
    <3>3. QED
      BY <3>1, <3>2
  <2>3. QED
    BY <2>1, <2>2
<1>4. PICK g2 : Sending(s2, Append(p, l), o, b, g2)
  BY <1>1, <1>3, PostedSending
<1>5. Carried(s2, w, h) /\ Arrived(s2, inc) /\ ReaderAt(s2, r, t, Len(inc), h)
  <2>1. CASE l = Bye
    BY <1>1, <1>2, <2>1
  <2>2. CASE l # Bye
    BY <1>1, <1>2, <2>2, GrownSent
  <2>3. QED
    BY <2>1, <2>2
<1>6. QED
  BY <1>1, <1>4, <1>5 DEF InOrder

LEMMA InOrderTake ==
    ASSUME NEW s \in Seq(Message), NEW p \in Seq(Message \cup {Bye}), p # << >>,
           NEW o \in Seq(Message), NEW w, NEW x, NEW isOpen, NEW r, NEW t, NEW inc,
           InOrder(s, p, o, w, x, isOpen, r, t, inc),
           NEW o2, IF Head(p) = Bye THEN o2 = o ELSE o2 = Append(o, Head(p))
    PROVE  InOrder(s, Tail(p), o2, w, x, isOpen, r, t, inc)
<1>1. PICK b, g, h : /\ Sending(s, p, o, b, g) /\ Carried(s, w, h)
                     /\ WriterAt(w, x, isOpen, b, h) /\ ReaderAt(s, r, t, Len(inc), h)
  BY DEF InOrder
<1>2. \E g2 : Sending(s, Tail(p), o2, b, g2)
  <2>1. CASE Head(p) = Bye
    BY <1>1, <2>1, ByeTaken
  <2>2. CASE Head(p) # Bye
    BY <1>1, <2>2, MessageTaken
  <2>3. QED
    BY <2>1, <2>2
<1>3. QED
  BY <1>1, <1>2 DEF InOrder

\* An operation starts, ends or fails, and no message begins or ends with it.
LEMMA InOrderSame ==
    ASSUME NEW s, NEW p, NEW o, NEW w, NEW x, NEW isOpen, NEW r, NEW t, NEW inc,
           InOrder(s, p, o, w, x, isOpen, r, t, inc),
           NEW x2, NEW isOpen2, NEW r2,
           Sends(x2, isOpen2) => Sends(x, isOpen) /\ (Begun(x2) <=> Begun(x)),
           Receives(r2) => Receives(r) /\ (Mid(r2) <=> Mid(r))
                           /\ (r2.part = "body" /\ r2.status = "ok"
                                => r.part = "body" /\ r.status = "ok")
    PROVE  InOrder(s, p, o, w, x2, isOpen2, r2, t, inc)
<1>1. PICK b, g, h : /\ Sending(s, p, o, b, g) /\ Carried(s, w, h)
                     /\ WriterAt(w, x, isOpen, b, h) /\ ReaderAt(s, r, t, Len(inc), h)
  BY DEF InOrder
<1>2. WriterAt(w, x2, isOpen2, b, h)
  BY <1>1 DEF WriterAt
<1>3. ReaderAt(s, r2, t, Len(inc), h)
  BY <1>1 DEF ReaderAt
<1>4. QED
  BY <1>1, <1>2, <1>3 DEF InOrder

LEMMA InOrderLeft ==
    ASSUME NEW s \in Seq(Message), NEW p, NEW o \in Seq(Message), o # << >>,
           NEW w, NEW x, NEW isOpen, NEW r, NEW t, NEW inc,
           InOrder(s, p, o, w, x, isOpen, r, t, inc), Sends(x, isOpen), Begun(x),
           NEW x2, Sends(x2, isOpen) => ~Begun(x2)
    PROVE  InOrder(s, p, Tail(o), w, x2, isOpen, r, t, inc)
<1>1. PICK b, g, h : /\ Sending(s, p, o, b, g) /\ Carried(s, w, h)
                     /\ WriterAt(w, x, isOpen, b, h) /\ ReaderAt(s, r, t, Len(inc), h)
  BY DEF InOrder
<1>2. Sending(s, p, Tail(o), b + 1, g)
  BY <1>1, FrontLeft
<1>3. WriterAt(w, x2, isOpen, b + 1, h)
  BY <1>1 DEF WriterAt
<1>4. QED
  BY <1>1, <1>2, <1>3 DEF InOrder

LEMMA InOrderPut ==
    ASSUME NEW s \in Seq(Message), NEW p \in Seq(Message \cup {Bye}), NEW o \in Seq(Message),
           o # << >>, NEW w \in Seq(Chunk), NEW x, NEW isOpen, NEW r, NEW t, NEW inc,
           InOrder(s, p, o, w, x, isOpen, r, t, inc), Sends(x, isOpen),
           NEW c \in Chunk, Begun(x) <=> c.part # "header",
           c.data = IF c.part = "header" THEN HeaderOf(Head(o)) ELSE Head(o).body,
           NEW x2, Begun(x2)
    PROVE  InOrder(s, p, o, Append(w, c), x2, isOpen, r, t, inc)
<1>1. PICK b, g, h : /\ Sending(s, p, o, b, g) /\ Carried(s, w, h)
                     /\ WriterAt(w, x, isOpen, b, h) /\ ReaderAt(s, r, t, Len(inc), h)
  BY DEF InOrder
<1>2. Head(o) = s[b + 1] /\ b + 1 \in 1 .. Len(s) /\ b \in Nat
  BY <1>1, FrontNumber
<1>3. h[Len(w)] = IF Begun(x) THEN b + 1 ELSE b
  BY <1>1 DEF WriterAt
<1>4. IF c.part = "header" THEN h[Len(w)] + 1 = b + 1 /\ c.data = HeaderOf(s[b + 1])
      ELSE h[Len(w)] = b + 1 /\ c.data = s[b + 1].body
  <2>1. CASE c.part = "header"
    <3>1. ~Begun(x)
      BY <2>1
    <3>2. h[Len(w)] = b
      BY <1>3, <3>1
    <3>3. c.data = HeaderOf(s[b + 1])
      BY <1>2, <2>1
    <3>4. QED
      BY <2>1, <3>2, <3>3
  <2>2. CASE c.part # "header"
    <3>1. Begun(x)
      BY <2>2
    <3>2. h[Len(w)] = b + 1
      BY <1>3, <3>1
    <3>3. c.data = s[b + 1].body
      BY <1>2, <2>2
    <3>4. QED
      BY <2>2, <3>2, <3>3
  <2>3. QED
    BY <2>1, <2>2
<1>5. PICK h2 : Carried(s, Append(w, c), h2) /\ h2[0] = h[0] /\ h2[Len(Append(w, c))] = b + 1
  <2>1. Carried(s, w, h)
    BY <1>1
  <2>2. PICK k \in 1 .. Len(s) : k = b + 1
    BY <1>2
  <2>3. IF c.part = "header" THEN h[Len(w)] + 1 = k /\ c.data = HeaderOf(s[k])
        ELSE h[Len(w)] = k /\ c.data = s[k].body
    BY <1>4, <2>2
  <2>4. \E h2 : Carried(s, Append(w, c), h2) /\ h2[0] = h[0] /\ h2[Len(Append(w, c))] = k
    BY <2>1, <2>3, ChunkPut
  <2>5. QED
    BY <2>2, <2>4
<1>6. WriterAt(Append(w, c), x2, isOpen, b, h2)
  <2>1. (IF Begun(x2) THEN b + 1 ELSE b) = b + 1
    OBVIOUS
  <2>2. QED
    BY <1>5, <2>1 DEF WriterAt
<1>7. ReaderAt(s, r, t, Len(inc), h2)
  BY <1>1, <1>5 DEF ReaderAt
<1>8. QED
  BY <1>1, <1>5, <1>6, <1>7 DEF InOrder

LEMMA InOrderGot ==
    ASSUME NEW s \in Seq(Message), NEW p, NEW o, NEW w \in Seq(Chunk), w # << >>,
           NEW x, NEW isOpen, NEW r, NEW t, NEW inc \in Seq(Delivered),
           InOrder(s, p, o, w, x, isOpen, r, t, inc), Receives(r), r.status = "pending",
           r.part \in {"header", "body"}, Head(w).part = r.part,
           NEW r2, r2.part = r.part, r2.status = "ok", NEW t2,
           IF r.part = "header" THEN t2.header = Head(w).data
           ELSE t2.header = t.header /\ t2.body = Head(w).data
    PROVE  InOrder(s, p, o, Tail(w), x, isOpen, r2, t2, inc)
<1>1. PICK b, g, h : /\ Sending(s, p, o, b, g) /\ Carried(s, w, h)
                     /\ WriterAt(w, x, isOpen, b, h) /\ ReaderAt(s, r, t, Len(inc), h)
  BY DEF InOrder
<1>2. PICK h2 : Carried(s, Tail(w), h2) /\ h2[0] = h[1] /\ h2[Len(Tail(w))] = h[Len(w)]
  BY <1>1, ChunkTaken
<1>3. IF r.part = "header" THEN h[1] = h[0] + 1 /\ Head(w).data = HeaderOf(s[h[1]])
      ELSE h[1] = h[0] /\ Head(w).data = s[h[1]].body
  BY <1>1, ChunkTaken
<1>4. WriterAt(Tail(w), x, isOpen, b, h2)
  BY <1>1, <1>2 DEF WriterAt
<1>5. ReaderAt(s, r2, t2, Len(inc), h2)
  <2>1. CASE r.part = "header"
    <3>1. h[0] = Len(inc) /\ h[1] = Len(inc) + 1
      BY <1>1, <1>3, <2>1 DEF ReaderAt, Mid
    <3>2. QED
      BY <1>2, <1>3, <2>1, <3>1 DEF ReaderAt, Mid
  <2>2. CASE r.part = "body"
    <3>1. h[0] = Len(inc) + 1 /\ h[1] = Len(inc) + 1 /\ t.header = HeaderOf(s[Len(inc) + 1])
      BY <1>1, <1>3, <2>2 DEF ReaderAt, Mid
    <3>2. QED
      BY <1>2, <1>3, <2>2, <3>1 DEF ReaderAt, Mid
  <2>3. QED
    BY <2>1, <2>2
<1>6. QED
  BY <1>1, <1>2, <1>4, <1>5 DEF InOrder

LEMMA InOrderRead ==
    ASSUME NEW s \in Seq(Message), NEW p, NEW o, NEW w \in Seq(Chunk), NEW x, NEW isOpen,
           NEW r, NEW t \in Delivered, NEW inc \in Seq(Delivered),
           InOrder(s, p, o, w, x, isOpen, r, t, inc), r.status = "ok",
           r.part = "body" \/ (r.part = "header" /\ t.header.size = 0),
           NEW r2, Receives(r2) => ~Mid(r2)
    PROVE  InOrder(s, p, o, w, x, isOpen, r2, t, Append(inc, t))
<1> DEFINE inc2 == Append(inc, t)
<1>1. PICK b, g, h : /\ Sending(s, p, o, b, g) /\ Carried(s, w, h)
                     /\ WriterAt(w, x, isOpen, b, h) /\ ReaderAt(s, r, t, Len(inc), h)
  BY DEF InOrder
<1>2. /\ Len(inc2) = Len(inc) + 1 /\ Len(inc) \in Nat /\ inc2[Len(inc) + 1] = t
      /\ \A i \in 1 .. Len(inc) : inc2[i] = inc[i]
  BY Longer
<1>3. Len(s) \in Nat /\ Len(w) \in Nat
  OBVIOUS
<1> HIDE DEF inc2
<1>4. Receives(r) /\ Mid(r)
  BY DEF Receives, Mid
<1>5. /\ h[0] = Len(inc) + 1 /\ t.header = HeaderOf(s[Len(inc) + 1])
      /\ r.part = "body" => t.body = s[Len(inc) + 1].body
  BY <1>1, <1>4 DEF ReaderAt
<1>6. h[0] \in 0 .. Len(s)
  BY <1>1, <1>3 DEF Carried
<1>7. Arrived(s, inc2)
  <2>1. Arrived(s, inc)
    BY DEF InOrder
  <2>2. Len(inc2) <= Len(s)
    BY <1>2, <1>3, <1>5, <1>6
  <2>3. ASSUME NEW i \in 1 .. Len(inc2)
        PROVE  inc2[i].header = HeaderOf(s[i])
               /\ (inc2[i].header.size # 0 => inc2[i].body = s[i].body)
    <3>1. CASE i = Len(inc) + 1
      BY <1>2, <1>5, <3>1
    <3>2. CASE i # Len(inc) + 1
      <4>1. i \in 1 .. Len(inc)
        BY <1>2, <3>2
      <4>2. QED
        BY <1>2, <2>1, <4>1 DEF Arrived
    <3>3. QED
      BY <3>1, <3>2
  <2>4. QED
    BY <2>2, <2>3 DEF Arrived
<1>8. ReaderAt(s, r2, t, Len(inc2), h)
  BY <1>2, <1>5 DEF ReaderAt, Mid
<1>9. InOrder(s, p, o, w, x, isOpen, r2, t, inc2)
  BY <1>1, <1>7, <1>8 DEF InOrder
<1>10. QED
  BY <1>9 DEF inc2

\* What Received makes of it.
LEMMA ArrivedIsPrefix ==
    ASSUME NEW s \in Seq(Message), NEW inc \in Seq(Delivered), Arrived(s, inc)
    PROVE  /\ Len(inc) <= Len(s)
           /\ [i \in DOMAIN inc |->
                [type |-> inc[i].header.type,
                 body |-> IF inc[i].header.size = 0 THEN NoBytes ELSE inc[i].body]]
              = [i \in 1 .. Len(inc) |-> s[i]]
<1>1. Len(inc) \in Nat /\ Len(s) \in Nat /\ DOMAIN inc = 1 .. Len(inc) /\ Len(inc) <= Len(s)
  BY DEF Arrived
<1>2. ASSUME NEW i \in 1 .. Len(inc)
      PROVE  [type |-> inc[i].header.type,
              body |-> IF inc[i].header.size = 0 THEN NoBytes ELSE inc[i].body] = s[i]
  <2>1. i \in 1 .. Len(s)
    BY <1>1
  <2>2. s[i] \in Message
    BY <2>1
  <2>3. inc[i].header = HeaderOf(s[i]) /\ (inc[i].header.size # 0 => inc[i].body = s[i].body)
    BY DEF Arrived
  <2>4. inc[i].header.type = s[i].type
        /\ inc[i].header.size = (IF s[i].body = NoBytes THEN 0 ELSE 1)
    BY <2>2, <2>3, HeaderIn
  <2>5. s[i] = [type |-> s[i].type, body |-> s[i].body]
    BY <2>2 DEF Message
  <2>6. (IF inc[i].header.size = 0 THEN NoBytes ELSE inc[i].body) = s[i].body
    BY <2>3, <2>4
  <2>7. QED
    BY <2>4, <2>5, <2>6
<1>3. QED
  BY <1>1, <1>2

-----------------------------------------------------------------------------
(* The steps of Connection.                                                *)

FifoInv == ConnInv /\ \A d \in Ends : Fifo(d)

LEMMA Values ==
    ASSUME ConnInv, NEW d \in Ends
    PROVE  /\ sent[d] \in Seq(Message) /\ posted[d] \in Seq(Message \cup {Bye})
           /\ out[d] \in Seq(Message) /\ wire[d] \in Seq(Chunk) /\ writes[d] \in Seq(Op)
           /\ read[d] \in ReadOp /\ tmp[d] \in Delivered /\ incoming[d] \in Seq(Delivered)
           /\ Peer(d) \in Ends /\ Peer(d) # d /\ Peer(Peer(d)) = d
BY PeerFacts DEF ConnInv, Base, QueuesOK, WireOK, WritesOK, ReadOK, TmpOK, ReadOp

BodyTaken(r) == r.part = "body" /\ r.status = "ok"

SameWriter(d) ==
    Sends(writes[d], open[d])' =>
        Sends(writes[d], open[d]) /\ (Begun(writes[d])' <=> Begun(writes[d]))
SameReader(d) ==
    Receives(read[d])' =>
        /\ Receives(read[d]) /\ (Mid(read[d])' <=> Mid(read[d]))
        /\ (BodyTaken(read[d])' => BodyTaken(read[d]))

\* Neither end of a direction begins or ends a message.
LEMMA FifoSame ==
    ASSUME NEW d \in Ends, Fifo(d), sent'[d] = sent[d], posted'[d] = posted[d], out'[d] = out[d],
           wire'[d] = wire[d], tmp'[Peer(d)] = tmp[Peer(d)],
           incoming'[Peer(d)] = incoming[Peer(d)], SameWriter(d), SameReader(Peer(d))
    PROVE  Fifo(d)'
<1>1. Sends(writes'[d], open'[d]) =>
        Sends(writes[d], open[d]) /\ (Begun(writes'[d]) <=> Begun(writes[d]))
  BY DEF SameWriter
<1>2. Receives(read'[Peer(d)]) =>
        /\ Receives(read[Peer(d)]) /\ (Mid(read'[Peer(d)]) <=> Mid(read[Peer(d)]))
        /\ (read'[Peer(d)].part = "body" /\ read'[Peer(d)].status = "ok"
              => read[Peer(d)].part = "body" /\ read[Peer(d)].status = "ok")
  BY DEF SameReader, BodyTaken
<1>3. InOrder(sent[d], posted[d], out[d], wire[d], writes[d], open[d],
              read[Peer(d)], tmp[Peer(d)], incoming[Peer(d)])
  BY DEF Fifo
<1>4. InOrder(sent[d], posted[d], out[d], wire[d], writes'[d], open'[d],
              read'[Peer(d)], tmp[Peer(d)], incoming[Peer(d)])
  BY <1>1, <1>2, <1>3, InOrderSame
<1>5. QED
  BY <1>4 DEF Fifo

LEMMA SameHalves ==
    /\ \A d \in Ends : writes'[d] = writes[d] /\ (open'[d] => open[d]) => SameWriter(d)
    /\ \A d \in Ends : read'[d] = read[d] => SameReader(d)
BY DEF SameWriter, SameReader, Sends

\* Issued reads and writes; failures.
LEMMA Issued == \A e \in Ends : 
    /\ Receives(Issue(e, "header")) => ~Mid(Issue(e, "header")) /\ ~BodyTaken(Issue(e, "header"))
    /\ Receives(Issue(e, "body")) => Mid(Issue(e, "body")) /\ ~BodyTaken(Issue(e, "body"))
    /\ ~Mid(Idle) /\ Receives(Idle)
BY DEF Issue, Receives, Mid, BodyTaken, Idle

LEMMA FailedHalves ==
    /\ \A d \in Ends : read'[d].status = "error" \/ read'[d].part = "ended" => SameReader(d)
    /\ \A d \in Ends : writes'[d] # << >> /\ Head(writes'[d]).status = "error" => SameWriter(d)
BY DEF SameWriter, SameReader, Sends, Receives

LEMMA OutsideFifo ==
    FifoInv /\ (Refused \/ LinkFails \/ AcceptThrows) => \A d \in Ends : Fifo(d)'
<1> SUFFICES ASSUME FifoInv, Refused \/ LinkFails \/ AcceptThrows, NEW d \in Ends
             PROVE  Fifo(d)'
  OBVIOUS
<1>1. UNCHANGED <<posted, out, writes, wire, read, tmp, incoming, sent>>
  BY DEF Refused, LinkFails, AcceptThrows, Die
<1>2. \A c \in Ends : open'[c] => open[c]
  BY DEF Refused, LinkFails, AcceptThrows, Die, FifoInv, ConnInv, Base, NetOK
<1>3. Peer(d) \in Ends
  BY PeerFacts
<1>4. SameWriter(d) /\ SameReader(Peer(d))
  BY <1>1, <1>2, <1>3, SameHalves
<1>5. QED
  BY <1>1, <1>4, FifoSame DEF FifoInv

LEMMA StartFifo == FifoInv /\ (Established \/ Accept) => \A d \in Ends : Fifo(d)'
<1> SUFFICES ASSUME FifoInv, Established \/ Accept, NEW d \in Ends PROVE Fifo(d)'
  OBVIOUS
<1>1. PICK e \in Ends : read[e] = Idle /\ read' = [read EXCEPT ![e] = Issue(e, "header")]
  <2>1. CASE Established
    BY <2>1 DEF Established, FifoInv, ConnInv, Quiet, Ends
  <2>2. CASE Accept
    BY <2>2 DEF Accept, Ends
  <2>3. QED
    BY <2>1, <2>2
<1>2. UNCHANGED <<open, posted, out, writes, wire, tmp, incoming, sent>>
  BY DEF Established, Accept
<1>3. Peer(d) \in Ends /\ ReadOK
  BY PeerFacts DEF FifoInv, ConnInv, Base
<1>4. read'[Peer(d)] = IF Peer(d) = e THEN Issue(e, "header") ELSE read[Peer(d)]
  BY <1>1, <1>3 DEF ReadOK
<1>5. SameReader(Peer(d))
  <2>1. CASE Peer(d) = e
    BY <1>1, <1>4, <2>1, Issued DEF SameReader
  <2>2. CASE Peer(d) # e
    BY <1>3, <1>4, <2>2, SameHalves
  <2>3. QED
    BY <2>1, <2>2
<1>6. SameWriter(d)
  BY <1>2, SameHalves
<1>7. QED
  BY <1>2, <1>5, <1>6, FifoSame DEF FifoInv

\* Steps that only replace one end's read.
LEMMA ReadFifo ==
    ASSUME FifoInv, NEW e \in Ends, UNCHANGED <<open, posted, out, writes, wire, tmp, incoming, sent>>,
           NEW r, read' = [read EXCEPT ![e] = r], SameReader(e)
    PROVE  \A d \in Ends : Fifo(d)'
<1> SUFFICES ASSUME NEW d \in Ends PROVE Fifo(d)'
  OBVIOUS
<1>1. Peer(d) \in Ends /\ ReadOK
  BY PeerFacts DEF FifoInv, ConnInv, Base
<1>2. SameReader(Peer(d))
  <2>1. CASE Peer(d) = e
    BY <2>1
  <2>2. CASE Peer(d) # e
    <3>1. read'[Peer(d)] = read[Peer(d)]
      BY <1>1, <2>2 DEF ReadOK
    <3>2. QED
      BY <1>1, <3>1, SameHalves
  <2>3. QED
    BY <2>1, <2>2
<1>3. SameWriter(d)
  BY SameHalves
<1>4. QED
  BY <1>2, <1>3, FifoSame DEF FifoInv

LEMMA ReadErrorFifo == \A e \in Ends :
    FifoInv /\ (EndOfFile(e) \/ ReadReset(e)) => \A d \in Ends : Fifo(d)'
<1> SUFFICES ASSUME NEW e \in Ends, FifoInv, EndOfFile(e) \/ ReadReset(e)
             PROVE  \A d \in Ends : Fifo(d)'
  OBVIOUS
<1> DEFINE r == [read[e] EXCEPT !.status = "error"]
<1>1. /\ UNCHANGED <<open, posted, out, writes, wire, tmp, incoming, sent>>
      /\ read' = [read EXCEPT ![e] = r]
  BY DEF EndOfFile, ReadReset
<1>2. read[e] \in ReadOp /\ ReadOK
  BY Values DEF FifoInv, ConnInv, Base
<1>3. r.status = "error" /\ read'[e] = r
  BY <1>1, <1>2 DEF ReadOp, ReadOK
<1> HIDE DEF r
<1>4. SameReader(e)
  BY <1>3, FailedHalves
<1>5. QED
  BY <1>1, <1>4, ReadFifo

LEMMA HeaderReadFifo == \A e \in Ends : FifoInv /\ HeaderRead(e) => \A d \in Ends : Fifo(d)'
<1> SUFFICES ASSUME NEW e \in Ends, FifoInv, HeaderRead(e) PROVE \A d \in Ends : Fifo(d)'
  OBVIOUS
<1>1. /\ UNCHANGED <<open, posted, out, writes, wire, tmp, incoming, sent>>
      /\ read' = [read EXCEPT ![e] = Issue(e, "body")]
      /\ read[e] = [part |-> "header", status |-> "ok"]
  BY DEF HeaderRead, Reading
<1>2. ReadOK
  BY DEF FifoInv, ConnInv, Base
<1>3. read'[e] = Issue(e, "body")
  BY <1>1, <1>2 DEF ReadOK
<1>4. Mid(read[e]) /\ Receives(read[e])
  BY <1>1 DEF Mid, Receives
<1>5. SameReader(e)
  BY <1>3, <1>4, Issued DEF SameReader
<1>6. QED
  BY <1>1, <1>5, ReadFifo

\* close(): only what has been completed goes on.
LEMMA CloseHalves ==
    ASSUME ConnInv, NEW e \in Ends, NEW r \in ReadOp, r = read[e] \/ r.part = "ended",
           NEW w \in Seq(Op), w = writes[e] \/ w = << >>, CloseWith(e, r, w)
    PROVE  \A d \in Ends : SameWriter(d) /\ SameReader(d)
<1> DEFINE X == [i \in DOMAIN w |-> Abort(w[i])]
<1>1. NetOK /\ WritesOK /\ ReadOK
  BY DEF ConnInv, Base
<1>2. \A d \in Ends : /\ writes'[d] = IF d = e THEN X ELSE writes[d]
                      /\ open'[d] = IF d = e THEN FALSE ELSE open[d]
                      /\ read'[d] = IF d = e THEN Abort(r) ELSE read[d]
  BY <1>1 DEF CloseWith, WritesOK, NetOK, ReadOK
<1>3. X \in Seq(Op) /\ Len(X) = Len(w) /\ Len(w) \in Nat
  BY AbortSeq
<1>4. ASSUME Sends(X, FALSE)
      PROVE  Sends(writes[e], open[e]) /\ (Begun(X) <=> Begun(writes[e]))
  <2>1. X # << >>
    BY <1>4 DEF Sends
  <2>2. w # << >>
    BY <1>3, <2>1
  <2>3. w = writes[e] /\ Head(w) \in Op /\ w[1] = Head(w) /\ 1 \in DOMAIN w
    BY <2>2, HeadTail
  <2>4. Head(X) = Abort(Head(w))
    <3>1. X[1] = Abort(w[1])
      BY <2>3
    <3>2. Head(X) = X[1]
      BY <1>3, <2>1, HeadTail
    <3>3. QED
      BY <2>3, <3>1, <3>2
  <2> HIDE DEF X
  <2>5. Abort(Head(w)).status # "error"
    BY <1>4, <2>1, <2>4 DEF Sends
  <2>6. Abort(Head(w)) = Head(w)
    BY <2>3, <2>5, AbortIs
  <2>7. QED
    BY <2>1, <2>2, <2>3, <2>4, <2>5, <2>6 DEF Sends, Begun
<1> HIDE DEF X
<1>5. SameWriter(e)
  BY <1>2, <1>4 DEF SameWriter
<1>6. SameReader(e)
  <2>1. CASE r.status = "pending"
    <3>1. Abort(r).status = "error"
      BY <2>1 DEF Abort, ReadOp, Status
    <3>2. QED
      BY <1>2, <3>1, FailedHalves
  <2>2. CASE r.status # "pending"
    <3>1. Abort(r) = r
      BY <2>2, AbortIs
    <3>2. CASE r = read[e]
      BY <1>2, <3>1, <3>2, SameHalves
    <3>3. CASE r.part = "ended"
      BY <1>2, <3>1, <3>3, FailedHalves
    <3>4. QED
      BY <3>2, <3>3
  <2>3. QED
    BY <2>1, <2>2
<1>7. ASSUME NEW d \in Ends, d # e PROVE SameWriter(d) /\ SameReader(d)
  BY <1>2, <1>7, SameHalves
<1>8. QED
  BY <1>5, <1>6, <1>7

LEMMA FailedFifo == \A e \in Ends :
    FifoInv /\ (ReadFailed(e) \/ WriteFailed(e)) => \A d \in Ends : Fifo(d)'
<1> SUFFICES ASSUME NEW e \in Ends, FifoInv, ReadFailed(e) \/ WriteFailed(e), NEW d \in Ends
             PROVE  Fifo(d)'
  OBVIOUS
<1>1. ConnInv /\ Base /\ read[e] \in ReadOp /\ writes[e] \in Seq(Op) /\ << >> \in Seq(Op)
  BY Values, EmptyWrites DEF FifoInv, ConnInv
<1>2. UNCHANGED <<posted, out, wire, tmp, incoming, sent>>
  BY DEF ReadFailed, WriteFailed
<1>3. \A c \in Ends : SameWriter(c) /\ SameReader(c)
  <2>1. CASE ReadFailed(e)
    <3> DEFINE r == [part |-> "ended", status |-> "ok"]
    <3>1. r \in ReadOp /\ r.part = "ended" /\ CloseWith(e, r, writes[e])
      BY <2>1 DEF ReadFailed, ReadOp, Status
    <3> HIDE DEF r
    <3>2. QED
      BY <1>1, <3>1, CloseHalves
  <2>2. CASE WriteFailed(e)
    <3>1. Tail(writes[e]) = << >>
      BY <1>1, <2>2, OneOp DEF WriteFailed
    <3>2. CloseWith(e, read[e], << >>)
      BY <2>2, <3>1 DEF WriteFailed
    <3>3. QED
      BY <1>1, <3>2, CloseHalves
  <2>3. QED
    BY <2>1, <2>2
<1>4. Peer(d) \in Ends
  BY PeerFacts
<1>5. QED
  BY <1>2, <1>3, <1>4, FifoSame DEF FifoInv

\* The lambda of Disconnect.
LEMMA DisconnectFifo == \A e \in Ends : FifoInv /\ RunDisconnect(e) => \A d \in Ends : Fifo(d)'
<1> SUFFICES ASSUME NEW e \in Ends, FifoInv, RunDisconnect(e), NEW d \in Ends PROVE Fifo(d)'
  OBVIOUS
<1>1. /\ ConnInv /\ NetOK /\ QueuesOK /\ read[e] \in ReadOp /\ writes[e] \in Seq(Op)
      /\ Peer(d) \in Ends /\ posted[d] \in Seq(Message \cup {Bye})
      /\ sent[d] \in Seq(Message) /\ out[d] \in Seq(Message)
  BY Values DEF FifoInv, ConnInv, Base
<1>2. /\ UNCHANGED <<out, wire, tmp, incoming, sent>>
      /\ posted[e] # << >> /\ Head(posted[e]) = Bye
      /\ posted' = [posted EXCEPT ![e] = Tail(@)]
  BY DEF RunDisconnect, Die
<1>3. \A c \in Ends : SameWriter(c) /\ SameReader(c)
  <2>1. CASE CloseWith(e, read[e], writes[e])
    BY <1>1, <2>1, CloseHalves
  <2>2. CASE Die(e)
    <3>1. UNCHANGED <<writes, read>> /\ \A c \in Ends : open'[c] => open[c]
      BY <1>1, <2>2 DEF Die, NetOK
    <3>2. QED
      BY <3>1, SameHalves
  <2>3. QED
    BY <2>1, <2>2 DEF RunDisconnect
<1>4. CASE d = e
  <2>1. InOrder(sent[d], posted[d], out[d], wire[d], writes[d], open[d],
                read[Peer(d)], tmp[Peer(d)], incoming[Peer(d)])
    BY DEF FifoInv, Fifo
  <2>2. InOrder(sent[d], Tail(posted[d]), out[d], wire[d], writes[d], open[d],
                read[Peer(d)], tmp[Peer(d)], incoming[Peer(d)])
    <3>1. posted[d] # << >> /\ Head(posted[d]) = Bye
      BY <1>2, <1>4
    <3>2. IF Head(posted[d]) = Bye THEN out[d] = out[d]
          ELSE out[d] = Append(out[d], Head(posted[d]))
      BY <3>1
    <3>3. QED
      BY <1>1, <2>1, <3>1, <3>2, InOrderTake
  <2>3. posted'[d] = Tail(posted[d])
    BY <1>1, <1>2, <1>4 DEF QueuesOK
  <2>4. Sends(writes'[d], open'[d]) =>
            Sends(writes[d], open[d]) /\ (Begun(writes'[d]) <=> Begun(writes[d]))
    BY <1>3 DEF SameWriter
  <2>5. Receives(read'[Peer(d)]) =>
          /\ Receives(read[Peer(d)]) /\ (Mid(read'[Peer(d)]) <=> Mid(read[Peer(d)]))
          /\ (read'[Peer(d)].part = "body" /\ read'[Peer(d)].status = "ok"
                => read[Peer(d)].part = "body" /\ read[Peer(d)].status = "ok")
    BY <1>1, <1>3 DEF SameReader, BodyTaken
  <2>6. InOrder(sent[d], Tail(posted[d]), out[d], wire[d], writes'[d], open'[d],
                read'[Peer(d)], tmp[Peer(d)], incoming[Peer(d)])
    BY <2>2, <2>4, <2>5, InOrderSame
  <2>7. QED
    BY <1>2, <2>3, <2>6 DEF Fifo
<1>5. CASE d # e
  <2>1. posted'[d] = posted[d]
    BY <1>1, <1>2, <1>5 DEF QueuesOK
  <2>2. QED
    BY <1>1, <1>2, <1>3, <2>1, FifoSame DEF FifoInv
<1>6. QED
  BY <1>4, <1>5

\* Send and Disconnect.
LEMMA AppFifo == \A e \in Ends : FifoInv /\ App(e) => \A d \in Ends : Fifo(d)'
<1> SUFFICES ASSUME NEW e \in Ends, FifoInv, App(e), NEW d \in Ends PROVE Fifo(d)'
  OBVIOUS
<1>1. /\ ConnInv /\ NetOK /\ QueuesOK /\ Peer(d) \in Ends
      /\ posted[d] \in Seq(Message \cup {Bye}) /\ sent[d] \in Seq(Message)
      /\ out[d] \in Seq(Message) /\ wire[d] \in Seq(Chunk)
      /\ incoming[Peer(d)] \in Seq(Delivered)
  BY Values DEF FifoInv, ConnInv, Base
<1>2. UNCHANGED <<open, out, writes, wire, read, tmp, incoming>>
  BY DEF App, Send, Disconnect
<1>3. PICK l \in Message \cup {Bye} :
        /\ posted' = [posted EXCEPT ![e] = Append(@, l)]
        /\ IF l = Bye THEN sent' = sent ELSE sent' = [sent EXCEPT ![e] = Append(@, l)]
  <2>1. CASE Disconnect(e)
    BY <2>1 DEF Disconnect
  <2>2. ASSUME NEW m \in Message, Send(e, m)
        PROVE  \E l \in Message \cup {Bye} :
                /\ posted' = [posted EXCEPT ![e] = Append(@, l)]
                /\ IF l = Bye THEN sent' = sent ELSE sent' = [sent EXCEPT ![e] = Append(@, l)]
    <3>1. m # Bye
      BY EndsAssumption DEF EndsAssumption
    <3>2. QED
      BY <2>2, <3>1 DEF Send
  <2>3. QED
    BY <2>1, <2>2 DEF App
<1>4. CASE d = e
  <2>1. posted'[d] = Append(posted[d], l)
    BY <1>1, <1>3, <1>4 DEF QueuesOK
  <2>2. IF l = Bye THEN sent'[d] = sent[d] ELSE sent'[d] = Append(sent[d], l)
    BY <1>1, <1>3, <1>4 DEF QueuesOK
  <2>3. InOrder(sent[d], posted[d], out[d], wire[d], writes[d], open[d],
                read[Peer(d)], tmp[Peer(d)], incoming[Peer(d)])
    BY DEF FifoInv, Fifo
  <2>4. InOrder(sent'[d], Append(posted[d], l), out[d], wire[d], writes[d], open[d],
                read[Peer(d)], tmp[Peer(d)], incoming[Peer(d)])
    BY <1>1, <2>2, <2>3, InOrderPost
  <2>5. QED
    BY <1>2, <2>1, <2>4 DEF Fifo
<1>5. CASE d # e
  <2>1. posted'[d] = posted[d] /\ sent'[d] = sent[d]
    BY <1>1, <1>3, <1>5 DEF QueuesOK
  <2>2. SameWriter(d) /\ SameReader(Peer(d))
    BY <1>1, <1>2, SameHalves
  <2>3. QED
    BY <1>2, <2>1, <2>2, FifoSame DEF FifoInv
<1>6. QED
  BY <1>4, <1>5

Elsewhere(d) ==
    posted'[d] = posted[d] /\ out'[d] = out[d] /\ writes'[d] = writes[d] /\ wire'[d] = wire[d]

\* Steps of a writer; the other direction sees nothing of them.
LEMMA WriterFifo ==
    ASSUME FifoInv, NEW e \in Ends, Fifo(e)',
           UNCHANGED <<open, read, tmp, incoming, sent>>,
           \A d \in Ends \ {e} : Elsewhere(d)
    PROVE  \A d \in Ends : Fifo(d)'
<1>1. ASSUME NEW d \in Ends, d # e PROVE Fifo(d)'
  <2>1. Peer(d) \in Ends
    BY PeerFacts
  <2>2. posted'[d] = posted[d] /\ out'[d] = out[d] /\ writes'[d] = writes[d] /\ wire'[d] = wire[d]
    BY <1>1 DEF Elsewhere
  <2>3. SameWriter(d) /\ SameReader(Peer(d))
    BY <2>1, <2>2, SameHalves
  <2>4. QED
    BY <2>2, <2>3, FifoSame DEF FifoInv
<1>2. QED
  BY <1>1

LEMMA Domains ==
    ASSUME ConnInv
    PROVE  /\ DOMAIN posted = Ends /\ DOMAIN out = Ends /\ DOMAIN writes = Ends /\ DOMAIN wire = Ends
BY DEF ConnInv, Base, QueuesOK, WritesOK, WireOK

LEMMA RunSendFifo == \A e \in Ends : FifoInv /\ RunSend(e) => \A d \in Ends : Fifo(d)'
<1> SUFFICES ASSUME NEW e \in Ends, FifoInv, RunSend(e) PROVE \A d \in Ends : Fifo(d)'
  OBVIOUS
<1> DEFINE P == Tail(posted[e])
           Y == Append(out[e], Head(posted[e]))
           X == IF out[e] = << >> THEN <<Issue(e, "header")>> ELSE writes[e]
<1>1. /\ ConnInv /\ OneWriter /\ posted[e] \in Seq(Message \cup {Bye}) /\ sent[e] \in Seq(Message)
      /\ out[e] \in Seq(Message)
  BY Values DEF FifoInv, ConnInv, Base
<1>2. /\ UNCHANGED <<open, wire, read, tmp, incoming, sent>>
      /\ posted[e] # << >> /\ Head(posted[e]) # Bye
      /\ posted' = [posted EXCEPT ![e] = P] /\ out' = [out EXCEPT ![e] = Y]
      /\ writes' = [writes EXCEPT ![e] =
            IF out[e] = << >> THEN Append(@, Issue(e, "header")) ELSE @]
  BY DEF RunSend
<1>3. Issue(e, "header") \in Op /\ Issue(e, "header").part = "header"
      /\ Issue(e, "header").status = IF open[e] THEN "pending" ELSE "error"
  BY IssueIn
<1>4. out[e] = << >> => writes[e] = << >>
  BY <1>1 DEF OneWriter
<1>5. writes' = [writes EXCEPT ![e] = X]
  <2>1. Append(<< >>, Issue(e, "header")) = <<Issue(e, "header")>>
    BY <1>3, Single
  <2>2. QED
    BY <1>2, <1>4, <2>1
<1>6. Sends(X, open[e]) => Sends(writes[e], open[e]) /\ (Begun(X) <=> Begun(writes[e]))
  <2>1. CASE out[e] = << >>
    <3>1. X # << >> /\ Head(X) = Issue(e, "header") /\ writes[e] = << >>
      BY <1>3, <1>4, <2>1, Single
    <3> HIDE DEF X
    <3>2. QED
      BY <1>3, <3>1 DEF Sends, Begun
  <2>2. CASE out[e] # << >>
    BY <2>2
  <2>3. QED
    BY <2>1, <2>2
<1> HIDE DEF X
<1>7. InOrder(sent[e], posted[e], out[e], wire[e], writes[e], open[e],
              read[Peer(e)], tmp[Peer(e)], incoming[Peer(e)])
  BY DEF FifoInv, Fifo
<1>8. InOrder(sent[e], P, Y, wire[e], writes[e], open[e],
              read[Peer(e)], tmp[Peer(e)], incoming[Peer(e)])
  <2>1. IF Head(posted[e]) = Bye THEN Y = out[e] ELSE Y = Append(out[e], Head(posted[e]))
    BY <1>2
  <2> HIDE DEF Y
  <2>2. QED
    BY <1>1, <1>2, <1>7, <2>1, InOrderTake
<1> HIDE DEF P, Y
<1>9. InOrder(sent[e], P, Y, wire[e], X, open[e],
              read[Peer(e)], tmp[Peer(e)], incoming[Peer(e)])
  BY <1>6, <1>8, InOrderSame
<1>10. posted'[e] = P /\ out'[e] = Y /\ writes'[e] = X
  BY <1>1, <1>2, <1>5, Domains
<1>11. Fifo(e)'
  BY <1>2, <1>9, <1>10 DEF Fifo
<1>12. \A d \in Ends \ {e} : Elsewhere(d)
  BY <1>1, <1>2, <1>5, Domains DEF Elsewhere
<1>13. QED
  BY <1>2, <1>11, <1>12, WriterFifo

LEMMA HeaderWrittenFifo == \A e \in Ends : FifoInv /\ HeaderWritten(e) => \A d \in Ends : Fifo(d)'
<1> SUFFICES ASSUME NEW e \in Ends, FifoInv, HeaderWritten(e) PROVE \A d \in Ends : Fifo(d)'
  OBVIOUS
<1> DEFINE X == <<Issue(e, "body")>>
<1>1. ConnInv /\ Base /\ Peer(e) \in Ends
  BY PeerFacts DEF FifoInv, ConnInv
<1>2. /\ UNCHANGED <<open, posted, out, wire, read, tmp, incoming, sent>>
      /\ writes[e] # << >> /\ Head(writes[e]).part = "header" /\ Head(writes[e]).status = "ok"
      /\ writes' = [writes EXCEPT ![e] = Append(Tail(@), Issue(e, "body"))]
  BY DEF HeaderWritten
<1>3. Issue(e, "body") \in Op /\ Issue(e, "body").part = "body"
  BY IssueIn
<1>4. writes' = [writes EXCEPT ![e] = X]
  BY <1>1, <1>2, <1>3, OneOp, Single
<1>5. X # << >> /\ Head(X) = Issue(e, "body")
  BY <1>3, Single
<1> HIDE DEF X
<1>6. writes'[e] = X
  BY <1>1, <1>4, Domains
<1>7. SameWriter(e)
  BY <1>2, <1>3, <1>5, <1>6 DEF SameWriter, Sends, Begun
<1>8. SameReader(Peer(e))
  BY <1>1, <1>2, SameHalves
<1>9. Fifo(e)'
  BY <1>2, <1>7, <1>8, FifoSame DEF FifoInv
<1>10. \A d \in Ends \ {e} : Elsewhere(d)
  BY <1>1, <1>2, <1>4, Domains DEF Elsewhere
<1>11. QED
  BY <1>2, <1>9, <1>10, WriterFifo

LEMMA WriteResetFifo == \A e \in Ends : FifoInv /\ WriteReset(e) => \A d \in Ends : Fifo(d)'
<1> SUFFICES ASSUME NEW e \in Ends, FifoInv, WriteReset(e) PROVE \A d \in Ends : Fifo(d)'
  OBVIOUS
<1> DEFINE op == [Head(writes[e]) EXCEPT !.status = "error"]
<1>1. ConnInv /\ Base /\ Peer(e) \in Ends
  BY PeerFacts DEF FifoInv, ConnInv
<1>2. /\ UNCHANGED <<open, posted, out, wire, read, tmp, incoming, sent>>
      /\ writes[e] # << >> /\ writes' = [writes EXCEPT ![e][1].status = "error"]
  BY DEF WriteReset
<1>3. Head(writes[e]) \in Op /\ "error" \in Status
  BY <1>1, <1>2, OneOp DEF Status
<1>4. op \in Op /\ op.status = "error"
  BY <1>3 DEF Op, Status
<1>5. writes' = [writes EXCEPT ![e] = <<op>>]
  BY <1>1, <1>2, <1>3, StatusSet
<1> HIDE DEF op
<1>6. <<op>> # << >> /\ Head(<<op>>) = op
  BY <1>4, Single
<1>7. writes'[e] = <<op>>
  BY <1>1, <1>5, Domains
<1>8. SameWriter(e) /\ SameReader(Peer(e))
  BY <1>1, <1>2, <1>4, <1>6, <1>7, SameHalves, FailedHalves
<1>9. Fifo(e)'
  BY <1>2, <1>8, FifoSame DEF FifoInv
<1>10. \A d \in Ends \ {e} : Elsewhere(d)
  BY <1>1, <1>2, <1>5, Domains DEF Elsewhere
<1>11. QED
  BY <1>2, <1>9, <1>10, WriterFifo

LEMMA MessageWrittenFifo ==
    \A e \in Ends : FifoInv /\ MessageWritten(e) => \A d \in Ends : Fifo(d)'
<1> SUFFICES ASSUME NEW e \in Ends, FifoInv, MessageWritten(e) PROVE \A d \in Ends : Fifo(d)'
  OBVIOUS
<1> DEFINE X == IF Len(out[e]) > 1 THEN <<Issue(e, "header")>> ELSE << >>
           Y == Tail(out[e])
<1>1. ConnInv /\ Base /\ Peer(e) \in Ends /\ sent[e] \in Seq(Message) /\ out[e] \in Seq(Message)
  BY Values DEF FifoInv, ConnInv
<1>2. /\ UNCHANGED <<open, posted, wire, read, tmp, incoming, sent>>
      /\ writes[e] # << >> /\ Head(writes[e]).status = "ok"
      /\ out' = [out EXCEPT ![e] = Y]
      /\ writes' = [writes EXCEPT ![e] =
            IF Len(out[e]) > 1 THEN Append(Tail(@), Issue(e, "header")) ELSE Tail(@)]
  BY DEF MessageWritten
<1>3. Issue(e, "header") \in Op /\ Issue(e, "header").part = "header"
      /\ Issue(e, "header").status = IF open[e] THEN "pending" ELSE "error"
  BY IssueIn
<1>4. Tail(writes[e]) = << >> /\ Append(<< >>, Issue(e, "header")) = <<Issue(e, "header")>>
      /\ out[e] # << >>
  BY <1>1, <1>2, <1>3, OneOp, Single, Front
<1>5. writes' = [writes EXCEPT ![e] = X]
  BY <1>2, <1>4
<1>6. X # << >> => X = <<Issue(e, "header")>> /\ Head(X) = Issue(e, "header")
  BY <1>3, Single
<1> HIDE DEF X, Y
<1>7. Sends(X, open[e]) => ~Begun(X)
  BY <1>3, <1>6 DEF Sends, Begun
<1>8. Sends(writes[e], open[e]) /\ Begun(writes[e])
  BY <1>2 DEF Sends, Begun
<1>9. InOrder(sent[e], posted[e], out[e], wire[e], writes[e], open[e],
              read[Peer(e)], tmp[Peer(e)], incoming[Peer(e)])
  BY DEF FifoInv, Fifo
<1>10. InOrder(sent[e], posted[e], Y, wire[e], X, open[e],
               read[Peer(e)], tmp[Peer(e)], incoming[Peer(e)])
  BY <1>1, <1>4, <1>7, <1>8, <1>9, InOrderLeft DEF Y
<1>11. out'[e] = Y /\ writes'[e] = X
  BY <1>1, <1>2, <1>5, Domains
<1>12. Fifo(e)'
  BY <1>2, <1>10, <1>11 DEF Fifo
<1>13. \A d \in Ends \ {e} : Elsewhere(d)
  BY <1>1, <1>2, <1>5, Domains DEF Elsewhere
<1>14. QED
  BY <1>2, <1>12, <1>13, WriterFifo

LEMMA TransmitFifo == \A e \in Ends : FifoInv /\ Transmit(e) => \A d \in Ends : Fifo(d)'
<1> SUFFICES ASSUME NEW e \in Ends, FifoInv, Transmit(e) PROVE \A d \in Ends : Fifo(d)'
  OBVIOUS
<1> DEFINE op == Head(writes[e])
           m == Head(out[e])
           done == [op EXCEPT !.status = "ok"]
           c == [part |-> op.part, data |-> IF op.part = "header" THEN HeaderOf(m) ELSE m.body]
           V == Append(wire[e], c)
<1>1. /\ ConnInv /\ Base /\ Peer(e) \in Ends /\ sent[e] \in Seq(Message)
      /\ out[e] \in Seq(Message) /\ wire[e] \in Seq(Chunk)
      /\ posted[e] \in Seq(Message \cup {Bye})
  BY Values DEF FifoInv, ConnInv
<1>2. /\ UNCHANGED <<open, posted, out, read, tmp, incoming, sent>>
      /\ writes[e] # << >> /\ op.status = "pending"
      /\ wire' = [wire EXCEPT ![e] = V]
      /\ writes' = [writes EXCEPT ![e][1].status = "ok"]
  BY DEF Transmit
<1>3. op \in Op /\ m \in Message /\ out[e] # << >> /\ "ok" \in Status
  BY <1>1, <1>2, OneOp, Front DEF Status
<1>4. c \in Chunk /\ c.part = op.part
      /\ c.data = IF c.part = "header" THEN HeaderOf(m) ELSE m.body
  BY <1>3, HeaderIn DEF Chunk, Op, Message
<1>5. done \in Op /\ done.status = "ok"
  BY <1>3 DEF Op, Status
<1>6. writes' = [writes EXCEPT ![e] = <<done>>]
  BY <1>1, <1>2, <1>3, StatusSet
<1>7. Sends(writes[e], open[e]) /\ (Begun(writes[e]) <=> op.part # "header")
  BY <1>2, <1>3 DEF Sends, Begun, Op
<1> HIDE DEF c, done
<1>8. Begun(<<done>>)
  BY <1>5, Single DEF Begun
<1>9. InOrder(sent[e], posted[e], out[e], wire[e], writes[e], open[e],
              read[Peer(e)], tmp[Peer(e)], incoming[Peer(e)])
  BY DEF FifoInv, Fifo
<1>10. InOrder(sent[e], posted[e], out[e], V, <<done>>, open[e],
               read[Peer(e)], tmp[Peer(e)], incoming[Peer(e)])
  BY <1>1, <1>3, <1>4, <1>7, <1>8, <1>9, InOrderPut
<1> HIDE DEF V
<1>11. wire'[e] = V /\ writes'[e] = <<done>>
  BY <1>1, <1>2, <1>6, Domains
<1>12. Fifo(e)'
  BY <1>2, <1>10, <1>11 DEF Fifo
<1>13. \A d \in Ends \ {e} : Elsewhere(d)
  BY <1>1, <1>2, <1>6, Domains DEF Elsewhere
<1>14. QED
  BY <1>2, <1>12, <1>13, WriterFifo

LEMMA ReceiveFifo == \A e \in Ends : FifoInv /\ Receive(e) => \A d \in Ends : Fifo(d)'
<1> SUFFICES ASSUME NEW e \in Ends, FifoInv, Receive(e), NEW d \in Ends PROVE Fifo(d)'
  OBVIOUS
<1> DEFINE p == Peer(e)
           c == Head(wire[p])
           part == read[e].part
           got == IF part = "header" THEN [tmp[e] EXCEPT !.header = c.data]
                  ELSE [tmp[e] EXCEPT !.body = c.data]
           done == [read[e] EXCEPT !.status = "ok"]
<1>1. /\ ConnInv /\ TmpOK /\ ReadOK /\ WireOK /\ ReadShape /\ p \in Ends /\ p # e /\ Peer(p) = e
      /\ sent[p] \in Seq(Message) /\ wire[p] \in Seq(Chunk) /\ incoming[e] \in Seq(Delivered)
      /\ tmp[e] \in Delivered /\ read[e] \in ReadOp
  BY Values DEF FifoInv, ConnInv, Base
<1>2. /\ read[e].status = "pending" /\ wire[p] # << >>
      /\ tmp' = [tmp EXCEPT ![e] = got]
      /\ wire' = [wire EXCEPT ![p] = Tail(@)]
      /\ read' = [read EXCEPT ![e] = done]
      /\ UNCHANGED <<link, open, posted, out, writes, incoming, sent, dead>>
  BY DEF Receive
<1>3. Receives(read[e]) /\ Expects(read[e], tmp[e]) = part /\ part \in {"header", "body"}
  BY <1>1, <1>2 DEF ReadShape, Receives, Expects
<1>4. c.part = part
  <2>1. AtReader(p)
    BY <1>1 DEF ConnInv, Stream
  <2>2. QED
    BY <1>1, <1>2, <1>3, <2>1 DEF AtReader
<1>5. IF part = "header" THEN got.header = c.data
      ELSE got.header = tmp[e].header /\ got.body = c.data
  <2>1. CASE part = "header"
    BY <1>1, <2>1 DEF Delivered
  <2>2. CASE part # "header"
    BY <1>1, <2>2 DEF Delivered
  <2>3. QED
    BY <2>1, <2>2
<1>6. done.part = part /\ done.status = "ok"
  BY <1>1 DEF ReadOp
<1> HIDE DEF got, done
<1>7. /\ tmp'[e] = got /\ read'[e] = done /\ wire'[p] = Tail(wire[p])
      /\ \A k \in Ends : k # e => tmp'[k] = tmp[k] /\ read'[k] = read[k]
      /\ \A k \in Ends : k # p => wire'[k] = wire[k]
  BY <1>1, <1>2 DEF TmpOK, ReadOK, WireOK
<1>8. CASE d = p
  <2>1. InOrder(sent[p], posted[p], out[p], wire[p], writes[p], open[p],
                read[e], tmp[e], incoming[e])
    BY <1>1 DEF FifoInv, Fifo
  <2>2. InOrder(sent[p], posted[p], out[p], Tail(wire[p]), writes[p], open[p],
                done, got, incoming[e])
    BY <1>1, <1>2, <1>3, <1>4, <1>5, <1>6, <2>1, InOrderGot
  <2>3. QED
    BY <1>1, <1>2, <1>7, <1>8, <2>2 DEF Fifo
<1>9. CASE d # p
  <2>1. Peer(d) # e /\ Peer(d) \in Ends
    BY <1>1, <1>9, PeerFacts
  <2>2. SameWriter(d) /\ SameReader(Peer(d))
    BY <1>2, <1>7, <2>1, SameHalves
  <2>3. QED
    BY <1>2, <1>7, <1>9, <2>1, <2>2, FifoSame DEF FifoInv
<1>10. QED
  BY <1>8, <1>9

LEMMA MessageReadFifo == \A e \in Ends : FifoInv /\ MessageRead(e) => \A d \in Ends : Fifo(d)'
<1> SUFFICES ASSUME NEW e \in Ends, FifoInv, MessageRead(e), NEW d \in Ends PROVE Fifo(d)'
  OBVIOUS
<1> DEFINE p == Peer(e)
           r == Issue(e, "header")
<1>1. /\ ConnInv /\ TmpOK /\ ReadOK /\ p \in Ends /\ p # e /\ Peer(p) = e
      /\ sent[p] \in Seq(Message) /\ wire[p] \in Seq(Chunk) /\ incoming[e] \in Seq(Delivered)
      /\ tmp[e] \in Delivered
  BY Values DEF FifoInv, ConnInv, Base
<1>2. /\ read[e].status = "ok"
      /\ read[e].part = "body" \/ (read[e].part = "header" /\ tmp[e].header.size = 0)
      /\ incoming' = [incoming EXCEPT ![e] = Append(@, tmp[e])]
      /\ read' = [read EXCEPT ![e] = r]
      /\ UNCHANGED <<link, open, posted, out, writes, wire, tmp, sent, dead>>
  BY DEF MessageRead, Reading
<1>3. Receives(r) => ~Mid(r)
  BY Issued
<1> HIDE DEF r
<1>4. /\ incoming'[e] = Append(incoming[e], tmp[e]) /\ read'[e] = r
      /\ \A k \in Ends : k # e => incoming'[k] = incoming[k] /\ read'[k] = read[k]
  BY <1>1, <1>2 DEF TmpOK, ReadOK
<1>5. CASE d = p
  <2>1. InOrder(sent[p], posted[p], out[p], wire[p], writes[p], open[p],
                read[e], tmp[e], incoming[e])
    BY <1>1 DEF FifoInv, Fifo
  <2>2. InOrder(sent[p], posted[p], out[p], wire[p], writes[p], open[p],
                r, tmp[e], Append(incoming[e], tmp[e]))
    BY <1>1, <1>2, <1>3, <2>1, InOrderRead
  <2>3. QED
    BY <1>1, <1>2, <1>4, <1>5, <2>2 DEF Fifo
<1>6. CASE d # p
  <2>1. Peer(d) # e /\ Peer(d) \in Ends
    BY <1>1, <1>6, PeerFacts
  <2>2. SameWriter(d) /\ SameReader(Peer(d))
    BY <1>2, <1>4, <2>1, SameHalves
  <2>3. QED
    BY <1>2, <1>4, <2>1, <2>2, FifoSame DEF FifoInv
<1>7. QED
  BY <1>5, <1>6

-----------------------------------------------------------------------------
(* The specification.                                                      *)

LEMMA InitFifo == Init => FifoInv
<1> SUFFICES ASSUME Init PROVE FifoInv
  OBVIOUS
<1>1. ConnInv
  BY InitConn
<1>2. ASSUME NEW d \in Ends PROVE Fifo(d)
  <2>1. Peer(d) \in Ends
    BY PeerFacts
  <2>2. /\ sent[d] = << >> /\ posted[d] = << >> /\ out[d] = << >> /\ wire[d] = << >>
        /\ writes[d] = << >> /\ read[Peer(d)] = Idle /\ incoming[Peer(d)] = << >>
    BY <2>1 DEF Init
  <2> DEFINE z == [i \in 0 .. 0 |-> 0]
  <2>3. Len(<< >>) = 0 /\ z[0] = 0 /\ z \in [0 .. 0 -> 0 .. 0] /\ 0 \in Nat
        /\ 1 .. 0 = {} /\ 0 + 0 = 0
    BY EmptyWrites
  <2> HIDE DEF z
  <2>4. Arrived(<< >>, << >>)
    BY <2>3 DEF Arrived
  <2>5. Sending(<< >>, << >>, << >>, 0, z)
    BY <2>3 DEF Sending
  <2>6. Carried(<< >>, << >>, z)
    BY <2>3 DEF Carried
  <2>7. WriterAt(<< >>, << >>, open[d], 0, z)
    BY <2>3 DEF WriterAt, Begun
  <2>8. ReaderAt(<< >>, Idle, tmp[Peer(d)], 0, z)
    BY <2>3 DEF ReaderAt, Mid, Idle
  <2>9. InOrder(<< >>, << >>, << >>, << >>, << >>, open[d], Idle, tmp[Peer(d)], << >>)
    BY <2>3, <2>4, <2>5, <2>6, <2>7, <2>8 DEF InOrder
  <2>10. QED
    BY <2>2, <2>9 DEF Fifo
<1>3. QED
  BY <1>1, <1>2 DEF FifoInv

LEMMA NextFifo == FifoInv /\ [Next]_vars => FifoInv'
<1> SUFFICES ASSUME FifoInv, [Next]_vars PROVE FifoInv'
  OBVIOUS
<1>1. ConnInv'
  BY NextConn DEF FifoInv
<1>2. ASSUME NEW e \in Ends, App(e) \/ Network(e) \/ Context(e) \/ WriteReset(e) \/ ReadReset(e)
      PROVE  \A d \in Ends : Fifo(d)'
  <2>1. CASE App(e)
    BY <2>1, AppFifo
  <2>2. CASE Transmit(e) \/ Receive(e)
    BY <2>2, TransmitFifo, ReceiveFifo
  <2>3. CASE EndOfFile(e) \/ ReadReset(e)
    BY <2>3, ReadErrorFifo
  <2>4. CASE RunSend(e) \/ HeaderWritten(e) \/ MessageWritten(e) \/ WriteReset(e)
    BY <2>4, RunSendFifo, HeaderWrittenFifo, MessageWrittenFifo, WriteResetFifo
  <2>5. CASE RunDisconnect(e) \/ WriteFailed(e) \/ ReadFailed(e)
    BY <2>5, DisconnectFifo, FailedFifo
  <2>6. CASE HeaderRead(e) \/ MessageRead(e)
    BY <2>6, HeaderReadFifo, MessageReadFifo
  <2>7. QED
    BY <1>2, <2>1, <2>2, <2>3, <2>4, <2>5, <2>6 DEF Network, Context
<1>3. CASE Established \/ Accept
  BY <1>1, <1>3, StartFifo DEF FifoInv
<1>4. CASE Refused \/ LinkFails \/ AcceptThrows
  BY <1>1, <1>4, OutsideFifo DEF FifoInv
<1>5. CASE UNCHANGED vars
  <2>1. \A d \in Ends : Fifo(d)'
    BY <1>5 DEF FifoInv, Fifo, vars
  <2>2. QED
    BY <1>1, <2>1 DEF FifoInv
<1>6. QED
  BY <1>1, <1>2, <1>3, <1>4, <1>5 DEF Next, FifoInv

LEMMA FifoInvariant == Spec => []FifoInv
<1>1. QED
  BY InitFifo, NextFifo, PTL DEF Spec

-----------------------------------------------------------------------------
(* Refinement.                                                             *)

Prefix(s, n) == [i \in 1 .. n |-> s[i]]

LEMMA PrefixGrows ==
    ASSUME NEW s \in Seq(Message), NEW n \in Nat, n + 1 <= Len(s)
    PROVE  /\ Len(Prefix(s, n)) = n
           /\ Prefix(s, n + 1) = Append(Prefix(s, n), s[n + 1])
<1>1. Len(s) \in Nat /\ \A i \in 1 .. n + 1 : s[i] \in Message
  OBVIOUS
<1>2. Prefix(s, n) \in Seq(Message) /\ Len(Prefix(s, n)) = n
  BY <1>1 DEF Prefix
<1>3. Prefix(s, n + 1) \in Seq(Message) /\ Len(Prefix(s, n + 1)) = n + 1
  BY <1>1 DEF Prefix
<1>4. ASSUME NEW i \in 1 .. n + 1
      PROVE  Prefix(s, n + 1)[i] = Append(Prefix(s, n), s[n + 1])[i]
  <2>1. \A k \in 1 .. n : Prefix(s, n)[k] = s[k]
    BY DEF Prefix
  <2>2. Prefix(s, n + 1)[i] = s[i]
    BY DEF Prefix
  <2>3. s[n + 1] \in Message
    BY <1>1
  <2>4. QED
    BY <1>2, <2>1, <2>2, <2>3, Longer
<1>5. Append(Prefix(s, n), s[n + 1]) \in Seq(Message)
      /\ Len(Append(Prefix(s, n), s[n + 1])) = n + 1
  BY <1>1, <1>2, Longer
<1>6. QED
  BY <1>2, <1>3, <1>4, <1>5

ReadsPrefix ==
    \A d \in Ends :
        /\ Len(incoming[Peer(d)]) \in Nat /\ Len(incoming[Peer(d)]) <= Len(sent[d])
        /\ Received(Peer(d)) = Prefix(sent[d], Len(incoming[Peer(d)]))

LEMMA ReceivedIs == FifoInv => ReadsPrefix
<1> SUFFICES ASSUME FifoInv, NEW d \in Ends
             PROVE  /\ Len(incoming[Peer(d)]) \in Nat
                    /\ Len(incoming[Peer(d)]) <= Len(sent[d])
                    /\ Received(Peer(d)) = Prefix(sent[d], Len(incoming[Peer(d)]))
  BY DEF ReadsPrefix
<1>1. sent[d] \in Seq(Message) /\ Peer(d) \in Ends
  BY Values DEF FifoInv
<1>2. incoming[Peer(d)] \in Seq(Delivered)
  BY <1>1, Values DEF FifoInv
<1>3. Arrived(sent[d], incoming[Peer(d)])
  BY DEF FifoInv, Fifo, InOrder
<1>4. QED
  BY <1>1, <1>2, <1>3, ArrivedIsPrefix DEF Received, Prefix

\* What each direction may see of a step.
Channel(s, r, s2, r2) ==
    \/ \E m \in Message : s2 = Append(s, m) /\ r2 = r
    \/ Len(r) < Len(s) /\ r2 = Append(r, s[Len(r) + 1]) /\ s2 = s
    \/ s2 = s /\ r2 = r

LEMMA SendIsSend ==
    ASSUME FifoInv, NEW e \in Ends, NEW m \in Message, Send(e, m), NEW d \in Ends
    PROVE  Channel(sent[d], Received(Peer(d)), sent'[d], Received(Peer(d))')
<1>1. sent \in [Ends -> Seq(Message)] /\ sent' = [sent EXCEPT ![e] = Append(@, m)]
  BY DEF FifoInv, ConnInv, Base, QueuesOK, Send
<1>2. Received(Peer(d))' = Received(Peer(d))
  BY DEF Send, Received
<1>3. sent'[d] = IF d = e THEN Append(sent[d], m) ELSE sent[d]
  BY <1>1
<1>4. QED
  BY <1>2, <1>3 DEF Channel

LEMMA ReadIsDeliver ==
    ASSUME FifoInv, ReadsPrefix', NEW e \in Ends, MessageRead(e), NEW d \in Ends
    PROVE  Channel(sent[d], Received(Peer(d)), sent'[d], Received(Peer(d))')
<1>1. sent' = sent /\ incoming' = [incoming EXCEPT ![e] = Append(@, tmp[e])]
  BY DEF MessageRead
<1>2. /\ sent[d] \in Seq(Message) /\ Peer(d) \in Ends
      /\ incoming[e] \in Seq(Delivered) /\ tmp[e] \in Delivered
  BY Values DEF FifoInv
<1>3. incoming \in [Ends -> Seq(Delivered)]
  BY Values DEF FifoInv, ConnInv, TmpOK
<1>4. CASE Peer(d) = e
  <2> DEFINE n == Len(incoming[e])
  <2>1. Len(incoming'[e]) = n + 1
    BY <1>1, <1>2, <1>3, Longer
  <2>2. n \in Nat /\ Received(e) = Prefix(sent[d], n)
    BY <1>4, ReceivedIs DEF ReadsPrefix
  <2>3. n + 1 <= Len(sent[d]) /\ Received(e)' = Prefix(sent[d], n + 1)
    <3>1. /\ Len(incoming'[Peer(d)]) <= Len(sent'[d])
          /\ Received(Peer(d))' = Prefix(sent'[d], Len(incoming'[Peer(d)]))
      BY DEF ReadsPrefix
    <3>2. QED
      BY <1>1, <1>4, <2>1, <3>1
  <2> HIDE DEF n
  <2>4. Len(Received(e)) = n /\ Received(e)' = Append(Received(e), sent[d][n + 1])
    BY <1>2, <2>2, <2>3, PrefixGrows
  <2>5. n < Len(sent[d])
    <3>1. Len(sent[d]) \in Nat
      BY <1>2
    <3>2. QED
      BY <2>2, <2>3, <3>1
  <2>6. QED
    BY <1>1, <1>4, <2>4, <2>5 DEF Channel
<1>5. CASE Peer(d) # e
  <2>1. incoming'[Peer(d)] = incoming[Peer(d)]
    BY <1>1, <1>2, <1>3, <1>5
  <2>2. Received(Peer(d))' = Received(Peer(d))
    BY <2>1 DEF Received
  <2>3. QED
    BY <1>1, <2>2 DEF Channel
<1>6. QED
  BY <1>4, <1>5

LEMMA OthersStutter ==
    ASSUME sent' = sent, incoming' = incoming, NEW d \in Ends
    PROVE  Channel(sent[d], Received(Peer(d)), sent'[d], Received(Peer(d))')
BY DEF Channel, Received

LEMMA StepIsChannel ==
    ASSUME FifoInv, ReadsPrefix', [Next]_vars, NEW d \in Ends
    PROVE  Channel(sent[d], Received(Peer(d)), sent'[d], Received(Peer(d))')
<1>1. ASSUME NEW e \in Ends, App(e) \/ Network(e) \/ Context(e) \/ WriteReset(e) \/ ReadReset(e)
      PROVE  \/ \E m \in Message : Send(e, m)
             \/ MessageRead(e)
             \/ sent' = sent /\ incoming' = incoming
  <2>1. CASE App(e)
    BY <2>1 DEF App, Disconnect
  <2>2. CASE Network(e) \/ WriteReset(e) \/ ReadReset(e)
    BY <2>2 DEF Network, Transmit, Receive, EndOfFile, WriteReset, ReadReset
  <2>3. CASE Context(e)
    BY <2>3 DEF Context, RunSend, RunDisconnect, Die, HeaderWritten, MessageWritten,
                WriteFailed, HeaderRead, ReadFailed
  <2>4. QED
    BY <1>1, <2>1, <2>2, <2>3
<1>2. CASE Established \/ Refused \/ Accept \/ AcceptThrows \/ LinkFails \/ UNCHANGED vars
  <2>1. sent' = sent /\ incoming' = incoming
    BY <1>2 DEF Established, Refused, Accept, AcceptThrows, Die, LinkFails, vars
  <2>2. QED
    BY <2>1, OthersStutter
<1>3. QED
  BY <1>1, <1>2, SendIsSend, ReadIsDeliver, OthersStutter DEF Next

\* Each direction of a connection is a FIFO channel from Send to the incoming
\* queue: through the posted lambdas, the outgoing queue, the two writes of a
\* message, the network and the two reads, no message is lost before one that
\* is delivered, duplicated, altered or reordered, however the connection ends.
THEOREM ConnectionImplementsFifo == Spec => ImplementsFifo
<1>1. Client \in Ends /\ Peer(Client) = Server /\ Server \in Ends /\ Peer(Server) = Client
  BY EndsAssumption DEF EndsAssumption, Ends, Peer
<1>2. Init => ToServer!Init /\ ToClient!Init
  <2> SUFFICES ASSUME Init PROVE ToServer!Init /\ ToClient!Init
    OBVIOUS
  <2>1. \A e \in Ends : sent[e] = << >> /\ incoming[e] = << >>
    BY DEF Init
  <2>2. \A e \in Ends : Received(e) = << >>
    BY <2>1 DEF Received
  <2>3. QED
    BY <1>1, <2>1, <2>2 DEF ToServer!Init, ToClient!Init
<1>3. FifoInv /\ ReadsPrefix' /\ [Next]_vars => [ToServer!Next]_<<sent[Client], Received(Server)>>
  <2> SUFFICES ASSUME FifoInv, ReadsPrefix', [Next]_vars
               PROVE  ToServer!Next \/ UNCHANGED <<sent[Client], Received(Server)>>
    OBVIOUS
  <2>1. Channel(sent[Client], Received(Server), sent'[Client], Received(Server)')
    BY <1>1, StepIsChannel
  <2>2. QED
    BY <2>1 DEF Channel, ToServer!Next, ToServer!Send, ToServer!Deliver
<1>4. FifoInv /\ ReadsPrefix' /\ [Next]_vars => [ToClient!Next]_<<sent[Server], Received(Client)>>
  <2> SUFFICES ASSUME FifoInv, ReadsPrefix', [Next]_vars
               PROVE  ToClient!Next \/ UNCHANGED <<sent[Server], Received(Client)>>
    OBVIOUS
  <2>1. Channel(sent[Server], Received(Client), sent'[Server], Received(Client)')
    BY <1>1, StepIsChannel
  <2>2. QED
    BY <2>1 DEF Channel, ToClient!Next, ToClient!Send, ToClient!Deliver
<1>5. QED
  BY <1>2, <1>3, <1>4, FifoInvariant, ReceivedIs, PTL
     DEF Spec, ImplementsFifo, ToServer!Spec, ToClient!Spec
=============================================================================
