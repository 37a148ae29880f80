---------------------------- MODULE Replication ----------------------------
(***************************************************************************)
(* The game database (helper/GameInstance.cpp) and its copies: the server  *)
(* holds one, every client another, each constructed with the same keys.   *)
(* A client announces an update (UpdateGameState); the server applies it,  *)
(* acknowledges it and relays it to the other clients connected at that    *)
(* moment (Server::OnMessage, ClientUpdateGS); they apply it               *)
(* (handleNetworking, ServerUpdateGS).                                     *)
(*                                                                         *)
(* The text of an update travels in message bodies, which are stacks: <<   *)
(* pushes a character and >> pops the last one.  A text is three tokens    *)
(* here, two brackets around the update, enough to tell whether it is read *)
(* in the right direction.  The channels are FIFO (Connection, TsQueue); a *)
(* client's messages meet in the server's incoming queue, inbox.           *)
(***************************************************************************)
EXTENDS Naturals, Sequences, SequencesExt

CONSTANTS Clients, Server,
          Keys, Values,     \* the keys of the database, and what they may hold
          OtherKeys,        \* keys an update may name that no database has
          Fresh,            \* the database as constructed
          Updates,          \* what clients announce: some values for some keys
          Ids,              \* header.id, drawn with random()
          Opening, Closing, \* the brackets
          MaxUpdates        \* bound: how many updates are announced

ASSUME ReplicationAssumption ==
    /\ Fresh \in [Keys -> Values]
    /\ Updates \subseteq UNION {[K -> Values] : K \in SUBSET (Keys \cup OtherKeys)}
    /\ Opening # Closing
    /\ Server \notin Clients
    /\ MaxUpdates \in Nat

VARIABLES
    database,   \* the server's database
    copy,       \* each client's database
    member,     \* whether the client is connected: out, in, closed
    inbox,      \* the server's m_qMessagesIn, ClientUpdateGS only
    down,       \* messages sent to each client and not handled yet
    broken,     \* processes that an exception of json::parse has ended
    asked,      \* history: ids of the updates each client announced
    acked,      \* history: ids acknowledged to each client
    log,        \* history: updates applied by the server, and by whom announced
    joined      \* history: the length of log when the client connected

vars == <<database, copy, member, inbox, down, broken, asked, acked, log, joined>>

Init ==
    /\ database = Fresh
    /\ copy = [c \in Clients |-> Fresh]
    /\ member = [c \in Clients |-> "out"]
    /\ inbox = <<>>
    /\ down = [c \in Clients |-> <<>>]
    /\ broken = {}
    /\ asked = [c \in Clients |-> <<>>]
    /\ acked = [c \in Clients |-> <<>>]
    /\ log = <<>>
    /\ joined = [c \in Clients |-> 0]

-----------------------------------------------------------------------------
\* Slip: a key the database does not have is added.
UpdateDatabaseAll(db, updates) ==
    [k \in DOMAIN db \cup DOMAIN updates |->
        IF k \in DOMAIN updates THEN updates[k] ELSE db[k]]

\* Only keys the database has; the others are reported and skipped.
UpdateDatabase(db, updates) ==
    [k \in DOMAIN db |-> IF k \in DOMAIN updates THEN updates[k] ELSE db[k]]

\* json::dump and json::parse, which throws unless IsText.
Text(u) == <<Opening, u, Closing>>
IsText(t) == Len(t) = 3 /\ t[1] = Opening /\ t[2] \in Updates /\ t[3] = Closing
Parse(t) == t[2]

\* UpdateGameState pushes the text from its end to its start.
Packed(u) == Reverse(Text(u))

\* OnMessage pops character after character, into its buffer and into the
\* relayed message.
Unpacked(body) == Reverse(body)
Relayed(body) == Reverse(body)

\* Slip: the client does not reverse what it popped.
ReceivedOnce(body) == Reverse(body)

\* handleNetworking pops, then reverses its buffer.
Received(body) == Reverse(Reverse(body))

-----------------------------------------------------------------------------
Join(c) ==
    /\ member[c] = "out"
    /\ member' = [member EXCEPT ![c] = "in"]
    /\ joined' = [joined EXCEPT ![c] = Len(log)]
    /\ UNCHANGED <<database, copy, inbox, down, broken, asked, acked, log>>

Close(c) ==
    /\ member[c] = "in"
    /\ member' = [member EXCEPT ![c] = "closed"]
    /\ UNCHANGED <<database, copy, inbox, down, broken, asked, acked, log, joined>>

Announced == Len(log) + Len(inbox)

\* Slip: the message is pushed at the front of the server's queue.
UpdateGameStateFront(c, u, id) ==
    /\ member[c] = "in" /\ c \notin broken
    /\ Announced < MaxUpdates
    /\ inbox' = <<[client |-> c, id |-> id, body |-> Packed(u)]>> \o inbox
    /\ asked' = [asked EXCEPT ![c] = Append(@, id)]
    /\ UNCHANGED <<database, copy, member, down, broken, acked, log, joined>>

\* The client does not apply the update to its own copy.
UpdateGameState(c, u, id) ==
    /\ member[c] = "in" /\ c \notin broken
    /\ Announced < MaxUpdates
    /\ inbox' = Append(inbox, [client |-> c, id |-> id, body |-> Packed(u)])
    /\ asked' = [asked EXCEPT ![c] = Append(@, id)]
    /\ UNCHANGED <<database, copy, member, down, broken, acked, log, joined>>

Ack(id) == [type |-> "ServerACK", id |-> id]
Relay(body) == [type |-> "ServerUpdateGS", body |-> body]

\* Slip: the ignored client is the only one served.
SentToSender(msg, c) ==
    IF c = msg.client THEN <<Ack(msg.id), Relay(Relayed(msg.body))>> ELSE <<>>

\* What client c is sent for a message: MessageAllClients leaves its client out.
SentTo(msg, c) ==
    IF c = msg.client THEN <<Ack(msg.id)>> ELSE <<Relay(Relayed(msg.body))>>

\* What is sent to a connection that is closed goes nowhere.
HandleUpdate ==
    /\ Server \notin broken
    /\ inbox # <<>>
    /\ inbox' = Tail(inbox)
    /\ LET msg == Head(inbox)
           text == Unpacked(msg.body)
       IN  IF IsText(text)
           THEN /\ database' = UpdateDatabase(database, Parse(text))
                /\ down' = [c \in Clients |->
                        IF member[c] = "in" THEN down[c] \o SentTo(msg, c) ELSE down[c]]
                /\ log' = Append(log, [client |-> msg.client, update |-> Parse(text)])
                /\ UNCHANGED broken
           ELSE /\ broken' = broken \cup {Server}
                /\ UNCHANGED <<database, down, log>>
    /\ UNCHANGED <<copy, member, asked, acked, joined>>

\* A client whose connection has just closed may still empty its queue.
HandleRelay(c) ==
    /\ c \notin broken
    /\ down[c] # <<>> /\ Head(down[c]).type = "ServerUpdateGS"
    /\ down' = [down EXCEPT ![c] = Tail(@)]
    /\ LET text == Received(Head(down[c]).body)
       IN  IF IsText(text)
           THEN /\ copy' = [copy EXCEPT ![c] = UpdateDatabase(@, Parse(text))]
                /\ UNCHANGED broken
           ELSE /\ broken' = broken \cup {c}
                /\ UNCHANGED copy
    /\ UNCHANGED <<database, member, inbox, asked, acked, log, joined>>

HandleAck(c) ==
    /\ c \notin broken
    /\ down[c] # <<>> /\ Head(down[c]).type = "ServerACK"
    /\ down' = [down EXCEPT ![c] = Tail(@)]
    /\ acked' = [acked EXCEPT ![c] = Append(@, Head(down[c]).id)]
    /\ UNCHANGED <<database, copy, member, inbox, broken, asked, log, joined>>

Next ==
    \/ HandleUpdate
    \/ \E c \in Clients :
        \/ Join(c) \/ Close(c) \/ HandleRelay(c) \/ HandleAck(c)
        \/ \E u \in Updates, id \in Ids : UpdateGameState(c, u, id)

Spec == Init /\ [][Next]_vars

(* The server's loop runs, and so does the network thread of a client that *)
(* is connected: a wakeup that TsQueue shows may be missed is made up for   *)
(* by the next message, and pings keep coming both ways.  Nobody has to    *)
(* connect or to announce anything.                                        *)
Fairness ==
    /\ WF_vars(HandleUpdate)
    /\ \A c \in Clients : WF_vars(member[c] = "in" /\ (HandleRelay(c) \/ HandleAck(c)))

FairSpec == Spec /\ Fairness

-----------------------------------------------------------------------------
(* Properties                                                              *)

Body == Seq(Updates \cup {Opening, Closing})
UpMessage == [client : Clients, id : Ids, body : Body]
AckMessage == [type : {"ServerACK"}, id : Ids]
RelayMessage == [type : {"ServerUpdateGS"}, body : Body]
DownMessage == AckMessage \cup RelayMessage
Record == [client : Clients, update : Updates]

DatabasesOK ==
    /\ database \in [Keys -> Values]
    /\ copy \in [Clients -> [Keys -> Values]]

MembersOK ==
    /\ member \in [Clients -> {"out", "in", "closed"}]
    /\ broken \subseteq Clients \cup {Server}
    /\ joined \in [Clients -> Nat]

QueuesOK ==
    /\ inbox \in Seq(UpMessage)
    /\ down \in [Clients -> Seq(DownMessage)]

HistoryOK ==
    /\ asked \in [Clients -> Seq(Ids)]
    /\ acked \in [Clients -> Seq(Ids)]
    /\ log \in Seq(Record)

TypeOK == DatabasesOK /\ MembersOK /\ QueuesOK /\ HistoryOK

\* The text is pushed backwards, popped, relayed forwards, popped and reversed:
\* wherever it is read it can be parsed, and no process ends in the attempt.
AlwaysParsed == broken = {}

\* A copy never holds a value of the client's own making, nor one that no
\* client announced for that key: what is not as constructed comes from an
\* update of another client that the server has applied.
CopiesHoldOthersValues ==
    \A c \in Clients, k \in Keys :
        copy[c][k] # Fresh[k] =>
            \E i \in DOMAIN log : /\ log[i].client # c
                                  /\ k \in DOMAIN log[i].update
                                  /\ copy[c][k] = log[i].update[k]

\* The elements of s that are in T, in their order.
Within(s, T) ==
    FoldLeft(LAMBDA part, x : IF x \in T THEN Append(part, x) ELSE part, <<>>, s)

\* A connected client's copy is what the updates of the others since it
\* connected make of a fresh database, in the server's order, as far as they
\* are not on the way to it: none is missed, doubled or overtaken.
Made(db, updates) == FoldLeft(UpdateDatabase, db, updates)
ReadFrom(relays) == [i \in DOMAIN relays |-> Parse(Received(relays[i].body))]
UpdatesOf(records) == [i \in DOMAIN records |-> records[i].update]
RecordsOfOthers(c) == [client : Clients \ {c}, update : Updates]
OnTheWay(c) == ReadFrom(Within(down[c], RelayMessage))
OthersSince(c) ==
    UpdatesOf(Within(SubSeq(log, joined[c] + 1, Len(log)), RecordsOfOthers(c)))
CopyIsOthersView ==
    \A c \in Clients : member[c] = "in" =>
        Made(copy[c], OnTheWay(c)) = Made(Fresh, OthersSince(c))

\* Every update of a client is acknowledged to it once, in its order, while
\* it is connected; nobody else gets the acknowledgement.
IdsOf(messages) == [i \in DOMAIN messages |-> messages[i].id]
MessagesOf(c) == [client : {c}, id : Ids, body : Body]
AcksInOrder ==
    \A c \in Clients : member[c] = "in" =>
        asked[c] = acked[c] \o IdsOf(Within(down[c], AckMessage))
                            \o IdsOf(Within(inbox, MessagesOf(c)))

\* A client that connected before any update and announces none itself comes
\* to hold what the server's database holds, whatever updates cross each other.
BystandersConverge ==
    \A c \in Clients :
        (member[c] = "in" /\ joined[c] = 0 /\ asked[c] = <<>>)
            ~> (copy[c] = database \/ member[c] # "in" \/ asked[c] # <<>>)

\* The server's database holds v under k because of an update of client c.
OwnChange(c, k, v) ==
    /\ database[k] = v
    /\ \E i \in DOMAIN log : /\ log[i].client = c
                          /\ k \in DOMAIN log[i].update /\ log[i].update[k] = v

\* README.md:18: "Any change to the database will be reflected on all clients":
\* the client that announced it is one of them, and its own copy comes to hold
\* the change as long as the server keeps it.
ChangesReflected ==
    \A c \in Clients, k \in Keys, v \in Values :
        (OwnChange(c, k, v) /\ member[c] = "in")
            ~> (copy[c][k] = v \/ database[k] # v \/ member[c] # "in")
=============================================================================
