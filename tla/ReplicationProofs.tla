------------------------- MODULE ReplicationProofs -------------------------
(***************************************************************************)
(* Proofs about Replication, for any clients, updates and databases.       *)
(*                                                                         *)
(* RepInv says which way round the text is in every message that is under  *)
(* way, and that a relay repeats an applied update of somebody else.       *)
(* ViewInv adds what each client sees of the log and what it is told: its  *)
(* copy with the relays on the way to it, and the account of its updates   *)
(* from the announcement to the acknowledgement.                           *)
(*                                                                         *)
(* Both properties of ViewInv fold a sequence.  What a fold is for every   *)
(* sequence is shown by induction over sets of numbers (Induction, Along), *)
(* since the induction theorems of the library take an operator: the       *)
(* recursive function inside a fold exists (SetRecursion), so it is what   *)
(* CHOOSE picks, and its values on 1 .. m are the steps of the fold.       *)
(***************************************************************************)
EXTENDS Replication, FiniteSetTheorems, WellFoundedInduction, TLAPS

-----------------------------------------------------------------------------
(* The stack of characters: what is pushed in one order is popped in the   *)
(* other.                                                                  *)

LEMMA ReverseType ==
    ASSUME NEW S, NEW s \in Seq(S)
    PROVE  Reverse(s) \in Seq(S) /\ Len(Reverse(s)) = Len(s)
<1>1. Len(s) \in Nat /\ Reverse(s) = [i \in 1..Len(s) |-> s[(Len(s) - i) + 1]]
  BY DEF Reverse
<1>2. \A i \in 1..Len(s) : s[(Len(s) - i) + 1] \in S
  <2>1. \A i \in 1..Len(s) : (Len(s) - i) + 1 \in 1..Len(s)
    BY <1>1
  <2>2. \A j \in 1..Len(s) : s[j] \in S
    OBVIOUS
  <2>3. QED
    BY <2>1, <2>2
<1>3. QED
  BY <1>1, <1>2

LEMMA ReverseTwice ==
    ASSUME NEW S, NEW s \in Seq(S)
    PROVE  Reverse(Reverse(s)) = s
<1>1. Len(s) \in Nat /\ Len(Reverse(s)) = Len(s)
  BY ReverseType
<1>2. \A i \in 1..Len(s) :
          /\ (Len(s) - i) + 1 \in 1..Len(s)
          /\ (Len(s) - ((Len(s) - i) + 1)) + 1 = i
  BY <1>1
<1>3. \A i \in 1..Len(s) : Reverse(s)[i] = s[(Len(s) - i) + 1]
  BY DEF Reverse
<1>4. \A i \in 1..Len(s) : Reverse(s)[(Len(s) - i) + 1] = s[i]
  BY <1>2, <1>3
<1>5. Reverse(Reverse(s)) = [i \in 1..Len(s) |-> Reverse(s)[(Len(s) - i) + 1]]
  BY <1>1 DEF Reverse
<1>6. Reverse(Reverse(s)) = [i \in 1..Len(s) |-> s[i]]
  BY <1>4, <1>5
<1>7. QED
  BY <1>6

LEMMA TextIsRead ==
    ASSUME NEW u \in Updates
    PROVE  /\ Text(u) \in Body /\ Packed(u) \in Body
           /\ IsText(Text(u)) /\ Parse(Text(u)) = u
           /\ Unpacked(Packed(u)) = Text(u) /\ Relayed(Packed(u)) = Text(u)
           /\ Received(Text(u)) = Text(u)
<1>1. Text(u) \in Body
  BY DEF Text, Body
<1>2. Packed(u) \in Body /\ Reverse(Packed(u)) = Text(u)
  BY <1>1, ReverseType, ReverseTwice DEF Packed, Body
<1>3. IsText(Text(u)) /\ Parse(Text(u)) = u
  BY DEF IsText, Text, Parse
<1>4. Received(Text(u)) = Text(u)
  BY <1>1, ReverseTwice DEF Received, Body
<1>5. QED
  BY <1>1, <1>2, <1>3, <1>4 DEF Unpacked, Relayed

-----------------------------------------------------------------------------
(* The database. *)

LEMMA UpdateKeepsKeys ==
    ASSUME NEW db \in [Keys -> Values], NEW u \in Updates
    PROVE  /\ UpdateDatabase(db, u) \in [Keys -> Values]
           /\ \A k \in Keys :
                UpdateDatabase(db, u)[k] = IF k \in DOMAIN u THEN u[k] ELSE db[k]
<1>1. PICK K \in SUBSET (Keys \cup OtherKeys) : u \in [K -> Values]
  BY ReplicationAssumption DEF ReplicationAssumption
<1>2. QED
  BY <1>1 DEF UpdateDatabase

-----------------------------------------------------------------------------
(* The invariant. *)

\* The body is that of an update the server has applied for another client.
FromOther(c, body) ==
    \E j \in DOMAIN log : log[j].client # c /\ body = Text(log[j].update)

Upward == \A i \in DOMAIN inbox : \E u \in Updates : inbox[i].body = Packed(u)

Downward ==
    \A c \in Clients :
        \A i \in DOMAIN down[c] :
            down[c][i].type = "ServerUpdateGS" => FromOther(c, down[c][i].body)

RepInv == TypeOK /\ Upward /\ Downward /\ AlwaysParsed /\ CopiesHoldOthersValues

LEMMA InitRep == Init => RepInv
<1> SUFFICES ASSUME Init PROVE RepInv
  OBVIOUS
<1> USE DEF Init
<1>1. DatabasesOK
  BY ReplicationAssumption DEF ReplicationAssumption, DatabasesOK
<1>2. MembersOK /\ QueuesOK /\ HistoryOK
  <2>1. /\ << >> \in Seq(UpMessage) /\ << >> \in Seq(DownMessage) /\ << >> \in Seq(Ids)
        /\ << >> \in Seq(Record)
    OBVIOUS
  <2>2. MembersOK
    BY DEF MembersOK
  <2>3. QueuesOK
    BY <2>1 DEF QueuesOK
  <2>4. HistoryOK
    BY <2>1 DEF HistoryOK
  <2>5. QED
    BY <2>2, <2>3, <2>4
<1>3. Upward /\ AlwaysParsed
  <2>1. DOMAIN inbox = {}
    OBVIOUS
  <2>2. QED
    BY <2>1 DEF Upward, AlwaysParsed
<1>4. Downward
  <2>1. \A c \in Clients : DOMAIN down[c] = {}
    OBVIOUS
  <2>2. QED
    BY <2>1 DEF Downward
<1>5. CopiesHoldOthersValues
  BY DEF CopiesHoldOthersValues
<1>6. QED
  BY <1>1, <1>2, <1>3, <1>4, <1>5 DEF RepInv, TypeOK

\* A client that takes its next message leaves the others as they were.
LEMMA TailDownward ==
    ASSUME TypeOK, Downward, NEW c \in Clients, down[c] # << >>,
           down' = [down EXCEPT ![c] = Tail(@)], log' = log
    PROVE  Downward'
<1>1. down \in [Clients -> Seq(DownMessage)]
  BY DEF TypeOK, QueuesOK
<1>2. \A i \in DOMAIN Tail(down[c]) :
          i + 1 \in DOMAIN down[c] /\ Tail(down[c])[i] = down[c][i + 1]
  BY <1>1
<1>3. ASSUME NEW d \in Clients, NEW i \in DOMAIN down'[d],
             down'[d][i].type = "ServerUpdateGS"
      PROVE  FromOther(d, down'[d][i].body)
  <2>1. CASE d = c
    <3>1. i \in DOMAIN Tail(down[c]) /\ down'[d][i] = Tail(down[c])[i]
      BY <1>1, <1>3, <2>1
    <3>2. i + 1 \in DOMAIN down[c] /\ down'[d][i] = down[c][i + 1]
      BY <1>2, <3>1
    <3>3. QED
      BY <1>3, <2>1, <3>2 DEF Downward
  <2>2. CASE d # c
    <3>1. down'[d] = down[d]
      BY <1>1, <2>2
    <3>2. QED
      BY <1>3, <3>1 DEF Downward
  <2>3. QED
    BY <2>1, <2>2
<1>4. QED
  BY <1>3 DEF Downward, FromOther

\* Only HandleUpdate and HandleRelay touch the databases.
LEMMA QuietRep ==
    ASSUME RepInv, NEW c \in Clients,
           Join(c) \/ Close(c) \/ HandleAck(c)
           \/ \E u \in Updates, id \in Ids : UpdateGameState(c, u, id)
    PROVE  RepInv'
<1> USE DEF RepInv
<1>1. UNCHANGED <<database, copy, broken, log>>
  BY DEF Join, Close, HandleAck, UpdateGameState
<1>2. AlwaysParsed' /\ CopiesHoldOthersValues' /\ DatabasesOK'
  BY <1>1 DEF AlwaysParsed, CopiesHoldOthersValues, DatabasesOK, TypeOK
<1>3. CASE Join(c) \/ Close(c)
  <2>1. UNCHANGED <<inbox, down, asked, acked>>
    BY <1>3 DEF Join, Close
  <2>2. MembersOK'
    <3>1. Len(log) \in Nat
      BY DEF TypeOK, HistoryOK
    <3>2. QED
      BY <1>1, <1>3, <3>1 DEF Join, Close, TypeOK, MembersOK
  <2>3. QueuesOK' /\ HistoryOK'
    BY <1>1, <2>1 DEF TypeOK, QueuesOK, HistoryOK
  <2>4. Upward' /\ Downward'
    BY <1>1, <2>1 DEF Upward, Downward, FromOther
  <2>5. QED
    BY <1>2, <2>2, <2>3, <2>4 DEF TypeOK
<1>4. CASE HandleAck(c)
  <2>1. UNCHANGED <<member, inbox, asked, joined>>
        /\ down' = [down EXCEPT ![c] = Tail(@)] /\ down[c] # << >>
        /\ Head(down[c]).type = "ServerACK"
        /\ acked' = [acked EXCEPT ![c] = Append(@, Head(down[c]).id)]
    BY <1>4 DEF HandleAck
  <2>2. down[c] \in Seq(DownMessage) /\ acked[c] \in Seq(Ids)
    BY DEF TypeOK, QueuesOK, HistoryOK
  <2>3. Head(down[c]).id \in Ids
    <3>1. Head(down[c]) \in DownMessage
      BY <2>1, <2>2
    <3>2. QED
      BY <2>1, <3>1 DEF DownMessage, AckMessage, RelayMessage
  <2>4. Tail(down[c]) \in Seq(DownMessage) /\ Append(acked[c], Head(down[c]).id) \in Seq(Ids)
    BY <2>1, <2>2, <2>3
  <2>5. MembersOK' /\ QueuesOK' /\ HistoryOK'
    <3>1. MembersOK'
      BY <1>1, <2>1 DEF TypeOK, MembersOK
    <3>2. QueuesOK'
      BY <2>1, <2>4 DEF TypeOK, QueuesOK
    <3>3. HistoryOK'
      BY <1>1, <2>1, <2>4 DEF TypeOK, HistoryOK
    <3>4. QED
      BY <3>1, <3>2, <3>3
  <2>6. Downward'
    BY <2>1, <1>1, TailDownward DEF TypeOK
  <2>7. QED
    BY <1>2, <2>1, <2>5, <2>6 DEF Upward, TypeOK
<1>5. ASSUME NEW u \in Updates, NEW id \in Ids, UpdateGameState(c, u, id) PROVE RepInv'
  <2>1. PICK m : /\ inbox' = Append(inbox, m)
                 /\ m = [client |-> c, id |-> id, body |-> Packed(u)]
    BY <1>5 DEF UpdateGameState
  <2>2. UNCHANGED <<member, down, acked, joined>> /\ asked' = [asked EXCEPT ![c] = Append(@, id)]
    BY <1>5 DEF UpdateGameState
  <2>3. m \in UpMessage
    BY <2>1, TextIsRead DEF UpMessage
  <2>4. inbox \in Seq(UpMessage) /\ inbox' \in Seq(UpMessage)
    BY <2>1, <2>3 DEF TypeOK, QueuesOK
  <2>5. MembersOK' /\ QueuesOK' /\ HistoryOK'
    <3>1. MembersOK' /\ QueuesOK'
      BY <1>1, <2>2, <2>4 DEF TypeOK, MembersOK, QueuesOK
    <3>2. HistoryOK'
      BY <1>1, <2>2 DEF TypeOK, HistoryOK
    <3>3. QED
      BY <3>1, <3>2
  <2>6. Upward'
    <3>1. \A i \in DOMAIN inbox' : inbox'[i] = m \/ (i \in DOMAIN inbox /\ inbox'[i] = inbox[i])
      BY <2>1, <2>3, <2>4
    <3>2. m.body = Packed(u)
      BY <2>1
    <3>3. QED
      BY <3>1, <3>2 DEF Upward
  <2>7. Downward'
    BY <1>1, <2>2 DEF Downward, FromOther
  <2>8. QED
    BY <1>2, <2>5, <2>6, <2>7 DEF TypeOK
<1>6. QED
  BY <1>3, <1>4, <1>5

\* A relay is read as the update it repeats.
LEMMA RelayIsRead ==
    ASSUME TypeOK, NEW c, NEW body, FromOther(c, body)
    PROVE  \E j \in DOMAIN log :
               /\ log[j].client # c /\ log[j].update \in Updates
               /\ IsText(Received(body)) /\ Parse(Received(body)) = log[j].update
<1>1. PICK j \in DOMAIN log : log[j].client # c /\ body = Text(log[j].update)
  BY DEF FromOther
<1>2. log \in Seq(Record)
  BY DEF TypeOK, HistoryOK
<1>3. log[j] \in Record
  <2>1. j \in DOMAIN log
    BY <1>1
  <2>2. ASSUME NEW R, log \in Seq(R) PROVE log[j] \in R
    BY <2>1, <2>2
  <2>3. QED
    BY <1>2, <2>2
<1>4. log[j].update \in Updates
  BY <1>3 DEF Record
<1>5. QED
  BY <1>1, <1>4, TextIsRead

LEMMA RelayRep ==
    ASSUME RepInv, NEW c \in Clients, HandleRelay(c)
    PROVE  RepInv'
<1> USE DEF RepInv
<1>1. /\ UNCHANGED <<database, member, inbox, asked, acked, log, joined>>
      /\ down' = [down EXCEPT ![c] = Tail(@)] /\ down[c] # << >>
      /\ Head(down[c]).type = "ServerUpdateGS"
  BY DEF HandleRelay
<1>2. down[c] \in Seq(DownMessage)
  BY DEF TypeOK, QueuesOK
<1>3. 1 \in DOMAIN down[c] /\ Head(down[c]) = down[c][1]
  BY <1>1, <1>2
<1>4. FromOther(c, Head(down[c]).body)
  BY <1>1, <1>3 DEF Downward
<1>5. PICK j \in DOMAIN log :
          /\ log[j].client # c /\ log[j].update \in Updates
          /\ IsText(Received(Head(down[c]).body))
          /\ Parse(Received(Head(down[c]).body)) = log[j].update
  BY <1>4, RelayIsRead
<1>6. broken' = broken /\ copy' = [copy EXCEPT ![c] = UpdateDatabase(@, log[j].update)]
  BY <1>5 DEF HandleRelay
<1>7. copy[c] \in [Keys -> Values]
  BY DEF TypeOK, DatabasesOK
<1>8. /\ UpdateDatabase(copy[c], log[j].update) \in [Keys -> Values]
      /\ \A k \in Keys : UpdateDatabase(copy[c], log[j].update)[k]
            = IF k \in DOMAIN log[j].update THEN log[j].update[k] ELSE copy[c][k]
  BY <1>5, <1>7, UpdateKeepsKeys
<1>9. TypeOK'
  <2>1. DatabasesOK'
    BY <1>1, <1>6, <1>8 DEF TypeOK, DatabasesOK
  <2>2. MembersOK' /\ HistoryOK'
    BY <1>1, <1>6 DEF TypeOK, MembersOK, HistoryOK
  <2>3. Tail(down[c]) \in Seq(DownMessage)
    BY <1>1, <1>2
  <2>4. QueuesOK'
    BY <1>1, <2>3 DEF TypeOK, QueuesOK
  <2>5. QED
    BY <2>1, <2>2, <2>4 DEF TypeOK
<1>10. Upward' /\ AlwaysParsed'
  BY <1>1, <1>6 DEF Upward, AlwaysParsed
<1>11. Downward'
  BY <1>1, TailDownward
<1>12. CopiesHoldOthersValues'
  <2> SUFFICES ASSUME NEW d \in Clients, NEW k \in Keys, copy'[d][k] # Fresh[k]
               PROVE  \E i \in DOMAIN log : /\ log[i].client # d
                                            /\ k \in DOMAIN log[i].update
                                            /\ copy'[d][k] = log[i].update[k]
    BY <1>1 DEF CopiesHoldOthersValues
  <2>1. CASE copy'[d][k] = copy[d][k]
    BY <2>1 DEF CopiesHoldOthersValues
  <2>2. CASE copy'[d][k] # copy[d][k]
    <3>1. d = c /\ copy'[d][k] = UpdateDatabase(copy[c], log[j].update)[k]
      BY <1>6, <2>2 DEF TypeOK, DatabasesOK
    <3>2. k \in DOMAIN log[j].update /\ copy'[d][k] = log[j].update[k]
      BY <1>8, <2>2, <3>1
    <3>3. QED
      BY <1>5, <3>1, <3>2
  <2>3. QED
    BY <2>1, <2>2
<1>13. QED
  BY <1>9, <1>10, <1>11, <1>12

\* One message is appended to a queue.
LEMMA OneMore ==
    ASSUME NEW S, NEW s \in Seq(S), NEW x \in S
    PROVE  /\ s \o <<x>> \in Seq(S)
           /\ \A i \in DOMAIN (s \o <<x>>) :
                (s \o <<x>>)[i] = x \/ (i \in DOMAIN s /\ (s \o <<x>>)[i] = s[i])
<1>1. s \o <<x>> \in Seq(S) /\ Len(s \o <<x>>) = Len(s) + 1
  OBVIOUS
<1>2. ASSUME NEW i \in DOMAIN (s \o <<x>>)
      PROVE  (s \o <<x>>)[i] = x \/ (i \in DOMAIN s /\ (s \o <<x>>)[i] = s[i])
  <2>1. i \in 1..(Len(s) + 1) /\ Len(s) \in Nat
    BY <1>1
  <2>2. CASE i = Len(s) + 1
    BY <2>1, <2>2
  <2>3. CASE i # Len(s) + 1
    BY <2>1, <2>3
  <2>4. QED
    BY <2>2, <2>3
<1>3. QED
  BY <1>1, <1>2

LEMMA UpdateRep ==
    ASSUME RepInv, HandleUpdate
    PROVE  RepInv'
<1> USE DEF RepInv
<1>1. inbox \in Seq(UpMessage) /\ inbox # << >> /\ inbox' = Tail(inbox)
      /\ UNCHANGED <<copy, member, asked, acked, joined>>
  BY DEF HandleUpdate, TypeOK, QueuesOK
<1> DEFINE msg == Head(inbox)
<1>2. msg \in UpMessage /\ 1 \in DOMAIN inbox /\ msg = inbox[1]
  BY <1>1
<1>3. PICK u \in Updates : msg.body = Packed(u)
  BY <1>2 DEF Upward
<1>4. /\ Unpacked(msg.body) = Text(u) /\ Relayed(msg.body) = Text(u)
      /\ IsText(Text(u)) /\ Parse(Text(u)) = u /\ Text(u) \in Body
  BY <1>3, TextIsRead
<1>5. /\ database' = UpdateDatabase(database, u)
      /\ down' = [c \in Clients |->
              IF member[c] = "in" THEN down[c] \o SentTo(msg, c) ELSE down[c]]
      /\ log' = Append(log, [client |-> msg.client, update |-> u])
      /\ broken' = broken
  BY <1>4 DEF HandleUpdate
<1>6. msg.client \in Clients /\ msg.id \in Ids
  BY <1>2 DEF UpMessage
<1> HIDE DEF msg
<1>7. log \in Seq(Record)
  BY DEF TypeOK, HistoryOK
<1>8. /\ log' \in Seq(Record)
      /\ \A i \in DOMAIN log : i \in DOMAIN log' /\ log'[i] = log[i]
      /\ \E j \in DOMAIN log' : log'[j] = [client |-> msg.client, update |-> u]
  <2>1. [client |-> msg.client, update |-> u] \in Record
    BY <1>6 DEF Record
  <2>2. Len(log) \in Nat /\ log'[Len(log) + 1] = [client |-> msg.client, update |-> u]
        /\ Len(log) + 1 \in DOMAIN log'
    BY <1>5, <1>7, <2>1
  <2>3. QED
    BY <1>5, <1>7, <2>1, <2>2
\* What each client is sent, if anything.
<1>9. ASSUME NEW c \in Clients
      PROVE  \/ down'[c] = down[c]
             \/ down'[c] = down[c] \o <<Ack(msg.id)>>
             \/ c # msg.client /\ down'[c] = down[c] \o <<Relay(Text(u))>>
  BY <1>4, <1>5 DEF SentTo
<1>10. Ack(msg.id) \in DownMessage /\ Relay(Text(u)) \in DownMessage
  BY <1>4, <1>6 DEF Ack, Relay, DownMessage, AckMessage, RelayMessage
<1>11. \A c \in Clients : down[c] \in Seq(DownMessage)
  BY DEF TypeOK, QueuesOK
<1>12. TypeOK'
  <2>1. DatabasesOK'
    BY <1>1, <1>5, UpdateKeepsKeys DEF TypeOK, DatabasesOK
  <2>2. MembersOK'
    BY <1>1, <1>5 DEF TypeOK, MembersOK
  <2>3. HistoryOK'
    BY <1>1, <1>8 DEF TypeOK, HistoryOK
  <2>4. inbox' \in Seq(UpMessage)
    BY <1>1
  <2>5. \A c \in Clients : down'[c] \in Seq(DownMessage)
    BY <1>9, <1>10, <1>11, OneMore
  <2>6. QueuesOK'
    BY <1>5, <2>4, <2>5 DEF QueuesOK
  <2>7. QED
    BY <2>1, <2>2, <2>3, <2>6 DEF TypeOK
<1>13. Upward'
  <2>1. \A i \in DOMAIN inbox' : i + 1 \in DOMAIN inbox /\ inbox'[i] = inbox[i + 1]
    BY <1>1
  <2>2. QED
    BY <2>1 DEF Upward
<1>14. Downward'
  <2>1. ASSUME NEW c \in Clients, NEW body, FromOther(c, body)
        PROVE  \E j \in DOMAIN log' : log'[j].client # c /\ body = Text(log'[j].update)
    BY <1>8, <2>1 DEF FromOther
  <2>2. ASSUME NEW c \in Clients, c # msg.client
        PROVE  \E j \in DOMAIN log' : log'[j].client # c /\ Text(u) = Text(log'[j].update)
    BY <1>8, <2>2
  <2>3. ASSUME NEW c \in Clients, NEW i \in DOMAIN down'[c],
               down'[c][i].type = "ServerUpdateGS"
        PROVE  \E j \in DOMAIN log' :
                   log'[j].client # c /\ down'[c][i].body = Text(log'[j].update)
    <3>1. CASE i \in DOMAIN down[c] /\ down'[c][i] = down[c][i]
      <4>1. FromOther(c, down[c][i].body)
        BY <2>3, <3>1 DEF Downward
      <4>2. QED
        BY <2>1, <3>1, <4>1
    <3>2. CASE down'[c][i] = Ack(msg.id)
      BY <2>3, <3>2 DEF Ack
    <3>3. CASE c # msg.client /\ down'[c][i] = Relay(Text(u))
      <4>1. down'[c][i].body = Text(u)
        BY <3>3 DEF Relay
      <4>2. QED
        BY <2>2, <3>3, <4>1
    <3>4. QED
      BY <1>9, <1>10, <1>11, OneMore, <3>1, <3>2, <3>3, <2>3
  <2>4. QED
    BY <2>3 DEF Downward, FromOther
<1>15. AlwaysParsed'
  BY <1>5 DEF AlwaysParsed
<1>16. CopiesHoldOthersValues'
  BY <1>1, <1>8 DEF CopiesHoldOthersValues
<1>17. QED
  BY <1>12, <1>13, <1>14, <1>15, <1>16

LEMMA StillRep == ASSUME RepInv, UNCHANGED vars PROVE RepInv'
<1> USE DEF vars, RepInv
<1>1. TypeOK'
  BY DEF TypeOK, DatabasesOK, MembersOK, QueuesOK, HistoryOK
<1>2. Upward' /\ Downward' /\ AlwaysParsed' /\ CopiesHoldOthersValues'
  BY DEF Upward, Downward, FromOther, AlwaysParsed, CopiesHoldOthersValues
<1>3. QED
  BY <1>1, <1>2

LEMMA RepInvariant == Spec => []RepInv
<1>1. RepInv /\ [Next]_vars => RepInv'
  BY QuietRep, RelayRep, UpdateRep, StillRep DEF Next
<1>2. QED
  BY <1>1, InitRep, PTL DEF Spec

-----------------------------------------------------------------------------
(* Every variable keeps its type: in particular the databases keep the     *)
(* keys they were constructed with.                                        *)
THEOREM TypeCorrect == Spec => []TypeOK
BY RepInvariant, PTL DEF RepInv

(* UpdateGameState, OnMessage and handleNetworking agree on the direction  *)
(* of the text: no json::parse ever throws.                                *)
THEOREM EveryTextIsParsed == Spec => []AlwaysParsed
BY RepInvariant, PTL DEF RepInv

(* A client's copy differs from the fresh database only by values the      *)
(* server has applied for other clients.                                   *)
THEOREM CopiesComeFromOthers == Spec => []CopiesHoldOthersValues
BY RepInvariant, PTL DEF RepInv
-----------------------------------------------------------------------------
(* Induction and recursion. *)

\* A set of numbers has a least element.
LEMMA Least ==
    ASSUME NEW T, T \subseteq Nat, T # {}
    PROVE  \E x \in T : \A y \in T : x <= y
<1> DEFINE R == OpToRel(<, Nat)
<1>1. \A y, z \in Nat : y < z => <<y, z>> \in R
  BY DEF OpToRel
<1>2. IsWellFoundedOn(R, Nat)
  BY NatLessThanWellFounded
<1> HIDE DEF R
<1>3. PICK x \in T : \A y \in T : ~ (<<y, x>> \in R)
  BY <1>2, WFMin
<1>4. ASSUME NEW y \in T PROVE x <= y
  <2>1. x \in Nat /\ y \in Nat /\ ~ (y < x)
    BY <1>1, <1>3
  <2>2. QED
    BY <2>1
<1>5. QED
  BY <1>4

LEMMA Induction ==
    ASSUME NEW T, 0 \in T, \A n \in Nat : n \in T => n + 1 \in T
    PROVE  Nat \subseteq T
<1> SUFFICES ASSUME Nat \ T # {} PROVE FALSE
  OBVIOUS
<1>1. PICK x \in Nat \ T : \A y \in Nat \ T : x <= y
  BY Least
<1>2. x # 0 /\ x - 1 \in Nat
  BY <1>1
<1>3. x - 1 \in T
  BY <1>1, <1>2
<1>4. QED
  BY <1>1, <1>2, <1>3

\* The same, up to n.
LEMMA Along ==
    ASSUME NEW n \in Nat, NEW T, 0 \in T, \A m \in 1 .. n : m - 1 \in T => m \in T
    PROVE  0 .. n \subseteq T
<1> DEFINE I == {m \in Nat : m <= n => m \in T}
<1>1. 0 \in I
  OBVIOUS
<1>2. ASSUME NEW m \in Nat, m \in I PROVE m + 1 \in I
  <2> SUFFICES ASSUME m + 1 <= n PROVE m + 1 \in T
    OBVIOUS
  <2>1. m \in T /\ m + 1 \in 1 .. n /\ (m + 1) - 1 = m
    BY <1>2
  <2>2. QED
    BY <2>1
<1>3. Nat \subseteq I
  <2> HIDE DEF I
  <2>1. QED
    BY <1>1, <1>2, Induction
<1>4. QED
  BY <1>3

\* A fold over a finite set D, of which last[s] is the next to be taken out of s.
FoldOver(f, V, base, D, last, H) ==
    /\ f \in [SUBSET D -> V]
    /\ \A s \in SUBSET D : f[s] = IF s = {} THEN base ELSE H[last[s]][f[s \ {last[s]}]]

LEMMA SetRecursion ==
    ASSUME NEW V, NEW base \in V, NEW D, IsFiniteSet(D),
           NEW last, \A s \in SUBSET D : s # {} => last[s] \in s,
           NEW H \in [D -> [V -> V]]
    PROVE  \E f : FoldOver(f, V, base, D, last, H)
<1> DEFINE Small(m) == {s \in SUBSET D : Cardinality(s) <= m}
           Good(m, f) == /\ f \in [Small(m) -> V]
                         /\ \A s \in Small(m) :
                              f[s] = IF s = {} THEN base ELSE H[last[s]][f[s \ {last[s]}]]
           T == {m \in Nat : \E f : Good(m, f)}
<1>1. ASSUME NEW s \in SUBSET D
      PROVE  Cardinality(s) \in Nat /\ (Cardinality(s) = 0 <=> s = {})
             /\ Cardinality(s) <= Cardinality(D) /\ Cardinality(D) \in Nat
  BY FS_Subset, FS_EmptySet, FS_CardinalityType
<1>2. ASSUME NEW s \in SUBSET D, s # {}
      PROVE  s \ {last[s]} \in SUBSET D /\ Cardinality(s \ {last[s]}) = Cardinality(s) - 1
             /\ last[s] \in D
  BY <1>2, FS_Subset, FS_RemoveElement
<1>3. 0 \in T
  <2> DEFINE f == [s \in Small(0) |-> base]
  <2>1. \A s \in Small(0) : s = {}
    BY <1>1
  <2>2. Good(0, f)
    BY <2>1
  <2>3. QED
    BY <2>2
<1>4. ASSUME NEW m \in Nat, m \in T PROVE m + 1 \in T
  <2>1. PICK f : Good(m, f)
    BY <1>4
  <2> DEFINE g == [s \in Small(m + 1) |->
                      IF s = {} THEN base ELSE H[last[s]][f[s \ {last[s]}]]]
  <2>2. ASSUME NEW s \in Small(m + 1), s # {}
        PROVE  s \ {last[s]} \in Small(m) /\ last[s] \in D
    BY <2>2, <1>1, <1>2
  <2>3. ASSUME NEW s \in Small(m) PROVE s \in Small(m + 1) /\ g[s] = f[s]
    <3>1. s \in Small(m + 1)
      BY <1>1
    <3>2. f[s] = IF s = {} THEN base ELSE H[last[s]][f[s \ {last[s]}]]
      BY <2>1
    <3> HIDE DEF Small, Good
    <3>3. g[s] = IF s = {} THEN base ELSE H[last[s]][f[s \ {last[s]}]]
      BY <3>1
    <3> HIDE DEF g
    <3>4. QED
      BY <3>1, <3>2, <3>3
  <2>4. g \in [Small(m + 1) -> V]
    <3> SUFFICES ASSUME NEW s \in Small(m + 1) PROVE g[s] \in V
      OBVIOUS
    <3>1. CASE s = {}
      BY <3>1
    <3>2. CASE s # {}
      <4>1. f[s \ {last[s]}] \in V /\ H[last[s]] \in [V -> V]
        BY <2>1, <2>2, <3>2
      <4>2. QED
        BY <4>1, <3>2
    <3>3. QED
      BY <3>1, <3>2
  <2>5. ASSUME NEW s \in Small(m + 1)
        PROVE  g[s] = IF s = {} THEN base ELSE H[last[s]][g[s \ {last[s]}]]
    <3>1. CASE s = {}
      BY <3>1
    <3>2. CASE s # {}
      <4>1. g[s \ {last[s]}] = f[s \ {last[s]}]
        BY <2>2, <2>3, <3>2
      <4> HIDE DEF Small
      <4>2. g[s] = H[last[s]][f[s \ {last[s]}]]
        BY <3>2
      <4> HIDE DEF g
      <4>3. QED
        BY <3>2, <4>1, <4>2
    <3>3. QED
      BY <3>1, <3>2
  <2>6. Good(m + 1, g)
    <3> HIDE DEF g, Small
    <3>1. QED
      BY <2>4, <2>5
  <2>7. QED
    <3> HIDE DEF Good
    <3>1. QED
      BY <2>6
<1>5. Nat \subseteq T
  <2> HIDE DEF T
  <2>1. QED
    BY <1>3, <1>4, Induction
<1>6. Cardinality(D) \in T
  BY <1>5, FS_CardinalityType
<1>7. PICK f : Good(Cardinality(D), f)
  BY <1>6
<1>8. SUBSET D = Small(Cardinality(D))
  BY <1>1
<1>9. f \in [SUBSET D -> V]
  <2> HIDE DEF Small
  <2>1. QED
    BY <1>7, <1>8
<1>10. \A s \in SUBSET D : f[s] = IF s = {} THEN base ELSE H[last[s]][f[s \ {last[s]}]]
  <2> HIDE DEF Small
  <2>1. QED
    BY <1>7, <1>8
<1>11. QED
  BY <1>9, <1>10 DEF FoldOver

-----------------------------------------------------------------------------
(* Folds of sequences. *)

LEMMA MaxIsLast ==
    ASSUME NEW n \in Nat, NEW T \in SUBSET (1 .. n), T # {}
    PROVE  Max(T) \in T /\ \A y \in T : y <= Max(T)
<1> DEFINE R == {n - x : x \in T}
<1>1. R \subseteq Nat /\ R # {}
  <2>1. \A x \in T : x \in 1 .. n /\ n - x \in Nat
    OBVIOUS
  <2>2. QED
    BY <2>1
<1>2. PICK z \in R : \A y \in R : z <= y
  BY <1>1, Least
<1>3. PICK x \in T : z = n - x
  BY <1>2
<1>4. ASSUME NEW y \in T PROVE x >= y
  <2>1. n - x <= n - y
    BY <1>2, <1>3
  <2>2. QED
    BY <2>1
<1>5. Max(T) \in T /\ \A y \in T : Max(T) >= y
  BY <1>4 DEF Max
<1>6. QED
  BY <1>5

\* FoldLeft takes the positions of a sequence from the last to the first.
FoldSeqOver(f, V, base, n, H) ==
    /\ f \in [SUBSET (1 .. n) -> V]
    /\ \A s \in SUBSET (1 .. n) : f[s] = IF s = {} THEN base ELSE H[Max(s)][f[s \ {Max(s)}]]

LEMMA FoldExists ==
    ASSUME NEW V, NEW base \in V, NEW n \in Nat, NEW H \in [1 .. n -> [V -> V]]
    PROVE  \E f : FoldSeqOver(f, V, base, n, H)
<1> DEFINE D == 1 .. n
           last == [s \in SUBSET D |-> Max(s)]
<1>1. \A s \in SUBSET D : s # {} => last[s] \in s
  BY MaxIsLast
<1>2. IsFiniteSet(D)
  BY FS_Interval
<1>3. \A s \in SUBSET D : last[s] = Max(s)
  OBVIOUS
<1>4. H \in [D -> [V -> V]]
  OBVIOUS
<1>5. \E f : FoldOver(f, V, base, D, last, H)
  <2> HIDE DEF D, last
  <2>1. QED
    BY <1>1, <1>2, <1>4, SetRecursion
<1>6. QED
  <2>1. PICK f : FoldOver(f, V, base, D, last, H)
    BY <1>5
  <2> HIDE DEF last
  <2>2. f \in [SUBSET D -> V]
    BY <2>1 DEF FoldOver
  <2>3. \A s \in SUBSET D : f[s] = IF s = {} THEN base ELSE H[Max(s)][f[s \ {Max(s)}]]
    BY <1>3, <2>1 DEF FoldOver
  <2>4. QED
    BY <2>2, <2>3 DEF FoldSeqOver

\* What is left of the first m positions without the last.
LEMMA Segments ==
    ASSUME NEW m \in Nat \ {0}
    PROVE  1 .. m # {} /\ Max(1 .. m) = m /\ (1 .. m) \ {m} = 1 .. m - 1
<1>1. ASSUME NEW T, T = 1 .. m PROVE Max(T) \in T /\ \A y \in T : y <= Max(T)
  <2>1. T \in SUBSET (1 .. m) /\ T # {} /\ m \in Nat
    BY <1>1
  <2>2. QED
    BY <2>1, MaxIsLast
<1>2. m \in 1 .. m
  OBVIOUS
<1>3. Max(1 .. m) = m
  BY <1>1, <1>2
<1>4. QED
  BY <1>2, <1>3

\* r[m] is what is within T among the first m elements of s.
WithinSteps(r, R, s, T) ==
    /\ r \in [0 .. Len(s) -> Seq(R \cap T)]
    /\ r[0] = << >> /\ r[Len(s)] = Within(s, T)
    /\ \A m \in 1 .. Len(s) :
          r[m] = IF s[m] \in T THEN Append(r[m - 1], s[m]) ELSE r[m - 1]

LEMMA WithinChain ==
    ASSUME NEW R, NEW s \in Seq(R), NEW T
    PROVE  \E r : WithinSteps(r, R, s, T)
<1> DEFINE n == Len(s)
           V == Seq(R \cap T)
           H == [i \in 1 .. n |-> [v \in V |-> IF s[i] \in T THEN Append(v, s[i]) ELSE v]]
<1>1. n \in Nat /\ DOMAIN s = 1 .. n /\ << >> \in V /\ \A i \in 1 .. n : s[i] \in R
  OBVIOUS
<1>2. ASSUME NEW i \in 1 .. n, NEW v \in V
      PROVE  (IF s[i] \in T THEN Append(v, s[i]) ELSE v) \in V
  BY <1>1
<1>3. H \in [1 .. n -> [V -> V]]
  <2> HIDE DEF V, n
  <2>1. QED
    BY <1>2
<1>4. \A i \in 1 .. n, v \in V : H[i][v] = IF s[i] \in T THEN Append(v, s[i]) ELSE v
  OBVIOUS
<1> HIDE DEF H, n, V
<1>5. PICK f : FoldSeqOver(f, V, << >>, n, H)
  BY <1>1, <1>3, FoldExists
<1> DEFINE P(g) == g = [t \in SUBSET (DOMAIN s) |->
                IF t = {} THEN << >>
                ELSE LET x == Max(t)
                     IN  IF s[x] \in T THEN Append(g[t \ {x}], s[x]) ELSE g[t \ {x}]]
           F == CHOOSE g : P(g)
<1>6. ASSUME NEW t \in SUBSET (1 .. n), t # {}
      PROVE  f[t] = IF s[Max(t)] \in T THEN Append(f[t \ {Max(t)}], s[Max(t)])
                    ELSE f[t \ {Max(t)}]
  <2>1. Max(t) \in 1 .. n /\ t \ {Max(t)} \in SUBSET (1 .. n)
    BY <1>1, <1>6, MaxIsLast
  <2>2. f[t \ {Max(t)}] \in V /\ f[t] = H[Max(t)][f[t \ {Max(t)}]]
    BY <1>5, <1>6, <2>1 DEF FoldSeqOver
  <2>3. QED
    BY <1>4, <2>1, <2>2
<1>7. P(f)
  BY <1>1, <1>5, <1>6 DEF FoldSeqOver
<1>8. P(F)
  <2> HIDE DEF P
  <2>1. QED
    BY <1>7
<1>9. Within(s, T) = F[DOMAIN s]
  BY DEF Within, FoldLeft, MapThenFoldSet
<1> HIDE DEF F
<1> DEFINE r == [m \in 0 .. n |-> F[1 .. m]]
<1>10. r[0] = << >> /\ r[n] = Within(s, T)
  <2>1. F[{}] = << >> /\ 1 .. 0 = {}
    BY <1>8
  <2>2. QED
    BY <1>1, <1>9, <2>1
<1>11. ASSUME NEW m \in 1 .. n
       PROVE  r[m] = IF s[m] \in T THEN Append(r[m - 1], s[m]) ELSE r[m - 1]
  <2>1. m \in Nat \ {0} /\ m - 1 \in 0 .. n /\ m \in 0 .. n
    BY <1>1
  <2>2. 1 .. m # {} /\ Max(1 .. m) = m /\ (1 .. m) \ {m} = 1 .. m - 1
    BY <2>1, Segments
  <2>3. 1 .. m \in SUBSET (DOMAIN s)
    BY <1>1
  <2>4. F[1 .. m] = IF s[m] \in T THEN Append(F[1 .. m - 1], s[m]) ELSE F[1 .. m - 1]
    BY <1>8, <2>2, <2>3
  <2>5. QED
    BY <2>1, <2>4
<1> HIDE DEF r
<1> DEFINE I == {m \in 0 .. n : r[m] \in V}
<1>12. 0 .. n \subseteq I
  <2>1. 0 \in I
    BY <1>1, <1>10
  <2>2. ASSUME NEW m \in 1 .. n, m - 1 \in I PROVE m \in I
    <3>1. m \in 0 .. n /\ r[m - 1] \in V
      BY <1>1, <2>2
    <3>2. r[m] \in V
      BY <1>2, <1>11, <3>1
    <3>3. QED
      BY <3>1, <3>2
  <2> HIDE DEF I
  <2>3. QED
    BY <1>1, <2>1, <2>2, Along
<1>13. r \in [0 .. n -> V]
  BY <1>12 DEF r
<1>14. QED
  BY <1>10, <1>11, <1>13 DEF n, V, WithinSteps

\* r[m] is what the first m updates of s make of db.
MadeSteps(r, db, s) ==
    /\ r \in [0 .. Len(s) -> [Keys -> Values]]
    /\ r[0] = db /\ r[Len(s)] = Made(db, s)
    /\ \A m \in 1 .. Len(s) : r[m] = UpdateDatabase(r[m - 1], s[m])

LEMMA MadeChain ==
    ASSUME NEW db \in [Keys -> Values], NEW s \in Seq(Updates)
    PROVE  \E r : MadeSteps(r, db, s)
<1> DEFINE n == Len(s)
           V == [Keys -> Values]
           H == [i \in 1 .. n |-> [v \in V |-> UpdateDatabase(v, s[i])]]
<1>1. n \in Nat /\ DOMAIN s = 1 .. n /\ db \in V /\ \A i \in 1 .. n : s[i] \in Updates
  OBVIOUS
<1>2. ASSUME NEW i \in 1 .. n, NEW v \in V PROVE UpdateDatabase(v, s[i]) \in V
  BY <1>1, UpdateKeepsKeys
<1>3. H \in [1 .. n -> [V -> V]]
  <2> HIDE DEF V, n
  <2>1. QED
    BY <1>2
<1>4. \A i \in 1 .. n, v \in V : H[i][v] = UpdateDatabase(v, s[i])
  OBVIOUS
<1> HIDE DEF H, n, V
<1>5. PICK f : FoldSeqOver(f, V, db, n, H)
  BY <1>1, <1>3, FoldExists
<1> DEFINE P(g) == g = [t \in SUBSET (DOMAIN s) |->
                IF t = {} THEN db
                ELSE LET x == Max(t) IN UpdateDatabase(g[t \ {x}], s[x])]
           F == CHOOSE g : P(g)
<1>6. ASSUME NEW t \in SUBSET (1 .. n), t # {}
      PROVE  f[t] = UpdateDatabase(f[t \ {Max(t)}], s[Max(t)])
  <2>1. Max(t) \in 1 .. n /\ t \ {Max(t)} \in SUBSET (1 .. n)
    BY <1>1, <1>6, MaxIsLast
  <2>2. f[t \ {Max(t)}] \in V /\ f[t] = H[Max(t)][f[t \ {Max(t)}]]
    BY <1>5, <1>6, <2>1 DEF FoldSeqOver
  <2>3. QED
    BY <1>4, <2>1, <2>2
<1>7. P(f)
  BY <1>1, <1>5, <1>6 DEF FoldSeqOver
<1>8. P(F)
  <2> HIDE DEF P
  <2>1. QED
    BY <1>7
<1>9. Made(db, s) = F[DOMAIN s]
  BY DEF Made, FoldLeft, MapThenFoldSet
<1> HIDE DEF F
<1> DEFINE r == [m \in 0 .. n |-> F[1 .. m]]
<1>10. r[0] = db /\ r[n] = Made(db, s)
  <2>1. F[{}] = db /\ 1 .. 0 = {}
    BY <1>8
  <2>2. QED
    BY <1>1, <1>9, <2>1
<1>11. ASSUME NEW m \in 1 .. n PROVE r[m] = UpdateDatabase(r[m - 1], s[m])
  <2>1. m \in Nat \ {0} /\ m - 1 \in 0 .. n /\ m \in 0 .. n
    BY <1>1
  <2>2. 1 .. m # {} /\ Max(1 .. m) = m /\ (1 .. m) \ {m} = 1 .. m - 1
    BY <2>1, Segments
  <2>3. 1 .. m \in SUBSET (DOMAIN s)
    BY <1>1
  <2>4. F[1 .. m] = UpdateDatabase(F[1 .. m - 1], s[m])
    BY <1>8, <2>2, <2>3
  <2>5. QED
    BY <2>1, <2>4
<1> HIDE DEF r
<1> DEFINE I == {m \in 0 .. n : r[m] \in V}
<1>12. 0 .. n \subseteq I
  <2>1. 0 \in I
    BY <1>1, <1>10
  <2>2. ASSUME NEW m \in 1 .. n, m - 1 \in I PROVE m \in I
    <3>1. m \in 0 .. n /\ r[m - 1] \in V
      BY <1>1, <2>2
    <3>2. r[m] \in V
      BY <1>2, <1>11, <3>1
    <3>3. QED
      BY <3>1, <3>2
  <2> HIDE DEF I
  <2>3. QED
    BY <1>1, <2>1, <2>2, Along
<1>13. r \in [0 .. n -> V]
  BY <1>12 DEF r
<1>14. QED
  BY <1>10, <1>11, <1>13 DEF n, V, MadeSteps

LEMMA WithinType ==
    ASSUME NEW R, NEW s \in Seq(R), NEW T
    PROVE  Within(s, T) \in Seq(R \cap T)
<1>1. PICK r : WithinSteps(r, R, s, T)
  BY WithinChain
<1>2. Len(s) \in 0 .. Len(s)
  OBVIOUS
<1>3. QED
  BY <1>1, <1>2 DEF WithinSteps

LEMMA WithinEmpty ==
    ASSUME NEW T
    PROVE  Within(<< >>, T) = << >>
<1>1. << >> \in Seq({}) /\ Len(<< >>) = 0
  OBVIOUS
<1>2. PICK r : WithinSteps(r, {}, << >>, T)
  BY <1>1, WithinChain
<1>3. QED
  BY <1>1, <1>2 DEF WithinSteps

LEMMA WithinLast ==
    ASSUME NEW R, NEW s \in Seq(R), NEW x \in R, NEW T
    PROVE  Within(Append(s, x), T) = IF x \in T THEN Append(Within(s, T), x) ELSE Within(s, T)
<1> DEFINE e == Append(s, x)
           n == Len(s)
<1>1. e \in Seq(R) /\ n \in Nat /\ Len(e) = n + 1 /\ e[n + 1] = x /\ n + 1 \in 1 .. n + 1
      /\ \A m \in 1 .. n : e[m] = s[m] /\ m \in 1 .. n + 1
  OBVIOUS
<1>2. PICK r : WithinSteps(r, R, s, T)
  BY WithinChain
<1> HIDE DEF e
<1>3. PICK q : WithinSteps(q, R, e, T)
  BY <1>1, WithinChain
<1> DEFINE I == {m \in 0 .. n : q[m] = r[m]}
<1>4. 0 .. n \subseteq I
  <2>1. 0 \in I
    BY <1>1, <1>2, <1>3 DEF WithinSteps
  <2>2. ASSUME NEW m \in 1 .. n, m - 1 \in I PROVE m \in I
    <3>1. q[m - 1] = r[m - 1] /\ e[m] = s[m] /\ m \in 1 .. n + 1 /\ m \in 0 .. n
      BY <1>1, <2>2
    <3>2. q[m] = IF e[m] \in T THEN Append(q[m - 1], e[m]) ELSE q[m - 1]
      BY <1>1, <1>3, <3>1 DEF WithinSteps
    <3>3. r[m] = IF s[m] \in T THEN Append(r[m - 1], s[m]) ELSE r[m - 1]
      BY <1>2 DEF WithinSteps
    <3>4. QED
      BY <3>1, <3>2, <3>3
  <2> HIDE DEF I
  <2>3. QED
    BY <1>1, <2>1, <2>2, Along
<1>5. q[n] = Within(s, T)
  BY <1>1, <1>2, <1>4 DEF WithinSteps
<1>6. q[n + 1] = IF e[n + 1] \in T THEN Append(q[(n + 1) - 1], e[n + 1]) ELSE q[(n + 1) - 1]
  BY <1>1, <1>3 DEF WithinSteps
<1>7. q[n + 1] = Within(e, T) /\ (n + 1) - 1 = n
  BY <1>1, <1>3 DEF WithinSteps
<1>8. QED
  BY <1>1, <1>5, <1>6, <1>7 DEF e

Associates(s, t, x) == Append(s \o t, x) = s \o Append(t, x)

LEMMA AppendAssociates ==
    ASSUME NEW S, NEW s \in Seq(S), NEW t \in Seq(S), NEW x \in S
    PROVE  Associates(s, t, x)
BY DEF Associates

LEMMA WithinFirst ==
    ASSUME NEW R, NEW s \in Seq(R), s # << >>, NEW T
    PROVE  Within(s, T) = IF Head(s) \in T THEN <<Head(s)>> \o Within(Tail(s), T)
                          ELSE Within(Tail(s), T)
<1> DEFINE e == Tail(s)
           n == Len(e)
           first == IF Head(s) \in T THEN <<Head(s)>> ELSE << >>
<1>1. e \in Seq(R) /\ n \in Nat /\ Len(s) = n + 1 /\ s[1] = Head(s) /\ Head(s) \in R
      /\ \A m \in 1 .. n : e[m] = s[m + 1] /\ m + 1 \in 1 .. n + 1
  OBVIOUS
<1>2. first \in Seq(R)
  BY <1>1
<1>3. first \o << >> = first
  BY <1>2
<1>4. first = IF Head(s) \in T THEN <<Head(s)>> ELSE << >>
  OBVIOUS
<1> HIDE DEF first
<1>5. PICK r : WithinSteps(r, R, s, T)
  BY WithinChain
<1> HIDE DEF e
<1>6. PICK q : WithinSteps(q, R, e, T)
  BY <1>1, WithinChain
<1> DEFINE I == {m \in 0 .. n : r[m + 1] = first \o q[m]}
<1>7. 0 .. n \subseteq I
  <2>1. 0 \in I
    <3>1. 1 \in 1 .. Len(s) /\ 1 - 1 = 0 /\ r[0] = << >> /\ q[0] = << >>
      BY <1>1, <1>5, <1>6 DEF WithinSteps
    <3>2. r[1] = IF s[1] \in T THEN Append(<< >>, s[1]) ELSE << >>
      BY <1>5, <3>1 DEF WithinSteps
    <3>3. Append(<< >>, s[1]) = <<s[1]>>
      OBVIOUS
    <3>4. r[0 + 1] = first
      BY <1>1, <1>4, <3>2, <3>3
    <3>5. first \o q[0] = first /\ 0 \in 0 .. n
      BY <1>1, <1>3, <3>1
    <3>6. QED
      BY <3>4, <3>5
  <2>2. ASSUME NEW m \in 1 .. n, m - 1 \in I PROVE m \in I
    <3>1. r[(m - 1) + 1] = first \o q[m - 1] /\ e[m] = s[m + 1] /\ m + 1 \in 1 .. n + 1
          /\ m \in 0 .. n /\ (m - 1) + 1 = m /\ (m + 1) - 1 = m /\ m - 1 \in 0 .. n
          /\ s[m + 1] \in R
      BY <1>1, <2>2
    <3>2. r[m + 1] = IF s[m + 1] \in T THEN Append(r[(m + 1) - 1], s[m + 1])
                     ELSE r[(m + 1) - 1]
      BY <1>1, <1>5, <3>1 DEF WithinSteps
    <3>3. q[m] = IF e[m] \in T THEN Append(q[m - 1], e[m]) ELSE q[m - 1]
      BY <1>6 DEF WithinSteps
    <3>4. q[m - 1] \in Seq(R)
      <4>1. q[m - 1] \in Seq(R \cap T)
        BY <1>6, <3>1 DEF WithinSteps
      <4>2. QED
        BY <4>1
    <3>5. Append(first \o q[m - 1], s[m + 1]) = first \o Append(q[m - 1], s[m + 1])
      <4>1. s[m + 1] \in R
        BY <3>1
      <4>2. Associates(first, q[m - 1], s[m + 1])
        BY <1>2, <3>4, <4>1, AppendAssociates
      <4>3. QED
        BY <4>2 DEF Associates
    <3>6. r[m + 1] = first \o q[m]
      BY <3>1, <3>2, <3>3, <3>5
    <3>7. QED
      BY <3>1, <3>6
  <2> HIDE DEF I
  <2>3. QED
    BY <1>1, <2>1, <2>2, Along
<1>8. r[n + 1] = first \o q[n]
  BY <1>1, <1>7
<1>9. r[n + 1] = Within(s, T) /\ q[n] = Within(e, T)
  BY <1>1, <1>5, <1>6 DEF WithinSteps
<1>10. << >> \o Within(e, T) = Within(e, T)
  <2>1. Within(e, T) \in Seq(R \cap T)
    BY <1>1, WithinType
  <2>2. QED
    BY <2>1
<1>11. QED
  BY <1>4, <1>8, <1>9, <1>10 DEF e

LEMMA MadeLast ==
    ASSUME NEW db \in [Keys -> Values], NEW s \in Seq(Updates), NEW u \in Updates
    PROVE  Made(db, Append(s, u))
                = UpdateDatabase(Made(db, s), u)
<1> DEFINE e == Append(s, u)
           n == Len(s)
<1>1. e \in Seq(Updates) /\ n \in Nat /\ Len(e) = n + 1 /\ e[n + 1] = u
      /\ n + 1 \in 1 .. n + 1 /\ \A m \in 1 .. n : e[m] = s[m] /\ m \in 1 .. n + 1
  OBVIOUS
<1>2. PICK r : MadeSteps(r, db, s)
  BY MadeChain
<1> HIDE DEF e
<1>3. PICK q : MadeSteps(q, db, e)
  BY <1>1, MadeChain
<1> DEFINE I == {m \in 0 .. n : q[m] = r[m]}
<1>4. 0 .. n \subseteq I
  <2>1. 0 \in I
    BY <1>1, <1>2, <1>3 DEF MadeSteps
  <2>2. ASSUME NEW m \in 1 .. n, m - 1 \in I PROVE m \in I
    <3>1. q[m - 1] = r[m - 1] /\ e[m] = s[m] /\ m \in 1 .. n + 1 /\ m \in 0 .. n
      BY <1>1, <2>2
    <3>2. q[m] = UpdateDatabase(q[m - 1], e[m])
      BY <1>1, <1>3, <3>1 DEF MadeSteps
    <3>3. r[m] = UpdateDatabase(r[m - 1], s[m])
      BY <1>2 DEF MadeSteps
    <3>4. QED
      BY <3>1, <3>2, <3>3
  <2> HIDE DEF I
  <2>3. QED
    BY <1>1, <2>1, <2>2, Along
<1>5. q[n] = Made(db, s)
  <2>1. q[n] = r[n]
    BY <1>1, <1>4
  <2>2. QED
    BY <1>2, <2>1 DEF MadeSteps
<1>6. q[n + 1] = UpdateDatabase(q[(n + 1) - 1], e[n + 1])
  BY <1>1, <1>3 DEF MadeSteps
<1>7. q[n + 1] = Made(db, e) /\ (n + 1) - 1 = n
  BY <1>1, <1>3 DEF MadeSteps
<1>8. QED
  BY <1>1, <1>5, <1>6, <1>7 DEF e

LEMMA MadeFirst ==
    ASSUME NEW db \in [Keys -> Values], NEW u \in Updates, NEW s \in Seq(Updates)
    PROVE  Made(db, <<u>> \o s)
                = Made(UpdateDatabase(db, u), s)
<1> DEFINE e == <<u>> \o s
           n == Len(s)
           then == UpdateDatabase(db, u)
<1>1. e \in Seq(Updates) /\ n \in Nat /\ Len(e) = n + 1 /\ e[1] = u
      /\ \A m \in 1 .. n : e[m + 1] = s[m] /\ m + 1 \in 1 .. n + 1
  OBVIOUS
<1>2. then \in [Keys -> Values]
  BY UpdateKeepsKeys
<1> HIDE DEF e, then
<1>3. PICK r : MadeSteps(r, then, s)
  BY <1>2, MadeChain
<1>4. PICK q : MadeSteps(q, db, e)
  BY <1>1, MadeChain
<1> DEFINE I == {m \in 0 .. n : q[m + 1] = r[m]}
<1>5. 0 .. n \subseteq I
  <2>1. 0 \in I
    <3>1. 1 \in 1 .. Len(e) /\ 1 - 1 = 0
      BY <1>1
    <3>2. q[1] = UpdateDatabase(q[0], e[1])
      BY <1>4, <3>1 DEF MadeSteps
    <3>3. q[0 + 1] = r[0]
      BY <1>1, <1>3, <1>4, <3>2 DEF MadeSteps, then
    <3>4. QED
      BY <1>1, <3>3
  <2>2. ASSUME NEW m \in 1 .. n, m - 1 \in I PROVE m \in I
    <3>1. q[(m - 1) + 1] = r[m - 1] /\ e[m + 1] = s[m] /\ m + 1 \in 1 .. n + 1 /\ m \in 0 .. n
          /\ (m - 1) + 1 = m /\ (m + 1) - 1 = m
      BY <1>1, <2>2
    <3>2. q[m + 1] = UpdateDatabase(q[(m + 1) - 1], e[m + 1])
      BY <1>1, <1>4, <3>1 DEF MadeSteps
    <3>3. r[m] = UpdateDatabase(r[m - 1], s[m])
      BY <1>3 DEF MadeSteps
    <3>4. QED
      BY <3>1, <3>2, <3>3
  <2> HIDE DEF I
  <2>3. QED
    BY <1>1, <2>1, <2>2, Along
<1>6. q[n + 1] = r[n]
  BY <1>1, <1>5
<1>7. q[n + 1] = Made(db, e) /\ r[n] = Made(then, s)
  BY <1>1, <1>3, <1>4 DEF MadeSteps
<1>8. QED
  BY <1>6, <1>7 DEF e, then

-----------------------------------------------------------------------------
(* Sequences of fields, and the order of elements in several sequences. *)

LEMMA IdsType ==
    ASSUME NEW R, \A m \in R : m.id \in Ids, NEW q \in Seq(R)
    PROVE  IdsOf(q) \in Seq(Ids)
<1>1. \A i \in 1 .. Len(q) : q[i] \in R
  OBVIOUS
<1>2. IdsOf(q) = [i \in 1 .. Len(q) |-> q[i].id] /\ Len(q) \in Nat
  BY DEF IdsOf
<1>3. QED
  BY <1>1, <1>2

LEMMA IdsGrow ==
    ASSUME NEW R, NEW q \in Seq(R), NEW x \in R
    PROVE  /\ IdsOf(Append(q, x)) = Append(IdsOf(q), x.id)
           /\ IdsOf(<<x>> \o q) = <<x.id>> \o IdsOf(q)
<1> DEFINE n == Len(q)
           late == Append(q, x)
           early == <<x>> \o q
<1>1. /\ n \in Nat /\ DOMAIN late = 1 .. n + 1 /\ DOMAIN early = 1 .. n + 1
      /\ \A i \in 1 .. n + 1 : late[i] = IF i = n + 1 THEN x ELSE q[i]
      /\ \A i \in 1 .. n + 1 : early[i] = IF i = 1 THEN x ELSE q[i - 1]
  OBVIOUS
<1>2. IdsOf(q) = [i \in 1 .. n |-> q[i].id]
  BY <1>1 DEF IdsOf
<1>3. /\ Append(IdsOf(q), x.id)
            = [i \in 1 .. n + 1 |-> IF i = n + 1 THEN x.id ELSE q[i].id]
      /\ <<x.id>> \o IdsOf(q)
            = [i \in 1 .. n + 1 |-> IF i = 1 THEN x.id ELSE q[i - 1].id]
  BY <1>1, <1>2
<1> HIDE DEF late, early
<1>4. /\ IdsOf(late) = [i \in 1 .. n + 1 |-> late[i].id]
      /\ IdsOf(early) = [i \in 1 .. n + 1 |-> early[i].id]
  BY <1>1 DEF IdsOf
<1>5. \A i \in 1 .. n + 1 :
          /\ late[i].id = IF i = n + 1 THEN x.id ELSE q[i].id
          /\ early[i].id = IF i = 1 THEN x.id ELSE q[i - 1].id
  BY <1>1
<1>6. QED
  BY <1>3, <1>4, <1>5 DEF late, early

LEMMA UpdatesType ==
    ASSUME NEW R, \A m \in R : m.update \in Updates, NEW q \in Seq(R)
    PROVE  UpdatesOf(q) \in Seq(Updates)
<1>1. \A i \in 1 .. Len(q) : q[i] \in R
  OBVIOUS
<1>2. UpdatesOf(q) = [i \in 1 .. Len(q) |-> q[i].update] /\ Len(q) \in Nat
  BY DEF UpdatesOf
<1>3. QED
  BY <1>1, <1>2

LEMMA UpdatesGrow ==
    ASSUME NEW R, NEW q \in Seq(R), NEW x \in R
    PROVE  /\ UpdatesOf(Append(q, x)) = Append(UpdatesOf(q), x.update)
           /\ UpdatesOf(<<x>> \o q) = <<x.update>> \o UpdatesOf(q)
<1> DEFINE n == Len(q)
           late == Append(q, x)
           early == <<x>> \o q
<1>1. /\ n \in Nat /\ DOMAIN late = 1 .. n + 1 /\ DOMAIN early = 1 .. n + 1
      /\ \A i \in 1 .. n + 1 : late[i] = IF i = n + 1 THEN x ELSE q[i]
      /\ \A i \in 1 .. n + 1 : early[i] = IF i = 1 THEN x ELSE q[i - 1]
  OBVIOUS
<1>2. UpdatesOf(q) = [i \in 1 .. n |-> q[i].update]
  BY <1>1 DEF UpdatesOf
<1>3. /\ Append(UpdatesOf(q), x.update)
            = [i \in 1 .. n + 1 |-> IF i = n + 1 THEN x.update ELSE q[i].update]
      /\ <<x.update>> \o UpdatesOf(q)
            = [i \in 1 .. n + 1 |-> IF i = 1 THEN x.update ELSE q[i - 1].update]
  BY <1>1, <1>2
<1> HIDE DEF late, early
<1>4. /\ UpdatesOf(late) = [i \in 1 .. n + 1 |-> late[i].update]
      /\ UpdatesOf(early) = [i \in 1 .. n + 1 |-> early[i].update]
  BY <1>1 DEF UpdatesOf
<1>5. \A i \in 1 .. n + 1 :
          /\ late[i].update = IF i = n + 1 THEN x.update ELSE q[i].update
          /\ early[i].update = IF i = 1 THEN x.update ELSE q[i - 1].update
  BY <1>1
<1>6. QED
  BY <1>3, <1>4, <1>5 DEF late, early

LEMMA ReadType ==
    ASSUME NEW R, \A m \in R : Parse(Received(m.body)) \in Updates, NEW q \in Seq(R)
    PROVE  ReadFrom(q) \in Seq(Updates)
<1>1. \A i \in 1 .. Len(q) : q[i] \in R
  OBVIOUS
<1>2. ReadFrom(q) = [i \in 1 .. Len(q) |-> Parse(Received(q[i].body))] /\ Len(q) \in Nat
  BY DEF ReadFrom
<1>3. QED
  BY <1>1, <1>2

LEMMA ReadGrow ==
    ASSUME NEW R, NEW q \in Seq(R), NEW x \in R
    PROVE  /\ ReadFrom(Append(q, x)) = Append(ReadFrom(q), Parse(Received(x.body)))
           /\ ReadFrom(<<x>> \o q) = <<Parse(Received(x.body))>> \o ReadFrom(q)
<1> DEFINE n == Len(q)
           late == Append(q, x)
           early == <<x>> \o q
<1>1. /\ n \in Nat /\ DOMAIN late = 1 .. n + 1 /\ DOMAIN early = 1 .. n + 1
      /\ \A i \in 1 .. n + 1 : late[i] = IF i = n + 1 THEN x ELSE q[i]
      /\ \A i \in 1 .. n + 1 : early[i] = IF i = 1 THEN x ELSE q[i - 1]
  OBVIOUS
<1>2. ReadFrom(q) = [i \in 1 .. n |-> Parse(Received(q[i].body))]
  BY <1>1 DEF ReadFrom
<1>3. /\ Append(ReadFrom(q), Parse(Received(x.body)))
            = [i \in 1 .. n + 1 |-> IF i = n + 1 THEN Parse(Received(x.body)) ELSE Parse(Received(q[i].body))]
      /\ <<Parse(Received(x.body))>> \o ReadFrom(q)
            = [i \in 1 .. n + 1 |-> IF i = 1 THEN Parse(Received(x.body)) ELSE Parse(Received(q[i - 1].body))]
  BY <1>1, <1>2
<1> HIDE DEF late, early
<1>4. /\ ReadFrom(late) = [i \in 1 .. n + 1 |-> Parse(Received(late[i].body))]
      /\ ReadFrom(early) = [i \in 1 .. n + 1 |-> Parse(Received(early[i].body))]
  BY <1>1 DEF ReadFrom
<1>5. \A i \in 1 .. n + 1 :
          /\ Parse(Received(late[i].body)) = IF i = n + 1 THEN Parse(Received(x.body)) ELSE Parse(Received(q[i].body))
          /\ Parse(Received(early[i].body)) = IF i = 1 THEN Parse(Received(x.body)) ELSE Parse(Received(q[i - 1].body))
  BY <1>1
<1>6. QED
  BY <1>3, <1>4, <1>5 DEF late, early

\* How an element moves along three sequences that are read as one.
Shifts(p, d, x) == p \o (<<x>> \o d) = Append(p, x) \o d
Announces(a, b, d, x) == Append(a \o b \o d, x) = a \o b \o Append(d, x)
Answers(a, b, d, x) == a \o b \o (<<x>> \o d) = a \o Append(b, x) \o d
Arrives(a, b, d, x) == a \o (<<x>> \o b) \o d = Append(a, x) \o b \o d

LEMMA ShiftsOne ==
    ASSUME NEW S, NEW p \in Seq(S), NEW d \in Seq(S), NEW x \in S
    PROVE  Shifts(p, d, x)
<1> DEFINE a == p \o (<<x>> \o d)
           b == Append(p, x) \o d
           n == Len(p) + Len(d) + 1
<1>1. /\ <<x>> \o d \in Seq(S) /\ Len(<<x>> \o d) = Len(d) + 1
      /\ Append(p, x) \in Seq(S) /\ Len(Append(p, x)) = Len(p) + 1
      /\ Len(p) \in Nat /\ Len(d) \in Nat
  OBVIOUS
<1>2. a \in Seq(S) /\ Len(a) = n /\ b \in Seq(S) /\ Len(b) = n
  BY <1>1
<1>3. ASSUME NEW i \in 1 .. n PROVE a[i] = b[i]
  <2>1. CASE i <= Len(p)
    BY <1>1, <2>1
  <2>2. CASE i = Len(p) + 1
    BY <1>1, <2>2
  <2>3. CASE i > Len(p) + 1
    <3>1. i - Len(p) \in 1 .. Len(<<x>> \o d) /\ i - Len(p) # 1
      BY <1>1, <2>3
    <3>2. a[i] = (<<x>> \o d)[i - Len(p)]
      BY <1>1, <2>3
    <3>3. (<<x>> \o d)[i - Len(p)] = d[(i - Len(p)) - 1]
      BY <1>1, <3>1
    <3>4. b[i] = d[i - (Len(p) + 1)]
      BY <1>1, <2>3
    <3>5. (i - Len(p)) - 1 = i - (Len(p) + 1)
      BY <1>1, <2>3
    <3>6. QED
      BY <3>2, <3>3, <3>4, <3>5
  <2>4. QED
    BY <1>1, <2>1, <2>2, <2>3
<1>4. QED
  <2> HIDE DEF a, b
  <2>1. a = b
    BY <1>1, <1>2, <1>3
  <2>2. QED
    BY <2>1 DEF a, b, Shifts

LEMMA Moves ==
    ASSUME NEW S, NEW a \in Seq(S), NEW b \in Seq(S), NEW d \in Seq(S), NEW x \in S
    PROVE  Announces(a, b, d, x) /\ Answers(a, b, d, x) /\ Arrives(a, b, d, x)
<1>1. Announces(a, b, d, x)
  BY DEF Announces
<1>2. Answers(a, b, d, x)
  <2>1. a \o b \in Seq(S)
    OBVIOUS
  <2>2. Shifts(a \o b, d, x) /\ Associates(a, b, x)
    BY <2>1, ShiftsOne, AppendAssociates
  <2>3. QED
    BY <2>2 DEF Shifts, Associates, Answers
<1>3. Arrives(a, b, d, x)
  <2>1. Shifts(a, b, x)
    BY ShiftsOne
  <2>2. QED
    BY <2>1 DEF Shifts, Arrives
<1>4. QED
  BY <1>1, <1>2, <1>3

-----------------------------------------------------------------------------
(* What each client sees of the log, and what it is told. *)

\* A client that has not connected has nothing, and nothing is under way of it.
NotYet ==
    \A c \in Clients : member[c] = "out" =>
        /\ copy[c] = Fresh /\ down[c] = << >> /\ asked[c] = << >> /\ acked[c] = << >>
        /\ \A i \in DOMAIN inbox : inbox[i].client # c

JoinedInTime == \A c \in Clients : joined[c] <= Len(log)

ViewOf(c) == Made(copy[c], OnTheWay(c)) = Made(Fresh, OthersSince(c))
AcksOf(c) ==
    asked[c] = acked[c] \o IdsOf(Within(down[c], AckMessage))
                        \o IdsOf(Within(inbox, MessagesOf(c)))

ViewInv ==
    /\ RepInv /\ NotYet /\ JoinedInTime
    /\ \A c \in Clients : member[c] = "in" => ViewOf(c) /\ AcksOf(c)

LEMMA WithinNone ==
    ASSUME NEW R, NEW T, R \cap T = {}, NEW s \in Seq(R)
    PROVE  Within(s, T) = << >>
<1>1. Within(s, T) \in Seq({})
  BY WithinType
<1>2. QED
  BY <1>1

\* Relays that can be read are read as updates.
LEMMA ReadsUpdates ==
    ASSUME NEW s \in Seq(DownMessage),
           \A i \in 1 .. Len(s) : s[i] \in RelayMessage => Parse(Received(s[i].body)) \in Updates
    PROVE  ReadFrom(Within(s, RelayMessage)) \in Seq(Updates)
<1> DEFINE R == {m \in DownMessage :
                    m \in RelayMessage => Parse(Received(m.body)) \in Updates}
<1>1. \A i \in 1 .. Len(s) : s[i] \in R
  OBVIOUS
<1>2. \A m \in R \cap RelayMessage : Parse(Received(m.body)) \in Updates
  OBVIOUS
<1> HIDE DEF R
<1>3. s \in Seq(R)
  BY <1>1
<1>4. Within(s, RelayMessage) \in Seq(R \cap RelayMessage)
  BY <1>3, WithinType
<1>5. QED
  BY <1>2, <1>4, ReadType

LEMMA OnTheWayType ==
    ASSUME RepInv, NEW c \in Clients
    PROVE  /\ OnTheWay(c) \in Seq(Updates)
           /\ \A i \in 1 .. Len(down[c]) : down[c][i] \in RelayMessage =>
                  Parse(Received(down[c][i].body)) \in Updates
<1>1. down[c] \in Seq(DownMessage)
  BY DEF RepInv, TypeOK, QueuesOK
<1>2. ASSUME NEW i \in 1 .. Len(down[c]), down[c][i] \in RelayMessage
      PROVE  Parse(Received(down[c][i].body)) \in Updates
  <2>1. down[c][i].type = "ServerUpdateGS" /\ i \in DOMAIN down[c]
    BY <1>1, <1>2 DEF RelayMessage
  <2>2. FromOther(c, down[c][i].body)
    BY <2>1 DEF RepInv, Downward
  <2>3. QED
    BY <2>2, RelayIsRead DEF RepInv
<1>3. QED
  BY <1>1, <1>2, ReadsUpdates DEF OnTheWay

LEMMA SinceType ==
    ASSUME TypeOK, JoinedInTime, NEW c \in Clients
    PROVE  /\ SubSeq(log, joined[c] + 1, Len(log)) \in Seq(Record)
           /\ Within(SubSeq(log, joined[c] + 1, Len(log)), RecordsOfOthers(c))
                \in Seq(Record \cap RecordsOfOthers(c))
           /\ OthersSince(c) \in Seq(Updates)
<1>1. log \in Seq(Record) /\ joined[c] \in Nat /\ joined[c] <= Len(log)
  BY DEF TypeOK, HistoryOK, MembersOK, JoinedInTime
<1> DEFINE since == SubSeq(log, joined[c] + 1, Len(log))
<1>2. since \in Seq(Record)
  BY <1>1
<1> HIDE DEF since
<1>3. Within(since, RecordsOfOthers(c)) \in Seq(Record \cap RecordsOfOthers(c))
  BY <1>2, WithinType
<1>4. \A m \in Record \cap RecordsOfOthers(c) : m.update \in Updates
  BY DEF Record
<1>5. UpdatesOf(Within(since, RecordsOfOthers(c))) \in Seq(Updates)
  BY <1>3, <1>4, UpdatesType
<1>6. QED
  BY <1>2, <1>3, <1>5 DEF since, OthersSince

\* What three parts of the account of a client's updates hold.
LEMMA AccountTypes ==
    ASSUME TypeOK, NEW c \in Clients
    PROVE  /\ Within(down[c], AckMessage) \in Seq(DownMessage \cap AckMessage)
           /\ Within(inbox, MessagesOf(c)) \in Seq(UpMessage \cap MessagesOf(c))
           /\ IdsOf(Within(down[c], AckMessage)) \in Seq(Ids)
           /\ IdsOf(Within(inbox, MessagesOf(c))) \in Seq(Ids)
           /\ acked[c] \in Seq(Ids)
<1>1. down[c] \in Seq(DownMessage) /\ inbox \in Seq(UpMessage) /\ acked[c] \in Seq(Ids)
  BY DEF TypeOK, QueuesOK, HistoryOK
<1>2. Within(down[c], AckMessage) \in Seq(DownMessage \cap AckMessage)
  BY <1>1, WithinType
<1>3. Within(inbox, MessagesOf(c)) \in Seq(UpMessage \cap MessagesOf(c))
  BY <1>1, WithinType
<1>4. /\ \A m \in DownMessage \cap AckMessage : m.id \in Ids
      /\ \A m \in UpMessage \cap MessagesOf(c) : m.id \in Ids
  BY DEF AckMessage, UpMessage
<1>5. IdsOf(Within(down[c], AckMessage)) \in Seq(Ids)
  BY <1>2, <1>4, IdsType
<1>6. IdsOf(Within(inbox, MessagesOf(c))) \in Seq(Ids)
  BY <1>3, <1>4, IdsType
<1>7. QED
  BY <1>1, <1>2, <1>3, <1>5, <1>6

\* A step that touches nothing of a client's leaves its view and its account.
LEMMA SameView ==
    ASSUME NEW c \in Clients, copy'[c] = copy[c], down'[c] = down[c],
           log' = log, joined'[c] = joined[c], ViewOf(c)
    PROVE  ViewOf(c)'
<1>1. OnTheWay(c)' = OnTheWay(c)
  BY DEF OnTheWay
<1>2. OthersSince(c)' = OthersSince(c)
  BY DEF OthersSince
<1>3. QED
  BY <1>1, <1>2 DEF ViewOf

LEMMA SameAcks ==
    ASSUME NEW c \in Clients, asked'[c] = asked[c], acked'[c] = acked[c],
           Within(down'[c], AckMessage) = Within(down[c], AckMessage),
           Within(inbox', MessagesOf(c)) = Within(inbox, MessagesOf(c)), AcksOf(c)
    PROVE  AcksOf(c)'
BY DEF AcksOf

LEMMA JoinView ==
    ASSUME ViewInv, NEW c \in Clients, Join(c)
    PROVE  ViewInv'
<1> USE DEF ViewInv
<1>1. RepInv'
  BY QuietRep
<1>2. /\ member[c] = "out" /\ member' = [member EXCEPT ![c] = "in"]
      /\ joined' = [joined EXCEPT ![c] = Len(log)]
      /\ UNCHANGED <<copy, inbox, down, asked, acked, log>>
  BY DEF Join
<1>3. /\ \A d \in Clients : member'[d] = IF d = c THEN "in" ELSE member[d]
      /\ \A d \in Clients : joined'[d] = IF d = c THEN Len(log) ELSE joined[d]
      /\ log \in Seq(Record) /\ inbox \in Seq(UpMessage) /\ Fresh \in [Keys -> Values]
  BY <1>2, ReplicationAssumption
     DEF RepInv, TypeOK, MembersOK, HistoryOK, QueuesOK, ReplicationAssumption
<1>4. NotYet'
  BY <1>2, <1>3 DEF NotYet
<1>5. JoinedInTime'
  BY <1>2, <1>3 DEF JoinedInTime
<1>6. /\ copy[c] = Fresh /\ down[c] = << >> /\ asked[c] = << >> /\ acked[c] = << >>
      /\ \A i \in DOMAIN inbox : inbox[i].client # c
  BY <1>2 DEF NotYet
<1>7. ViewOf(c)'
  <2>1. OnTheWay(c)' = ReadFrom(Within(<< >>, RelayMessage))
    BY <1>2, <1>6 DEF OnTheWay
  <2>2. SubSeq(log, Len(log) + 1, Len(log)) = << >>
    BY <1>3
  <2>3. OthersSince(c)' = UpdatesOf(Within(<< >>, RecordsOfOthers(c)))
    BY <1>2, <1>3, <2>2 DEF OthersSince
  <2>4. OnTheWay(c)' = << >> /\ OthersSince(c)' = << >>
    BY <2>1, <2>3, WithinEmpty DEF ReadFrom, UpdatesOf
  <2>5. QED
    BY <1>2, <1>6, <2>4 DEF ViewOf
<1>8. AcksOf(c)'
  <2> DEFINE R == {m \in UpMessage : m.client # c}
  <2>1. \A i \in 1 .. Len(inbox) : inbox[i] \in R
    BY <1>3, <1>6
  <2>2. inbox \in Seq(R)
    <3> HIDE DEF R
    <3>1. QED
      BY <1>3, <2>1
  <2>3. R \cap MessagesOf(c) = {}
    BY DEF MessagesOf
  <2>4. Within(inbox, MessagesOf(c)) = << >>
    <3> HIDE DEF R
    <3>1. QED
      BY <2>2, <2>3, WithinNone
  <2>5. Within(down[c], AckMessage) = << >>
    BY <1>6, WithinEmpty
  <2>6. IdsOf(<< >>) = << >>
    BY DEF IdsOf
  <2>7. QED
    BY <1>2, <1>6, <2>4, <2>5, <2>6 DEF AcksOf
<1>9. ASSUME NEW d \in Clients, d # c, member'[d] = "in" PROVE ViewOf(d)' /\ AcksOf(d)'
  <2>1. ViewOf(d) /\ AcksOf(d)
    BY <1>3, <1>9
  <2>2. /\ copy'[d] = copy[d] /\ down'[d] = down[d] /\ joined'[d] = joined[d]
        /\ asked'[d] = asked[d] /\ acked'[d] = acked[d] /\ inbox' = inbox /\ log' = log
    BY <1>2, <1>3, <1>9
  <2>3. ViewOf(d)'
    BY <2>1, <2>2, SameView
  <2>4. AcksOf(d)'
    BY <2>1, <2>2, SameAcks
  <2>5. QED
    BY <2>3, <2>4
<1>10. QED
  BY <1>1, <1>4, <1>5, <1>7, <1>8, <1>9

LEMMA CloseView ==
    ASSUME ViewInv, NEW c \in Clients, Close(c)
    PROVE  ViewInv'
<1> USE DEF ViewInv
<1>1. RepInv'
  BY QuietRep
<1>2. /\ member' = [member EXCEPT ![c] = "closed"]
      /\ UNCHANGED <<copy, inbox, down, asked, acked, log, joined>>
  BY DEF Close
<1>3. \A d \in Clients : member'[d] = IF d = c THEN "closed" ELSE member[d]
  BY <1>2 DEF RepInv, TypeOK, MembersOK
<1>4. NotYet' /\ JoinedInTime'
  BY <1>2, <1>3 DEF NotYet, JoinedInTime
<1>5. ASSUME NEW d \in Clients, member'[d] = "in" PROVE ViewOf(d)' /\ AcksOf(d)'
  <2>1. ViewOf(d) /\ AcksOf(d)
    BY <1>3, <1>5
  <2>2. ViewOf(d)'
    BY <1>2, <2>1, SameView
  <2>3. AcksOf(d)'
    BY <1>2, <2>1, SameAcks
  <2>4. QED
    BY <2>2, <2>3
<1>6. QED
  BY <1>1, <1>4, <1>5

LEMMA AnnounceView ==
    ASSUME ViewInv, NEW c \in Clients, NEW u \in Updates, NEW id \in Ids,
           UpdateGameState(c, u, id)
    PROVE  ViewInv'
<1> USE DEF ViewInv
<1>1. RepInv'
  BY QuietRep
<1>2. PICK m : /\ inbox' = Append(inbox, m)
               /\ m = [client |-> c, id |-> id, body |-> Packed(u)]
  BY DEF UpdateGameState
<1>3. /\ member[c] = "in" /\ asked' = [asked EXCEPT ![c] = Append(@, id)]
      /\ UNCHANGED <<copy, member, down, acked, log, joined>>
  BY DEF UpdateGameState
<1>4. m \in UpMessage /\ m.client = c /\ m.id = id /\ m \in MessagesOf(c)
  BY <1>2, TextIsRead DEF UpMessage, MessagesOf
<1>5. /\ inbox \in Seq(UpMessage)
      /\ \A d \in Clients : asked'[d] = IF d = c THEN Append(asked[c], id) ELSE asked[d]
  BY <1>3 DEF RepInv, TypeOK, QueuesOK, HistoryOK
<1>6. NotYet'
  <2>1. \A i \in DOMAIN inbox' : inbox'[i] = m \/ (i \in DOMAIN inbox /\ inbox'[i] = inbox[i])
    BY <1>2, <1>4, <1>5
  <2>2. ASSUME NEW d \in Clients, member[d] = "out"
        PROVE  asked'[d] = asked[d] /\ \A i \in DOMAIN inbox' : inbox'[i].client # d
    <3>1. d # c
      BY <1>3, <2>2
    <3>2. QED
      BY <1>4, <1>5, <2>1, <2>2, <3>1 DEF NotYet
  <2>3. QED
    BY <1>3, <2>2 DEF NotYet
<1>7. JoinedInTime'
  BY <1>3 DEF JoinedInTime
<1>8. ASSUME NEW d \in Clients, member'[d] = "in" PROVE ViewOf(d)' /\ AcksOf(d)'
  <2>1. ViewOf(d) /\ AcksOf(d)
    BY <1>3, <1>8
  <2>2. ViewOf(d)'
    BY <1>3, <2>1, SameView
  <2>3. Within(inbox', MessagesOf(d)) = IF m \in MessagesOf(d)
            THEN Append(Within(inbox, MessagesOf(d)), m) ELSE Within(inbox, MessagesOf(d))
    BY <1>2, <1>4, <1>5, WithinLast
  <2>4. CASE d # c
    <3>1. m \notin MessagesOf(d)
      BY <1>4, <2>4 DEF MessagesOf
    <3>2. AcksOf(d)'
      BY <1>3, <1>5, <2>1, <2>3, <2>4, <3>1, SameAcks
    <3>3. QED
      BY <2>2, <3>2
  <2>5. CASE d = c
    <3> DEFINE A == IdsOf(Within(down[c], AckMessage))
               I == Within(inbox, MessagesOf(c))
    <3>1. I \in Seq(UpMessage \cap MessagesOf(c)) /\ A \in Seq(Ids) /\ IdsOf(I) \in Seq(Ids)
          /\ acked[c] \in Seq(Ids)
      BY AccountTypes DEF RepInv
    <3>2. Within(inbox', MessagesOf(c)) = Append(I, m)
      BY <1>4, <2>3, <2>5
    <3>3. m \in UpMessage \cap MessagesOf(c)
      BY <1>4
    <3>4. asked[c] = acked[c] \o A \o IdsOf(I)
      BY <2>1, <2>5 DEF AcksOf
    <3> HIDE DEF A, I
    <3>5. IdsOf(Append(I, m)) = Append(IdsOf(I), id)
      BY <1>4, <3>1, <3>3, IdsGrow
    <3>6. Announces(acked[c], A, IdsOf(I), id)
      BY <3>1, Moves
    <3>7. asked'[c] = acked[c] \o A \o IdsOf(Append(I, m))
      BY <1>5, <3>4, <3>5, <3>6 DEF Announces
    <3>8. AcksOf(c)'
      BY <1>3, <3>2, <3>7 DEF AcksOf, A, I
    <3>9. QED
      BY <2>2, <2>5, <3>8
  <2>6. QED
    BY <2>4, <2>5
<1>9. QED
  BY <1>1, <1>6, <1>7, <1>8

\* The head of a client's messages, and what the rest of them hold.
LEMMA HeadOff ==
    ASSUME TypeOK, NEW c \in Clients, down[c] # << >>, NEW T
    PROVE  /\ Head(down[c]) \in DownMessage /\ Head(down[c]) = down[c][1]
           /\ 1 \in DOMAIN down[c] /\ 1 \in 1 .. Len(down[c]) /\ Tail(down[c]) \in Seq(DownMessage)
           /\ Within(down[c], T) = IF Head(down[c]) \in T
                                   THEN <<Head(down[c])>> \o Within(Tail(down[c]), T)
                                   ELSE Within(Tail(down[c]), T)
<1>1. down[c] \in Seq(DownMessage)
  BY DEF TypeOK, QueuesOK
<1>2. Within(down[c], T) = IF Head(down[c]) \in T
                           THEN <<Head(down[c])>> \o Within(Tail(down[c]), T)
                           ELSE Within(Tail(down[c]), T)
  BY <1>1, WithinFirst
<1>3. QED
  BY <1>1, <1>2

LEMMA AckView ==
    ASSUME ViewInv, NEW c \in Clients, HandleAck(c)
    PROVE  ViewInv'
<1> USE DEF ViewInv
<1>1. RepInv'
  BY QuietRep
<1> DEFINE m == Head(down[c])
<1>2. /\ down[c] # << >> /\ m.type = "ServerACK"
      /\ down' = [down EXCEPT ![c] = Tail(@)]
      /\ acked' = [acked EXCEPT ![c] = Append(@, m.id)]
      /\ UNCHANGED <<copy, member, inbox, asked, log, joined>>
  BY DEF HandleAck
<1>3. /\ \A d \in Clients : down'[d] = IF d = c THEN Tail(down[c]) ELSE down[d]
      /\ \A d \in Clients : acked'[d] = IF d = c THEN Append(acked[c], m.id) ELSE acked[d]
  BY <1>2 DEF RepInv, TypeOK, QueuesOK, HistoryOK
<1>4. m \in AckMessage /\ m \notin RelayMessage /\ m.id \in Ids
  <2>1. m \in DownMessage
    BY <1>2, HeadOff DEF RepInv
  <2>2. QED
    BY <1>2, <2>1 DEF DownMessage, AckMessage, RelayMessage
<1>5. /\ Within(down[c], RelayMessage) = Within(Tail(down[c]), RelayMessage)
      /\ Within(down[c], AckMessage) = <<m>> \o Within(Tail(down[c]), AckMessage)
  <2>1. Within(down[c], RelayMessage) = Within(Tail(down[c]), RelayMessage)
    BY <1>2, <1>4, HeadOff DEF RepInv
  <2>2. Within(down[c], AckMessage) = <<m>> \o Within(Tail(down[c]), AckMessage)
    BY <1>2, <1>4, HeadOff DEF RepInv
  <2>3. QED
    BY <2>1, <2>2
<1>6. NotYet' /\ JoinedInTime'
  <2>1. member[c] # "out"
    BY <1>2 DEF NotYet
  <2>2. QED
    BY <1>2, <1>3, <2>1 DEF NotYet, JoinedInTime
<1> HIDE DEF m
<1>7. ASSUME NEW d \in Clients, member'[d] = "in" PROVE ViewOf(d)' /\ AcksOf(d)'
  <2>1. ViewOf(d) /\ AcksOf(d)
    BY <1>2, <1>7
  <2>2. CASE d # c
    <3>1. down'[d] = down[d] /\ acked'[d] = acked[d]
      BY <1>3, <2>2
    <3>2. ViewOf(d)'
      BY <1>2, <2>1, <3>1, SameView
    <3>3. AcksOf(d)'
      BY <1>2, <2>1, <3>1, SameAcks
    <3>4. QED
      BY <3>2, <3>3
  <2>3. CASE d = c
    <3> DEFINE A == Within(Tail(down[c]), AckMessage)
               I == IdsOf(Within(inbox, MessagesOf(c)))
    <3>1. acked[c] \in Seq(Ids) /\ I \in Seq(Ids) /\ m \in DownMessage \cap AckMessage
      BY <1>4, AccountTypes DEF RepInv, DownMessage
    <3>2. A \in Seq(DownMessage \cap AckMessage) /\ IdsOf(A) \in Seq(Ids)
      <4>1. A \in Seq(DownMessage \cap AckMessage)
        BY <1>2, HeadOff, WithinType DEF RepInv
      <4>2. \A x \in DownMessage \cap AckMessage : x.id \in Ids
        BY DEF AckMessage
      <4> HIDE DEF A
      <4>3. QED
        BY <4>1, <4>2, IdsType
    <3>3. asked[c] = acked[c] \o IdsOf(<<m>> \o A) \o I
      BY <1>5, <2>1, <2>3 DEF AcksOf
    <3> HIDE DEF A, I
    <3>4. IdsOf(<<m>> \o A) = <<m.id>> \o IdsOf(A)
      BY <3>1, <3>2, IdsGrow
    <3>5. Arrives(acked[c], IdsOf(A), I, m.id)
      BY <1>4, <3>1, <3>2, Moves
    <3>6. asked[c] = Append(acked[c], m.id) \o IdsOf(A) \o I
      BY <3>3, <3>4, <3>5 DEF Arrives
    <3>7. AcksOf(c)'
      BY <1>2, <1>3, <3>6 DEF AcksOf, A, I
    <3>8. ViewOf(c)'
      <4>1. OnTheWay(c)' = OnTheWay(c)
        BY <1>3, <1>5 DEF OnTheWay
      <4>2. OthersSince(c)' = OthersSince(c) /\ copy'[c] = copy[c]
        BY <1>2 DEF OthersSince
      <4>3. QED
        BY <2>1, <2>3, <4>1, <4>2 DEF ViewOf
    <3>9. QED
      BY <2>3, <3>7, <3>8
  <2>4. QED
    BY <2>2, <2>3
<1>8. QED
  BY <1>1, <1>6, <1>7

LEMMA RelayView ==
    ASSUME ViewInv, NEW c \in Clients, HandleRelay(c)
    PROVE  ViewInv'
<1> USE DEF ViewInv
<1>1. RepInv'
  BY RelayRep
<1> DEFINE m == Head(down[c])
           u == Parse(Received(m.body))
<1>2. /\ down[c] # << >> /\ m.type = "ServerUpdateGS"
      /\ down' = [down EXCEPT ![c] = Tail(@)]
      /\ UNCHANGED <<member, inbox, asked, acked, log, joined>>
  BY DEF HandleRelay
<1>3. m \in RelayMessage /\ m \notin AckMessage
  <2>1. m \in DownMessage
    BY <1>2, HeadOff DEF RepInv
  <2>2. QED
    BY <1>2, <2>1 DEF DownMessage, AckMessage, RelayMessage
<1>4. u \in Updates
  <2>1. m = down[c][1] /\ 1 \in 1 .. Len(down[c])
    BY <1>2, HeadOff DEF RepInv
  <2>2. QED
    BY <1>3, <2>1, OnTheWayType
<1>5. IsText(Received(m.body))
  <2>1. m = down[c][1] /\ 1 \in DOMAIN down[c]
    BY <1>2, HeadOff DEF RepInv
  <2>2. FromOther(c, m.body)
    BY <1>2, <2>1 DEF RepInv, Downward
  <2>3. QED
    BY <2>2, RelayIsRead DEF RepInv
<1>6. copy' = [copy EXCEPT ![c] = UpdateDatabase(@, u)]
  BY <1>5 DEF HandleRelay
<1>7. /\ \A d \in Clients : down'[d] = IF d = c THEN Tail(down[c]) ELSE down[d]
      /\ \A d \in Clients : copy'[d] = IF d = c THEN UpdateDatabase(copy[c], u) ELSE copy[d]
      /\ copy[c] \in [Keys -> Values]
  BY <1>2, <1>6 DEF RepInv, TypeOK, QueuesOK, DatabasesOK
<1>8. /\ Within(down[c], AckMessage) = Within(Tail(down[c]), AckMessage)
      /\ Within(down[c], RelayMessage) = <<m>> \o Within(Tail(down[c]), RelayMessage)
  <2>1. Within(down[c], AckMessage) = Within(Tail(down[c]), AckMessage)
    BY <1>2, <1>3, HeadOff DEF RepInv
  <2>2. Within(down[c], RelayMessage) = <<m>> \o Within(Tail(down[c]), RelayMessage)
    BY <1>2, <1>3, HeadOff DEF RepInv
  <2>3. QED
    BY <2>1, <2>2
<1>9. NotYet' /\ JoinedInTime'
  <2>1. member[c] # "out"
    BY <1>2 DEF NotYet
  <2>2. QED
    BY <1>2, <1>7, <2>1 DEF NotYet, JoinedInTime
<1>10. OnTheWay(c) = <<u>> \o OnTheWay(c)'
  <2> DEFINE rest == Within(Tail(down[c]), RelayMessage)
  <2>1. rest \in Seq(DownMessage \cap RelayMessage) /\ m \in DownMessage \cap RelayMessage
    <3>1. rest \in Seq(DownMessage \cap RelayMessage)
      BY <1>2, HeadOff, WithinType DEF RepInv
    <3>2. QED
      BY <1>3, <3>1 DEF DownMessage
  <2>2. OnTheWay(c)' = ReadFrom(rest)
    BY <1>7 DEF OnTheWay
  <2>3. OnTheWay(c) = ReadFrom(<<m>> \o rest)
    BY <1>8 DEF OnTheWay
  <2> HIDE DEF rest, m
  <2>4. ReadFrom(<<m>> \o rest) = <<u>> \o ReadFrom(rest)
    BY <2>1, ReadGrow
  <2>5. QED
    BY <2>2, <2>3, <2>4
<1>11. OnTheWay(c)' \in Seq(Updates)
  <2>1. down[c] \in Seq(DownMessage) /\ Tail(down[c]) \in Seq(DownMessage)
    BY <1>2, HeadOff DEF RepInv, TypeOK, QueuesOK
  <2>2. \A i \in 1 .. Len(Tail(down[c])) :
            i + 1 \in 1 .. Len(down[c]) /\ Tail(down[c])[i] = down[c][i + 1]
    BY <1>2, <2>1
  <2>3. \A i \in 1 .. Len(Tail(down[c])) : Tail(down[c])[i] \in RelayMessage =>
            Parse(Received(Tail(down[c])[i].body)) \in Updates
    BY <2>2, OnTheWayType
  <2>4. QED
    BY <1>7, <2>1, <2>3, ReadsUpdates DEF OnTheWay
<1> HIDE DEF m, u
<1>12. ASSUME NEW d \in Clients, member'[d] = "in" PROVE ViewOf(d)' /\ AcksOf(d)'
  <2>1. ViewOf(d) /\ AcksOf(d)
    BY <1>2, <1>12
  <2>2. CASE d # c
    <3>1. down'[d] = down[d] /\ copy'[d] = copy[d]
      BY <1>7, <2>2
    <3>2. ViewOf(d)'
      BY <1>2, <2>1, <3>1, SameView
    <3>3. AcksOf(d)'
      BY <1>2, <2>1, <3>1, SameAcks
    <3>4. QED
      BY <3>2, <3>3
  <2>3. CASE d = c
    <3>1. AcksOf(c)'
      BY <1>2, <1>7, <1>8, <2>1, <2>3, SameAcks
    <3> DEFINE rest == OnTheWay(c)'
    <3>2. Made(copy[c], <<u>> \o rest) = Made(Fresh, OthersSince(c))
      BY <1>10, <2>1, <2>3 DEF ViewOf
    <3>3. rest \in Seq(Updates)
      BY <1>11
    <3> HIDE DEF rest
    <3>4. Made(copy[c], <<u>> \o rest) = Made(UpdateDatabase(copy[c], u), rest)
      BY <1>4, <1>7, <3>3, MadeFirst
    <3>5. OthersSince(c)' = OthersSince(c) /\ copy'[c] = UpdateDatabase(copy[c], u)
      BY <1>2, <1>7 DEF OthersSince
    <3>6. ViewOf(c)'
      BY <3>2, <3>4, <3>5 DEF ViewOf, rest
    <3>7. QED
      BY <2>3, <3>1, <3>6
  <2>4. QED
    BY <2>2, <2>3
<1>13. QED
  BY <1>1, <1>9, <1>12

\* What the server does with the message it takes.
LEMMA UpdateStep ==
    ASSUME RepInv, HandleUpdate
    PROVE  \E msg \in UpMessage, u \in Updates :
               /\ inbox # << >> /\ msg = Head(inbox) /\ inbox' = Tail(inbox)
               /\ log' = Append(log, [client |-> msg.client, update |-> u])
               /\ \A c \in Clients :
                    down'[c] = IF member[c] # "in" THEN down[c]
                               ELSE IF c = msg.client THEN down[c] \o <<Ack(msg.id)>>
                               ELSE down[c] \o <<Relay(Text(u))>>
               /\ UNCHANGED <<copy, member, asked, acked, joined>>
<1> DEFINE msg == Head(inbox)
<1>1. inbox \in Seq(UpMessage) /\ inbox # << >> /\ inbox' = Tail(inbox)
      /\ UNCHANGED <<copy, member, asked, acked, joined>>
  BY DEF HandleUpdate, RepInv, TypeOK, QueuesOK
<1>2. msg \in UpMessage /\ 1 \in DOMAIN inbox /\ msg = inbox[1]
  BY <1>1
<1>3. PICK u \in Updates : msg.body = Packed(u)
  BY <1>2 DEF RepInv, Upward
<1>4. /\ Unpacked(msg.body) = Text(u) /\ Relayed(msg.body) = Text(u)
      /\ IsText(Text(u)) /\ Parse(Text(u)) = u
  BY <1>3, TextIsRead
<1>5. /\ down' = [c \in Clients |->
              IF member[c] = "in" THEN down[c] \o SentTo(msg, c) ELSE down[c]]
      /\ log' = Append(log, [client |-> msg.client, update |-> u])
  BY <1>4 DEF HandleUpdate
<1> HIDE DEF msg
<1>6. \A c \in Clients :
          down'[c] = IF member[c] # "in" THEN down[c]
                     ELSE IF c = msg.client THEN down[c] \o <<Ack(msg.id)>>
                     ELSE down[c] \o <<Relay(Text(u))>>
  BY <1>4, <1>5 DEF SentTo
<1>7. QED
  BY <1>1, <1>2, <1>5, <1>6 DEF msg

LEMMA PutLast ==
    ASSUME NEW S, NEW s \in Seq(S), NEW x \in S
    PROVE  s \o <<x>> = Append(s, x)
OBVIOUS

\* A sequence without its first j elements.
Rest(s, j) ==
    /\ Len(SubSeq(s, j + 1, Len(s))) = Len(s) - j
    /\ \A i \in 1 .. Len(s) - j : SubSeq(s, j + 1, Len(s))[i] = s[j + i]

LEMMA RestOf ==
    ASSUME NEW S, NEW s \in Seq(S), NEW j \in Nat, j <= Len(s)
    PROVE  Rest(s, j)
<1>1. Len(s) \in Nat
  OBVIOUS
<1>2. Len(SubSeq(s, j + 1, Len(s))) = Len(s) - j
  BY <1>1
<1>3. ASSUME NEW i \in 1 .. Len(s) - j PROVE SubSeq(s, j + 1, Len(s))[i] = s[j + i]
  BY <1>1, <1>2
<1>4. QED
  BY <1>2, <1>3 DEF Rest

\* One more record in the log.
LEMMA OneMoreRecord ==
    ASSUME TypeOK, JoinedInTime, NEW c \in Clients, NEW r \in Record,
           log' = Append(log, r), joined' = joined
    PROVE  OthersSince(c)' = IF r.client # c THEN Append(OthersSince(c), r.update)
                             ELSE OthersSince(c)
<1>1. log \in Seq(Record) /\ joined[c] \in Nat /\ joined[c] <= Len(log)
  BY DEF TypeOK, HistoryOK, MembersOK, JoinedInTime
<1> DEFINE since == SubSeq(log, joined[c] + 1, Len(log))
           T == RecordsOfOthers(c)
<1>2. SubSeq(log', joined[c] + 1, Len(log')) = Append(since, r)
  <2> DEFINE n == Len(log)
             a == SubSeq(Append(log, r), joined[c] + 1, n + 1)
             b == Append(since, r)
             k == n - joined[c]
  <2>1. n \in Nat /\ Len(Append(log, r)) = n + 1 /\ k \in Nat
        /\ \A i \in 1 .. n + 1 : Append(log, r)[i] = IF i = n + 1 THEN r ELSE log[i]
    BY <1>1
  <2>2. since \in Seq(Record) /\ Len(since) = k
        /\ \A i \in 1 .. k : since[i] = log[joined[c] + i]
    BY <1>1, <2>1
  <2>3. a \in Seq(Record) /\ Len(a) = k + 1
        /\ \A i \in 1 .. k + 1 : a[i] = Append(log, r)[joined[c] + i]
    <3>1. Append(log, r) \in Seq(Record) /\ Len(Append(log, r)) = n + 1
          /\ joined[c] <= n + 1 /\ (n + 1) - joined[c] = k + 1
      BY <1>1, <2>1
    <3>2. \A s \in Seq(Record) : Len(s) = n + 1 => Rest(s, joined[c])
      BY <1>1, <3>1, RestOf
    <3>3. Rest(Append(log, r), joined[c])
      BY <3>1, <3>2
    <3>4. a \in Seq(Record)
      BY <1>1, <2>1, <3>1
    <3>5. QED
      BY <3>1, <3>3, <3>4 DEF Rest
  <2>4. b \in Seq(Record) /\ Len(b) = k + 1
        /\ \A i \in 1 .. k + 1 : b[i] = IF i = k + 1 THEN r ELSE since[i]
    BY <2>1, <2>2
  <2>5. ASSUME NEW i \in 1 .. k + 1 PROVE a[i] = b[i]
    <3>1. joined[c] + i \in 1 .. n + 1 /\ (joined[c] + i = n + 1 <=> i = k + 1)
      BY <1>1, <2>1
    <3>2. a[i] = IF joined[c] + i = n + 1 THEN r ELSE log[joined[c] + i]
      BY <2>1, <2>3, <3>1
    <3>3. CASE i = k + 1
      BY <2>4, <3>1, <3>2, <3>3
    <3>4. CASE i # k + 1
      <4>1. i \in 1 .. k
        BY <2>1, <3>4
      <4>2. QED
        BY <2>2, <2>4, <3>1, <3>2, <3>4, <4>1
    <3>5. QED
      BY <3>3, <3>4
  <2>6. a = b
    <3> HIDE DEF a, b, k
    <3>1. QED
      BY <2>1, <2>3, <2>4, <2>5
  <2>7. QED
    BY <2>1, <2>6
<1>3. since \in Seq(Record) /\ Within(since, T) \in Seq(Record \cap T)
  BY SinceType
<1> HIDE DEF since
<1>4. OthersSince(c)' = UpdatesOf(Within(Append(since, r), T))
  BY <1>2 DEF OthersSince, RecordsOfOthers
<1>5. OthersSince(c) = UpdatesOf(Within(since, T))
  BY DEF OthersSince, since
<1>6. r \in T <=> r.client # c
  BY DEF Record, RecordsOfOthers
<1> HIDE DEF T
<1>7. Within(Append(since, r), T) = IF r \in T THEN Append(Within(since, T), r)
                                    ELSE Within(since, T)
  BY <1>3, WithinLast
<1>8. ASSUME r \in T
      PROVE  UpdatesOf(Append(Within(since, T), r)) = Append(UpdatesOf(Within(since, T)), r.update)
  <2>1. r \in Record \cap T
    BY <1>8
  <2>2. QED
    BY <1>3, <2>1, UpdatesGrow
<1>9. QED
  BY <1>4, <1>5, <1>6, <1>7, <1>8

LEMMA UpdateView ==
    ASSUME ViewInv, HandleUpdate
    PROVE  ViewInv'
<1> USE DEF ViewInv
<1>1. RepInv'
  BY UpdateRep
<1>2. PICK msg \in UpMessage, u \in Updates :
          /\ inbox # << >> /\ msg = Head(inbox) /\ inbox' = Tail(inbox)
          /\ log' = Append(log, [client |-> msg.client, update |-> u])
          /\ \A c \in Clients :
               down'[c] = IF member[c] # "in" THEN down[c]
                          ELSE IF c = msg.client THEN down[c] \o <<Ack(msg.id)>>
                          ELSE down[c] \o <<Relay(Text(u))>>
          /\ UNCHANGED <<copy, member, asked, acked, joined>>
  BY UpdateStep
<1> DEFINE r == [client |-> msg.client, update |-> u]
<1>3. msg.client \in Clients /\ msg.id \in Ids /\ r \in Record
      /\ r.client = msg.client /\ r.update = u
  BY DEF UpMessage, Record
<1>4. log' = Append(log, r)
  BY <1>2
<1> HIDE DEF r
<1>5. inbox \in Seq(UpMessage) /\ log \in Seq(Record)
      /\ \A c \in Clients : down[c] \in Seq(DownMessage)
  BY DEF RepInv, TypeOK, QueuesOK, HistoryOK
<1>6. /\ Ack(msg.id) \in DownMessage /\ Ack(msg.id) \in AckMessage
      /\ Ack(msg.id) \notin RelayMessage
  BY <1>3 DEF Ack, DownMessage, AckMessage, RelayMessage
<1>7. /\ Relay(Text(u)) \in DownMessage /\ Relay(Text(u)) \in RelayMessage
      /\ Relay(Text(u)) \notin AckMessage
  BY TextIsRead DEF Relay, DownMessage, AckMessage, RelayMessage
<1>8. NotYet'
  <2>1. \A i \in DOMAIN inbox' : i + 1 \in DOMAIN inbox /\ inbox'[i] = inbox[i + 1]
    BY <1>2, <1>5
  <2>2. QED
    BY <1>2, <2>1 DEF NotYet
<1>9. JoinedInTime'
  <2>1. Len(log') = Len(log) + 1 /\ Len(log) \in Nat
    BY <1>3, <1>4, <1>5
  <2>2. \A c \in Clients : joined[c] \in Nat
    BY DEF RepInv, TypeOK, MembersOK
  <2>3. QED
    BY <1>2, <2>1, <2>2 DEF JoinedInTime
<1>10. ASSUME NEW c \in Clients, member'[c] = "in" PROVE ViewOf(c)' /\ AcksOf(c)'
  <2>1. ViewOf(c) /\ AcksOf(c) /\ member[c] = "in"
    BY <1>2, <1>10
  <2> DEFINE A == Within(down[c], AckMessage)
             B == Within(down[c], RelayMessage)
             I == Within(Tail(inbox), MessagesOf(c))
  <2>2. /\ A \in Seq(DownMessage \cap AckMessage) /\ IdsOf(A) \in Seq(Ids)
        /\ acked[c] \in Seq(Ids)
    BY AccountTypes DEF RepInv
  <2>3. B \in Seq(DownMessage \cap RelayMessage)
    BY <1>5, WithinType
  <2>4. I \in Seq(UpMessage \cap MessagesOf(c)) /\ IdsOf(I) \in Seq(Ids)
    <3>1. Tail(inbox) \in Seq(UpMessage)
      BY <1>2, <1>5
    <3>2. I \in Seq(UpMessage \cap MessagesOf(c))
      BY <3>1, WithinType
    <3>3. \A m \in UpMessage \cap MessagesOf(c) : m.id \in Ids
      BY DEF UpMessage
    <3> HIDE DEF I
    <3>4. QED
      BY <3>2, <3>3, IdsType
  <2>5. Within(inbox, MessagesOf(c)) = IF msg \in MessagesOf(c) THEN <<msg>> \o I ELSE I
    BY <1>2, <1>5, WithinFirst
  <2>6. msg \in MessagesOf(c) <=> c = msg.client
    BY DEF UpMessage, MessagesOf
  <2>7. OthersSince(c)' = IF c # msg.client THEN Append(OthersSince(c), u) ELSE OthersSince(c)
    BY <1>2, <1>3, <1>4, OneMoreRecord DEF RepInv
  <2>8. CASE c = msg.client
    <3>1. down'[c] = Append(down[c], Ack(msg.id))
      BY <1>2, <1>5, <1>6, <2>1, <2>8, PutLast
    <3>2. Within(down'[c], AckMessage) = Append(A, Ack(msg.id))
      BY <1>5, <1>6, <3>1, WithinLast
    <3>3. Within(down'[c], RelayMessage) = B
      BY <1>5, <1>6, <3>1, WithinLast
    <3>4. asked[c] = acked[c] \o IdsOf(A) \o IdsOf(<<msg>> \o I)
      BY <2>1, <2>5, <2>6, <2>8 DEF AcksOf
    <3>5. ViewOf(c)'
      <4>1. OnTheWay(c)' = OnTheWay(c)
        BY <3>3 DEF OnTheWay
      <4>2. QED
        BY <1>2, <2>1, <2>7, <2>8, <4>1 DEF ViewOf
    <3> HIDE DEF A, B, I
    <3>6. IdsOf(<<msg>> \o I) = <<msg.id>> \o IdsOf(I)
      <4>1. msg \in UpMessage \cap MessagesOf(c)
        BY <2>6, <2>8
      <4>2. QED
        BY <2>4, <4>1, IdsGrow
    <3>7. IdsOf(Append(A, Ack(msg.id))) = Append(IdsOf(A), msg.id)
      <4>1. Ack(msg.id) \in DownMessage \cap AckMessage
        BY <1>6
      <4>2. IdsOf(Append(A, Ack(msg.id))) = Append(IdsOf(A), Ack(msg.id).id)
        BY <2>2, <4>1, IdsGrow
      <4>3. QED
        BY <4>2 DEF Ack
    <3>8. Answers(acked[c], IdsOf(A), IdsOf(I), msg.id)
      BY <1>3, <2>2, <2>4, Moves
    <3>9. asked[c] = acked[c] \o IdsOf(Append(A, Ack(msg.id))) \o IdsOf(I)
      BY <3>4, <3>6, <3>7, <3>8 DEF Answers
    <3>10. AcksOf(c)'
      BY <1>2, <3>2, <3>9 DEF AcksOf, A, I
    <3>11. QED
      BY <3>5, <3>10
  <2>9. CASE c # msg.client
    <3>1. down'[c] = Append(down[c], Relay(Text(u)))
      BY <1>2, <1>5, <1>7, <2>1, <2>9, PutLast
    <3>2. Within(down'[c], AckMessage) = A
      BY <1>5, <1>7, <3>1, WithinLast
    <3>3. Within(down'[c], RelayMessage) = Append(B, Relay(Text(u)))
      BY <1>5, <1>7, <3>1, WithinLast
    <3>4. AcksOf(c)'
      <4>1. Within(inbox', MessagesOf(c)) = Within(inbox, MessagesOf(c))
        BY <1>2, <2>5, <2>6, <2>9
      <4>2. QED
        BY <1>2, <2>1, <3>2, <4>1, SameAcks
    <3>5. OnTheWay(c)' = Append(OnTheWay(c), u)
      <4>1. OnTheWay(c)' = ReadFrom(Append(B, Relay(Text(u))))
        BY <3>3 DEF OnTheWay
      <4>2. Relay(Text(u)) \in DownMessage \cap RelayMessage
        BY <1>7
      <4>3. Parse(Received(Relay(Text(u)).body)) = u
        BY TextIsRead DEF Relay
      <4> HIDE DEF B
      <4>4. ReadFrom(Append(B, Relay(Text(u)))) = Append(ReadFrom(B), u)
        BY <2>3, <4>2, <4>3, ReadGrow
      <4>5. QED
        BY <4>1, <4>4 DEF OnTheWay, B
    <3>6. OnTheWay(c) \in Seq(Updates) /\ OthersSince(c) \in Seq(Updates)
      BY OnTheWayType, SinceType DEF RepInv
    <3>7. copy[c] \in [Keys -> Values] /\ Fresh \in [Keys -> Values]
      BY ReplicationAssumption DEF RepInv, TypeOK, DatabasesOK, ReplicationAssumption
    <3>8. Made(copy[c], Append(OnTheWay(c), u)) = UpdateDatabase(Made(copy[c], OnTheWay(c)), u)
      BY <3>6, <3>7, MadeLast
    <3>9. Made(Fresh, Append(OthersSince(c), u)) = UpdateDatabase(Made(Fresh, OthersSince(c)), u)
      BY <3>6, <3>7, MadeLast
    <3>10. ViewOf(c)'
      BY <1>2, <2>1, <2>7, <2>9, <3>5, <3>8, <3>9 DEF ViewOf
    <3>11. QED
      BY <3>4, <3>10
  <2>10. QED
    BY <2>8, <2>9
<1>11. QED
  BY <1>1, <1>8, <1>9, <1>10

LEMMA InitView == Init => ViewInv
<1> SUFFICES ASSUME Init PROVE ViewInv
  OBVIOUS
<1>1. RepInv
  BY InitRep
<1>2. DOMAIN inbox = {} /\ Len(log) = 0
  BY DEF Init
<1>3. NotYet
  BY <1>2 DEF Init, NotYet
<1>4. JoinedInTime
  BY <1>2 DEF Init, JoinedInTime
<1>5. \A c \in Clients : member[c] # "in"
  BY DEF Init
<1>6. QED
  BY <1>1, <1>3, <1>4, <1>5 DEF ViewInv

LEMMA StillView == ASSUME ViewInv, UNCHANGED vars PROVE ViewInv'
<1> USE DEF vars, ViewInv
<1>1. RepInv'
  BY StillRep
<1>2. NotYet' /\ JoinedInTime'
  BY DEF NotYet, JoinedInTime
<1>3. ASSUME NEW c \in Clients, member'[c] = "in" PROVE ViewOf(c)' /\ AcksOf(c)'
  <2>1. ViewOf(c) /\ AcksOf(c)
    BY <1>3
  <2>2. ViewOf(c)'
    BY <2>1, SameView
  <2>3. AcksOf(c)'
    BY <2>1, SameAcks
  <2>4. QED
    BY <2>2, <2>3
<1>4. QED
  BY <1>1, <1>2, <1>3

LEMMA ViewInvariant == Spec => []ViewInv
<1>1. ViewInv /\ [Next]_vars => ViewInv'
  BY JoinView, CloseView, AnnounceView, AckView, RelayView, UpdateView, StillView DEF Next
<1>2. QED
  BY <1>1, InitView, PTL DEF Spec

(* While a client is connected, its copy together with the relays on the   *)
(* way to it is what the updates of the others make of a fresh database.   *)
THEOREM CopiesFollowTheOthers == Spec => []CopyIsOthersView
<1>1. ViewInv => CopyIsOthersView
  BY DEF ViewInv, CopyIsOthersView, ViewOf
<1>2. QED
  BY <1>1, ViewInvariant, PTL

(* Each update is acknowledged to the client that announced it, once and   *)
(* in the order of the announcements (HandleUpdate, handleNetworking).     *)
THEOREM UpdatesAreAcknowledged == Spec => []AcksInOrder
<1>1. ViewInv => AcksInOrder
  BY DEF ViewInv, AcksInOrder, AcksOf
<1>2. QED
  BY <1>1, ViewInvariant, PTL
=============================================================================
