---------------------------- MODULE FifoChannel ----------------------------
(***************************************************************************)
(* What a message path of the program promises, whatever carries it: every *)
(* message sent is delivered at most once, unaltered, and in the order of  *)
(* sending.  The thread-safe queue (TsQueue) and each direction of a TCP   *)
(* connection (Connection) are shown to implement it.                      *)
(***************************************************************************)
EXTENDS Naturals, Sequences

CONSTANT Messages       \* what can be sent

VARIABLES sent,         \* everything sent so far, in order
          delivered     \* everything delivered so far, in order

Init == sent = <<>> /\ delivered = <<>>

Send(m) == sent' = Append(sent, m) /\ UNCHANGED delivered

Deliver ==
    /\ Len(delivered) < Len(sent)
    /\ delivered' = Append(delivered, sent[Len(delivered) + 1])
    /\ UNCHANGED sent

Next == (\E m \in Messages : Send(m)) \/ Deliver

Spec == Init /\ [][Next]_<<sent, delivered>>
=============================================================================
