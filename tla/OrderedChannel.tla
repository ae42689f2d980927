---------------------------- MODULE OrderedChannel -----------------------------
(***************************************************************************)
(* What an ENet channel promises its two applications: a message comes out *)
(* at most once; the sequenced ones come out in the order they went in,    *)
(* and none of them before a reliable one it follows.  Messages that are   *)
(* not reliable may never come out; once the connection is gone, none      *)
(* does.                                                                   *)
(***************************************************************************)
EXTENDS Naturals, Sequences

CONSTANTS Kinds,       \* the kinds of messages
          Reliable,    \* the kinds that are never passed over
          Unsequenced  \* the kinds that come out in any order

VARIABLES sent,     \* the kinds of the messages sent, in order
          received  \* the messages that came out, in order

Received == {received[i] : i \in DOMAIN received}

Init == sent = <<>> /\ received = <<>>

Send == \E kind \in Kinds : sent' = Append(sent, kind) /\ UNCHANGED received

InOrder(m) ==
    /\ \A k \in Received : sent[k] \notin Unsequenced => k < m
    /\ \A k \in 1 .. m - 1 : sent[k] \in Reliable => k \in Received
Deliver ==
    /\ \E m \in DOMAIN sent \ Received :
          /\ sent[m] \notin Unsequenced => InOrder(m)
          /\ received' = Append(received, m)
    /\ UNCHANGED sent

Next == Send \/ Deliver
Spec == Init /\ [][Next]_<<sent, received>>
================================================================================
