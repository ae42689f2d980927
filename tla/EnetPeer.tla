------------------------------- MODULE EnetPeer --------------------------------
(***************************************************************************)
(* ENet's peer.c and the parts of protocol.c that work on one peer: its    *)
(* state, its lists of outgoing, sent, acknowledged and incoming commands, *)
(* and the sequence numbers and reliable windows of its channel.  A peer   *)
(* is a record; a function of the code that works on a peer is an operator *)
(* on that record.  Enet makes the actions of two hosts out of them.       *)
(*                                                                         *)
(* A command is a record [kind, ack, ctl, seq, unrel, msg, part]: ctl says *)
(* that it belongs to channel 0xFF, ack that it carries the ACKNOWLEDGE    *)
(* flag.  Lengths, bandwidths and times are left out: what they decide (a  *)
(* datagram is full, the transit window is full, a timeout has passed) is  *)
(* chosen by the caller.                                                   *)
(***************************************************************************)
EXTENDS Integers, Sequences, FiniteSets, FiniteSetsExt, Functions

CONSTANTS WindowSize,   \* ENET_PEER_RELIABLE_WINDOW_SIZE (4096)
          Windows,      \* ENET_PEER_RELIABLE_WINDOWS (16)
          FreeWindows,  \* ENET_PEER_FREE_RELIABLE_WINDOWS (8)
          PerDatagram,  \* commands a datagram holds
          Parts         \* fragments of a message longer than the MTU

\* The windows tile the 16-bit sequence numbers, and a sender may be at
\* most as far ahead as its receiver still accepts.
ASSUME EnetPeerAssumption ==
    /\ {WindowSize, Windows, FreeWindows, PerDatagram, Parts} \subseteq Nat \ {0}
    /\ Windows >= FreeWindows + 3 /\ FreeWindows >= 3

SeqSpace == WindowSize * Windows
WindowOf(seq) == seq \div WindowSize
NextSeq(seq)  == (seq + 1) % SeqSpace
Ahead(seq, base) == (seq - base) % SeqSpace

\* The elements of s at the places in I, in their order.
Picked(s, I) ==
    LET Upto[n \in 0 .. Len(s)] ==
          IF n = 0 THEN <<>> ELSE IF n \in I THEN Append(Upto[n - 1], s[n]) ELSE Upto[n - 1]
    IN Upto[Len(s)]

(* enet_peer_reset: the session number survives it. *)
ResetPeer(session) ==
    [st |-> "disconnected", session |-> session, known |-> FALSE,
     num |-> 0, rel |-> 0, unrel |-> 0, group |-> 0,
     windows |-> [w \in 0 .. Windows - 1 |-> 0],
     out |-> <<>>, outRel |-> <<>>, sent |-> <<>>, acks |-> <<>>,
     inRel |-> 0, inUnrel |-> 0, seen |-> {},
     queueRel |-> <<>>, queueUnrel |-> <<>>, dispatched |-> <<>>, pending |-> FALSE]

(* enet_peer_reset_queues: the channels go too. *)
ResetQueues(p) ==
    [p EXCEPT !.acks = <<>>, !.sent = <<>>, !.out = <<>>, !.outRel = <<>>,
              !.queueRel = <<>>, !.queueUnrel = <<>>, !.dispatched = <<>>, !.pending = FALSE,
              !.rel = 0, !.unrel = 0, !.inRel = 0, !.inUnrel = 0,
              !.windows = [w \in 0 .. Windows - 1 |-> 0]]

Talks(p)       == p.st \in {"connected", "later"}
\* A variant that looks only at what was not sent yet.
HasOutgoingUnsent(p) == p.out # <<>> \/ p.outRel # <<>>
HasOutgoing(p) == p.out # <<>> \/ p.outRel # <<>> \/ p.sent # <<>>
ToDispatch(p, st) == [p EXCEPT !.st = st, !.pending = TRUE]

(***************************************************************************)
(* Queueing outgoing commands: setup_outgoing_command numbers a command    *)
(* and puts it on one of the two lists; at is its place in the queueTime   *)
(* order of both.                                                          *)
(***************************************************************************)
NextPlace(p) == 1 + Max({0} \cup {c.at : c \in Range(p.out \o p.outRel \o p.sent)})
Numbered(c, seq, unrel, at) ==
    [kind |-> c.kind, ack |-> c.ack, ctl |-> c.ctl, msg |-> c.msg, part |-> c.part,
     seq |-> seq, unrel |-> unrel, at |-> at, tries |-> 0]

QueueOutgoing(p, c) ==
    CASE c.ctl ->
            [p EXCEPT !.num = @ + 1, !.out = Append(@, Numbered(c, p.num + 1, 0, NextPlace(p)))]
      [] ~c.ctl /\ c.ack ->
            [p EXCEPT !.rel = NextSeq(@), !.unrel = 0,
                      !.outRel = Append(@, Numbered(c, NextSeq(p.rel), 0, NextPlace(p)))]
      [] c.kind = "unsequenced" ->
            [p EXCEPT !.group = @ + 1, !.out = Append(@, Numbered(c, 0, p.group + 1, NextPlace(p)))]
      [] c.kind = "unreliable" ->
            [p EXCEPT !.unrel = @ + 1,
                      !.out = Append(@, Numbered(c, p.rel, p.unrel + 1, NextPlace(p)))]

Control(kind, ack)   == [kind |-> kind, ack |-> ack, ctl |-> TRUE, msg |-> 0, part |-> 0]
Data(kind, msg, part) ==
    [kind |-> kind, ack |-> kind \in {"reliable", "fragment"}, ctl |-> FALSE, msg |-> msg, part |-> part]

(* enet_peer_send: a message longer than the MTU goes as reliable          *)
(* fragments with consecutive numbers.                                     *)
SendMessage(p, kind, msg) ==
    LET Upto[n \in 0 .. Parts] ==
          IF n = 0 THEN p ELSE QueueOutgoing(Upto[n - 1], Data("fragment", msg, n))
    IN IF kind = "big" THEN Upto[Parts] ELSE QueueOutgoing(p, Data(kind, msg, 1))

(* enet_peer_disconnect of a connected peer. *)
Disconnect(p) ==
    [QueueOutgoing(ResetQueues(p), Control("disconnect", TRUE)) EXCEPT !.st = "disconnecting"]
(* What DISCONNECT_LATER does once nothing is outgoing. *)
LeaveWhenDrained(p) == IF p.st = "later" /\ ~HasOutgoing(p) THEN Disconnect(p) ELSE p

(***************************************************************************)
(* Events: the peer's state after notify_connect and notify_disconnect;    *)
(* with an event to fill in, the application hears of it at once.          *)
(***************************************************************************)
NotifyConnect(p, event) ==
    IF event THEN [p EXCEPT !.st = "connected"]
    ELSE ToDispatch(p, IF p.st = "connecting" THEN "succeeded" ELSE "pending")
NotifyDisconnect(p, event) ==
    IF event \/ p.st \in {"disconnected", "acknowledging_connect", "pending"}
    THEN ResetPeer(p.session)
    ELSE ToDispatch(p, "zombie")

(***************************************************************************)
(* Sending: acknowledgements first, then the timeouts, then commands.      *)
(***************************************************************************)
Wire(c) == [kind |-> c.kind, ack |-> c.ack, ctl |-> c.ctl, seq |-> c.seq, unrel |-> c.unrel,
            msg |-> c.msg, part |-> c.part]
AckWire(a) == [kind |-> "ack", ack |-> FALSE, ctl |-> a.ctl, seq |-> a.seq, unrel |-> 0,
               msg |-> 0, part |-> 0]
(* send_acknowledgements: acknowledging a DISCONNECT makes a zombie. *)
SendAcks(p) ==
    IF \E i \in DOMAIN p.acks : p.acks[i].of = "disconnect"
    THEN [ToDispatch(p, "zombie") EXCEPT !.acks = <<>>] ELSE [p EXCEPT !.acks = <<>>]

(* check_timeouts: sent commands whose time is over go back to the front   *)
(* of the list they came from.                                             *)
Expire(p, late) ==
    LET Back(ctl) == Picked(p.sent, {i \in late : p.sent[i].ctl = ctl})
    IN [p EXCEPT !.out = Back(TRUE) \o @, !.outRel = Back(FALSE) \o @,
                 !.sent = Picked(@, DOMAIN @ \ late)]

(* check_outgoing_commands: which reliable commands of the channel wait.   *)
(* No command starts a window while the one before it is full or any of    *)
(* the FreeWindows + 2 windows from it on is in use.                       *)
WindowBlocked(p, c) ==
    LET w == WindowOf(c.seq)
    IN /\ c.tries = 0 /\ c.seq % WindowSize = 0
       /\ \/ p.windows[(w + Windows - 1) % Windows] >= WindowSize
          \/ \E k \in 0 .. FreeWindows + 1 : p.windows[(w + k) % Windows] > 0
InTransit(p) == Cardinality({i \in DOMAIN p.sent : ~p.sent[i].ctl})

\* A variant that counts a retransmission again.
TransmittedAgain(p, c) ==
    [p EXCEPT !.sent = Append(@, [c EXCEPT !.tries = @ + 1]),
              !.windows = IF c.ctl THEN @ ELSE [p.windows EXCEPT ![WindowOf(c.seq)] = @ + 1]]
Transmitted(p, c) ==
    [p EXCEPT !.sent = Append(@, [c EXCEPT !.tries = @ + 1]),
              !.windows = IF c.ctl \/ c.tries > 0 THEN @ ELSE [p.windows EXCEPT ![WindowOf(c.seq)] = @ + 1]]

(* One turn of its loop.  s is what the loop has come to: the peer with    *)
(* the lists it keeps, what is left of both lists, and the datagram.       *)
SendNext(s, limit, dropped) ==
    LET fromOut == s.out # <<>> /\ ~(s.rel # <<>> /\ Head(s.rel).at < Head(s.out).at)
        c == IF fromOut THEN Head(s.out) ELSE Head(s.rel)
        t == IF fromOut THEN [s EXCEPT !.out = Tail(@)] ELSE [s EXCEPT !.rel = Tail(@)]
    IN CASE s.full \/ (s.out = <<>> /\ s.rel = <<>>) -> s
         [] OTHER ->
            IF ~c.ctl /\ c.ack /\ (WindowBlocked(s.peer, c) \/ InTransit(s.peer) + 1 > limit)
            THEN [s EXCEPT !.peer.outRel = @ \o s.rel, !.rel = <<>>]
            ELSE IF Len(s.cmds) = PerDatagram THEN [s EXCEPT !.full = TRUE]
            ELSE IF c.ack THEN [t EXCEPT !.peer = Transmitted(@, c), !.cmds = Append(@, Wire(c))]
            ELSE IF c.msg \in dropped THEN t
            ELSE [t EXCEPT !.cmds = Append(@, Wire(c))]

CheckOutgoing(p, limit, dropped) ==
    LET turns == Len(p.out) + Len(p.outRel) + 1
        Turn[n \in 0 .. turns] ==
          IF n = 0 THEN [peer |-> [p EXCEPT !.out = <<>>, !.outRel = <<>>],
                         out |-> p.out, rel |-> p.outRel, cmds |-> <<>>, full |-> FALSE]
          ELSE SendNext(Turn[n - 1], limit, dropped)
        s == Turn[turns]
    IN [peer |-> [s.peer EXCEPT !.out = @ \o s.out, !.outRel = @ \o s.rel], cmds |-> s.cmds]

(* remove_sent_reliable_command: the acknowledged command, and the peer    *)
(* without it.                                                             *)
IsAcked(c, seq, ctl) == c.ack /\ c.seq = seq /\ c.ctl = ctl /\ c.tries > 0
Acked(p, seq, ctl)   == {c \in Range(p.sent \o p.out \o p.outRel) : IsAcked(c, seq, ctl)}
Forget(p, seq, ctl) ==
    LET Others(s) == Picked(s, {i \in DOMAIN s : ~IsAcked(s[i], seq, ctl)})
        w == WindowOf(seq)
    IN IF Acked(p, seq, ctl) = {} THEN p
       ELSE [p EXCEPT !.sent = Others(@), !.out = Others(@), !.outRel = Others(@),
                      !.windows = IF ctl \/ p.windows[w] = 0 THEN @ ELSE [p.windows EXCEPT ![w] = @ - 1]]

(***************************************************************************)
(* Receiving: the channel's two incoming lists and what they hand over.    *)
(***************************************************************************)
(* The windows a receiver accepts, as a distance from its own. *)
WindowAhead(p, seq) ==
    WindowOf(seq) + (IF seq < p.inRel THEN Windows ELSE 0) - WindowOf(p.inRel)
Accepts(p, seq) == WindowAhead(p, seq) \in 0 .. FreeWindows - 2

Dispatched(p, entries) ==
    IF entries = <<>> THEN p
    ELSE [p EXCEPT !.dispatched = @ \o entries, !.pending = TRUE]

(* dispatch_incoming_unreliable_commands: up to the first command that     *)
(* waits for reliable ones, hand over those of the current reliable number *)
(* and drop those of an earlier one.                                       *)
DispatchUnreliable(p) ==
    LET q == p.queueUnrel
        Waits(e) == e.kind # "unsequenced" /\ e.seq # p.inRel /\ Accepts(p, e.seq)
        n == Min({Len(q) + 1} \cup {i \in DOMAIN q : Waits(q[i])})
        now == {i \in 1 .. n - 1 : q[i].kind = "unsequenced" \/ q[i].seq = p.inRel}
        numbers == {q[i].unrel : i \in {j \in now : q[j].kind # "unsequenced"}}
    IN Dispatched([p EXCEPT !.queueUnrel = SubSeq(@, n, Len(q)), !.inUnrel = Max({@} \cup numbers)], Picked(q, now))

(* dispatch_incoming_reliable_commands *)
InTurn(e, inRel) == e.missing = {} /\ e.seq = NextSeq(inRel)
LastSeq(e) == (e.seq + e.parts - 1) % SeqSpace
DispatchReliable(p) ==
    LET q == p.queueRel
        Upto[n \in 0 .. Len(q)] == IF n = 0 THEN p.inRel ELSE LastSeq(q[n])
        n == CHOOSE k \in 0 .. Len(q) :
                /\ \A i \in 1 .. k : InTurn(q[i], Upto[i - 1])
                /\ k < Len(q) => ~InTurn(q[k + 1], Upto[k])
    IN IF n = 0 THEN p
       ELSE DispatchUnreliable(
              Dispatched([p EXCEPT !.queueRel = SubSeq(@, n + 1, Len(q)), !.inRel = Upto[n], !.inUnrel = 0],
                         SubSeq(q, 1, n)))

Entry(c, seq, missing) ==
    [kind |-> c.kind, seq |-> seq, unrel |-> c.unrel, msg |-> c.msg, missing |-> missing,
     parts |-> IF c.kind = "fragment" THEN Parts ELSE 1]
Before(p, e, f) ==
    \/ Ahead(e.seq, p.inRel) < Ahead(f.seq, p.inRel)
    \/ e.seq = f.seq /\ e.unrel < f.unrel
Insert(p, q, e) ==
    LET before == {i \in DOMAIN q : Before(p, q[i], e)}
    IN Picked(q, before) \o <<e>> \o Picked(q, DOMAIN q \ before)
Has(q, e) == \E i \in DOMAIN q : q[i].seq = e.seq /\ q[i].unrel = e.unrel

(* queue_incoming_command: a peer that disconnects later discards what it  *)
(* gets, and so is a command out of the windows or already there.          *)
QueueReliable(p, e) ==
    IF p.st = "later" \/ ~Accepts(p, e.seq) \/ e.seq = p.inRel \/ Has(p.queueRel, e) THEN p
    ELSE DispatchReliable([p EXCEPT !.queueRel = Insert(p, @, e)])
\* A variant that does not compare with the last number handed over.
QueueUnreliableAgain(p, e) ==
    IF p.st = "later" \/ ~Accepts(p, e.seq) \/ Has(p.queueUnrel, e)
    THEN p ELSE DispatchUnreliable([p EXCEPT !.queueUnrel = Insert(p, @, e)])
QueueUnreliable(p, e) ==
    IF \/ p.st = "later" \/ ~Accepts(p, e.seq) \/ Has(p.queueUnrel, e)
       \/ e.seq = p.inRel /\ e.unrel <= p.inUnrel
    THEN p ELSE DispatchUnreliable([p EXCEPT !.queueUnrel = Insert(p, @, e)])
QueueUnsequenced(p, e) ==
    IF p.st = "later" THEN p ELSE DispatchUnreliable([p EXCEPT !.queueUnrel = <<e>> \o @])
================================================================================
