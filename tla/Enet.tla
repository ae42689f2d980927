--------------------------------- MODULE Enet ----------------------------------
(***************************************************************************)
(* A connection between two ENet hosts: the client of moonlight-common-c   *)
(* and the streaming host, which runs the same library.  An action is what *)
(* the library does for one peer between two looks at the socket: the      *)
(* callers hold enetMutex, so nothing of the same host comes between.      *)
(* The network delays and reorders datagrams, never delivers some, and     *)
(* delivers some of them more than once.                                   *)
(***************************************************************************)
EXTENDS EnetPeer

CONSTANTS FirstSeq,     \* reliable number of a connection that has been up for a while
          GroupWindow,  \* ENET_PEER_UNSEQUENCED_WINDOW_SIZE (1024)
          Limits,       \* what the transit window may allow: at least one fragment of the MTU
          MaxTries,     \* bound of the model: attempts before the timeouts give a peer up
          InFlight,     \* bound of the model: datagrams on their way; the next ones are lost
          Scenarios     \* what a behaviour may contain

MessageKinds == {"reliable", "big", "unreliable", "unsequenced"}
Departures   == {"client", "server"} \X {"disconnect", "later", "now"}

\* up: the connection has been up for a while; sends: the kinds of messages
\* the client sends, messages how many; leaves: what the applications may
\* do once to end it; pings, copies: how many pings, how many datagrams
\* delivered again.
ASSUME EnetAssumption ==
    /\ {MaxTries, GroupWindow} \subseteq Nat \ {0} /\ {FirstSeq, InFlight} \subseteq Nat
    /\ Limits \subseteq Nat \ {0} /\ Limits # {}
    /\ Scenarios \subseteq [up: BOOLEAN, sends: SUBSET MessageKinds, messages: Nat,
                            leaves: SUBSET Departures, pings: Nat, copies: Nat]

VARIABLES
    peer,  \* each host's record of the other one
    net,   \* datagrams on their way
    sent,  \* no code reads it: the kinds of the messages the client sent
    got,   \* no code reads it: the messages the server's application got
    room   \* the scenario, less what has happened of it

vars == <<peer, net, sent, got, room>>

Hosts == {"client", "server"}
Other(h) == IF h = "client" THEN "server" ELSE "client"

(* enet_host_connect *)
Connecting == QueueOutgoing([ResetPeer(3) EXCEPT !.st = "connecting"], Control("connect", TRUE))
Established(out, in) ==
    [ResetPeer(0) EXCEPT !.st = "connected", !.known = TRUE, !.num = 1, !.rel = out, !.inRel = in]

Init ==
    /\ room \in Scenarios
    /\ peer = IF room.up THEN [client |-> Established(FirstSeq, 0), server |-> Established(0, FirstSeq)]
              ELSE [client |-> Connecting, server |-> ResetPeer(3)]
    /\ net = {} /\ sent = <<>> /\ got = <<>>

Datagram(h, cmds) ==
    [to |-> Other(h), known |-> peer[h].known, session |-> peer[h].session, cmds |-> cmds]
Sent(d) == IF Cardinality(net) < InFlight THEN net \cup {d} ELSE net

(***************************************************************************)
(* What the applications call.                                             *)
(***************************************************************************)
Send(kind) ==
    /\ peer["client"].st = "connected" /\ kind \in room.sends /\ Len(sent) < room.messages
    /\ peer' = [peer EXCEPT !["client"] = SendMessage(@, kind, Len(sent) + 1)]
    /\ sent' = Append(sent, kind)
    /\ UNCHANGED <<net, got, room>>

Leave(h, how) == <<h, how>> \in room.leaves /\ room' = [room EXCEPT !.leaves = {}]
DisconnectPeer(h) ==
    /\ peer[h].st = "connected" /\ Leave(h, "disconnect")
    /\ peer' = [peer EXCEPT ![h] = Disconnect(@)]
    /\ UNCHANGED <<net, sent, got>>

DisconnectLater(h) ==
    /\ peer[h].st = "connected" /\ Leave(h, "later")
    /\ peer' = [peer EXCEPT ![h] = IF HasOutgoing(@) THEN [@ EXCEPT !.st = "later"] ELSE Disconnect(@)]
    /\ UNCHANGED <<net, sent, got>>

\* The other side is told once, and not at all if it was told before.
DisconnectNow(h) ==
    /\ peer[h].st # "disconnected" /\ Leave(h, "now")
    /\ net' = IF peer[h].st \in {"zombie", "disconnecting"} THEN net
              ELSE Sent(Datagram(h, <<Wire(Numbered(Control("disconnect", FALSE), peer[h].num + 1, 0, 1))>>))
    /\ peer' = [peer EXCEPT ![h] = ResetPeer(@.session)]
    /\ UNCHANGED <<sent, got>>

(***************************************************************************)
(* enet_protocol_dispatch_incoming_commands: one event.                    *)
(***************************************************************************)
Dispatch(h) ==
    LET p == peer[h]
        has == p.st = "connected" /\ p.dispatched # <<>>
    IN /\ p.pending
       /\ peer' = [peer EXCEPT ![h] =
             CASE p.st \in {"pending", "succeeded"} ->
                     [p EXCEPT !.st = "connected", !.pending = FALSE]
               [] p.st = "zombie" -> ResetPeer(p.session)
               [] has -> [p EXCEPT !.dispatched = Tail(@), !.pending = Len(p.dispatched) > 1]
               [] OTHER -> [p EXCEPT !.pending = FALSE]]
       /\ got' = IF has THEN Append(got, Head(p.dispatched).msg) ELSE got
       /\ UNCHANGED <<net, sent, room>>

(***************************************************************************)
(* enet_protocol_send_outgoing_commands for one peer.  late is the set of  *)
(* sent commands whose timeout has passed: nextTimeout is that of the      *)
(* first, so none is looked at before the first is late.                   *)
(***************************************************************************)
Live(h) == peer[h].st \notin {"disconnected", "zombie"}
AckList(h) == [i \in DOMAIN peer[h].acks |-> AckWire(peer[h].acks[i])]

GivesUp(h, late) == \E i \in late : peer[h].sent[i].tries >= MaxTries

\* A peer that was drained leaves, and not before the unreliable data it sent is freed.
Frees(cmds) == \E i \in DOMAIN cmds : cmds[i].kind \in {"unreliable", "unsequenced"}
Pinged(p)   == IF p.st = "connected" THEN QueueOutgoing(p, Control("ping", TRUE)) ELSE p

\* quiet: nothing came for a ping interval.  Then, with nothing unacknowledged, there is
\* a second look at the outgoing commands, after a ping if the peer is connected.
Transmit(h, late, limit, dropped, quiet) ==
    LET first == CheckOutgoing(Expire(SendAcks(peer[h]), late), limit, dropped)
        left == IF Frees(first.cmds) THEN first.peer ELSE LeaveWhenDrained(first.peer)
        second == CheckOutgoing(Pinged(left), limit, dropped)
        cmds == AckList(h) \o first.cmds \o (IF quiet THEN second.cmds ELSE <<>>)
        pings == quiet /\ left.st = "connected"
    IN /\ Live(h) /\ ~GivesUp(h, late)
       /\ quiet => left.sent = <<>> /\ Len(first.cmds) < PerDatagram
       /\ pings => room.pings > 0
       /\ peer' = [peer EXCEPT ![h] = LeaveWhenDrained(IF quiet THEN second.peer ELSE left)]
       /\ peer' # peer
       /\ net' = IF cmds = <<>> THEN net ELSE Sent(Datagram(h, cmds))
       /\ room' = IF pings THEN [room EXCEPT !.pings = @ - 1] ELSE room
       /\ UNCHANGED <<sent, got>>

\* The acknowledgements taken off the list go nowhere.
GiveUp(h, late, event) ==
    /\ Live(h) /\ GivesUp(h, late)
    /\ peer' = [peer EXCEPT ![h] = NotifyDisconnect(Expire(SendAcks(@), {}), event)]
    /\ UNCHANGED <<net, sent, got, room>>

(***************************************************************************)
(* enet_protocol_handle_incoming_commands: a datagram.  A handler answers  *)
(* with the peer after it and whether the rest of the datagram is read.    *)
(***************************************************************************)
Go(p)   == [peer |-> p, ok |-> TRUE]
Fail(p) == [peer |-> p, ok |-> FALSE]

HandleConnect(p) ==
    IF p.st # "disconnected" THEN Fail(p)
    ELSE Go(QueueOutgoing([ResetPeer((p.session + 1) % 4) EXCEPT !.st = "acknowledging_connect", !.known = TRUE],
                          Control("verify", TRUE)))

HandleVerify(p, d, event) ==
    IF p.st # "connecting" THEN Go(p)
    ELSE Go(NotifyConnect([Forget(p, 1, TRUE) EXCEPT !.known = TRUE, !.session = d.session], event))

\* A variant that does not look whether that was the last one.
HandleAcknowledgeOnly(p, c, event) ==
    LET kinds == {a.kind : a \in Acked(p, c.seq, c.ctl)}
        q == Forget(p, c.seq, c.ctl)
    IN CASE p.st = "acknowledging_connect" ->
               IF "verify" \in kinds THEN Go(NotifyConnect(q, event)) ELSE Fail(q)
         [] p.st = "disconnecting" ->
               IF "disconnect" \in kinds THEN Go(NotifyDisconnect(q, event)) ELSE Fail(q)
         [] p.st \in {"disconnected", "zombie"} -> Go(p)
         [] OTHER -> Go(q)
HandleAcknowledge(p, c, event) ==
    LET kinds == {a.kind : a \in Acked(p, c.seq, c.ctl)}
        q == Forget(p, c.seq, c.ctl)
    IN CASE p.st = "acknowledging_connect" ->
               IF "verify" \in kinds THEN Go(NotifyConnect(q, event)) ELSE Fail(q)
         [] p.st = "disconnecting" ->
               IF "disconnect" \in kinds THEN Go(NotifyDisconnect(q, event)) ELSE Fail(q)
         [] p.st \in {"disconnected", "zombie"} -> Go(p)
         [] OTHER -> Go(LeaveWhenDrained(q))

HandleDisconnect(p, c) ==
    CASE p.st \in {"disconnected", "zombie", "acknowledging_disconnect"} -> Go(p)
      [] p.st \in {"succeeded", "disconnecting", "connecting"} -> Go(ToDispatch(ResetQueues(p), "zombie"))
      [] p.st \in {"acknowledging_connect", "pending"} -> Go(ResetPeer(p.session))
      [] OTHER -> Go(IF c.ack THEN [ResetQueues(p) EXCEPT !.st = "acknowledging_disconnect"]
                     ELSE ToDispatch(ResetQueues(p), "zombie"))

HandleFragment(p, c) ==
    LET start == (c.seq - (c.part - 1)) % SeqSpace
        e == Entry(c, start, (1 .. Parts) \ {c.part})
        Fill(q) == [i \in DOMAIN q |-> IF q[i].seq = start THEN [q[i] EXCEPT !.missing = @ \ {c.part}] ELSE q[i]]
    IN CASE ~Accepts(p, start) -> Go(p)
         [] Accepts(p, start) /\ Has(p.queueRel, e) -> Go(DispatchReliable([p EXCEPT !.queueRel = Fill(@)]))
         [] OTHER -> IF p.st = "later" \/ start = p.inRel THEN Fail(p)
                     ELSE Go(QueueReliable(p, e))

HandleUnsequenced(p, c) ==
    LET Base(g) == g - (g % GroupWindow)
        base == Base(c.unrel)
        old  == \E g \in p.seen : Base(g) > base
    IN IF old \/ c.unrel \in p.seen THEN Go(p)
       ELSE Go([QueueUnsequenced(p, Entry(c, 0, {})) EXCEPT
                  !.seen = {c.unrel} \cup {g \in @ : Base(g) = base}])

HandleData(p, c) ==
    IF ~Talks(p) THEN Fail(p)
    ELSE CASE c.kind = "reliable"    -> Go(QueueReliable(p, Entry(c, c.seq, {})))
           [] c.kind = "fragment"    -> HandleFragment(p, c)
           [] c.kind = "unreliable"  -> Go(QueueUnreliable(p, Entry(c, c.seq, {})))
           [] c.kind = "unsequenced" -> HandleUnsequenced(p, c)

(* enet_peer_queue_acknowledgement: none for numbers just past what the    *)
(* receiver accepts.                                                       *)
QueueAck(p, c) ==
    IF ~c.ctl /\ Talks(p) /\ WindowAhead(p, c.seq) \in {FreeWindows - 1, FreeWindows} THEN p
    ELSE [p EXCEPT !.acks = Append(@, [seq |-> c.seq, ctl |-> c.ctl, of |-> c.kind])]

Acknowledges(p, c) ==
    /\ c.ack
    /\ p.st \notin {"disconnecting", "acknowledging_connect", "disconnected", "zombie"}
    /\ p.st = "acknowledging_disconnect" => c.kind = "disconnect"

Handle(p, c, d, event) ==
    CASE c.kind = "ack"        -> HandleAcknowledge(p, c, event)
      [] c.kind = "connect"    -> Fail(p)
      [] c.kind = "verify"     -> HandleVerify(p, d, event)
      [] c.kind = "disconnect" -> HandleDisconnect(p, c)
      [] c.kind = "ping"       -> IF Talks(p) THEN Go(p) ELSE Fail(p)
      [] OTHER                 -> HandleData(p, c)

HandleNext(s, c, d, event) ==
    LET r == Handle(s.peer, c, d, event)
    IN IF ~s.ok THEN s
       ELSE IF r.ok /\ Acknowledges(r.peer, c) THEN Go(QueueAck(r.peer, c)) ELSE r

\* A datagram without the receiver's number can only open a connection;
\* one of another session is not for this connection.
IsFor(p, d) ==
    IF d.known THEN p.st \notin {"disconnected", "zombie"} /\ (p.known => d.session = p.session)
    ELSE d.cmds # <<>> /\ d.cmds[1].kind = "connect"

Handled(p, d, event) ==
    LET Upto[n \in 0 .. Len(d.cmds)] ==
          IF n = 0 THEN Go(p) ELSE HandleNext(Upto[n - 1], d.cmds[n], d, event)
    IN IF d.known THEN Upto[Len(d.cmds)].peer ELSE HandleConnect(p).peer

Receive(d, event, again) ==
    /\ IsFor(peer[d.to], d)
    /\ peer' = [peer EXCEPT ![d.to] = Handled(@, d, event)]
    /\ net' = IF again THEN net ELSE net \ {d}
    /\ again => room.copies > 0
    /\ room' = IF again THEN [room EXCEPT !.copies = @ - 1] ELSE room
    /\ UNCHANGED <<sent, got>>

Lose(d) == net' = net \ {d} /\ UNCHANGED <<peer, sent, got, room>>

(***************************************************************************)
(* Specification                                                           *)
(***************************************************************************)
Unreliable == {m \in DOMAIN sent : sent[m] \in {"unreliable", "unsequenced"}}
Late(h) == {{}} \cup {{1} \cup S : S \in SUBSET (DOMAIN peer[h].sent \ {1})}
LateOf(h) == IF peer[h].sent = <<>> THEN {{}} ELSE Late(h)

TransmitSome(h) ==
    \E late \in LateOf(h), limit \in Limits, dropped \in SUBSET Unreliable, quiet \in BOOLEAN :
        Transmit(h, late, limit, dropped, quiet)
GiveUpSome(h) == \E late \in LateOf(h), event \in BOOLEAN : GiveUp(h, late, event)
Service(h) == TransmitSome(h) \/ GiveUpSome(h) \/ Dispatch(h)

Next ==
    \/ \E kind \in MessageKinds : Send(kind)
    \/ \E h \in Hosts : DisconnectPeer(h) \/ DisconnectLater(h) \/ DisconnectNow(h) \/ Service(h)
    \/ \E d \in net : Lose(d) \/ \E event, again \in BOOLEAN : Receive(d, event, again)

Spec == Init /\ [][Next]_vars

\* Both applications keep calling enet_host_service, and time goes on.
\* The enabling conditions of the two sending steps are spelled out: a step
\* that can be taken for ever is taken.
CanTransmit(h) ==
    LET p == peer[h]
    IN /\ Live(h)
       /\ \/ p.acks # <<>> \/ p.out # <<>>
          \/ p.sent # <<>> /\ p.sent[1].tries < MaxTries
          \/ p.outRel # <<>> /\ ~WindowBlocked(p, p.outRel[1]) /\ \E limit \in Limits : InTransit(p) < limit
CanGiveUp(h) == Live(h) /\ \E i \in DOMAIN peer[h].sent : peer[h].sent[i].tries >= MaxTries
Fairness ==
    \A h \in Hosts :
        /\ []<>~CanTransmit(h) \/ []<><<TransmitSome(h)>>_vars
        /\ []<>~CanGiveUp(h) \/ []<><<GiveUpSome(h)>>_vars
        /\ WF_vars(Dispatch(h))
LiveSpec == Spec /\ Fairness

(***************************************************************************)
(* Properties                                                              *)
(***************************************************************************)
(* A peer keeps what it counts: the commands in flight of a reliable       *)
(* window are the ones reliableWindows counts there, so that no retry, no  *)
(* late acknowledgement and no timeout leaves a window in use for ever     *)
(* (check_outgoing_commands, remove_sent_reliable_command).                *)
WindowsCountTheUnacked ==
    \A h \in Hosts : \A w \in 0 .. Windows - 1 :
        LET p == peer[h]
        IN p.windows[w] = Cardinality({i \in DOMAIN p.sent : ~p.sent[i].ctl /\ WindowOf(p.sent[i].seq) = w})
                          + Cardinality({i \in DOMAIN p.outRel :
                                            p.outRel[i].tries > 0 /\ WindowOf(p.outRel[i].seq) = w})

(* enet_peer_disconnect_later lets the peer go "only after all queued      *)
(* outgoing packets are sent": when it goes to DISCONNECTING and the other *)
(* side is still connected, that side has every reliable message.          *)
Handed == {got[i] : i \in DOMAIN got}
          \cup {peer["server"].dispatched[i].msg : i \in DOMAIN peer["server"].dispatched}
LaterDisconnectFlushes ==
    [][peer["client"].st = "later" /\ peer'["client"].st = "disconnecting"
         /\ peer["server"].st = "connected" =>
       \A m \in DOMAIN sent : sent[m] \in {"reliable", "big"} => m \in Handed]_vars

(* Every connection attempt and every disconnection comes to an end, with  *)
(* or without an answer: the timeouts see to that.                         *)
RequestsEnd ==
    \A h \in Hosts : peer[h].st \notin {"connected", "disconnected"} ~> peer[h].st \in {"connected", "disconnected"}

(* Whatever the network does, and however the connection comes up and      *)
(* goes down, the server's application gets what an ordered channel hands  *)
(* out (queue_incoming_command, dispatch_incoming_reliable_commands and    *)
(* dispatch_incoming_unreliable_commands).                                 *)
Channel == INSTANCE OrderedChannel WITH
    Kinds <- MessageKinds, Reliable <- {"reliable", "big"}, Unsequenced <- {"unsequenced"},
    received <- got
ImplementsChannel == Channel!Spec
================================================================================
