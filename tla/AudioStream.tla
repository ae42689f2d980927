------------------------------ MODULE AudioStream ------------------------------
(***************************************************************************)
(* AudioStream.c: the audio of a connection.  The receive thread reads UDP *)
(* packets and puts them through the RTP audio queue; what comes out goes  *)
(* to the decoder callback, at once (CAPABILITY_DIRECT_SUBMIT) or by way   *)
(* of a bounded queue and a decoder thread.  The connection's thread       *)
(* starts, stops and destroys the stream.                                  *)
(*                                                                         *)
(* The network loses, repeats and reorders packets: any packet within      *)
(* Behind and Ahead of the newest one seen may arrive next.                *)
(***************************************************************************)
EXTENDS RtpAudioQueue, LinkedBlockingQueue

CONSTANTS First,     \* numbers the host may start with
          LastPacket, \* bound of the model: the last packet of the host
          Behind,    \* bound of the model: how far behind the newest packet one may arrive
          Ahead,     \* bound of the model: Ahead - 1 packets in a row may be missing
          LateAfter, \* packets the host sends in the time handleMissingPackets waits
          Sizes,     \* payload sizes
          Bound,     \* size of packetQueue (30 in the code)
          DropFirst  \* packetsToDrop at the start

ASSUME AudioStreamAssumption ==
    /\ {LastPacket, Behind, Ahead, LateAfter, DropFirst, Bound} \subseteq Nat
    /\ First \subseteq Nat /\ Sizes # {} /\ Bound > 0

\* What the network repeats, loses and reorders, and two blocks, are less than half of the
\* numbers; a packet that came later could not be told from one that is new.
ASSUME NumbersSuffice == 2 * (Behind + Ahead + 2 * DataShards) < SeqSpace

VARIABLES
    stream,   \* how far the connection's thread is in the stream's life
    socket,   \* rtpSocket: "invalid", "open", or "closed" with its number kept
    ping,     \* the ping thread: "none", "runs"
    renderer, \* AudioCallbacks: "none", "started", "stopped", "cleaned"
    direct,   \* CAPABILITY_DIRECT_SUBMIT
    stopping, \* threads that PltInterruptThread was called for
    rx,       \* the receive thread: where it is
    drains,   \* it is inside the loop around RtpaGetQueuedPacket
    item,     \* the packet it hands on
    heard,    \* receivedDataFromPeer
    toDrop,   \* packetsToDrop
    queue,    \* rtpAudioQueue
    lbq,      \* packetQueue
    dec,      \* the decoder thread: where it is
    held,     \* the packet it took
    high,     \* newest packet the network has delivered
    played    \* newest packet given to decodeAndPlaySample

vars == <<stream, socket, ping, renderer, direct, stopping, rx, drains, item, heard, toDrop,
          queue, lbq, dec, held, high, played>>
life  == <<stream, socket, ping, renderer, direct, stopping>>
media == <<rx, drains, item, heard, toDrop, queue, lbq, dec, held, high, played>>

Nothing == [n |-> 0, lost |-> FALSE]

\* initializeAudioStream
Init ==
    /\ stream = "init" /\ socket = "invalid" /\ ping = "none" /\ renderer = "none"
    /\ direct \in BOOLEAN /\ stopping = {}
    /\ rx = "none" /\ drains = FALSE /\ item = Nothing /\ heard = FALSE /\ toDrop = DropFirst
    /\ queue = EmptyAudioQueue /\ lbq = EmptyLbq(Bound)
    /\ dec = "none" /\ held = Nothing
    /\ high \in First /\ played = 0

(***************************************************************************)
(* The connection's thread.                                                *)
(***************************************************************************)
\* notifyAudioPortNegotiationComplete; a socket that cannot be bound, or no ping thread
NotifyPort ==
    /\ stream = "init"
    /\ \/ socket' = "open" /\ ping' = "runs" /\ stream' = "port"
       \/ socket' = "open" /\ ping' = "none" /\ stream' = "failed"
       \/ socket' = "invalid" /\ ping' = "none" /\ stream' = "failed"
    /\ UNCHANGED <<renderer, direct, stopping, media>>

\* startAudioStream up to the receive thread
StartReceiver ==
    /\ stream = "port"
    /\ \/ stream' = "failed" /\ UNCHANGED <<renderer, socket, rx>>
       \/ stream' = "failed" /\ renderer' = "cleaned" /\ socket' = "closed" /\ rx' = "none"
       \/ /\ stream' = (IF direct THEN "started" ELSE "starting")
          /\ renderer' = "started" /\ rx' = "turn" /\ UNCHANGED socket
    /\ UNCHANGED <<ping, direct, stopping, drains, item, heard, toDrop, queue, lbq, dec, held, high, played>>

\* ... and the decoder thread; without it the receive thread is interrupted and joined
StartDecoder ==
    /\ stream = "starting"
    /\ \/ stream' = "started" /\ dec' = "loop" /\ UNCHANGED <<renderer, stopping>>
       \/ stream' = "undo" /\ renderer' = "stopped" /\ stopping' = {"rx"} /\ UNCHANGED dec
    /\ UNCHANGED <<socket, ping, direct, rx, drains, item, heard, toDrop, queue, lbq, held, high, played>>
UndoStart ==
    /\ stream = "undo" /\ rx = "ended"
    /\ stream' = "failed" /\ socket' = "closed" /\ renderer' = "cleaned"
    /\ UNCHANGED <<ping, direct, stopping, media>>

\* stopAudioStream: interrupt the receive thread, shut the queue down,
\* signal it, interrupt the decoder thread and join both.
Stop ==
    /\ stream = "started"
    /\ renderer' = "stopped" /\ stopping' = stopping \cup {"rx"}
    /\ stream' = (IF direct THEN "joinRx" ELSE "shutdown")
    /\ UNCHANGED <<socket, ping, direct, media>>
ShutdownQueue ==
    /\ stream = "shutdown"
    /\ lbq' = LbqShutdown(lbq) /\ stream' = "signal"
    /\ UNCHANGED <<socket, ping, renderer, direct, stopping, rx, drains, item, heard, toDrop,
                   queue, dec, held, high, played>>
SignalShutdown ==
    /\ stream = "signal"
    /\ dec' = (IF dec = "blocked" THEN "wait" ELSE dec)
    /\ stopping' = stopping \cup {"dec"} /\ stream' = "joinRx"
    /\ UNCHANGED <<socket, ping, renderer, direct, rx, drains, item, heard, toDrop,
                   queue, lbq, held, high, played>>
JoinReceiver ==
    /\ stream = "joinRx" /\ rx = "ended"
    /\ stream' = "joinDec"
    /\ UNCHANGED <<socket, ping, renderer, direct, stopping, media>>
\* Mutant: the decoder thread is not joined.
JoinDecoderSkipped ==
    /\ stream = "joinDec"
    /\ stream' = "stopped" /\ renderer' = "cleaned"
    /\ UNCHANGED <<socket, ping, direct, stopping, media>>
JoinDecoder ==
    /\ stream = "joinDec" /\ (direct \/ dec = "ended")
    /\ stream' = "stopped" /\ renderer' = "cleaned"
    /\ UNCHANGED <<socket, ping, direct, stopping, media>>

\* destroyAudioStream frees what the queues still hold
Destroy ==
    /\ stream \in {"stopped", "failed"}
    /\ stream' = "destroyed" /\ ping' = "none"
    /\ socket' = "invalid"
    /\ lbq' = LbqFlush(lbq) /\ queue' = CleanedUp(queue)
    /\ UNCHANGED <<renderer, direct, stopping, rx, drains, item, heard, toDrop, dec, held, high, played>>
Gone == stream = "destroyed" /\ UNCHANGED vars

Connection ==
    \/ NotifyPort \/ StartReceiver \/ StartDecoder \/ UndoStart \/ Stop \/ ShutdownQueue
    \/ SignalShutdown \/ JoinReceiver \/ JoinDecoder \/ Destroy

(***************************************************************************)
(* AudioReceiveThreadProc.                                                 *)
(***************************************************************************)
\* What the network may deliver: data, FEC of a block that has begun, and
\* packets no good host sends.
Packets ==
    LET window == {n \in 0 .. LastPacket : high - Behind <= n /\ n <= high + Ahead}
        starts == {n \in window : n % DataShards = 0 /\ n <= high}
    IN  [kind: {"data"}, n: window, size: Sizes, shard: {0}]
        \cup [kind: {"fec"}, n: starts, size: Sizes, shard: 0 .. FecShards - 1]
        \cup [kind: {"misaligned", "invalid"}, n: {high}, size: {0}, shard: {0}]

MayBeLate == {l \in BOOLEAN :
                 queue.blocks # <<>> /\ Head(queue.blocks).real + LateAfter <= high => l}

\* The head of the loop looks for the interruption; a receive that has begun
\* is not interrupted, and what it brings is handled.
ReceiverTurn ==
    /\ rx = "turn"
    /\ rx' = IF "rx" \in stopping THEN "ended" ELSE "recv"
    /\ UNCHANGED <<life, drains, item, heard, toDrop, queue, lbq, dec, held, high, played>>

\* recvUdpSocket fails, or there is no buffer to receive into: connectionTerminated
ReceiveFails ==
    /\ rx = "recv"
    /\ rx' = "ended"
    /\ UNCHANGED <<life, drains, item, heard, toDrop, queue, lbq, dec, held, high, played>>

\* Nothing came in time; the host has nothing queued, so nothing has to be dropped.
ReceiveTimesOut ==
    /\ rx = "recv" /\ rx' = "turn"
    /\ toDrop' = IF heard THEN 0 ELSE toDrop
    /\ UNCHANGED <<life, drains, item, heard, queue, lbq, dec, held, high, played>>

DropInitial(p) ==
    /\ rx = "recv" /\ toDrop > 0
    /\ rx' = "turn"
    /\ heard' = TRUE
    /\ toDrop' = IF p.kind = "data" THEN toDrop - 1 ELSE toDrop
    /\ high' = IF p.n > high THEN p.n ELSE high
    /\ UNCHANGED <<life, drains, item, queue, lbq, dec, held, played>>

\* The packet goes through the RTP audio queue.
Receive(p, late) ==
    /\ rx = "recv" /\ toDrop = 0
    /\ heard' = TRUE
    /\ high' = IF p.n > high THEN p.n ELSE high
    /\ LET a == AddPacket(queue, p, late)
       IN /\ queue' = a.q
          /\ CASE a.answer = "now"   -> rx' = "hand" /\ item' = [n |-> p.n, lost |-> FALSE] /\ drains' = FALSE
               [] a.answer = "ready" -> rx' = "drain" /\ drains' = TRUE /\ UNCHANGED item
               [] OTHER              -> rx' = "turn" /\ UNCHANGED <<item, drains>>
    /\ UNCHANGED <<life, toDrop, lbq, dec, held, played>>

\* One turn of the loop around RtpaGetQueuedPacket.
DrainOne ==
    /\ rx = "drain"
    /\ LET g == GetQueued(queue)
       IN /\ queue' = g.q
          /\ IF g.out = "nothing"
             THEN rx' = "turn" /\ drains' = FALSE /\ item' = Nothing
             ELSE rx' = "hand" /\ item' = [n |-> g.n, lost |-> g.out = "lost"] /\ UNCHANGED drains
    /\ UNCHANGED <<life, heard, toDrop, lbq, dec, held, high, played>>

AfterHand == IF drains THEN "drain" ELSE "turn"

\* decodeInputData in the receive thread
HandDirect ==
    /\ rx = "hand" /\ direct
    /\ played' = item.n /\ item' = Nothing /\ rx' = AfterHand
    /\ UNCHANGED <<life, drains, heard, toDrop, queue, lbq, dec, held, high>>

\* Mutant: every failed offer is repeated.
HandToQueueRetries ==
    /\ rx = "hand" /\ ~direct
    /\ lbq' = LbqOffer(lbq, item)
    /\ IF LbqOfferAnswer(lbq) = "success"
       THEN rx' = (IF LbqOfferSignals(lbq) THEN "signal" ELSE AfterHand) /\ item' = Nothing
       ELSE rx' = "flush" /\ UNCHANGED item
    /\ UNCHANGED <<life, drains, heard, toDrop, queue, dec, held, high, played>>

\* queuePacketToLbq: a full queue is flushed and the offer repeated, a queue
\* that was shut down ends the thread.
HandToQueue ==
    /\ rx = "hand" /\ ~direct
    /\ lbq' = LbqOffer(lbq, item)
    /\ CASE LbqOfferAnswer(lbq) = "success" ->
              rx' = (IF LbqOfferSignals(lbq) THEN "signal" ELSE AfterHand) /\ item' = Nothing
         [] LbqOfferAnswer(lbq) = "bound" -> rx' = "flush" /\ UNCHANGED item
         [] OTHER -> rx' = "ended" /\ item' = Nothing
    /\ UNCHANGED <<life, drains, heard, toDrop, queue, dec, held, high, played>>
FlushQueue ==
    /\ rx = "flush"
    /\ lbq' = LbqFlush(lbq) /\ rx' = "hand"
    /\ UNCHANGED <<life, drains, item, heard, toDrop, queue, dec, held, high, played>>
SignalQueue ==
    /\ rx = "signal"
    /\ dec' = (IF dec = "blocked" THEN "wait" ELSE dec) /\ rx' = AfterHand
    /\ UNCHANGED <<life, drains, item, heard, toDrop, queue, lbq, held, high, played>>

Arrives == \E p \in Packets : DropInitial(p) \/ \E late \in MayBeLate : Receive(p, late)
Receiver ==
    \/ ReceiverTurn \/ ReceiveFails \/ ReceiveTimesOut \/ Arrives
    \/ DrainOne \/ HandDirect \/ HandToQueue \/ FlushQueue \/ SignalQueue

(***************************************************************************)
(* AudioDecoderThreadProc.                                                 *)
(***************************************************************************)
DecoderTurn ==
    /\ dec = "loop"
    /\ dec' = IF "dec" \in stopping THEN "ended" ELSE "wait"
    /\ UNCHANGED <<life, rx, drains, item, heard, toDrop, queue, lbq, held, high, played>>
DecoderWaits ==
    /\ dec = "wait" /\ LbqMustWait(lbq)
    /\ dec' = "blocked"
    /\ UNCHANGED <<life, rx, drains, item, heard, toDrop, queue, lbq, held, high, played>>
DecoderTakes ==
    /\ dec = "wait" /\ ~LbqMustWait(lbq)
    /\ lbq' = LbqWait(lbq)
    /\ IF LbqWaitAnswer(lbq) = "success"
       THEN dec' = "decode" /\ held' = Head(lbq.items)
       ELSE dec' = "ended" /\ UNCHANGED held
    /\ UNCHANGED <<life, rx, drains, item, heard, toDrop, queue, high, played>>
Decode ==
    /\ dec = "decode"
    /\ played' = held.n /\ held' = Nothing /\ dec' = "loop"
    /\ UNCHANGED <<life, rx, drains, item, heard, toDrop, queue, lbq, high>>
Decoder == DecoderTurn \/ DecoderWaits \/ DecoderTakes \/ Decode

Next == Connection \/ Receiver \/ Decoder \/ Gone

\* Each thread that can run does: a receive brings a packet, times out or fails.
Fairness == WF_vars(Connection) /\ WF_vars(Receiver) /\ WF_vars(Decoder)
Spec == Init /\ [][Next]_vars /\ Fairness

--------------------------------------------------------------------------------
Playing == (rx = "hand" /\ direct) \/ dec = "decode"

\* What validateFecBlockState asserts after every call.  It holds unless a queue
\* that holds blocks is synchronized again, which happens when the oldest awaited
\* number of a queue that has not finished a block is 0: the code takes that 0
\* for "nothing received yet".
BlocksAreConsistent ==
    ~queue.resync =>
        /\ ValidFecBlockState(queue)
        /\ \A i \in DOMAIN queue.blocks :
              IF i = 1 THEN queue.blocks[i].idx < DataShards
                       ELSE ~queue.blocks[i].allow /\ queue.blocks[i].idx = 0

\* The assertions as the code states them, without that exception
\* (validateFecBlockState: the first block "should not be before the oldest BSN").
FecBlockStateIsValid == ValidFecBlockState(queue)

\* Whatever the network does, the decoder gets packets and placeholders in
\* the order the host numbered them, each at most once: no reordering, loss,
\* rebuilt block, overflow or wrap of the numbers sends it backwards.
PlaysInOrder == [][played' # played /\ ~queue.incompatible /\ ~queue.resync => played' > played]_vars

\* decodeAndPlaySample is never called on a renderer that was cleaned up.
NoSampleAfterCleanup == Playing => renderer \in {"started", "stopped"}

\* stopAudioStream returns: no thread waits for a signal that was already sent.
StopReturns == stream \in {"undo", "shutdown", "joinRx"} ~>
     stream \in {"stopped", "failed", "destroyed"}
================================================================================
