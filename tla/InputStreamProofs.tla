-------------------------- MODULE InputStreamProofs --------------------------
(***************************************************************************)
(* Proofs about the input stream, for any threads of the client, queue     *)
(* bound and history: a batched change always has a holder, moves add up,  *)
(* every change arrives in order, and a stop drains.                       *)
(***************************************************************************)
EXTENDS InputStream, SequenceTheorems, FiniteSetTheorems, TLAPS

(* Packets, as calls make them and as the input thread fills them in.      *)
Names == {"none", "arrival", "haptics"} \cup PlainCalls \cup TouchCalls
Packet ==
    [kind: {"plain"}, name: Names, reliable: BOOLEAN, n: Nat]
    \cup [kind: {"mouse", "position"}, reliable: {TRUE}, n: Nat]
    \cup [kind: {"position"}, at: Int, reliable: {TRUE}, n: Nat]
    \cup [kind: {"motion"}, sensor: Sensors, reliable: BOOLEAN, n: Nat]
    \cup [kind: {"motion"}, sensor: Sensors, value: Int, reliable: BOOLEAN, n: Nat]
    \cup [kind: {"scroll"}, amount: Int, reliable: {TRUE}, n: Nat]
    \cup [kind: {"text"}, points: Nat, reliable: {TRUE}, n: Nat]
    \cup [kind: {"multi", "controller"}, pad: Nat, mask: SUBSET Nat, low: Nat, high: Nat, axes: Int,
          reliable: {TRUE}, n: Nat]
    \cup [kind: {"pen"}, type: EventTypes, buttons: Nat, at: Int, reliable: BOOLEAN, n: Nat]

Moves == [Axis -> Int]
Parts == [Axis -> (-Int16Max - 1)..Int16Max]
Places == {"none", "wait", "merge", "lock", "part", "text", "point", "send", "ended"}

Functions == Names \cup Locked \cup {"LiSendHighResScrollEvent", "LiSendMultiControllerEvent",
    "LiSendControllerArrivalEvent", "LiSendUtf8TextEvent", "LiSendPenEvent"}

Hands == [at: Places, holder: Packet, part: Parts, left: Nat]
Entry == [at: {"idle", "allocate", "offer"}, fn: Functions, todo: Seq(Packet)]

TypeOK ==
    /\ scn \in Scenarios
    /\ packetQueue \in LbqOf(Packet, QueueBound) /\ ~packetQueue.shutdown /\ ~packetQueue.userWake
    /\ mutex \in Callers \cup {Nobody}
    /\ mouse \in [delta: Moves, dirty: BOOLEAN]
    /\ position \in [at: Int, dirty: BOOLEAN]
    /\ sensors \in [Sensors -> [value: Int, dirty: BOOLEAN]]
    /\ wheel \in Int /\ penButtons \in Nat
    /\ sender \in Hands
    /\ caller \in [Callers -> Entry]
    /\ ghost \in [accepted: Seq(Packet), sent: Seq(Packet), moved: Moves, arrived: Moves,
                  owed: SUBSET Sources, failed: BOOLEAN]

(* Nothing is queued before the thread runs; a stream that was stopped has *)
(* seen it end.                                                            *)
Phases ==
    /\ control \in {"off", "start", "failed"} =>
          sender.at = "none" /\ ~initialized /\ CallersOut /\ packetQueue.items = <<>>
    /\ control = "stopped" => sender.at = "ended"

IsDirtySource(s) ==
    CASE s = <<"mouse">>    -> mouse.dirty
      [] s = <<"position">> -> position.dirty
      [] OTHER              -> sensors[s].dirty

(* A call that is about to queue a holder has the mutex, and its source is *)
(* clean: nobody else can have queued one.                                 *)
CallsAreAlone ==
    \A c \in Callers : caller[c].at # "idle" =>
        /\ caller[c].todo # <<>>
        /\ \A i \in 1..Len(caller[c].todo) : caller[c].todo[i].kind \in Batched =>
              /\ Len(caller[c].todo) = 1 /\ mutex = c
              /\ ~IsDirtySource(Source(caller[c].todo[i]))

(* What the dirty flag of a source says.                                   *)
DirtyHasHolder ==
    \A s \in Sources :
        /\ \A i, j \in HoldersOf(s) : i = j
        /\ HeldFor(s) => HoldersOf(s) = {}
        /\ HoldersOf(s) # {} \/ HeldFor(s) => IsDirtySource(s)
        /\ IsDirtySource(s) \/ s \in ghost.owed => ghost.failed \/ HoldersOf(s) # {} \/ HeldFor(s)

(* The queue holds the packets accepted last; what was accepted before was *)
(* taken, last of all what the thread holds.                               *)
TakenCount == Len(ghost.accepted) - Len(packetQueue.items)
Active == sender.at \notin {"none", "wait", "ended"}
QueueIsRecent ==
    /\ TakenCount \in Nat
    /\ \A i \in 1..Len(packetQueue.items) : packetQueue.items[i] = ghost.accepted[TakenCount + i]
    /\ \A i \in 1..Len(ghost.accepted) : ghost.accepted[i].n = i
HolderIsNext ==
    /\ Active =>
          /\ TakenCount >= 1 /\ sender.holder.n = TakenCount
          /\ sender.holder.kind = ghost.accepted[TakenCount].kind
          /\ sender.holder.kind \notin Batched => sender.holder = ghost.accepted[TakenCount]
    /\ sender.at = "ended" =>
          IF ghost.failed THEN sender.holder.n \in 1..TakenCount
          ELSE packetQueue.draining /\ packetQueue.items = <<>>
    /\ ghost.failed => sender.at = "ended"
PlaceFitsKind ==
    /\ sender.at = "merge" =>
          sender.holder.kind = "multi" \/ (sender.holder.kind = "pen" /\ Batchable(sender.holder.type))
    /\ sender.at = "lock" => sender.holder.kind \in Batched
    /\ sender.at = "part" => sender.holder.kind = "mouse"
    /\ sender.at \in {"text", "point"} => sender.holder.kind = "text"
    /\ sender.at = "send" => sender.holder.kind \notin {"mouse", "text"}

(* What was sent, and that what was sent or left behind is settled: up to  *)
(* the last packet that may have been sent, and to the last that is done.  *)
LastSent == IF Busy THEN sender.holder.n ELSE TakenCount
Done     == IF Busy THEN sender.holder.n - 1 ELSE TakenCount
SentInOrder ==
    \A j \in 1..Len(ghost.sent) :
        /\ ghost.sent[j].n \in 1..LastSent
        /\ j > 1 => ghost.sent[j - 1].n <= ghost.sent[j].n
        /\ ghost.sent[j].kind \notin Batched => ghost.sent[j] = ghost.accepted[ghost.sent[j].n]
PastIsSettled ==
    /\ \A i \in 1..Done : Settled(i)
    /\ sender.at = "text" => Count(sender.holder.n) = 0
    /\ sender.at = "point" => Count(sender.holder.n) + sender.left = sender.holder.points

IInv == TypeOK /\ Phases /\ CallsAreAlone /\ DirtyHasHolder /\ QueueIsRecent /\ HolderIsNext
        /\ PlaceFitsKind /\ SentInOrder /\ PastIsSettled /\ MovesAddUp
-----------------------------------------------------------------------------
(* What the kinds of packets have.                                         *)
LEMMA PacketFields ==
    ASSUME NEW p \in Packet
    PROVE  /\ p.n \in Nat /\ p.reliable \in BOOLEAN
           /\ p.kind \in {"plain", "mouse", "position", "motion", "scroll", "text", "multi",
                          "controller", "pen"}
           /\ p.kind = "motion" => p.sensor \in Sensors
           /\ p.kind = "scroll" => p.amount \in Int
           /\ p.kind = "text" => p.points \in Nat
           /\ p.kind = "pen" => p.type \in EventTypes /\ p.buttons \in Nat
BY DEF Packet

(* The place of a packet is a field of its own.                            *)
LEMMA NumberedPacket ==
    ASSUME NEW p \in Packet, NEW k \in Nat
    PROVE  /\ [p EXCEPT !.n = k] \in Packet
           /\ [p EXCEPT !.n = k].n = k
           /\ [p EXCEPT !.n = k].kind = p.kind
           /\ p.kind = "motion" => [p EXCEPT !.n = k].sensor = p.sensor
           /\ p.kind = "scroll" => [p EXCEPT !.n = k].amount = p.amount
BY DEF Packet

(* The holder that is sent keeps its number and its kind.                  *)
LEMMA PreparedPacket ==
    ASSUME NEW p \in Packet
    PROVE  /\ Prepared(p) \in Packet
           /\ Prepared(p).n = p.n /\ Prepared(p).kind = p.kind
           /\ p.kind # "pen" => Prepared(p) = p
BY DEF Packet, Prepared

(* The pads, the sums of movements and the callers are apart.              *)
LEMMA Constants ==
    /\ Pads # {} /\ \A i \in Nat : i % MaxGamepads \in Pads
    /\ Still \in Moves /\ Still \in Parts
    /\ Nobody \notin Callers
BY InputAssumption, ClientAssumption DEF Pads, Still, Moves, Parts, Axis

(* The packets a call queues by itself are in no shared state.             *)
LEMMA CallPackets ==
    ASSUME NEW call \in Calls, scn \in Scenarios,
           call.fn \notin Locked \cup {"LiSendHighResScrollEvent"}
    PROVE  /\ PacketsOf(call) \in Seq(Packet) /\ PacketsOf(call) # <<>>
           /\ \A i \in 1..Len(PacketsOf(call)) : PacketsOf(call)[i].kind \notin Batched
<1>1. ASSUME NEW name \in Names
      PROVE  Plain(name) \in Packet /\ Plain(name).kind \notin Batched
    BY DEF Plain, Packet, Batched
<1>2. ASSUME NEW p \in Packet, p.kind \notin Batched
      PROVE  /\ <<p>> \in Seq(Packet) /\ <<p>> # <<>>
             /\ \A i \in 1..Len(<<p>>) : <<p>>[i].kind \notin Batched
    BY <1>2
<1>3. ASSUME NEW d \in [pad: Nat, mask: SUBSET Nat, low: Nat, high: Nat, axes: Int]
      PROVE  PadPacket(d) \in Packet /\ PadPacket(d).kind \notin Batched
    <2>1. d.pad % (IF Sunshine THEN MaxGamepads ELSE GfeGamepads) \in Nat
        BY InputAssumption
    <2>2. (IF Sunshine THEN d.mask ELSE d.mask \cap 0..(GfeGamepads - 1)) \in SUBSET Nat
        OBVIOUS
    <2>3. (IF Sunshine THEN d.high ELSE 0) \in Nat /\ d.low \in Nat /\ d.axes \in Int
        OBVIOUS
    <2>4. PadPacket(d) \in [kind: {"multi", "controller"}, pad: Nat, mask: SUBSET Nat, low: Nat,
                            high: Nat, axes: Int, reliable: {TRUE}, n: Nat]
        BY <2>1, <2>2, <2>3 DEF PadPacket
    <2> QED
        BY <2>4 DEF Packet, Batched
<1>4. ASSUME NEW x \in Packet, NEW y \in Packet, x.kind \notin Batched, y.kind \notin Batched
      PROVE  /\ <<x, y>> \in Seq(Packet) /\ <<x, y>> # <<>>
             /\ \A i \in 1..Len(<<x, y>>) : <<x, y>>[i].kind \notin Batched
    BY <1>4
<1>5. CASE call \in [fn: {"LiSendMultiControllerEvent"}, pad: Nat, mask: SUBSET Nat, low: Nat,
                     high: Nat, axes: Int]
    <2>1. PadPacket(call) \in Packet /\ PadPacket(call).kind \notin Batched
        <3> DEFINE d == [pad |-> call.pad, mask |-> call.mask, low |-> call.low,
                         high |-> call.high, axes |-> call.axes]
        <3>1. PadPacket(call) = PadPacket(d)
            BY DEF PadPacket
        <3>2. d \in [pad: Nat, mask: SUBSET Nat, low: Nat, high: Nat, axes: Int]
            BY <1>5
        <3> QED
            BY <3>1, <3>2, <1>3
    <2>2. PacketsOf(call) = <<PadPacket(call)>>
        BY <1>5 DEF PacketsOf, TouchCalls
    <2> QED
        BY <2>1, <2>2, <1>2
<1>6. CASE call \in [fn: {"LiSendControllerArrivalEvent"}, pad: Nat, mask: SUBSET Nat]
    <2>1. ZeroPad(call) \in [pad: Nat, mask: SUBSET Nat, low: Nat, high: Nat, axes: Int]
        BY <1>6 DEF ZeroPad
    <2>2. PacketsOf(call) = IF Sunshine THEN <<Plain("arrival"), PadPacket(ZeroPad(call))>>
                            ELSE <<PadPacket(ZeroPad(call))>>
        BY <1>6 DEF PacketsOf, TouchCalls
    <2>3. /\ Plain("arrival") \in Packet /\ Plain("arrival").kind \notin Batched
          /\ PadPacket(ZeroPad(call)) \in Packet /\ PadPacket(ZeroPad(call)).kind \notin Batched
        BY <2>1, <1>1, <1>3 DEF Names
    <2>4. CASE Sunshine
        <3>1. PacketsOf(call) = <<Plain("arrival"), PadPacket(ZeroPad(call))>>
            BY <2>2, <2>4
        <3> QED
            BY <3>1, <2>3, <1>4
    <2>5. CASE ~Sunshine
        <3>1. PacketsOf(call) = <<PadPacket(ZeroPad(call))>>
            BY <2>2, <2>5
        <3> QED
            BY <3>1, <2>3, <1>2
    <2> QED
        BY <2>4, <2>5
<1>7. CASE call \in [fn: {"LiSendUtf8TextEvent"}, points: Nat]
    <2> DEFINE p == [kind |-> "text", points |-> call.points, reliable |-> TRUE, n |-> 0]
    <2>1. p \in Packet /\ p.kind \notin Batched
        BY <1>7 DEF Packet, Batched
    <2>2. PacketsOf(call) = <<p>>
        BY <1>7 DEF PacketsOf, TouchCalls
    <2> QED
        BY <2>1, <2>2, <1>2
<1>8. CASE call \in [fn: {"LiSendPenEvent"}, type: EventTypes, buttons: Nat, at: Int]
    <2> DEFINE p == [kind |-> "pen", type |-> call.type, buttons |-> call.buttons,
                     at |-> call.at, reliable |-> FALSE, n |-> 0]
    <2>1. p \in Packet /\ p.kind \notin Batched
        BY <1>8 DEF Packet, Batched
    <2>2. PacketsOf(call) = <<p>>
        BY <1>8 DEF PacketsOf, TouchCalls
    <2> QED
        BY <2>1, <2>2, <1>2
<1>9. CASE call \in [fn: TouchCalls, type: EventTypes]
    <2> DEFINE p == [Plain(call.fn) EXCEPT !.reliable = ~Batchable(call.type)]
    <2>1. p \in Packet /\ p.kind \notin Batched
        <3>1. call.fn \in Names
            BY <1>9 DEF Names
        <3>2. \A r \in BOOLEAN : [kind |-> "plain", name |-> call.fn, reliable |-> r, n |-> 0] \in Packet
            BY <3>1 DEF Packet
        <3>3. p = [kind |-> "plain", name |-> call.fn, reliable |-> ~Batchable(call.type), n |-> 0]
            BY DEF Plain
        <3>4. (~Batchable(call.type)) \in BOOLEAN
            BY DEF Batchable
        <3> HIDE DEF p
        <3>5. p \in Packet
            BY <3>2, <3>3, <3>4, Zenon
        <3>6. p.kind = "plain"
            BY <3>3
        <3> QED
            BY <3>5, <3>6 DEF Batched
    <2>2. PacketsOf(call) = <<p>>
        BY <1>9 DEF PacketsOf, TouchCalls
    <2> QED
        BY <2>1, <2>2, <1>2
<1>10. CASE call \in [fn: PlainCalls]
    <2>1. call.fn \in PlainCalls
        BY <1>10
    <2>2. call.fn \in Names
        BY <2>1 DEF Names
    <2>3. PacketsOf(call) = <<Plain(call.fn)>>
        BY <2>1 DEF PacketsOf, PlainCalls, TouchCalls
    <2> QED
        BY <2>2, <2>3, <1>1, <1>2
<1> QED
    BY <1>5, <1>6, <1>7, <1>8, <1>9, <1>10 DEF Calls, Locked

(* What a client may pass, by the function it calls.                       *)
LEMMA CallFields ==
    ASSUME TypeOK, NEW c \in Callers, NEW call \in scn.calls[c]
    PROVE  /\ call \in Calls /\ call.fn \in Functions
           /\ call.fn = "LiSendMouseMoveEvent" => call.delta \in Moves
           /\ call.fn = "LiSendMousePositionEvent" => call.at \in Int
           /\ call.fn = "LiSendControllerMotionEvent" =>
                 <<call.pad % MaxGamepads, call.motion>> \in Sensors /\ call.value \in Int
           /\ call.fn = "LiSendHighResScrollEvent" => call.amount \in Int
<1>1. call \in Calls
    BY ClientAssumption DEF TypeOK
<1>2. call.fn \in Functions
    BY <1>1 DEF Calls, Functions, Names, Locked
<1>3. call.fn = "LiSendMouseMoveEvent" => call.delta \in Moves
    BY <1>1 DEF Calls, Moves, PlainCalls, TouchCalls
<1>4. call.fn = "LiSendMousePositionEvent" => call.at \in Int
    BY <1>1 DEF Calls, PlainCalls, TouchCalls
<1>5. ASSUME call.fn = "LiSendControllerMotionEvent"
      PROVE  <<call.pad % MaxGamepads, call.motion>> \in Sensors /\ call.value \in Int
    <2>1. call.pad \in Nat /\ call.motion \in Motions /\ call.value \in Int
        BY <1>1, <1>5 DEF Calls, PlainCalls, TouchCalls
    <2> QED
        BY <2>1, Constants DEF Sensors
<1>6. call.fn = "LiSendHighResScrollEvent" => call.amount \in Int
    BY <1>1 DEF Calls, PlainCalls, TouchCalls
<1> QED
    BY <1>1, <1>2, <1>3, <1>4, <1>5, <1>6

(* The queue, in the terms of the calls on it.                             *)
Queue == packetQueue.items
(* The queue holds packets and has a length.                               *)
LEMMA QueueFields ==
    ASSUME TypeOK
    PROVE  Queue \in Seq(Packet) /\ packetQueue.draining \in BOOLEAN /\ Len(Queue) \in Nat
BY DEF TypeOK, LbqOf, Queue

(* LbqOfferQueueItem that succeeds adds the packet at the end.             *)
LEMMA Offered ==
    ASSUME TypeOK, NEW x \in Packet, LbqOfferAnswer(packetQueue) = "success",
           packetQueue' = LbqOffer(packetQueue, x)
    PROVE  /\ packetQueue' \in LbqOf(Packet, QueueBound)
           /\ ~packetQueue'.shutdown /\ ~packetQueue'.userWake
           /\ ~packetQueue.draining /\ ~packetQueue'.draining
           /\ Queue' = Append(Queue, x)
<1>1. packetQueue \in LbqOf(Packet, QueueBound) /\ ~packetQueue.shutdown /\ ~packetQueue.userWake
    BY DEF TypeOK
<1>2. packetQueue' = [packetQueue EXCEPT !.items = Append(@, x)]
    BY DEF LbqOffer
<1>3. ~packetQueue.draining
    BY <1>1 DEF LbqOfferAnswer
<1>4. Append(packetQueue.items, x) \in Seq(Packet)
    BY <1>1 DEF LbqOf
<1> QED
    BY ONLY <1>1, <1>2, <1>3, <1>4 DEF LbqOf, Queue

(* LbqPollQueueElement that succeeds takes the first packet.               *)
LEMMA Polled ==
    ASSUME TypeOK, LbqPollAnswer(packetQueue) = "success", packetQueue' = LbqPoll(packetQueue)
    PROVE  /\ packetQueue' \in LbqOf(Packet, QueueBound)
           /\ ~packetQueue'.shutdown /\ ~packetQueue'.userWake
           /\ packetQueue'.draining = packetQueue.draining
           /\ Queue # <<>> /\ Queue' = Tail(Queue)
<1>1. packetQueue \in LbqOf(Packet, QueueBound) /\ ~packetQueue.shutdown /\ ~packetQueue.userWake
    BY DEF TypeOK
<1>2. packetQueue' = [packetQueue EXCEPT !.items = Tail(@)]
    BY DEF LbqPoll
<1>3. packetQueue.items # <<>>
    BY <1>1 DEF LbqPollAnswer, LbqOf
<1>4. Tail(packetQueue.items) \in Seq(Packet)
    BY <1>1, <1>3 DEF LbqOf
<1> QED
    BY ONLY <1>1, <1>2, <1>3, <1>4 DEF LbqOf, Queue

(* LbqWaitForQueueElement takes the first packet, or ends a drained queue. *)
LEMMA Waited ==
    ASSUME TypeOK, ~LbqMustWait(packetQueue), packetQueue' = LbqWait(packetQueue)
    PROVE  /\ packetQueue' \in LbqOf(Packet, QueueBound)
           /\ ~packetQueue'.shutdown /\ ~packetQueue'.userWake
           /\ packetQueue'.draining = packetQueue.draining
           /\ LbqWaitAnswer(packetQueue) = "success" => Queue # <<>> /\ Queue' = Tail(Queue)
           /\ LbqWaitAnswer(packetQueue) # "success" =>
                 Queue = <<>> /\ packetQueue.draining /\ packetQueue' = packetQueue
<1>1. packetQueue \in LbqOf(Packet, QueueBound) /\ ~packetQueue.shutdown /\ ~packetQueue.userWake
    BY DEF TypeOK
<1>2. CASE Queue = <<>>
    <2>1. packetQueue.draining /\ LbqWaitAnswer(packetQueue) = "interrupted"
        BY <1>1, <1>2 DEF LbqMustWait, LbqWaitAnswer, Queue
    <2>2. packetQueue' = packetQueue
        BY <2>1 DEF LbqWait
    <2> QED
        BY ONLY <1>1, <1>2, <2>1, <2>2
<1>3. CASE Queue # <<>>
    <2>1. LbqWaitAnswer(packetQueue) = "success"
        BY <1>1, <1>3 DEF LbqWaitAnswer, Queue
    <2>2. packetQueue' = [packetQueue EXCEPT !.items = Tail(@)]
        BY <2>1 DEF LbqWait
    <2>3. Tail(packetQueue.items) \in Seq(Packet)
        BY <1>1, <1>3 DEF LbqOf, Queue
    <2> QED
        BY ONLY <1>1, <1>3, <2>1, <2>2, <2>3 DEF LbqOf, Queue
<1> QED
    BY <1>2, <1>3

(* What a packet that is accepted becomes.                                 *)
LEMMA Accepted ==
    ASSUME TypeOK, NEW p \in Packet, LbqOfferAnswer(packetQueue) = "success", Accept(p)
    PROVE  /\ packetQueue' \in LbqOf(Packet, QueueBound)
           /\ ~packetQueue'.shutdown /\ ~packetQueue'.userWake
           /\ ~packetQueue.draining /\ ~packetQueue'.draining
           /\ \E q \in Packet :
                 /\ Queue' = Append(Queue, q)
                 /\ ghost' = [ghost EXCEPT !.accepted = Append(@, q),
                       !.owed = IF p.kind \in Batched THEN @ \cup {Source(p)} ELSE @]
                 /\ q.n = Len(ghost.accepted) + 1 /\ q.kind = p.kind
                 /\ p.kind \in Batched => Source(q) = Source(p)
<1> DEFINE q == [p EXCEPT !.n = Len(ghost.accepted) + 1]
<1>1. Len(ghost.accepted) + 1 \in Nat
    BY DEF TypeOK
<1>2. q \in Packet /\ q.n = Len(ghost.accepted) + 1 /\ q.kind = p.kind
    BY <1>1, NumberedPacket
<1>3. p.kind \in Batched => Source(q) = Source(p)
    BY <1>1, NumberedPacket DEF Source, Batched
<1>4. packetQueue' = LbqOffer(packetQueue, q)
    BY DEF Accept
<1>5. ghost' = [ghost EXCEPT !.accepted = Append(@, q),
                  !.owed = IF p.kind \in Batched THEN @ \cup {Source(p)} ELSE @]
    BY DEF Accept, Batched
<1> HIDE DEF q
<1> QED
    BY <1>2, <1>3, <1>4, <1>5, Offered

(* The source of a batched packet is one of the sources.                   *)
LEMMA SourceTyped ==
    ASSUME NEW p \in Packet, p.kind \in Batched
    PROVE  Source(p) \in Sources
BY PacketFields DEF Source, Sources, Batched

(* A sum that is batched is worth a packet of a notch, or none.            *)
LEMMA NotchTyped ==
    ASSUME NEW sum \in Int
    PROVE  /\ Notch(sum) \in Seq(Packet) /\ Len(Notch(sum)) <= 1
           /\ \A i \in 1..Len(Notch(sum)) : Notch(sum)[i].kind \notin Batched
<1> DEFINE p == ScrollPacket(Sign(sum) * WheelDelta)
<1>1. Sign(sum) * WheelDelta \in Int
    BY InputAssumption DEF Sign
<1>2. p \in Packet /\ p.kind \notin Batched
    BY <1>1 DEF ScrollPacket, Packet, Batched
<1>3. Notch(sum) = <<p>> \/ Notch(sum) = <<>>
    BY DEF Notch
<1> HIDE DEF p
<1>4. CASE Notch(sum) = <<p>>
    <2>1. <<p>> \in Seq(Packet) /\ Len(<<p>>) = 1 /\ <<p>>[1] = p
        BY <1>2
    <2> QED
        BY <1>2, <1>4, <2>1
<1>5. CASE Notch(sum) = <<>>
    BY <1>5
<1> QED
    BY <1>3, <1>4, <1>5

(* What is left for a call to queue after its packet.                      *)
LEMMA RemainingTyped ==
    ASSUME TypeOK, NEW c \in Callers, caller[c].todo \in Seq(Packet), caller[c].todo # <<>>
    PROVE  /\ Remaining(c) \in Seq(Packet)
           /\ \/ Remaining(c) = Tail(caller[c].todo)
              \/ /\ Head(caller[c].todo).kind \notin Batched
                 /\ \A i \in 1..Len(Remaining(c)) : Remaining(c)[i].kind \notin Batched
<1> DEFINE p == Head(caller[c].todo)
<1>1. p \in Packet /\ Tail(caller[c].todo) \in Seq(Packet)
    OBVIOUS
<1>2. p.kind = "scroll" => wheel - p.amount \in Int
    BY <1>1, PacketFields DEF TypeOK
<1> QED
    BY <1>1, <1>2, NotchTyped DEF Remaining, Batched

(* What a call leaves in the hands of its thread.                          *)
LEMMA EntryTyped ==
    /\ Returned \in Entry
    /\ \A at \in {"idle", "allocate", "offer"}, fn \in Functions, todo \in Seq(Packet) :
          [at |-> at, fn |-> fn, todo |-> todo] \in Entry
BY DEF Returned, Entry, Functions, Names

(* The state of one caller has its types.                                  *)
LEMMA CallerTyped ==
    ASSUME TypeOK, NEW c \in Callers
    PROVE  /\ caller[c] \in Entry
           /\ caller[c].at \in {"idle", "allocate", "offer"} /\ caller[c].fn \in Functions
           /\ caller[c].todo \in Seq(Packet)
           /\ \A e \in Entry : [caller EXCEPT ![c] = e] \in [Callers -> Entry]
BY DEF TypeOK, Entry

(* A call that begins or returns keeps the types of the callers.           *)
LEMMA CalledTyped ==
    ASSUME TypeOK, NEW c \in Callers, NEW call \in scn.calls[c], NEW todo \in Seq(Packet)
    PROVE  /\ [caller EXCEPT ![c] = Called(call, todo)] \in [Callers -> Entry]
           /\ [caller EXCEPT ![c] = Returned] \in [Callers -> Entry]
BY CallFields, EntryTyped, CallerTyped DEF Called

(* A call under the mutex keeps the types, and so do its holders.          *)
LEMMA UnderMutexTyped ==
    ASSUME TypeOK, NEW c \in Callers, NEW call \in scn.calls[c], NEW holder \in Packet,
           holder.kind \in Batched, holder.kind = "mouse" => call.delta \in Moves,
           UnderMutex(c, call, holder)
    PROVE  /\ mutex' \in Callers \cup {Nobody}
           /\ caller' \in [Callers -> Entry]
           /\ ghost' \in [accepted: Seq(Packet), sent: Seq(Packet), moved: Moves, arrived: Moves,
                          owed: SUBSET Sources, failed: BOOLEAN]
<1>1. <<holder>> \in Seq(Packet)
    OBVIOUS
<1>2. Source(holder) \in Sources
    BY SourceTyped
<1>3. ghost.moved \in Moves /\ (holder.kind = "mouse" => Add(ghost.moved, call.delta) \in Moves)
    BY DEF TypeOK, Moves, Add
<1>4. mutex' \in Callers \cup {Nobody}
    BY DEF UnderMutex
<1>5. caller' \in [Callers -> Entry]
    BY <1>1, CalledTyped DEF UnderMutex
<1>6. ghost' \in [accepted: Seq(Packet), sent: Seq(Packet), moved: Moves, arrived: Moves,
                  owed: SUBSET Sources, failed: BOOLEAN]
    <2>1. ghost \in [accepted: Seq(Packet), sent: Seq(Packet), moved: Moves, arrived: Moves,
                     owed: SUBSET Sources, failed: BOOLEAN]
        BY DEF TypeOK
    <2>2. \E o \in SUBSET Sources, m \in Moves : ghost' = [ghost EXCEPT !.owed = o, !.moved = m]
        BY <1>2, <1>3, <2>1 DEF UnderMutex
    <2> QED
        BY <2>1, <2>2
<1> QED
    BY <1>4, <1>5, <1>6

(* The functions of Limelight.h, until they allocate, keep the types.      *)
LEMMA CallTyped ==
    ASSUME TypeOK, NEW c \in Callers, Call(c)
    PROVE  TypeOK'
<1>1. PICK call \in scn.calls[c] :
          Move(c, call) \/ Position(c, call) \/ Motion(c, call) \/ Scroll(c, call) \/ Queued(c, call)
    BY DEF Call
<1>2. UNCHANGED <<scn, packetQueue, sender>>
    BY DEF Call
<1>3. CASE Move(c, call)
    <2>1. Holder("mouse") \in Packet /\ Holder("mouse").kind = "mouse"
        BY DEF Holder, Packet
    <2>2. call.delta \in Moves
        BY <1>3, CallFields DEF Move
    <2>3. mouse' \in [delta: Moves, dirty: BOOLEAN]
        <3>1. mouse \in [delta: Moves, dirty: BOOLEAN]
            BY DEF TypeOK
        <3>2. Add(mouse.delta, call.delta) \in Moves
            BY <2>2, <3>1 DEF Moves, Add
        <3>3. mouse' = [mouse EXCEPT !.delta = Add(@, call.delta)]
            BY <1>3 DEF Move
        <3> QED
            BY ONLY <3>1, <3>2, <3>3
    <2> QED
        BY <1>2, <1>3, <2>1, <2>2, <2>3, UnderMutexTyped DEF TypeOK, Move, Batched
<1>4. CASE Position(c, call)
    <2>1. Holder("position") \in Packet /\ Holder("position").kind = "position"
        BY DEF Holder, Packet
    <2>2. position' \in [at: Int, dirty: BOOLEAN]
        BY <1>4, CallFields DEF Position, TypeOK
    <2> QED
        BY <1>2, <1>4, <2>1, <2>2, UnderMutexTyped DEF TypeOK, Position, Batched
<1>5. CASE Motion(c, call)
    <2> DEFINE s == <<call.pad % MaxGamepads, call.motion>>
               h == [kind |-> "motion", sensor |-> s, reliable |-> FALSE, n |-> 0]
    <2>1. s \in Sensors /\ call.value \in Int
        BY <1>5, CallFields DEF Motion
    <2>2. sensors' = [sensors EXCEPT ![s].value = call.value] /\ UnderMutex(c, call, h)
        BY <1>5 DEF Motion
    <2> HIDE DEF s
    <2>3. h \in Packet /\ h.kind = "motion"
        BY <2>1 DEF Packet
    <2>4. sensors' \in [Sensors -> [value: Int, dirty: BOOLEAN]]
        BY <2>1, <2>2 DEF TypeOK
    <2> QED
        BY <1>2, <1>5, <2>2, <2>3, <2>4, UnderMutexTyped DEF TypeOK, Motion, Batched
<1>6. CASE Scroll(c, call)
    <2>1. call.amount \in Int
        BY <1>6, CallFields DEF Scroll
    <2>2. Rolled(call.amount) \in Int
        BY <2>1 DEF Rolled, TypeOK
    <2>3. Notch(Rolled(call.amount)) \in Seq(Packet)
        BY <2>2, NotchTyped
    <2>4. ScrollPacket(call.amount) \in Packet
        BY <2>1 DEF ScrollPacket, Packet
    <2>5. caller' \in [Callers -> Entry]
        <3>1. <<ScrollPacket(call.amount)>> \in Seq(Packet)
            BY <2>4
        <3>2. /\ [caller EXCEPT ![c] = Called(call, Notch(Rolled(call.amount)))] \in
                     [Callers -> Entry]
              /\ [caller EXCEPT ![c] = Called(call, <<ScrollPacket(call.amount)>>)] \in
                     [Callers -> Entry]
              /\ [caller EXCEPT ![c] = Returned] \in
                     [Callers -> Entry]
            BY <2>3, <3>1, CalledTyped
        <3> QED
            BY <1>6, <3>2 DEF Scroll
    <2>6. wheel' \in Int
        BY <1>6, <2>2 DEF Scroll, TypeOK
    <2> QED
        BY <1>2, <1>6, <2>5, <2>6 DEF TypeOK, Scroll
<1>7. CASE Queued(c, call)
    <2>1. PacketsOf(call) \in Seq(Packet)
        BY <1>7, CallFields, CallPackets DEF Queued, TypeOK
    <2>2. caller' \in [Callers -> Entry]
        BY <1>7, <2>1, CalledTyped DEF Queued
    <2> QED
        BY <1>2, <1>7, <2>2 DEF TypeOK, Queued, client
<1> QED
    BY <1>1, <1>3, <1>4, <1>5, <1>6, <1>7

(* The allocation of a packet keeps the types.                             *)
LEMMA AllocateTyped ==
    ASSUME TypeOK, CallsAreAlone, NEW c \in Callers, Allocate(c)
    PROVE  TypeOK'
<1> DEFINE p == Head(caller[c].todo)
<1>1. caller[c].todo \in Seq(Packet) /\ caller[c].todo # <<>> /\ Len(caller[c].todo) >= 1
    BY CallerTyped DEF CallsAreAlone, Allocate
<1>2. p \in Packet
    BY <1>1
<1>3. Prepared(p) \in Packet /\ (p.kind = "pen" => p.buttons \in Nat)
    BY <1>2, PreparedPacket, PacketFields
<1>4. caller[c].fn \in Functions
    BY CallerTyped
<1>5. CASE HasHolder(p) /\ ~Refused(c)
    <2> DEFINE e == [at |-> "offer", fn |-> caller[c].fn,
                     todo |-> [caller[c].todo EXCEPT ![1] = Prepared(p)]]
    <2>1. [caller[c].todo EXCEPT ![1] = Prepared(p)] \in Seq(Packet)
        BY <1>1, <1>3, ExceptSeq
    <2>2. caller' = [caller EXCEPT ![c] = e]
        BY <1>5 DEF Allocate
    <2>3. e \in Entry
        BY <1>4, <2>1, EntryTyped
    <2>4. penButtons' \in Nat /\ mutex' = mutex
        BY <1>3, <1>5 DEF Allocate, TypeOK
    <2>5. UNCHANGED <<scn, packetQueue, mouse, position, sensors, wheel, sender, ghost>>
        BY DEF Allocate
    <2> HIDE DEF e, p
    <2>6. caller' \in [Callers -> Entry]
        BY <2>2, <2>3, CallerTyped
    <2> QED
        BY <2>4, <2>5, <2>6 DEF TypeOK
<1>6. CASE ~(HasHolder(p) /\ ~Refused(c))
    <2>1. caller' = [caller EXCEPT ![c] = Returned] /\ penButtons' = penButtons
        BY <1>6 DEF Allocate
    <2>2. caller' \in [Callers -> Entry]
        BY <2>1, EntryTyped, CallerTyped
    <2>3. mutex' \in Callers \cup {Nobody}
        BY <1>6 DEF Allocate, Release, TypeOK
    <2>4. UNCHANGED <<scn, packetQueue, mouse, position, sensors, wheel, sender, ghost>>
        BY DEF Allocate
    <2> QED
        BY <2>1, <2>2, <2>3, <2>4 DEF TypeOK
<1> QED
    BY <1>5, <1>6

(* A packet that is accepted keeps the types of the history.               *)
LEMMA AcceptTyped ==
    ASSUME TypeOK, NEW p \in Packet, LbqOfferAnswer(packetQueue) = "success", Accept(p)
    PROVE  ghost' \in [accepted: Seq(Packet), sent: Seq(Packet), moved: Moves, arrived: Moves,
                       owed: SUBSET Sources, failed: BOOLEAN]
<1>1. ghost \in [accepted: Seq(Packet), sent: Seq(Packet), moved: Moves, arrived: Moves,
                 owed: SUBSET Sources, failed: BOOLEAN]
    BY DEF TypeOK
<1>2. PICK q \in Packet : ghost' = [ghost EXCEPT !.accepted = Append(@, q),
          !.owed = IF p.kind \in Batched THEN @ \cup {Source(p)} ELSE @]
    BY Accepted
<1>3. Append(ghost.accepted, q) \in Seq(Packet)
    BY <1>1
<1>4. p.kind \in Batched => ghost.owed \cup {Source(p)} \in SUBSET Sources
    BY <1>1, SourceTyped
<1> QED
    BY ONLY <1>1, <1>2, <1>3, <1>4

(* What queueing a packet does to the shared state.                        *)
LEMMA MarkTyped ==
    ASSUME TypeOK, NEW p \in Packet, MarkQueued(p)
    PROVE  /\ mouse' \in [delta: Moves, dirty: BOOLEAN]
           /\ position' \in [at: Int, dirty: BOOLEAN]
           /\ sensors' \in [Sensors -> [value: Int, dirty: BOOLEAN]]
           /\ wheel' \in Int
<1>1. /\ mouse \in [delta: Moves, dirty: BOOLEAN]
      /\ position \in [at: Int, dirty: BOOLEAN]
      /\ sensors \in [Sensors -> [value: Int, dirty: BOOLEAN]]
      /\ wheel \in Int
    BY DEF TypeOK
<1>2. p.kind = "scroll" => p.amount \in Int
    BY PacketFields
<1>3. wheel' \in Int
    BY <1>1, <1>2 DEF MarkQueued
<1>4. mouse' = [mouse EXCEPT !.dirty = TRUE] \/ mouse' = mouse
    BY <1>1 DEF MarkQueued
<1>5. position' = [position EXCEPT !.dirty = TRUE] \/ position' = position
    BY <1>1 DEF MarkQueued
<1>6. sensors' \in [Sensors -> [value: Int, dirty: BOOLEAN]]
    BY <1>1 DEF MarkQueued
<1> QED
    BY <1>1, <1>3, <1>4, <1>5, <1>6

(* The offer to the queue keeps the types.                                 *)
LEMMA OfferTyped ==
    ASSUME TypeOK, CallsAreAlone, NEW c \in Callers, Offer(c)
    PROVE  TypeOK'
<1> DEFINE p == Head(caller[c].todo)
<1>1. caller[c].todo \in Seq(Packet) /\ caller[c].todo # <<>>
    BY CallerTyped DEF CallsAreAlone, Offer
<1>2. p \in Packet /\ Remaining(c) \in Seq(Packet)
    BY <1>1, RemainingTyped
<1>3. mutex' \in Callers \cup {Nobody}
    BY DEF Offer, Release, TypeOK
<1>4. caller[c].fn \in Functions
    BY CallerTyped
<1>5. CASE LbqOfferAnswer(packetQueue) = "success"
    <2>1. Accept(p) /\ MarkQueued(p)
        BY <1>5 DEF Offer
    <2> DEFINE e == [at |-> "allocate", fn |-> caller[c].fn, todo |-> Remaining(c)]
    <2>2. caller' = [caller EXCEPT ![c] = Returned] \/ caller' = [caller EXCEPT ![c] = e]
        BY <1>5 DEF Offer
    <2>3. e \in Entry
        BY <1>2, <1>4, EntryTyped
    <2> HIDE DEF e
    <2>7. caller' \in [Callers -> Entry]
        BY <2>2, <2>3, EntryTyped, CallerTyped
    <2>4. UNCHANGED <<scn, penButtons, sender>>
        BY DEF Offer
    <2> HIDE DEF p
    <2>5. /\ packetQueue' \in LbqOf(Packet, QueueBound)
          /\ ~packetQueue'.shutdown /\ ~packetQueue'.userWake
        BY <1>2, <1>5, <2>1, Accepted
    <2>6. ghost' \in [accepted: Seq(Packet), sent: Seq(Packet), moved: Moves, arrived: Moves,
                       owed: SUBSET Sources, failed: BOOLEAN]
        BY <1>2, <1>5, <2>1, AcceptTyped
    <2> QED
        BY <1>2, <1>3, <2>1, <2>4, <2>5, <2>6, <2>7, MarkTyped DEF TypeOK
<1>6. CASE LbqOfferAnswer(packetQueue) # "success"
    <2>1. caller' = [caller EXCEPT ![c] = Returned]
          /\ UNCHANGED <<packetQueue, ghost, mouse, position, sensors, wheel>>
        BY <1>6 DEF Offer
    <2>2. caller' \in [Callers -> Entry]
        BY <2>1, EntryTyped, CallerTyped
    <2>3. UNCHANGED <<scn, penButtons, sender>>
        BY DEF Offer
    <2> QED
        BY <1>3, <2>1, <2>2, <2>3 DEF TypeOK
<1> QED
    BY <1>5, <1>6

(* The request for haptics keeps the types.                                *)
LEMMA EnableHapticsTyped ==
    ASSUME TypeOK, EnableHaptics
    PROVE  TypeOK'
<1>1. Plain("haptics") \in Packet
    BY DEF Plain, Packet, Names
<1>2. CASE scn.haptics /\ LbqOfferAnswer(packetQueue) = "success"
    BY <1>1, <1>2, AcceptTyped, Accepted DEF TypeOK, EnableHaptics, client
<1>3. CASE ~(scn.haptics /\ LbqOfferAnswer(packetQueue) = "success")
    BY <1>3 DEF TypeOK, EnableHaptics, client
<1> QED
    BY <1>2, <1>3

(* What the input thread batches is the newer packet as it was accepted:   *)
(* only what may be dropped of the older one differs.                      *)
LEMMA MergedIsNewer ==
    ASSUME NEW p \in Packet, NEW q \in Packet, CanMerge(p, q)
    PROVE  /\ Merged(p, q) = q /\ q.kind \in {"multi", "pen"} /\ p.kind = q.kind
           /\ q.kind = "multi" => [q EXCEPT !.axes = p.axes, !.n = p.n] = p
           /\ q.kind = "pen" => q.type = p.type /\ q.buttons = p.buttons
<1>1. CASE CanMergePads(p, q)
    <2> DEFINE Multi == [kind: {"multi", "controller"}, pad: Nat, mask: SUBSET Nat, low: Nat, high: Nat,
                         axes: Int, reliable: {TRUE}, n: Nat]
    <2>1. /\ p.kind = "multi" /\ q.kind = "multi"
          /\ q.low = p.low /\ q.high = p.high /\ q.pad = p.pad /\ q.mask = p.mask
        BY <1>1 DEF CanMergePads
    <2>2. p \in Multi /\ q \in Multi
        BY <2>1 DEF Packet
    <2>3. [p EXCEPT !.axes = q.axes, !.n = q.n] = q
        BY ONLY <2>1, <2>2
    <2>4. [q EXCEPT !.axes = p.axes, !.n = p.n] = p
        BY ONLY <2>1, <2>2
    <2> QED
        BY <2>1, <2>3, <2>4 DEF Merged
<1>2. CASE CanMergePens(p, q)
    BY <1>2 DEF CanMergePens, Merged
<1> QED
    BY <1>1, <1>2 DEF CanMerge

(* What one packet carries of a move fits its 16 bits, and the rest waits. *)
LEMMA PartTyped ==
    ASSUME NEW d \in Moves
    PROVE  Part(d) \in Parts /\ Part(d) \in Moves /\ Sub(d, Part(d)) \in Moves
<1>1. ASSUME NEW a \in Axis
      PROVE  Clip(d[a]) \in (-Int16Max - 1)..Int16Max /\ Clip(d[a]) \in Int
    BY InputAssumption DEF Clip, Moves
<1>2. Part(d) \in Parts /\ Part(d) \in Moves
    BY <1>1 DEF Part, Parts, Moves
<1> QED
    BY <1>2 DEF Sub, Moves

(* The state of the input thread has its types.                            *)
LEMMA SenderFields ==
    ASSUME TypeOK
    PROVE  /\ sender \in Hands
           /\ sender.at \in Places /\ sender.holder \in Packet /\ sender.part \in Parts
           /\ sender.left \in Nat
           /\ \A at \in Places : [sender EXCEPT !.at = at] \in Hands
BY DEF TypeOK, Hands

(* inputSendThreadProc: taking a packet keeps the types.                   *)
LEMMA TakeTyped ==
    ASSUME TypeOK, Take
    PROVE  TypeOK'
<1>1. /\ packetQueue' \in LbqOf(Packet, QueueBound)
      /\ ~packetQueue'.shutdown /\ ~packetQueue'.userWake
    BY Waited DEF Take
<1>2. UNCHANGED <<scn, mutex, mouse, position, sensors, wheel, penButtons, caller, ghost>>
    BY DEF Take, client
<1>3. CASE LbqWaitAnswer(packetQueue) = "success"
    <2>1. Head(packetQueue.items) \in Packet
        BY <1>3, Waited, QueueFields DEF Take, Queue
    <2>2. FirstStep(Head(packetQueue.items)) \in Places
        BY DEF FirstStep, Places
    <2>3. sender' \in Hands
        <3>1. sender' = [sender EXCEPT !.at = FirstStep(Head(packetQueue.items)),
                                       !.holder = Head(packetQueue.items)]
            BY <1>3 DEF Take
        <3>2. sender \in Hands
            BY SenderFields
        <3> QED
            BY ONLY <2>1, <2>2, <3>1, <3>2 DEF Hands
    <2> QED
        BY <1>1, <1>2, <2>3 DEF TypeOK
<1>4. CASE LbqWaitAnswer(packetQueue) # "success"
    <2>1. sender' \in Hands
        BY <1>4, SenderFields DEF Take, Places
    <2> QED
        BY <1>1, <1>2, <2>1 DEF TypeOK
<1> QED
    BY <1>3, <1>4

(* inputSendThreadProc: batching keeps the types.                          *)
LEMMA MergeTyped ==
    ASSUME TypeOK, MergeOrGoOn
    PROVE  TypeOK'
<1>1. UNCHANGED <<scn, mutex, mouse, position, sensors, wheel, penButtons, caller, ghost>>
    BY DEF MergeOrGoOn, client
<1>2. CASE LbqPollAnswer(packetQueue) = "success" /\ CanMerge(sender.holder, Head(packetQueue.items))
    <2>1. /\ packetQueue' \in LbqOf(Packet, QueueBound)
          /\ ~packetQueue'.shutdown /\ ~packetQueue'.userWake
          /\ Queue # <<>>
        BY <1>2, Polled DEF MergeOrGoOn
    <2>2. Head(packetQueue.items) \in Packet
        BY <2>1, QueueFields DEF Queue
    <2> DEFINE m == Merged(sender.holder, Head(packetQueue.items))
    <2>3. m \in Packet
        <3>1. CanMerge(sender.holder, Head(packetQueue.items)) /\ sender.holder \in Packet
            BY <1>2, SenderFields
        <3> QED
            BY <2>2, <3>1, MergedIsNewer
    <2>5. sender' = [sender EXCEPT !.holder = m]
        BY <1>2 DEF MergeOrGoOn
    <2> HIDE DEF m
    <2>4. sender' \in Hands
        <3>1. sender \in Hands
            BY SenderFields
        <3> QED
            BY ONLY <2>3, <2>5, <3>1 DEF Hands
    <2> QED
        BY <1>1, <2>1, <2>4 DEF TypeOK
<1>3. CASE ~(LbqPollAnswer(packetQueue) = "success" /\ CanMerge(sender.holder, Head(packetQueue.items)))
    <2>1. sender' \in Hands
        <3>1. sender' = [sender EXCEPT !.at = "send"]
            BY <1>3 DEF MergeOrGoOn
        <3> QED
            BY <3>1, SenderFields DEF Places
    <2>2. packetQueue' = packetQueue
        BY <1>3 DEF MergeOrGoOn
    <2> QED
        BY <1>1, <2>1, <2>2 DEF TypeOK
<1> QED
    BY <1>2, <1>3

(* What the input thread takes out of the shared state.                    *)
LEMMA LockAndTakeTyped ==
    ASSUME TypeOK, LockAndTake
    PROVE  TypeOK'
<1> DEFINE Histories == [accepted: Seq(Packet), sent: Seq(Packet), moved: Moves, arrived: Moves,
                         owed: SUBSET Sources, failed: BOOLEAN]
<1>1. UNCHANGED <<scn, packetQueue, mutex, wheel, penButtons, caller>>
    BY DEF LockAndTake
<1>2. ghost \in Histories /\ \A o \in SUBSET Sources : [ghost EXCEPT !.owed = o] \in Histories
    BY DEF TypeOK
<1>3. \A x : ghost.owed \ {x} \in SUBSET Sources
    BY <1>2
<1>4. sender.holder \in Packet /\ sender.holder.n \in Nat
    BY SenderFields, PacketFields
<1>5. CASE TakeMove /\ UNCHANGED <<position, sensors>>
    <2>1. mouse \in [delta: Moves, dirty: BOOLEAN]
        BY DEF TypeOK
    <2>2. CASE LoopEnds(mouse)
        <3>1. mouse' = [mouse EXCEPT !.dirty = FALSE]
            BY <1>5, <2>2 DEF TakeMove, Captured
        <3>2. mouse' \in [delta: Moves, dirty: BOOLEAN]
            BY ONLY <2>1, <3>1
        <3>3. sender' = [sender EXCEPT !.at = "wait"] /\ ghost' = [ghost EXCEPT !.owed = ghost.owed \ {<<"mouse">>}]
            BY <1>5, <2>2 DEF TakeMove
        <3>4. sender' \in Hands
            BY <3>3, SenderFields DEF Places
        <3>5. ghost' \in Histories
            BY <1>2, <1>3, <3>3
        <3> QED
            BY <1>1, <1>5, <3>2, <3>4, <3>5 DEF TypeOK
    <2>3. CASE ~LoopEnds(mouse)
        <3>1. mouse' = [mouse EXCEPT !.delta = Sub(mouse.delta, Part(mouse.delta))]
              /\ sender' = [sender EXCEPT !.at = "part", !.part = Part(mouse.delta)] /\ ghost' = ghost
            BY <1>5, <2>3 DEF TakeMove
        <3>2. mouse.delta \in Moves
            BY <2>1
        <3>3. Part(mouse.delta) \in Parts /\ Sub(mouse.delta, Part(mouse.delta)) \in Moves
            BY <3>2, PartTyped
        <3>4. mouse' \in [delta: Moves, dirty: BOOLEAN]
            BY ONLY <2>1, <3>1, <3>3
        <3>5. sender' \in Hands
            <4>1. sender \in Hands
                BY SenderFields
            <4> QED
                BY ONLY <3>1, <3>3, <4>1 DEF Hands, Places
        <3> QED
            BY <1>1, <1>5, <3>1, <3>4, <3>5 DEF TypeOK
    <2> QED
        BY <2>2, <2>3
<1>6. CASE TakePosition /\ UNCHANGED <<mouse, sensors>>
    <2> DEFINE p == [kind |-> "position", at |-> position.at, reliable |-> TRUE, n |-> sender.holder.n]
    <2>1. position \in [at: Int, dirty: BOOLEAN]
        BY DEF TypeOK
    <2>2. p \in Packet
        BY <1>4, <2>1 DEF Packet
    <2>3. sender' = [sender EXCEPT !.at = "send", !.holder = p]
        BY <1>6 DEF TakePosition
    <2>4. position' = [position EXCEPT !.dirty = FALSE]
          /\ ghost' = [ghost EXCEPT !.owed = ghost.owed \ {<<"position">>}]
        BY <1>6 DEF TakePosition, Captured
    <2> HIDE DEF p
    <2>5. sender' \in Hands
        <3>1. sender \in Hands
            BY SenderFields
        <3> QED
            BY ONLY <2>2, <2>3, <3>1 DEF Hands, Places
    <2>6. ghost' \in Histories
        BY <1>2, <1>3, <2>4
    <2>7. position' \in [at: Int, dirty: BOOLEAN]
        BY ONLY <2>1, <2>4
    <2> QED
        BY <1>1, <1>6, <2>5, <2>6, <2>7 DEF TypeOK
<1>7. CASE sender.holder.kind = "motion" /\ TakeMotion /\ UNCHANGED <<mouse, position>>
    <2> DEFINE s == sender.holder.sensor
               v == sensors[s].value
               gone == s[2] = "gyro" /\ v = 0
               p == [kind |-> "motion", sensor |-> s, value |-> v, reliable |-> gone, n |-> sender.holder.n]
    <2>1. sensors \in [Sensors -> [value: Int, dirty: BOOLEAN]] /\ s \in Sensors
        BY <1>4, <1>7, PacketFields DEF TypeOK
    <2>2. v \in Int /\ gone \in BOOLEAN
        BY <2>1
    <2>3. sender' = [sender EXCEPT !.at = "send", !.holder = p]
        BY <1>7 DEF TakeMotion
    <2>4. sensors' = [sensors EXCEPT ![s] = [sensors[s] EXCEPT !.dirty = FALSE]]
          /\ ghost' = [ghost EXCEPT !.owed = ghost.owed \ {s}]
        BY <1>7 DEF TakeMotion, Captured
    <2> HIDE DEF s, v, gone
    <2>5. p \in Packet
        BY <1>4, <2>1, <2>2 DEF Packet
    <2> HIDE DEF p
    <2>6. sender' \in Hands
        <3>1. sender \in Hands
            BY SenderFields
        <3> QED
            BY ONLY <2>3, <2>5, <3>1 DEF Hands, Places
    <2>7. ghost' \in Histories
        BY <1>2, <1>3, <2>4
    <2>8. sensors' \in [Sensors -> [value: Int, dirty: BOOLEAN]]
        BY ONLY <2>1, <2>4
    <2> QED
        BY <1>1, <1>7, <2>6, <2>7, <2>8 DEF TypeOK
<1> QED
    BY <1>5, <1>6, <1>7 DEF LockAndTake

(* What is transmitted joins the history.                                  *)
LEMMA TransmitTyped ==
    ASSUME TypeOK, NEW p \in Packet, NEW then, Transmit(p, then)
    PROVE  /\ sender' = then
           /\ ghost' \in [accepted: Seq(Packet), sent: Seq(Packet), moved: Moves, arrived: Moves,
                          owed: SUBSET Sources, failed: BOOLEAN]
           /\ ghost'.accepted = ghost.accepted /\ ghost'.owed = ghost.owed
           /\ ghost'.moved = ghost.moved /\ ghost'.failed = ghost.failed
           /\ ghost'.sent = Append(ghost.sent, p)
           /\ ghost'.arrived = IF p.kind = "mouse" THEN Add(ghost.arrived, sender.part) ELSE ghost.arrived
<1>1. ghost \in [accepted: Seq(Packet), sent: Seq(Packet), moved: Moves, arrived: Moves,
                 owed: SUBSET Sources, failed: BOOLEAN]
    BY DEF TypeOK
<1>2. sender.part \in Parts
    BY SenderFields
<1>3. ghost.arrived \in Moves /\ Add(ghost.arrived, sender.part) \in Moves
    BY <1>1, <1>2, InputAssumption DEF Moves, Parts, Add
<1>4. Append(ghost.sent, p) \in Seq(Packet)
    BY <1>1
<1>5. PICK d \in Moves : /\ d = IF p.kind = "mouse" THEN Add(ghost.arrived, sender.part) ELSE ghost.arrived
                         /\ ghost' = [ghost EXCEPT !.sent = Append(@, p), !.arrived = d]
    BY <1>3 DEF Transmit
<1>6. sender' = then
    BY DEF Transmit
<1> QED
    BY ONLY <1>1, <1>4, <1>5, <1>6

(* inputSendThreadProc: sending keeps the types.                           *)
LEMMA SendTyped ==
    ASSUME TypeOK, Send
    PROVE  TypeOK'
<1>1. UNCHANGED <<scn, packetQueue, mutex, mouse, position, sensors, wheel, penButtons, caller>>
    BY DEF Send, client
<1>2. sender.holder \in Packet
    BY SenderFields
<1>3. CASE sender.at = "send" /\ Transmit(sender.holder, [sender EXCEPT !.at = "wait"])
    <2>1. [sender EXCEPT !.at = "wait"] \in Hands
        BY SenderFields DEF Places
    <2> QED
        BY <1>1, <1>2, <1>3, <2>1, TransmitTyped DEF TypeOK
<1>4. CASE sender.at = "part" /\ Transmit(sender.holder, [sender EXCEPT !.at = "lock"])
    <2>1. [sender EXCEPT !.at = "lock"] \in Hands
        BY SenderFields DEF Places
    <2> QED
        BY <1>1, <1>2, <1>4, <2>1, TransmitTyped DEF TypeOK
<1>5. CASE sender.left > 0 /\ Transmit(sender.holder, [sender EXCEPT !.left = @ - 1])
    <2>1. sender.left - 1 \in Nat
        BY <1>5, SenderFields
    <2>2. [sender EXCEPT !.left = @ - 1] \in Hands
        <3>1. sender \in Hands
            BY SenderFields
        <3> QED
            BY ONLY <2>1, <3>1 DEF Hands
    <2> QED
        BY <1>1, <1>2, <1>5, <2>2, TransmitTyped DEF TypeOK
<1>6. CASE SendFails
    <2>1. sender' = [sender EXCEPT !.at = "ended"] /\ ghost' = [ghost EXCEPT !.failed = TRUE]
        BY <1>6 DEF SendFails
    <2>2. sender' \in Hands
        BY <2>1, SenderFields DEF Places
    <2> QED
        BY <1>1, <2>1, <2>2 DEF TypeOK
<1> QED
    BY <1>3, <1>4, <1>5, <1>6 DEF Send, Transmits

(* The steps that move only the threads' places, and the peer.             *)
LEMMA OthersTyped ==
    ASSUME TypeOK, PlaceFitsKind,
           TextMayGo \/ TextEnds \/ InitializeInputStream \/ CreateThread \/ AllowInput
              \/ Close \/ Stopping \/ Peer \/ Ping \/ UNCHANGED vars
    PROVE  TypeOK'
<1> USE DEF client
<1>1. CASE TextMayGo
    <2>1. sender.holder.points \in Nat
        BY <1>1, SenderFields, PacketFields DEF TextMayGo, PlaceFitsKind
    <2>2. sender' = [sender EXCEPT !.at = "point", !.left = sender.holder.points]
        BY <1>1 DEF TextMayGo
    <2>3. sender \in Hands
        BY SenderFields
    <2>4. sender' \in Hands
        BY ONLY <2>1, <2>2, <2>3 DEF Hands, Places
    <2> QED
        BY <1>1, <2>4 DEF TextMayGo, TypeOK
<1>2. CASE TextEnds
    BY <1>2, SenderFields DEF TextEnds, TypeOK, Places
<1>3. CASE InitializeInputStream \/ AllowInput \/ Close \/ ShutFreeList \/ JoinInput
    BY <1>3 DEF InitializeInputStream, AllowInput, Close, ShutFreeList, JoinInput, TypeOK
<1>4. CASE CreateThread
    <2>1. sender' \in Hands
        BY <1>4, SenderFields DEF CreateThread, Places
    <2> QED
        BY <1>4, <2>1 DEF CreateThread, TypeOK
<1>5. CASE DrainQueue \/ DestroyInputStream
    <2>1. packetQueue \in LbqOf(Packet, QueueBound) /\ ~packetQueue.shutdown /\ ~packetQueue.userWake
        BY DEF TypeOK
    <2>2. packetQueue' = LbqDrain(packetQueue) \/ packetQueue' = LbqFlush(packetQueue)
        BY <1>5 DEF DrainQueue, DestroyInputStream
    <2>3. /\ packetQueue' \in LbqOf(Packet, QueueBound)
          /\ ~packetQueue'.shutdown /\ ~packetQueue'.userWake
        <3>1. CASE packetQueue' = LbqDrain(packetQueue)
            BY ONLY <2>1, <3>1 DEF LbqOf, LbqDrain
        <3>2. CASE packetQueue' = LbqFlush(packetQueue)
            <4>1. <<>> \in Seq(Packet)
                OBVIOUS
            <4> QED
                BY ONLY <2>1, <3>2, <4>1 DEF LbqOf, LbqFlush
        <3> QED
            BY <2>2, <3>1, <3>2
    <2> QED
        BY <1>5, <2>3 DEF DrainQueue, DestroyInputStream, TypeOK
<1>6. CASE Peer \/ Ping \/ UNCHANGED vars
    BY <1>6 DEF Peer, Acknowledge, GiveUp, Ping, vars, TypeOK
<1> QED
    BY <1>1, <1>2, <1>3, <1>4, <1>5, <1>6 DEF Stopping

(* Every step keeps the types.                                             *)
LEMMA TypeStep ==
    ASSUME TypeOK, CallsAreAlone, PlaceFitsKind, [Next]_vars
    PROVE  TypeOK'
BY CallTyped, AllocateTyped, OfferTyped, EnableHapticsTyped, TakeTyped, MergeTyped, LockAndTakeTyped,
   SendTyped, OthersTyped DEF Next, Starting, InputThread, JoinWaits, Destroyed
-----------------------------------------------------------------------------
(* Nothing runs before the thread is created; a stop has seen it end.      *)
LEMMA PhasesStep ==
    ASSUME Phases, [Next]_vars
    PROVE  Phases'
<1> USE DEF Phases, CallersOut, client
<1>1. ASSUME NEW c \in Callers, Call(c)
      PROVE  Phases'
    BY <1>1 DEF Call
<1>2. ASSUME NEW c \in Callers, Allocate(c) \/ Offer(c)
      PROVE  Phases'
    BY <1>2 DEF Allocate, Offer
<1>3. CASE EnableHaptics \/ InitializeInputStream \/ CreateThread \/ AllowInput
    BY <1>3 DEF EnableHaptics, InitializeInputStream, CreateThread, AllowInput, ControlStep
<1>4. CASE Close \/ ShutFreeList \/ DrainQueue \/ JoinInput \/ DestroyInputStream
    BY <1>4 DEF Close, ShutFreeList, DrainQueue, JoinInput, DestroyInputStream, ControlStep
<1>5. CASE Take \/ MergeOrGoOn \/ LockAndTake \/ TextMayGo \/ TextEnds
    BY <1>5 DEF Take, MergeOrGoOn, LockAndTake, TextMayGo, TextEnds
<1>6. CASE Send
    BY <1>6 DEF Send, Transmits, SendFails
<1>7. CASE Peer \/ Ping \/ UNCHANGED vars
    BY <1>7 DEF Peer, Acknowledge, GiveUp, Ping, vars
<1> QED
    BY <1>1, <1>2, <1>3, <1>4, <1>5, <1>6, <1>7
       DEF Next, Starting, Stopping, InputThread, JoinWaits, Destroyed
-----------------------------------------------------------------------------
(* The sources of moves, of positions, and of the sensors are distinct.    *)
LEMMA SourcesDiffer ==
    /\ <<"mouse">> # <<"position">>
    /\ \A s \in Sensors : s # <<"mouse">> /\ s # <<"position">> /\ s \in Sources
    /\ <<"mouse">> \in Sources /\ <<"position">> \in Sources
<1>1. <<"mouse">> # <<"position">>
    OBVIOUS
<1>2. ASSUME NEW s \in Sensors
      PROVE  s # <<"mouse">> /\ s # <<"position">>
    <2>1. PICK i \in Pads, m \in Motions : s = <<i, m>>
        BY DEF Sensors
    <2>2. Len(<<i, m>>) = 2 /\ Len(<<"mouse">>) = 1 /\ Len(<<"position">>) = 1
        OBVIOUS
    <2> QED
        BY <2>1, <2>2
<1> QED
    BY <1>1, <1>2 DEF Sources

(* A packet's source and kind go together.                                 *)
LEMMA SourceOfKind ==
    ASSUME NEW p \in Packet, p.kind \in Batched
    PROVE  /\ p.kind = "mouse" <=> Source(p) = <<"mouse">>
           /\ p.kind = "position" <=> Source(p) = <<"position">>
           /\ p.kind = "motion" <=> Source(p) \in Sensors
           /\ p.kind = "motion" => Source(p) = p.sensor
<1>1. p.kind \in {"mouse", "position", "motion"} /\ (p.kind = "motion" => p.sensor \in Sensors)
    BY PacketFields DEF Batched
<1>2. CASE p.kind = "mouse"
    BY <1>2, SourcesDiffer DEF Source
<1>3. CASE p.kind = "position"
    BY <1>3, SourcesDiffer DEF Source
<1>4. CASE p.kind = "motion"
    BY <1>1, <1>4, SourcesDiffer DEF Source
<1> QED
    BY <1>1, <1>2, <1>3, <1>4

(* Queueing a packet makes its source dirty and no other.                  *)
LEMMA MarkedDirty ==
    ASSUME TypeOK, NEW p \in Packet, MarkQueued(p), NEW s \in Sources
    PROVE  IsDirtySource(s)' <=> IsDirtySource(s) \/ (p.kind \in Batched /\ s = Source(p))
<1>1. /\ mouse \in [delta: Moves, dirty: BOOLEAN]
      /\ position \in [at: Int, dirty: BOOLEAN]
      /\ sensors \in [Sensors -> [value: Int, dirty: BOOLEAN]]
    BY DEF TypeOK
<1>2. mouse'.dirty <=> mouse.dirty \/ p.kind = "mouse"
    BY <1>1 DEF MarkQueued
<1>3. position'.dirty <=> position.dirty \/ p.kind = "position"
    BY <1>1 DEF MarkQueued
<1>4. p.kind = "motion" => p.sensor \in Sensors
    BY PacketFields
<1>5. ASSUME s \in Sensors
      PROVE  sensors'[s].dirty <=> sensors[s].dirty \/ (p.kind = "motion" /\ s = p.sensor)
    <2>1. CASE p.kind = "motion"
        <3>1. sensors' = [sensors EXCEPT ![p.sensor].dirty = TRUE]
            BY <2>1 DEF MarkQueued
        <3> QED
            BY <1>1, <1>4, <1>5, <2>1, <3>1
    <2>2. CASE p.kind # "motion"
        BY <2>2 DEF MarkQueued
    <2> QED
        BY <2>1, <2>2
<1>6. CASE s = <<"mouse">>
    BY <1>2, <1>6, SourceOfKind DEF IsDirtySource, Batched
<1>7. CASE s = <<"position">>
    BY <1>3, <1>7, SourceOfKind, SourcesDiffer DEF IsDirtySource, Batched
<1>8. CASE s \in Sensors
    <2>1. (IsDirtySource(s) <=> sensors[s].dirty) /\ (IsDirtySource(s)' <=> sensors'[s].dirty)
        BY <1>8, SourcesDiffer DEF IsDirtySource
    <2>2. p.kind \in Batched /\ s = Source(p) <=> p.kind = "motion" /\ s = p.sensor
        BY <1>8, SourceOfKind DEF Batched
    <2> QED
        BY <1>5, <1>8, <2>1, <2>2
<1> QED
    BY <1>6, <1>7, <1>8 DEF Sources

(* Flags that are not written stay.                                        *)
LEMMA SameDirty ==
    ASSUME mouse'.dirty = mouse.dirty, position'.dirty = position.dirty,
           \A s \in Sensors : sensors'[s].dirty = sensors[s].dirty,
           NEW s \in Sources
    PROVE  IsDirtySource(s)' <=> IsDirtySource(s)
BY SourcesDiffer DEF IsDirtySource, Sources

(* What a call does to the mutex, to its own todo list and to what is      *)
(* owed: with a holder queued for its source it is done, and otherwise it  *)
(* keeps the mutex with a holder to queue.                                 *)
Locks(c, h) ==
    /\ mutex = Nobody /\ h.kind \in Batched
    /\ IF IsDirtySource(Source(h))
       THEN /\ mutex' = Nobody /\ caller' = [caller EXCEPT ![c] = Returned]
            /\ ghost'.owed = ghost.owed \cup {Source(h)}
       ELSE /\ mutex' = c /\ \E call \in Calls : caller' = [caller EXCEPT ![c] = Called(call, <<h>>)]
            /\ ghost'.owed = ghost.owed
Queues(c) ==
    /\ mutex' = mutex /\ ghost' = ghost
    /\ \/ caller' = [caller EXCEPT ![c] = Returned]
       \/ \E call \in Calls, todo \in Seq(Packet) :
             /\ caller' = [caller EXCEPT ![c] = Called(call, todo)]
             /\ todo # <<>> /\ \A i \in 1..Len(todo) : todo[i].kind \notin Batched

(* A batched call raises its dirty flag under batchedInputMutex, and only  *)
(* that.                                                                   *)
LEMMA UnderMutexLocks ==
    ASSUME TypeOK, NEW c \in Callers, NEW call \in scn.calls[c], NEW h \in Packet, h.kind \in Batched,
           UnderMutex(c, call, h),
           h.kind = "mouse" <=> call.fn = "LiSendMouseMoveEvent",
           h.kind = "position" <=> call.fn = "LiSendMousePositionEvent"
    PROVE  /\ Locks(c, h)
           /\ ghost'.accepted = ghost.accepted /\ ghost'.sent = ghost.sent
           /\ ghost'.arrived = ghost.arrived /\ ghost'.failed = ghost.failed
           /\ ghost'.moved = IF h.kind = "mouse" THEN Add(ghost.moved, call.delta) ELSE ghost.moved
<1> DEFINE dirty == IsDirty(call.fn, IF h.kind = "motion" THEN h.sensor ELSE <<0, "gyro">>)
<1>1. h.kind \in {"mouse", "position", "motion"}
    BY DEF Batched
<1>2. dirty <=> IsDirtySource(Source(h))
    <2>1. CASE h.kind = "mouse"
        BY <2>1, SourceOfKind DEF IsDirty, IsDirtySource
    <2>2. CASE h.kind = "position"
        BY <2>2, SourceOfKind, SourcesDiffer DEF IsDirty, IsDirtySource
    <2>3. CASE h.kind = "motion"
        <3>1. Source(h) = h.sensor /\ h.sensor \in Sensors
            BY <2>3, SourceOfKind
        <3>2. call.fn # "LiSendMouseMoveEvent" /\ call.fn # "LiSendMousePositionEvent"
            BY <2>3
        <3> QED
            BY <2>3, <3>1, <3>2, SourcesDiffer DEF IsDirty, IsDirtySource
    <2> QED
        BY <1>1, <2>1, <2>2, <2>3
<1>3. call \in Calls
    BY CallFields
<1>4. /\ mutex = Nobody
      /\ caller' = [caller EXCEPT ![c] = IF dirty THEN Returned ELSE Called(call, <<h>>)]
      /\ mutex' = IF dirty THEN Nobody ELSE c
      /\ ghost' = [ghost EXCEPT
             !.owed = IF dirty THEN ghost.owed \cup {Source(h)} ELSE ghost.owed,
             !.moved = IF h.kind = "mouse" THEN Add(ghost.moved, call.delta) ELSE ghost.moved]
    BY DEF UnderMutex
<1> HIDE DEF dirty
<1>5. ghost \in [accepted: Seq(Packet), sent: Seq(Packet), moved: Moves, arrived: Moves,
                 owed: SUBSET Sources, failed: BOOLEAN]
    BY DEF TypeOK
<1>6. /\ ghost'.owed = IF dirty THEN ghost.owed \cup {Source(h)} ELSE ghost.owed
      /\ ghost'.accepted = ghost.accepted /\ ghost'.sent = ghost.sent
      /\ ghost'.arrived = ghost.arrived /\ ghost'.failed = ghost.failed
      /\ ghost'.moved = IF h.kind = "mouse" THEN Add(ghost.moved, call.delta) ELSE ghost.moved
    BY ONLY <1>4, <1>5
<1>7. Locks(c, h)
    BY <1>2, <1>3, <1>4, <1>6 DEF Locks
<1> QED
    BY <1>6, <1>7

(* A call queues packets of its own, or locks a batch.                     *)
LEMMA CallEffect ==
    ASSUME TypeOK, NEW c \in Callers, Call(c)
    PROVE  /\ caller[c].at = "idle"
           /\ Queues(c) \/ \E h \in Packet : Locks(c, h)
           /\ \A s \in Sources : IsDirtySource(s)' <=> IsDirtySource(s)
           /\ ghost'.accepted = ghost.accepted /\ ghost'.sent = ghost.sent
           /\ ghost'.failed = ghost.failed
<1>1. PICK call \in scn.calls[c] :
          Move(c, call) \/ Position(c, call) \/ Motion(c, call) \/ Scroll(c, call) \/ Queued(c, call)
    BY DEF Call
<1>2. caller[c].at = "idle" /\ call \in Calls
    BY CallFields DEF Call
<1>3. /\ mouse \in [delta: Moves, dirty: BOOLEAN] /\ position \in [at: Int, dirty: BOOLEAN]
      /\ sensors \in [Sensors -> [value: Int, dirty: BOOLEAN]]
    BY DEF TypeOK
<1>4. CASE Move(c, call)
    <2>1. Holder("mouse") \in Packet /\ Holder("mouse").kind = "mouse"
        BY DEF Holder, Packet
    <2>2. mouse'.dirty = mouse.dirty /\ position' = position /\ sensors' = sensors
        BY <1>3, <1>4 DEF Move
    <2>3. UnderMutex(c, call, Holder("mouse")) /\ call.fn = "LiSendMouseMoveEvent"
        BY <1>4 DEF Move
    <2> QED
        BY <1>2, <2>1, <2>2, <2>3, UnderMutexLocks, SameDirty DEF Batched
<1>5. CASE Position(c, call)
    <2>1. Holder("position") \in Packet /\ Holder("position").kind = "position"
        BY DEF Holder, Packet
    <2>2. position'.dirty = position.dirty /\ mouse' = mouse /\ sensors' = sensors
        BY <1>3, <1>5 DEF Position
    <2>3. UnderMutex(c, call, Holder("position")) /\ call.fn = "LiSendMousePositionEvent"
        BY <1>5 DEF Position
    <2> QED
        BY <1>2, <2>1, <2>2, <2>3, UnderMutexLocks, SameDirty DEF Batched
<1>6. CASE Motion(c, call)
    <2> DEFINE s == <<call.pad % MaxGamepads, call.motion>>
               h == [kind |-> "motion", sensor |-> s, reliable |-> FALSE, n |-> 0]
    <2>1. s \in Sensors /\ call.fn = "LiSendControllerMotionEvent"
        BY <1>6, CallFields DEF Motion
    <2>2. sensors' = [sensors EXCEPT ![s].value = call.value] /\ UnderMutex(c, call, h)
          /\ mouse' = mouse /\ position' = position
        BY <1>6 DEF Motion
    <2> HIDE DEF s
    <2>3. h \in Packet /\ h.kind = "motion"
        BY <2>1 DEF Packet
    <2>4. \A r \in Sensors : sensors'[r].dirty = sensors[r].dirty
        BY <1>3, <2>1, <2>2
    <2> HIDE DEF h
    <2> QED
        BY <1>2, <2>1, <2>2, <2>3, <2>4, UnderMutexLocks, SameDirty DEF Batched
<1>7. CASE Scroll(c, call)
    <2>1. call.amount \in Int /\ Rolled(call.amount) \in Int
        <3>1. call.amount \in Int
            BY <1>7, CallFields DEF Scroll
        <3> QED
            BY <3>1 DEF Rolled, TypeOK
    <2> DEFINE t == Notch(Rolled(call.amount))
               p == ScrollPacket(call.amount)
    <2>2. t \in Seq(Packet) /\ \A i \in 1..Len(t) : t[i].kind \notin Batched
        BY <2>1, NotchTyped
    <2>3. p \in Packet /\ p.kind \notin Batched
        BY <2>1 DEF ScrollPacket, Packet, Batched
    <2>4. /\ mutex' = mutex /\ ghost' = ghost /\ mouse' = mouse /\ position' = position /\ sensors' = sensors
          /\ \/ caller' = [caller EXCEPT ![c] = Returned]
             \/ caller' = [caller EXCEPT ![c] = Called(call, t)] /\ t # <<>>
             \/ caller' = [caller EXCEPT ![c] = Called(call, <<p>>)]
        BY <1>7 DEF Scroll
    <2> HIDE DEF t, p
    <2>5. <<p>> \in Seq(Packet) /\ <<p>> # <<>> /\ \A i \in 1..Len(<<p>>) : <<p>>[i].kind \notin Batched
        BY <2>3
    <2>6. Queues(c)
        BY <1>2, <2>2, <2>4, <2>5 DEF Queues
    <2> QED
        BY <1>2, <2>4, <2>6, SameDirty
<1>8. CASE Queued(c, call)
    <2>1. /\ PacketsOf(call) \in Seq(Packet) /\ PacketsOf(call) # <<>>
          /\ \A i \in 1..Len(PacketsOf(call)) : PacketsOf(call)[i].kind \notin Batched
        BY <1>2, <1>8, CallPackets DEF Queued, TypeOK
    <2>2. /\ mutex' = mutex /\ ghost' = ghost /\ mouse' = mouse /\ position' = position /\ sensors' = sensors
          /\ caller' = [caller EXCEPT ![c] = Called(call, PacketsOf(call))]
        BY <1>8 DEF Queued, client
    <2>3. Queues(c)
        BY <1>2, <2>1, <2>2 DEF Queues
    <2> QED
        BY <1>2, <2>2, <2>3, SameDirty
<1> QED
    BY <1>1, <1>4, <1>5, <1>6, <1>7, <1>8

(* Taking what is pending makes its source clean and no other dirty.       *)
LEMMA TakenClean ==
    ASSUME TypeOK, LockAndTake
    PROVE  /\ \A s \in Sources : IsDirtySource(s)' => IsDirtySource(s)
           /\ \A s \in Sources : s # Source(sender.holder) => (IsDirtySource(s)' <=> IsDirtySource(s))
           /\ sender'.at # "part" => \A s \in Sources : s = Source(sender.holder) => ~IsDirtySource(s)'
           /\ sender'.at = "part" => \A s \in Sources : IsDirtySource(s)' <=> IsDirtySource(s)
           /\ ghost'.owed = IF sender'.at = "part" THEN ghost.owed ELSE ghost.owed \ {Source(sender.holder)}
           /\ ghost'.accepted = ghost.accepted /\ ghost'.sent = ghost.sent /\ ghost'.failed = ghost.failed
           /\ ghost'.moved = ghost.moved /\ ghost'.arrived = ghost.arrived
<1>1. /\ mouse \in [delta: Moves, dirty: BOOLEAN] /\ position \in [at: Int, dirty: BOOLEAN]
      /\ sensors \in [Sensors -> [value: Int, dirty: BOOLEAN]]
      /\ ghost \in [accepted: Seq(Packet), sent: Seq(Packet), moved: Moves, arrived: Moves,
                    owed: SUBSET Sources, failed: BOOLEAN]
    BY DEF TypeOK
<1>2. sender \in Hands /\ sender.holder \in Packet
    BY SenderFields
<1>3. CASE sender.holder.kind = "mouse" /\ TakeMove /\ UNCHANGED <<position, sensors>>
    <2>1. Source(sender.holder) = <<"mouse">>
        BY <1>3 DEF Source
    <2>2. CASE LoopEnds(mouse)
        <3>1. /\ mouse' = [mouse EXCEPT !.dirty = FALSE]
              /\ sender' = [sender EXCEPT !.at = "wait"]
              /\ ghost' = [ghost EXCEPT !.owed = ghost.owed \ {<<"mouse">>}]
            BY <1>3, <2>2 DEF TakeMove, Captured
        <3>2. /\ ~mouse'.dirty /\ sender'.at = "wait" /\ ghost'.owed = ghost.owed \ {<<"mouse">>}
              /\ ghost'.accepted = ghost.accepted /\ ghost'.sent = ghost.sent /\ ghost'.failed = ghost.failed
              /\ ghost'.moved = ghost.moved /\ ghost'.arrived = ghost.arrived
            BY ONLY <1>1, <1>2, <3>1 DEF Hands
        <3>3. ~IsDirtySource(<<"mouse">>)'
            BY <3>2 DEF IsDirtySource
        <3>4. ASSUME NEW s \in Sources, s # <<"mouse">>
              PROVE  IsDirtySource(s)' <=> IsDirtySource(s)
            BY <1>3, <3>4 DEF IsDirtySource
        <3> QED
            BY <2>1, <3>2, <3>3, <3>4
    <2>3. CASE ~LoopEnds(mouse)
        <3>1. /\ mouse' = [mouse EXCEPT !.delta = Sub(mouse.delta, Part(mouse.delta))]
              /\ sender' = [sender EXCEPT !.at = "part", !.part = Part(mouse.delta)]
              /\ ghost' = ghost
            BY <1>3, <2>3 DEF TakeMove
        <3>2. mouse'.dirty = mouse.dirty /\ sender'.at = "part"
            BY ONLY <1>1, <1>2, <3>1 DEF Hands
        <3> QED
            BY <1>3, <3>1, <3>2, SameDirty
    <2> QED
        BY <2>2, <2>3
<1>4. CASE sender.holder.kind = "position" /\ TakePosition /\ UNCHANGED <<mouse, sensors>>
    <2>1. Source(sender.holder) = <<"position">>
        BY <1>4 DEF Source
    <2>2. /\ position' = [position EXCEPT !.dirty = FALSE]
          /\ ghost' = [ghost EXCEPT !.owed = ghost.owed \ {<<"position">>}]
          /\ sender'.at = "send"
        BY <1>2, <1>4 DEF TakePosition, Captured, Hands
    <2>3. /\ ~position'.dirty /\ ghost'.owed = ghost.owed \ {<<"position">>}
          /\ ghost'.accepted = ghost.accepted /\ ghost'.sent = ghost.sent /\ ghost'.failed = ghost.failed
          /\ ghost'.moved = ghost.moved /\ ghost'.arrived = ghost.arrived
        BY ONLY <1>1, <2>2
    <2>4. ~IsDirtySource(<<"position">>)'
        BY <2>3, SourcesDiffer DEF IsDirtySource
    <2>5. ASSUME NEW s \in Sources, s # <<"position">>
          PROVE  IsDirtySource(s)' <=> IsDirtySource(s)
        BY <1>4, <2>5 DEF IsDirtySource
    <2> QED
        BY <2>1, <2>2, <2>3, <2>4, <2>5
<1>5. CASE sender.holder.kind = "motion" /\ TakeMotion /\ UNCHANGED <<mouse, position>>
    <2>1. PICK r \in Sensors : Source(sender.holder) = r /\ r = sender.holder.sensor
        BY <1>2, <1>5, PacketFields DEF Source
    <2>2. /\ sensors' = [sensors EXCEPT ![r] = [sensors[r] EXCEPT !.dirty = FALSE]]
          /\ ghost' = [ghost EXCEPT !.owed = ghost.owed \ {r}]
          /\ sender'.at = "send"
        BY <1>2, <1>5, <2>1 DEF TakeMotion, Captured, Hands
    <2>3. /\ ~sensors'[r].dirty /\ ghost'.owed = ghost.owed \ {r}
          /\ \A s \in Sensors : s # r => sensors'[s].dirty = sensors[s].dirty
          /\ ghost'.accepted = ghost.accepted /\ ghost'.sent = ghost.sent /\ ghost'.failed = ghost.failed
          /\ ghost'.moved = ghost.moved /\ ghost'.arrived = ghost.arrived
        BY ONLY <1>1, <2>1, <2>2
    <2>4. ~IsDirtySource(r)'
        BY <2>1, <2>3, SourcesDiffer DEF IsDirtySource
    <2>5. ASSUME NEW s \in Sources, s # r
          PROVE  IsDirtySource(s)' <=> IsDirtySource(s)
        BY <1>5, <2>3, <2>5, SourcesDiffer DEF IsDirtySource, Sources
    <2> QED
        BY <2>1, <2>2, <2>3, <2>4, <2>5
<1> QED
    BY <1>3, <1>4, <1>5 DEF LockAndTake

(* A thread that is out of its call, or that has nothing batched to queue. *)
Alone(d) ==
    caller[d].at # "idle" =>
        /\ caller[d].todo # <<>>
        /\ \A i \in 1..Len(caller[d].todo) : caller[d].todo[i].kind \in Batched =>
              /\ Len(caller[d].todo) = 1 /\ mutex = d
              /\ ~IsDirtySource(Source(caller[d].todo[i]))

(* A caller that nobody interferes with stays alone.                       *)
LEMMA AloneKept ==
    ASSUME TypeOK, NEW d \in Callers, Alone(d), caller'[d] = caller[d], mutex = d => mutex' = d,
           \A s \in Sources : IsDirtySource(s)' => IsDirtySource(s)
    PROVE  Alone(d)'
<1>1. \A i \in 1..Len(caller[d].todo) : caller[d].todo[i] \in Packet
    BY CallerTyped, ElementOfSeq
<1>2. ASSUME NEW i \in 1..Len(caller[d].todo), caller[d].todo[i].kind \in Batched
      PROVE  Source(caller[d].todo[i]) \in Sources
    BY <1>1, <1>2, SourceTyped
<1> QED
    BY <1>2 DEF Alone

(* Every step keeps the calls apart that batchedInputMutex keeps apart.    *)
LEMMA AloneStep ==
    ASSUME TypeOK, CallsAreAlone, [Next]_vars
    PROVE  CallsAreAlone'
<1>1. \A d \in Callers : Alone(d)
    BY DEF CallsAreAlone, Alone
<1> SUFFICES ASSUME NEW d \in Callers
             PROVE  Alone(d)'
    BY DEF CallsAreAlone, Alone
<1>2. CASE caller' = caller /\ mutex' = mutex /\ \A s \in Sources : IsDirtySource(s)' => IsDirtySource(s)
    BY <1>1, <1>2, AloneKept
<1>3. CASE UNCHANGED <<caller, mutex, mouse, position, sensors>>
    BY <1>2, <1>3, SameDirty
<1>4. ASSUME NEW c \in Callers, Call(c)
      PROVE  Alone(d)'
    <2>1. \A s \in Sources : IsDirtySource(s)' <=> IsDirtySource(s)
        BY <1>4, CallEffect
    <2>2. caller \in [Callers -> Entry]
        BY DEF TypeOK
    <2>3. CASE Queues(c)
        <3>1. d # c => caller'[d] = caller[d]
            BY <2>2, <2>3 DEF Queues
        <3>2. CASE d # c
            BY <1>1, <2>1, <2>3, <3>1, <3>2, AloneKept DEF Queues
        <3>3. CASE d = c
            BY <2>2, <2>3, <3>3 DEF Queues, Alone, Called, Returned
        <3> QED
            BY <3>2, <3>3
    <2>4. ASSUME NEW h \in Packet, Locks(c, h)
          PROVE  Alone(d)'
        <3>1. mutex = Nobody /\ mutex # d
            BY <2>4, Constants DEF Locks
        <3>2. d # c => caller'[d] = caller[d]
            BY <2>2, <2>4 DEF Locks
        <3>3. CASE d # c
            BY <1>1, <2>1, <3>1, <3>2, <3>3, AloneKept
        <3>4. CASE d = c /\ IsDirtySource(Source(h))
            BY <2>2, <2>4, <3>4 DEF Locks, Alone, Returned
        <3>5. CASE d = c /\ ~IsDirtySource(Source(h))
            <4>1. mutex' = c
                BY <2>4, <3>5 DEF Locks
            <4>2. caller'[c].todo = <<h>>
                BY <2>2, <2>4, <3>5 DEF Locks, Called
            <4>3. ~IsDirtySource(Source(h))'
                BY <2>1, <2>4, <3>5, SourceTyped DEF Locks
            <4>4. <<h>> # <<>> /\ Len(<<h>>) = 1 /\ <<h>>[1] = h /\ \A i \in 1..1 : i = 1
                OBVIOUS
            <4> QED
                BY <3>5, <4>1, <4>2, <4>3, <4>4 DEF Alone
        <3> QED
            BY <3>3, <3>4, <3>5
    <2> QED
        BY <1>4, <2>3, <2>4, CallEffect
<1>5. ASSUME NEW c \in Callers, Allocate(c)
      PROVE  Alone(d)'
    <2> DEFINE p == Head(caller[c].todo)
    <2>1. UNCHANGED <<mouse, position, sensors>> /\ caller[c].at = "allocate"
        BY <1>5 DEF Allocate
    <2>2. caller \in [Callers -> Entry]
        BY DEF TypeOK
    <2>3. \A s \in Sources : IsDirtySource(s)' <=> IsDirtySource(s)
        BY <2>1, SameDirty
    <2>4. CASE HasHolder(p) /\ ~Refused(c)
        <3>1. /\ mutex' = mutex
              /\ caller' = [caller EXCEPT ![c] = [at |-> "offer", fn |-> caller[c].fn,
                               todo |-> [caller[c].todo EXCEPT ![1] = Prepared(p)]]]
            BY <1>5, <2>4 DEF Allocate
        <3>2. CASE d # c
            BY <1>1, <2>2, <2>3, <3>1, <3>2, AloneKept
        <3>3. CASE d = c
            <4>1. caller[c].todo \in Seq(Packet) /\ caller[c].todo # <<>> /\ Len(caller[c].todo) >= 1
                BY <1>1, <2>1, CallerTyped DEF Alone
            <4>2. p \in Packet /\ p = caller[c].todo[1]
                BY <4>1
            <4> DEFINE t == [caller[c].todo EXCEPT ![1] = Prepared(p)]
            <4>3. caller'[c].todo = t
                BY <2>2, <3>1
            <4>4. /\ Len(t) = Len(caller[c].todo)
                  /\ \A j \in 1..Len(caller[c].todo) : t[j] = IF j = 1 THEN Prepared(p) ELSE caller[c].todo[j]
                BY <4>1, <4>2, PreparedPacket, ExceptSeq
            <4>5. Prepared(p).kind = p.kind /\ (p.kind \in Batched => Prepared(p) = p)
                BY <4>2, PreparedPacket DEF Batched
            <4> HIDE DEF t, p
            <4>6. t # <<>>
                BY <4>1, <4>4
            <4>7. ASSUME NEW i \in 1..Len(t), t[i].kind \in Batched
                  PROVE  t[i] = caller[c].todo[i] /\ i \in 1..Len(caller[c].todo)
                BY <4>2, <4>4, <4>5, <4>7
            <4>8. ASSUME NEW i \in 1..Len(t), t[i].kind \in Batched
                  PROVE  Len(t) = 1 /\ mutex = c /\ ~IsDirtySource(Source(t[i])) /\ Source(t[i]) \in Sources
                <5>1. t[i] = caller[c].todo[i] /\ i \in 1..Len(caller[c].todo)
                    BY <4>7, <4>8
                <5>2. t[i] \in Packet
                    BY <4>1, <5>1, ElementOfSeq
                <5> QED
                    BY <1>1, <2>1, <4>4, <4>8, <5>1, <5>2, SourceTyped DEF Alone
            <4> QED
                BY <2>3, <3>1, <3>3, <4>3, <4>6, <4>8 DEF Alone
        <3> QED
            BY <3>2, <3>3
    <2>5. CASE ~(HasHolder(p) /\ ~Refused(c))
        <3>1. caller' = [caller EXCEPT ![c] = Returned] /\ (mutex = d /\ d # c => mutex' = d)
            BY <1>5, <2>5 DEF Allocate, Release
        <3>2. CASE d # c
            BY <1>1, <2>2, <2>3, <3>1, <3>2, AloneKept
        <3>3. CASE d = c
            BY <2>2, <3>1, <3>3 DEF Alone, Returned
        <3> QED
            BY <3>2, <3>3
    <2> QED
        BY <2>4, <2>5
<1>6. ASSUME NEW c \in Callers, Offer(c)
      PROVE  Alone(d)'
    <2> DEFINE p == Head(caller[c].todo)
               rest == Remaining(c)
    <2>1. caller \in [Callers -> Entry] /\ caller[c].at = "offer" /\ (mutex = d /\ d # c => mutex' = d)
        BY <1>6 DEF TypeOK, Offer, Release
    <2>2. caller[c].todo \in Seq(Packet) /\ caller[c].todo # <<>>
        BY <1>1, <2>1, CallerTyped DEF Alone
    <2>3. p \in Packet /\ p = caller[c].todo[1] /\ Len(caller[c].todo) >= 1 /\ rest \in Seq(Packet)
          /\ \/ /\ Len(rest) = Len(caller[c].todo) - 1
                /\ \A i \in 1..Len(rest) : rest[i] = caller[c].todo[i + 1]
             \/ p.kind \notin Batched /\ \A i \in 1..Len(rest) : rest[i].kind \notin Batched
        <3>1. rest \in Seq(Packet)
              /\ \/ rest = Tail(caller[c].todo)
                 \/ p.kind \notin Batched /\ \A i \in 1..Len(rest) : rest[i].kind \notin Batched
            BY <2>2, RemainingTyped
        <3> DEFINE t == caller[c].todo
        <3>2. t \in Seq(Packet) /\ t # <<>>
            BY <2>2
        <3> HIDE DEF rest, t
        <3>3. /\ Head(t) \in Packet /\ Head(t) = t[1] /\ Len(t) >= 1
              /\ Len(Tail(t)) = Len(t) - 1
              /\ \A i \in 1..Len(Tail(t)) : Tail(t)[i] = t[i + 1]
            BY <3>2
        <3>4. CASE rest = Tail(t)
            BY <3>1, <3>3, <3>4 DEF t
        <3>5. CASE Head(t).kind \notin Batched /\ \A i \in 1..Len(rest) : rest[i].kind \notin Batched
            BY <3>1, <3>3, <3>5 DEF t
        <3> QED
            BY <3>1, <3>4, <3>5 DEF t
    <2>4. CASE LbqOfferAnswer(packetQueue) = "success"
        <3>1. MarkQueued(p) /\ caller' = [caller EXCEPT ![c] =
                 IF rest = <<>> THEN Returned ELSE [at |-> "allocate", fn |-> caller[c].fn, todo |-> rest]]
            BY <2>4, <1>6 DEF Offer
        <3>2. p.kind \in Batched => Len(caller[c].todo) = 1 /\ mutex = c
            BY <1>1, <2>1, <2>3 DEF Alone
        <3>3. \A s \in Sources : IsDirtySource(s)' <=> IsDirtySource(s) \/ (p.kind \in Batched /\ s = Source(p))
            BY <2>3, <3>1, MarkedDirty
        <3> HIDE DEF p, rest
        <3>4. CASE d # c /\ mutex = d
            <4>1. p.kind \notin Batched
                BY <3>2, <3>4
            <4> QED
                BY <1>1, <2>1, <3>1, <3>3, <3>4, <4>1, AloneKept
        <3>5. CASE d # c /\ mutex # d
            BY <1>1, <2>1, <3>1, <3>5 DEF Alone
        <3>6. CASE d = c /\ rest = <<>>
            BY <2>1, <3>1, <3>6 DEF Alone, Returned
        <3>7. CASE d = c /\ rest # <<>>
            <4>1. caller'[c].todo = rest
                BY <2>1, <3>1, <3>7
            <4>2. ASSUME /\ Len(rest) = Len(caller[c].todo) - 1
                         /\ \A i \in 1..Len(rest) : rest[i] = caller[c].todo[i + 1]
                  PROVE  \A i \in 1..Len(rest) : rest[i].kind \notin Batched
                <5>1. Len(caller[c].todo) >= 2
                    BY <2>3, <3>7, <4>2
                <5>2. \A i \in 1..Len(caller[c].todo) : caller[c].todo[i].kind \notin Batched
                    BY <1>1, <2>1, <5>1 DEF Alone
                <5>3. Len(caller[c].todo) \in Nat /\ Len(rest) \in Nat
                    BY <2>2, <2>3
                <5>4. ASSUME NEW i \in 1..Len(rest)
                      PROVE  rest[i].kind \notin Batched
                    <6>1. i + 1 \in 1..Len(caller[c].todo) /\ rest[i] = caller[c].todo[i + 1]
                        BY <4>2, <5>3, <5>4
                    <6> QED
                        BY <5>2, <6>1
                <5> QED
                    BY <5>4
            <4>3. \A i \in 1..Len(rest) : rest[i].kind \notin Batched
                BY <2>3, <4>2
            <4> QED
                BY <3>7, <4>1, <4>3 DEF Alone
        <3> QED
            BY <3>4, <3>5, <3>6, <3>7
    <2>5. CASE LbqOfferAnswer(packetQueue) # "success"
        <3>1. caller' = [caller EXCEPT ![c] = Returned] /\ UNCHANGED <<mouse, position, sensors>>
            BY <2>5, <1>6 DEF Offer
        <3>2. \A s \in Sources : IsDirtySource(s)' <=> IsDirtySource(s)
            BY <3>1, SameDirty
        <3>3. CASE d # c
            BY <1>1, <2>1, <3>1, <3>2, <3>3, AloneKept
        <3>4. CASE d = c
            BY <2>1, <3>1, <3>4 DEF Alone, Returned
        <3> QED
            BY <3>3, <3>4
    <2> QED
        BY <2>4, <2>5
<1>7. CASE LockAndTake
    <2>1. caller' = caller /\ mutex' = mutex
        BY <1>7 DEF LockAndTake
    <2>2. \A s \in Sources : IsDirtySource(s)' => IsDirtySource(s)
        BY <1>7, TakenClean
    <2> QED
        BY <1>2, <2>1, <2>2
<1>8. CASE Starting \/ Close \/ Stopping \/ Take \/ MergeOrGoOn \/ TextMayGo \/ Send \/ TextEnds
           \/ Peer \/ Ping \/ UNCHANGED vars
    <2>1. UNCHANGED <<caller, mutex, mouse, position, sensors>>
        BY <1>8 DEF Starting, InitializeInputStream, CreateThread, AllowInput, EnableHaptics, Close, Stopping,
           ShutFreeList, DrainQueue, JoinInput, DestroyInputStream, Take, MergeOrGoOn, TextMayGo, Send,
           TextEnds, Peer, Acknowledge, GiveUp, Ping, vars, client
    <2> QED
        BY <1>3, <2>1
<1> QED
    BY <1>4, <1>5, <1>6, <1>7, <1>8 DEF Next, InputThread, JoinWaits, Destroyed
-----------------------------------------------------------------------------
(* The holders in the queue, after a packet joins it or leaves it.         *)
LEMMA HoldersAppend ==
    ASSUME TypeOK, NEW q \in Packet, Queue' = Append(Queue, q), NEW s
    PROVE  HoldersOf(s)' = HoldersOf(s) \cup
               (IF q.kind \in Batched /\ Source(q) = s THEN {Len(Queue) + 1} ELSE {})
<1>1. Queue \in Seq(Packet) /\ Len(Queue) \in Nat
    BY QueueFields
<1>2. /\ DOMAIN (Queue') = 1..(Len(Queue) + 1) /\ DOMAIN Queue = 1..Len(Queue)
      /\ Queue'[Len(Queue) + 1] = q /\ \A i \in 1..Len(Queue) : Queue'[i] = Queue[i]
    BY <1>1
<1>3. /\ HoldersOf(s) = {i \in DOMAIN Queue : Queue[i].kind \in Batched /\ Source(Queue[i]) = s}
      /\ HoldersOf(s)' = {i \in DOMAIN (Queue') : Queue'[i].kind \in Batched /\ Source(Queue'[i]) = s}
    BY DEF HoldersOf, Queue, Source
<1> QED
    BY <1>1, <1>2, <1>3

(* Where the holders of a source are after the first packet was taken.     *)
LEMMA HoldersTail ==
    ASSUME TypeOK, Queue # <<>>, Queue' = Tail(Queue), NEW s
    PROVE  /\ HoldersOf(s) \subseteq 1..Len(Queue)
           /\ \A i \in Int : i \in HoldersOf(s)' <=> i >= 1 /\ i + 1 \in HoldersOf(s)
           /\ HoldersOf(s)' \subseteq Int
           /\ 1 \in HoldersOf(s) <=> Head(Queue).kind \in Batched /\ Source(Head(Queue)) = s
<1>1. Queue \in Seq(Packet) /\ Len(Queue) \in Nat /\ Len(Queue) >= 1
    BY QueueFields
<1>2. /\ DOMAIN (Queue') = 1..(Len(Queue) - 1) /\ DOMAIN Queue = 1..Len(Queue)
      /\ Queue[1] = Head(Queue) /\ \A i \in 1..(Len(Queue) - 1) : Queue'[i] = Queue[i + 1]
    BY <1>1
<1>3. /\ HoldersOf(s) = {i \in DOMAIN Queue : Queue[i].kind \in Batched /\ Source(Queue[i]) = s}
      /\ HoldersOf(s)' = {i \in DOMAIN (Queue') : Queue'[i].kind \in Batched /\ Source(Queue'[i]) = s}
    BY DEF HoldersOf, Queue, Source
<1> HIDE DEF Queue
<1> QED
    BY <1>1, <1>2, <1>3

(* The four facts about one source.                                        *)
DirtyFor(s) ==
    /\ \A i, j \in HoldersOf(s) : i = j
    /\ HeldFor(s) => HoldersOf(s) = {}
    /\ HoldersOf(s) # {} \/ HeldFor(s) => IsDirtySource(s)
    /\ IsDirtySource(s) \/ s \in ghost.owed => ghost.failed \/ HoldersOf(s) # {} \/ HeldFor(s)

(* A flag that a step does not touch keeps its holder.                     *)
LEMMA DirtyKept ==
    ASSUME NEW s, DirtyFor(s), HoldersOf(s)' = HoldersOf(s), HeldFor(s)' <=> HeldFor(s),
           IsDirtySource(s)' <=> IsDirtySource(s), s \in ghost'.owed => s \in ghost.owed \/ IsDirtySource(s),
           ghost.failed => ghost'.failed
    PROVE  DirtyFor(s)'
BY DEF DirtyFor

(* Every step leaves each dirty flag a holder that will carry it.          *)
LEMMA DirtyStep ==
    ASSUME TypeOK, Phases, CallsAreAlone, DirtyHasHolder, HolderIsNext, PlaceFitsKind, [Next]_vars
    PROVE  DirtyHasHolder'
<1> SUFFICES ASSUME NEW s \in Sources
             PROVE  DirtyFor(s)'
    BY DEF DirtyHasHolder, DirtyFor
<1>1. DirtyFor(s)
    BY DEF DirtyHasHolder, DirtyFor
<1>2. ASSUME packetQueue' = packetQueue
      PROVE  HoldersOf(s)' = HoldersOf(s)
    BY <1>2 DEF HoldersOf, Source
<1>3. ASSUME sender' = sender
      PROVE  HeldFor(s)' <=> HeldFor(s)
    BY <1>3 DEF HeldFor, Source
<1>4. ASSUME UNCHANGED <<mouse, position, sensors>>
      PROVE  IsDirtySource(s)' <=> IsDirtySource(s)
    BY <1>4, SameDirty
<1>5. ASSUME NEW c \in Callers, Call(c)
      PROVE  DirtyFor(s)'
    <2>1. packetQueue' = packetQueue /\ sender' = sender
        BY <1>5 DEF Call
    <2>2. (IsDirtySource(s)' <=> IsDirtySource(s)) /\ ghost'.failed = ghost.failed
        BY <1>5, CallEffect
    <2>3. s \in ghost'.owed => s \in ghost.owed \/ IsDirtySource(s)
        BY <1>5, CallEffect DEF Locks, Queues
    <2> QED
        BY <1>1, <1>2, <1>3, <2>1, <2>2, <2>3, DirtyKept
<1>6. ASSUME NEW c \in Callers, Allocate(c)
      PROVE  DirtyFor(s)'
    BY <1>1, <1>2, <1>3, <1>4, <1>6, DirtyKept DEF Allocate
<1>7. ASSUME NEW c \in Callers, Offer(c)
      PROVE  DirtyFor(s)'
    <2> DEFINE p == Head(caller[c].todo)
    <2>1. sender' = sender
        BY <1>7 DEF Offer
    <2>2. caller[c].at # "idle" /\ caller[c].todo \in Seq(Packet) /\ caller[c].todo # <<>>
        BY <1>7, CallerTyped DEF CallsAreAlone, Offer
    <2>3. p \in Packet /\ p = caller[c].todo[1] /\ 1 \in 1..Len(caller[c].todo)
        BY <2>2
    <2>4. p.kind \in Batched => ~IsDirtySource(Source(p))
        BY <2>2, <2>3 DEF CallsAreAlone
    <2>5. CASE LbqOfferAnswer(packetQueue) = "success"
        <3>1. Accept(p) /\ MarkQueued(p)
            BY <1>7, <2>5 DEF Offer
        <3> HIDE DEF p
        <3>2. PICK q \in Packet :
                 /\ Queue' = Append(Queue, q)
                 /\ ghost' = [ghost EXCEPT !.accepted = Append(@, q),
                       !.owed = IF p.kind \in Batched THEN @ \cup {Source(p)} ELSE @]
                 /\ q.kind = p.kind /\ (p.kind \in Batched => Source(q) = Source(p))
            BY <2>3, <2>5, <3>1, Accepted
        <3>3. HoldersOf(s)' = HoldersOf(s) \cup
                  (IF q.kind \in Batched /\ Source(q) = s THEN {Len(Queue) + 1} ELSE {})
            BY <3>2, HoldersAppend
        <3>4. IsDirtySource(s)' <=> IsDirtySource(s) \/ (p.kind \in Batched /\ s = Source(p))
            BY <2>3, <3>1, MarkedDirty
        <3>5. /\ ghost'.owed = IF p.kind \in Batched THEN ghost.owed \cup {Source(p)} ELSE ghost.owed
              /\ ghost'.failed = ghost.failed
            BY <3>2 DEF TypeOK
        <3>6. HeldFor(s)' <=> HeldFor(s)
            BY <1>3, <2>1
        <3>7. CASE p.kind \in Batched /\ s = Source(p)
            <4>1. ~IsDirtySource(s)
                BY <2>4, <3>7
            <4>2. HoldersOf(s) = {} /\ ~HeldFor(s)
                BY <1>1, <4>1 DEF DirtyFor
            <4>3. HoldersOf(s)' = {Len(Queue) + 1} /\ ~HeldFor(s)' /\ IsDirtySource(s)'
                BY <3>2, <3>3, <3>4, <3>6, <3>7, <4>2
            <4> QED
                BY <4>3 DEF DirtyFor
        <3>8. CASE ~(p.kind \in Batched /\ s = Source(p))
            <4>1. HoldersOf(s)' = HoldersOf(s)
                BY <3>2, <3>3, <3>8
            <4>2. (IsDirtySource(s)' <=> IsDirtySource(s)) /\ (s \in ghost'.owed => s \in ghost.owed)
                BY <3>4, <3>5, <3>8
            <4> QED
                BY <1>1, <3>5, <3>6, <4>1, <4>2, DirtyKept
        <3> QED
            BY <3>7, <3>8
    <2>6. CASE LbqOfferAnswer(packetQueue) # "success"
        BY <1>1, <1>2, <1>3, <1>4, <1>7, <2>6, DirtyKept DEF Offer
    <2> QED
        BY <2>5, <2>6
<1>8. CASE EnableHaptics
    <2>1. sender' = sender /\ UNCHANGED <<mouse, position, sensors>>
        BY <1>8 DEF EnableHaptics, client
    <2>2. CASE scn.haptics /\ LbqOfferAnswer(packetQueue) = "success"
        <3>1. Plain("haptics") \in Packet /\ Plain("haptics").kind \notin Batched
            BY DEF Plain, Packet, Names, Batched
        <3>2. Accept(Plain("haptics"))
            BY <1>8, <2>2 DEF EnableHaptics
        <3>3. PICK q \in Packet :
                 /\ Queue' = Append(Queue, q)
                 /\ ghost' = [ghost EXCEPT !.accepted = Append(@, q), !.owed = @]
                 /\ q.kind = Plain("haptics").kind
            BY <2>2, <3>1, <3>2, Accepted
        <3>4. HoldersOf(s)' = HoldersOf(s)
            BY <3>1, <3>3, HoldersAppend
        <3>5. ghost'.owed = ghost.owed /\ ghost'.failed = ghost.failed
            BY <3>3 DEF TypeOK
        <3> QED
            BY <1>1, <1>3, <1>4, <2>1, <3>4, <3>5, DirtyKept
    <2>3. CASE ~(scn.haptics /\ LbqOfferAnswer(packetQueue) = "success")
        BY <1>1, <1>2, <1>3, <1>4, <1>8, <2>1, <2>3, DirtyKept DEF EnableHaptics
    <2> QED
        BY <2>2, <2>3
<1>9. CASE Take
    <2>1. sender.at = "wait" /\ ghost' = ghost /\ UNCHANGED <<mouse, position, sensors>> /\ ~HeldFor(s)
        BY <1>9 DEF Take, client, HeldFor
    <2>2. IsDirtySource(s)' <=> IsDirtySource(s)
        BY <1>4, <2>1
    <2>3. CASE LbqWaitAnswer(packetQueue) = "success"
        <3>1. Queue # <<>> /\ Queue' = Tail(Queue)
            BY <1>9, <2>3, Waited DEF Take
        <3>2. sender' = [sender EXCEPT !.at = FirstStep(Head(Queue)), !.holder = Head(Queue)]
            BY <1>9, <2>3 DEF Take, Queue
        <3>3. Head(Queue) \in Packet
            BY <3>1, QueueFields
        <3>4. sender'.at = FirstStep(Head(Queue)) /\ sender'.holder = Head(Queue)
            BY <3>2, SenderFields DEF Hands
        <3>5. FirstStep(Head(Queue)) # "part" /\ (FirstStep(Head(Queue)) = "lock" <=> Head(Queue).kind \in Batched)
            BY <3>3, PacketFields DEF FirstStep, Batched
        <3>6. HeldFor(s)' <=> Head(Queue).kind \in Batched /\ Source(Head(Queue)) = s
            BY <3>4, <3>5 DEF HeldFor, Source
        <3>7. /\ HoldersOf(s) \subseteq 1..Len(Queue)
              /\ \A i \in Int : i \in HoldersOf(s)' <=> i >= 1 /\ i + 1 \in HoldersOf(s)
              /\ HoldersOf(s)' \subseteq Int
              /\ 1 \in HoldersOf(s) <=> HeldFor(s)'
            BY <3>1, <3>6, HoldersTail
        <3>8. \A i, j \in HoldersOf(s) : i = j
            BY <1>1 DEF DirtyFor
        <3>9. CASE HeldFor(s)'
            <4>1. HoldersOf(s)' = {}
                BY <3>7, <3>8, <3>9
            <4>2. IsDirtySource(s)'
                BY <1>1, <2>2, <3>7, <3>9 DEF DirtyFor
            <4> QED
                BY <3>9, <4>1, <4>2 DEF DirtyFor
        <3>10. CASE ~HeldFor(s)'
            <4>1. \A i, j \in HoldersOf(s)' : i = j
                BY <3>7, <3>8
            <4>2. HoldersOf(s) # {} <=> HoldersOf(s)' # {}
                <5>2. \A i \in HoldersOf(s) : i \in Int /\ i >= 1 /\ i # 1
                    BY <3>7, <3>10, QueueFields
                <5>3. \A i \in HoldersOf(s) : i - 1 \in HoldersOf(s)'
                    BY <3>7, <5>2
                <5>4. \A i \in HoldersOf(s)' : i + 1 \in HoldersOf(s)
                    BY <3>7
                <5> QED
                    BY <5>3, <5>4
            <4> QED
                BY <1>1, <2>1, <2>2, <3>10, <4>1, <4>2 DEF DirtyFor
        <3> QED
            BY <3>9, <3>10
    <2>4. CASE LbqWaitAnswer(packetQueue) # "success"
        <3>1. packetQueue' = packetQueue
            BY <1>9, <2>4, Waited DEF Take
        <3>2. ~HeldFor(s)'
            BY <1>9, <2>4, SenderFields DEF Take, HeldFor, Hands
        <3> QED
            BY <1>1, <1>2, <2>1, <2>2, <3>1, <3>2, DirtyKept
    <2> QED
        BY <2>3, <2>4
<1>10. CASE MergeOrGoOn
    <2>1. ghost' = ghost /\ UNCHANGED <<mouse, position, sensors>> /\ ~HeldFor(s)
        BY <1>10 DEF MergeOrGoOn, client, HeldFor
    <2>2. CASE LbqPollAnswer(packetQueue) = "success" /\ CanMerge(sender.holder, Head(Queue))
        <3>1. Queue # <<>> /\ Queue' = Tail(Queue)
            BY <1>10, <2>2, Polled DEF MergeOrGoOn, Queue
        <3>2. Head(Queue) \in Packet
            BY <3>1, QueueFields
        <3>3. Head(Queue).kind \notin Batched
            BY <2>2, <3>2, SenderFields, MergedIsNewer DEF Batched
        <3>4. ~HeldFor(s)'
            BY <1>10, <2>2, SenderFields DEF MergeOrGoOn, HeldFor, Hands, Queue
        <3>5. /\ HoldersOf(s) \subseteq 1..Len(Queue)
              /\ \A i \in Int : i \in HoldersOf(s)' <=> i >= 1 /\ i + 1 \in HoldersOf(s)
              /\ HoldersOf(s)' \subseteq Int
              /\ 1 \notin HoldersOf(s)
            BY <3>1, <3>3, HoldersTail
        <3>6. \A i, j \in HoldersOf(s) : i = j
            BY <1>1 DEF DirtyFor
        <3>7. \A i, j \in HoldersOf(s)' : i = j
            BY <3>5, <3>6
        <3>8. \A i \in HoldersOf(s) : i - 1 \in HoldersOf(s)'
            BY <3>5, QueueFields
        <3>9. \A i \in HoldersOf(s)' : i + 1 \in HoldersOf(s)
            BY <3>5
        <3>10. HoldersOf(s) # {} <=> HoldersOf(s)' # {}
            BY <3>8, <3>9
        <3> QED
            BY <1>1, <1>4, <2>1, <3>4, <3>7, <3>10 DEF DirtyFor
    <2>3. CASE ~(LbqPollAnswer(packetQueue) = "success" /\ CanMerge(sender.holder, Head(Queue)))
        <3>1. packetQueue' = packetQueue /\ sender' = [sender EXCEPT !.at = "send"]
            BY <1>10, <2>3 DEF MergeOrGoOn, Queue
        <3>2. ~HeldFor(s)'
            BY <3>1, SenderFields DEF HeldFor, Hands
        <3> QED
            BY <1>1, <1>2, <1>4, <2>1, <3>1, <3>2, DirtyKept
    <2> QED
        BY <2>2, <2>3
<1>11. CASE LockAndTake
    <2>1. packetQueue' = packetQueue /\ sender.at = "lock" /\ sender.holder.kind \in Batched
        BY <1>11 DEF LockAndTake, PlaceFitsKind
    <2>2. HoldersOf(s)' = HoldersOf(s)
        BY <1>2, <2>1
    <2>3. CASE sender'.at = "part"
        <3>1. sender'.holder = sender.holder
            BY <1>11, <2>3, SenderFields DEF LockAndTake, TakeMove, TakePosition, TakeMotion, Hands
        <3>2. HeldFor(s)' <=> HeldFor(s)
            BY <2>1, <2>3, <3>1 DEF HeldFor, Source
        <3> QED
            BY <1>1, <1>11, <2>2, <2>3, <3>2, TakenClean, DirtyKept
    <2>4. CASE sender'.at # "part"
        <3>1. sender'.at # "lock"
            BY <1>11, <2>4, SenderFields DEF LockAndTake, TakeMove, TakePosition, TakeMotion, Hands
        <3>2. ~HeldFor(s)' /\ (HeldFor(s) <=> s = Source(sender.holder))
            BY <2>1, <2>4, <3>1 DEF HeldFor
        <3>3. CASE s = Source(sender.holder)
            <4>1. HoldersOf(s)' = {} /\ HeldFor(s)
                BY <1>1, <2>2, <3>2, <3>3 DEF DirtyFor
            <4>2. ~IsDirtySource(s)' /\ s \notin ghost'.owed
                BY <1>11, <2>4, <3>3, TakenClean
            <4> QED
                BY <3>2, <4>1, <4>2 DEF DirtyFor
        <3>4. CASE s # Source(sender.holder)
            BY <1>1, <1>11, <2>2, <2>4, <3>2, <3>4, TakenClean, DirtyKept
        <3> QED
            BY <3>3, <3>4
    <2> QED
        BY <2>3, <2>4
<1>12. CASE Send
    <2>1. packetQueue' = packetQueue /\ UNCHANGED <<mouse, position, sensors>>
        BY <1>12 DEF Send, client
    <2>2. CASE SendFails
        <3>1. ghost'.failed /\ ghost'.owed = ghost.owed
            BY <2>2 DEF SendFails, TypeOK
        <3>2. ~HeldFor(s)'
            BY <2>2, SenderFields DEF SendFails, HeldFor, Hands
        <3> QED
            BY <1>1, <1>2, <1>4, <2>1, <3>1, <3>2 DEF DirtyFor
    <2>3. CASE Transmits
        <3>1. PICK then : Transmit(sender.holder, then)
            BY <2>3 DEF Transmits
        <3>2. ghost'.failed = ghost.failed /\ ghost'.owed = ghost.owed
            BY <3>1, SenderFields, TransmitTyped
        <3>3. HeldFor(s)' <=> HeldFor(s)
            BY <2>3, SenderFields DEF Transmits, Transmit, HeldFor, Hands, Source
        <3> QED
            BY <1>1, <1>2, <1>4, <2>1, <3>2, <3>3, DirtyKept
    <2> QED
        BY <1>12, <2>2, <2>3 DEF Send
<1>13. CASE TextMayGo \/ TextEnds \/ CreateThread
    <2>1. packetQueue' = packetQueue /\ ghost' = ghost /\ UNCHANGED <<mouse, position, sensors>>
        BY <1>13 DEF TextMayGo, TextEnds, CreateThread, client
    <2>2. HeldFor(s)' <=> HeldFor(s)
        BY <1>13, SenderFields DEF TextMayGo, TextEnds, CreateThread, Phases, HeldFor, Hands
    <2> QED
        BY <1>1, <1>2, <1>4, <2>1, <2>2, DirtyKept
<1>14. CASE DestroyInputStream
    <2>1. ghost' = ghost /\ sender' = sender /\ UNCHANGED <<mouse, position, sensors>>
          /\ Queue' = <<>> /\ packetQueue' = LbqFlush(packetQueue)
        BY <1>14 DEF DestroyInputStream, client, LbqFlush, Queue, TypeOK, LbqOf
    <2>2. CASE Queue = <<>>
        <3>1. HoldersOf(s)' = HoldersOf(s)
            BY <2>1, <2>2 DEF HoldersOf, Queue, Source
        <3> QED
            BY <1>1, <1>3, <1>4, <2>1, <3>1, DirtyKept
    <2>3. CASE Queue # <<>>
        <3>1. sender.at = "ended" /\ ghost.failed
            BY <1>14, <2>3 DEF DestroyInputStream, Phases, HolderIsNext, Queue
        <3>2. HoldersOf(s)' = {} /\ ~HeldFor(s)'
            BY <2>1, <3>1 DEF HoldersOf, HeldFor, Queue
        <3> QED
            BY <2>1, <3>1, <3>2 DEF DirtyFor
    <2> QED
        BY <2>2, <2>3
<1>15. CASE DrainQueue
    <2>1. ghost' = ghost /\ sender' = sender /\ UNCHANGED <<mouse, position, sensors>> /\ Queue' = Queue
        BY <1>15 DEF DrainQueue, client, LbqDrain, Queue, TypeOK, LbqOf
    <2>2. HoldersOf(s)' = HoldersOf(s)
        BY <2>1 DEF HoldersOf, Queue, Source
    <2> QED
        BY <1>1, <1>3, <1>4, <2>1, <2>2, DirtyKept
<1>16. CASE InitializeInputStream \/ AllowInput \/ Close \/ ShutFreeList \/ JoinInput \/ Peer \/ Ping
            \/ UNCHANGED vars
    <2>1. UNCHANGED <<packetQueue, sender, ghost, mouse, position, sensors>>
        BY <1>16 DEF InitializeInputStream, AllowInput, Close, ShutFreeList, JoinInput, Peer, Acknowledge,
           GiveUp, Ping, vars, client
    <2> QED
        BY <1>1, <1>2, <1>3, <1>4, <2>1, DirtyKept
<1> QED
    BY <1>5, <1>6, <1>7, <1>8, <1>9, <1>10, <1>11, <1>12, <1>13, <1>14, <1>15, <1>16
       DEF Next, Starting, Stopping, InputThread, JoinWaits, Destroyed
-----------------------------------------------------------------------------
(* What an accepted packet and a taken one do to the two ends of the queue.*)
LEMMA Counts ==
    ASSUME TypeOK, QueueIsRecent
    PROVE  /\ Queue \in Seq(Packet) /\ ghost.accepted \in Seq(Packet) /\ ghost.sent \in Seq(Packet)
           /\ Len(Queue) \in Nat /\ Len(ghost.accepted) \in Nat /\ Len(ghost.sent) \in Nat
           /\ TakenCount \in Nat /\ TakenCount = Len(ghost.accepted) - Len(Queue)
           /\ \A i \in 1..Len(Queue) : Queue[i] = ghost.accepted[TakenCount + i]
           /\ \A i \in 1..Len(ghost.accepted) : ghost.accepted[i] \in Packet /\ ghost.accepted[i].n = i
<1>1. ghost.accepted \in Seq(Packet) /\ ghost.sent \in Seq(Packet)
    BY DEF TypeOK
<1>2. \A i \in 1..Len(ghost.accepted) : ghost.accepted[i] \in Packet
    BY <1>1, ElementOfSeq
<1>3. Queue \in Seq(Packet) /\ Len(Queue) \in Nat
    BY QueueFields
<1>4. TakenCount = Len(ghost.accepted) - Len(Queue)
    BY DEF TakenCount, Queue
<1>5. TakenCount \in Nat
    BY DEF QueueIsRecent
<1>6. \A i \in 1..Len(Queue) : Queue[i] = ghost.accepted[TakenCount + i]
    BY DEF QueueIsRecent, Queue
<1>7. \A i \in 1..Len(ghost.accepted) : ghost.accepted[i].n = i
    BY DEF QueueIsRecent
<1>8. Len(ghost.accepted) \in Nat /\ Len(ghost.sent) \in Nat
    BY <1>1
<1> QED
    BY <1>1, <1>2, <1>3, <1>4, <1>5, <1>6, <1>7, <1>8

(* The first packet of the queue is the next one accepted.                 *)
LEMMA HeadIsNext ==
    ASSUME TypeOK, QueueIsRecent, Queue # <<>>
    PROVE  /\ TakenCount + 1 <= Len(ghost.accepted)
           /\ Head(Queue) = ghost.accepted[TakenCount + 1]
           /\ Head(Queue) \in Packet /\ Head(Queue).n = TakenCount + 1
<1>1. Len(Queue) >= 1 /\ Head(Queue) = Queue[1]
    BY Counts
<1> QED
    BY <1>1, Counts

(* An accepted packet goes to the end of the queue.                        *)
LEMMA AcceptKeepsOrder ==
    ASSUME TypeOK, QueueIsRecent, NEW q \in Packet, q.n = Len(ghost.accepted) + 1,
           Queue' = Append(Queue, q), ghost'.accepted = Append(ghost.accepted, q)
    PROVE  /\ QueueIsRecent' /\ TakenCount' = TakenCount
           /\ Len(ghost'.accepted) = Len(ghost.accepted) + 1
           /\ \A i \in 1..Len(ghost.accepted) : ghost'.accepted[i] = ghost.accepted[i]
<1>1. /\ Len(Queue') = Len(Queue) + 1 /\ Queue'[Len(Queue) + 1] = q
      /\ \A i \in 1..Len(Queue) : Queue'[i] = Queue[i]
    BY Counts
<1>2. /\ Len(ghost'.accepted) = Len(ghost.accepted) + 1 /\ ghost'.accepted[Len(ghost.accepted) + 1] = q
      /\ \A i \in 1..Len(ghost.accepted) : ghost'.accepted[i] = ghost.accepted[i]
    BY Counts
<1>3. TakenCount' = TakenCount
    BY <1>1, <1>2, Counts DEF TakenCount, Queue
<1>4. \A i \in 1..Len(Queue') : Queue'[i] = ghost'.accepted[TakenCount + i]
    <2> TAKE i \in 1..Len(Queue')
    <2>1. CASE i <= Len(Queue)
        <3>1. TakenCount + i \in 1..Len(ghost.accepted) /\ i \in 1..Len(Queue)
            BY <1>1, <2>1, Counts
        <3> QED
            BY <1>1, <1>2, <3>1, Counts
    <2>2. CASE i = Len(Queue) + 1
        BY <1>1, <1>2, <2>2, Counts
    <2>3. Len(Queue) \in Nat
        BY Counts
    <2>4. i <= Len(Queue) \/ i = Len(Queue) + 1
        BY <1>1, <2>3
    <2> QED
        BY <2>1, <2>2, <2>4
<1>5. \A i \in 1..Len(ghost'.accepted) : ghost'.accepted[i].n = i
    BY <1>2, Counts
<1> QED
    BY <1>2, <1>3, <1>4, <1>5, Counts DEF QueueIsRecent, Queue

(* A packet that is taken was the next one.                                *)
LEMMA TakeKeepsOrder ==
    ASSUME TypeOK, QueueIsRecent, Queue # <<>>, Queue' = Tail(Queue), ghost'.accepted = ghost.accepted
    PROVE  QueueIsRecent' /\ TakenCount' = TakenCount + 1 /\ Len(Queue') = Len(Queue) - 1
<1>1. /\ Len(Queue) >= 1 /\ Len(Queue') = Len(Queue) - 1
      /\ \A i \in 1..(Len(Queue) - 1) : Queue'[i] = Queue[i + 1]
    BY Counts
<1>2. TakenCount' = TakenCount + 1
    <2>1. TakenCount' = Len(ghost'.accepted) - Len(Queue')
        BY DEF TakenCount, Queue
    <2> QED
        BY <1>1, <2>1, Counts
<1>3. \A i \in 1..Len(Queue') : Queue'[i] = ghost.accepted[TakenCount + 1 + i]
    <2> TAKE i \in 1..Len(Queue')
    <2>1. i \in 1..(Len(Queue) - 1) /\ i + 1 \in 1..Len(Queue)
        BY <1>1, Counts
    <2>2. TakenCount + (i + 1) = TakenCount + 1 + i
        BY <2>1, Counts
    <2> QED
        BY <1>1, <2>1, <2>2, Counts
<1> QED
    BY <1>1, <1>2, <1>3, Counts DEF QueueIsRecent, Queue

(* Steps that touch no packet keep their order.                            *)
LEMMA SameOrder ==
    ASSUME Queue' = Queue, ghost'.accepted = ghost.accepted
    PROVE  TakenCount' = TakenCount /\ (QueueIsRecent => QueueIsRecent')
BY DEF QueueIsRecent, TakenCount, Queue

(* The steps of the thread that takes packets, and of those that queue.    *)
LEMMA RecentStep ==
    ASSUME TypeOK, TypeOK', Phases, CallsAreAlone, QueueIsRecent, HolderIsNext, PlaceFitsKind, [Next]_vars
    PROVE  QueueIsRecent' /\ HolderIsNext' /\ PlaceFitsKind'
<1> USE DEF Active
<1>1. ASSUME Queue' = Queue, ghost'.accepted = ghost.accepted, ghost'.failed = ghost.failed,
             packetQueue.draining => packetQueue'.draining, sender' = sender
      PROVE  QueueIsRecent' /\ HolderIsNext' /\ PlaceFitsKind'
    BY <1>1, SameOrder DEF HolderIsNext, PlaceFitsKind, Queue
<1>2. ASSUME NEW p \in Packet, LbqOfferAnswer(packetQueue) = "success", Accept(p), sender' = sender
      PROVE  QueueIsRecent' /\ HolderIsNext' /\ PlaceFitsKind'
    <2>1. PICK q \in Packet :
             /\ Queue' = Append(Queue, q) /\ q.n = Len(ghost.accepted) + 1
             /\ ghost' = [ghost EXCEPT !.accepted = Append(@, q),
                   !.owed = IF p.kind \in Batched THEN @ \cup {Source(p)} ELSE @]
        BY <1>2, Accepted
    <2>2. ghost'.accepted = Append(ghost.accepted, q) /\ ghost'.failed = ghost.failed
        BY <2>1 DEF TypeOK
    <2>3. ~packetQueue.draining
        BY <1>2, Accepted
    <2>4. /\ QueueIsRecent' /\ TakenCount' = TakenCount
          /\ \A i \in 1..Len(ghost.accepted) : ghost'.accepted[i] = ghost.accepted[i]
        BY <2>1, <2>2, AcceptKeepsOrder
    <2>5. TakenCount >= 1 => TakenCount \in 1..Len(ghost.accepted)
        BY Counts
    <2> QED
        BY <1>2, <2>2, <2>3, <2>4, <2>5 DEF HolderIsNext, PlaceFitsKind
<1>3. ASSUME NEW c \in Callers, Call(c) \/ Allocate(c)
      PROVE  QueueIsRecent' /\ HolderIsNext' /\ PlaceFitsKind'
    <2>1. packetQueue' = packetQueue /\ sender' = sender
        BY <1>3 DEF Call, Allocate
    <2>2. ghost'.accepted = ghost.accepted /\ ghost'.failed = ghost.failed
        BY <1>3, CallEffect DEF Allocate
    <2> QED
        BY <1>1, <2>1, <2>2 DEF Queue
<1>4. ASSUME NEW c \in Callers, Offer(c)
      PROVE  QueueIsRecent' /\ HolderIsNext' /\ PlaceFitsKind'
    <2> DEFINE p == Head(caller[c].todo)
    <2>1. p \in Packet
        BY <1>4, CallerTyped DEF CallsAreAlone, Offer
    <2>2. CASE LbqOfferAnswer(packetQueue) = "success"
        <3>1. Accept(p) /\ sender' = sender
            BY <1>4, <2>2 DEF Offer
        <3> QED
            BY <1>2, <2>1, <2>2, <3>1
    <2>3. CASE LbqOfferAnswer(packetQueue) # "success"
        BY <1>1, <1>4, <2>3 DEF Offer, Queue
    <2> QED
        BY <2>2, <2>3
<1>5. CASE EnableHaptics
    <2>1. Plain("haptics") \in Packet
        BY DEF Plain, Packet, Names
    <2> QED
        BY <1>1, <1>2, <1>5, <2>1 DEF EnableHaptics, Queue
<1>6. CASE Take
    <2>1. ghost' = ghost /\ sender.at = "wait" /\ ~ghost.failed
        BY <1>6 DEF Take, HolderIsNext
    <2>2. CASE LbqWaitAnswer(packetQueue) = "success"
        <3>1. Queue # <<>> /\ Queue' = Tail(Queue)
            BY <1>6, <2>2, Waited DEF Take
        <3>2. sender'.at = FirstStep(Head(Queue)) /\ sender'.holder = Head(Queue)
            BY <1>6, <2>2, SenderFields DEF Take, Queue, Hands
        <3>3. /\ QueueIsRecent' /\ TakenCount' = TakenCount + 1
              /\ Head(Queue) = ghost.accepted[TakenCount + 1] /\ Head(Queue).n = TakenCount + 1
              /\ Head(Queue) \in Packet
            BY <2>1, <3>1, TakeKeepsOrder, HeadIsNext
        <3>4. HolderIsNext'
            BY <2>1, <3>2, <3>3, Counts DEF HolderIsNext, FirstStep
        <3>5. PlaceFitsKind'
            BY <3>2, <3>3, PacketFields DEF PlaceFitsKind, FirstStep, Batched
        <3> QED
            BY <3>3, <3>4, <3>5
    <2>3. CASE LbqWaitAnswer(packetQueue) # "success"
        <3>1. Queue = <<>> /\ packetQueue.draining /\ packetQueue' = packetQueue
            BY <1>6, <2>3, Waited DEF Take
        <3>2. sender'.at = "ended"
            BY <1>6, <2>3, SenderFields DEF Take, Hands
        <3> QED
            BY <2>1, <3>1, <3>2, SameOrder DEF HolderIsNext, PlaceFitsKind, Queue
    <2> QED
        BY <2>2, <2>3
<1>7. CASE MergeOrGoOn
    <2>1. ghost' = ghost /\ sender.at = "merge"
        BY <1>7 DEF MergeOrGoOn
    <2>2. CASE LbqPollAnswer(packetQueue) = "success" /\ CanMerge(sender.holder, Head(Queue))
        <3>1. Queue # <<>> /\ Queue' = Tail(Queue)
            BY <1>7, <2>2, Polled DEF MergeOrGoOn, Queue
        <3>2. /\ QueueIsRecent' /\ TakenCount' = TakenCount + 1
              /\ Head(Queue) = ghost.accepted[TakenCount + 1] /\ Head(Queue).n = TakenCount + 1
              /\ Head(Queue) \in Packet
            BY <2>1, <3>1, TakeKeepsOrder, HeadIsNext
        <3>3. /\ Merged(sender.holder, Head(Queue)) = Head(Queue)
              /\ Head(Queue).kind \in {"multi", "pen"} /\ sender.holder.kind = Head(Queue).kind
              /\ Head(Queue).kind = "pen" => Head(Queue).type = sender.holder.type
            BY <2>2, <3>2, SenderFields, MergedIsNewer
        <3>4. sender'.at = "merge" /\ sender'.holder = Head(Queue)
            <4>1. sender' = [sender EXCEPT !.holder = Merged(sender.holder, Head(Queue))]
                BY <1>7, <2>2 DEF MergeOrGoOn, Queue
            <4> QED
                BY <2>1, <3>3, <4>1, SenderFields DEF Hands
        <3>5. HolderIsNext'
            BY <2>1, <3>2, <3>4, Counts DEF HolderIsNext
        <3>6. PlaceFitsKind'
            BY <2>1, <3>3, <3>4 DEF PlaceFitsKind
        <3> QED
            BY <3>2, <3>5, <3>6
    <2>3. CASE ~(LbqPollAnswer(packetQueue) = "success" /\ CanMerge(sender.holder, Head(Queue)))
        <3>1. packetQueue' = packetQueue /\ sender' = [sender EXCEPT !.at = "send"]
            BY <1>7, <2>3 DEF MergeOrGoOn, Queue
        <3>2. sender'.at = "send" /\ sender'.holder = sender.holder
            BY <3>1, SenderFields DEF Hands
        <3> QED
            BY <2>1, <3>1, <3>2, SameOrder DEF HolderIsNext, PlaceFitsKind, Queue
    <2> QED
        BY <2>2, <2>3
<1>8. CASE LockAndTake
    <2>1. /\ packetQueue' = packetQueue /\ sender.at = "lock"
          /\ ghost'.accepted = ghost.accepted /\ ghost'.failed = ghost.failed
        BY <1>8, TakenClean DEF LockAndTake
    <2>2. QueueIsRecent' /\ TakenCount' = TakenCount
        BY <2>1, SameOrder DEF Queue
    <2>3. CASE sender.holder.kind = "mouse" /\ TakeMove
        <3>1. sender'.at \in {"wait", "part"} /\ sender'.holder = sender.holder
            BY <2>3, SenderFields DEF TakeMove, Hands
        <3> QED
            BY <2>1, <2>2, <2>3, <3>1 DEF HolderIsNext, PlaceFitsKind
    <2>4. CASE sender.holder.kind = "position" /\ TakePosition
        <3>1. sender'.at = "send" /\ sender'.holder.kind = "position" /\ sender'.holder.n = sender.holder.n
            BY <2>4, SenderFields DEF TakePosition, Hands
        <3> QED
            BY <2>1, <2>2, <2>4, <3>1 DEF HolderIsNext, PlaceFitsKind, Batched
    <2>5. CASE sender.holder.kind = "motion" /\ TakeMotion
        <3>1. sender'.at = "send" /\ sender'.holder.kind = "motion" /\ sender'.holder.n = sender.holder.n
            BY <2>5, SenderFields DEF TakeMotion, Hands
        <3> QED
            BY <2>1, <2>2, <2>5, <3>1 DEF HolderIsNext, PlaceFitsKind, Batched
    <2> QED
        BY <1>8, <2>3, <2>4, <2>5 DEF LockAndTake
<1>9. CASE Send
    <2>1. packetQueue' = packetQueue /\ sender.at \in {"send", "part", "point"}
        BY <1>9 DEF Send, Transmits
    <2>2. CASE SendFails
        <3>1. ghost'.failed /\ ghost'.accepted = ghost.accepted
            BY <2>2 DEF SendFails, TypeOK
        <3>2. sender'.at = "ended" /\ sender'.holder = sender.holder
            BY <2>2, SenderFields DEF SendFails, Hands
        <3>3. TakenCount >= 1 /\ sender.holder.n = TakenCount /\ TakenCount' = TakenCount /\ QueueIsRecent'
            BY <2>1, <3>1, SameOrder DEF HolderIsNext, Queue
        <3> QED
            BY <3>1, <3>2, <3>3, Counts DEF HolderIsNext, PlaceFitsKind
    <2>3. CASE Transmits
        <3>1. PICK then : Transmit(sender.holder, then)
            BY <2>3 DEF Transmits
        <3>2. ghost'.failed = ghost.failed /\ ghost'.accepted = ghost.accepted
            BY <3>1, SenderFields, TransmitTyped
        <3>3. /\ sender'.holder = sender.holder
              /\ \/ sender.at = "send" /\ sender'.at = "wait"
                 \/ sender.at = "part" /\ sender'.at = "lock"
                 \/ sender.at = "point" /\ sender'.at = "point"
            BY <2>3, SenderFields DEF Transmits, Transmit, Hands
        <3>4. TakenCount' = TakenCount /\ QueueIsRecent' /\ ~ghost.failed
            BY <2>1, <3>2, SameOrder DEF HolderIsNext, Queue
        <3> QED
            BY <2>1, <3>2, <3>3, <3>4 DEF HolderIsNext, PlaceFitsKind, Batched
    <2> QED
        BY <1>9, <2>2, <2>3 DEF Send
<1>10. CASE TextMayGo \/ TextEnds \/ CreateThread
    <2>1. packetQueue' = packetQueue /\ ghost' = ghost
        BY <1>10 DEF TextMayGo, TextEnds, CreateThread
    <2>2. /\ sender'.holder = sender.holder
          /\ \/ sender.at = "text" /\ sender'.at = "point"
             \/ sender.at = "point" /\ sender'.at = "wait"
             \/ sender.at = "none" /\ sender'.at = "wait"
             \/ sender' = sender
        BY <1>10, SenderFields DEF TextMayGo, TextEnds, CreateThread, Phases, Hands
    <2> QED
        BY <2>1, <2>2, SameOrder DEF HolderIsNext, PlaceFitsKind, Queue
<1>11. CASE DrainQueue
    <2>1. ghost' = ghost /\ sender' = sender /\ Queue' = Queue /\ packetQueue'.draining
        BY <1>11 DEF DrainQueue, LbqDrain, Queue, TypeOK, LbqOf
    <2> QED
        BY <1>1, <2>1
<1>12. CASE DestroyInputStream
    <2>1. ghost' = ghost /\ sender' = sender /\ Queue' = <<>> /\ packetQueue'.draining = packetQueue.draining
        BY <1>12 DEF DestroyInputStream, LbqFlush, Queue, TypeOK, LbqOf
    <2>2. CASE Queue = <<>>
        BY <1>1, <2>1, <2>2
    <2>3. CASE Queue # <<>>
        <3>1. sender.at = "ended" /\ ghost.failed
            BY <1>12, <2>3 DEF DestroyInputStream, Phases, HolderIsNext, Queue
        <3>2. TakenCount' = Len(ghost.accepted) /\ Len(Queue') = 0
            BY <2>1, Counts DEF TakenCount, Queue
        <3>3. QueueIsRecent'
            BY <2>1, <3>2, Counts DEF QueueIsRecent, Queue
        <3>4. sender.holder.n \in 1..TakenCount /\ TakenCount <= Len(ghost.accepted)
            BY <3>1, Counts DEF HolderIsNext
        <3> QED
            BY <2>1, <3>1, <3>2, <3>3, <3>4, Counts DEF HolderIsNext, PlaceFitsKind
    <2> QED
        BY <2>2, <2>3
<1>13. CASE InitializeInputStream \/ AllowInput \/ Close \/ ShutFreeList \/ JoinInput \/ Peer \/ Ping
            \/ UNCHANGED vars
    <2>1. UNCHANGED <<packetQueue, sender, ghost>>
        BY <1>13 DEF InitializeInputStream, AllowInput, Close, ShutFreeList, JoinInput, Peer, Acknowledge,
           GiveUp, Ping, vars
    <2> QED
        BY <1>1, <2>1 DEF Queue
<1> QED
    BY <1>3, <1>4, <1>5, <1>6, <1>7, <1>8, <1>9, <1>10, <1>11, <1>12, <1>13
       DEF Next, Starting, Stopping, InputThread, JoinWaits, Destroyed
-----------------------------------------------------------------------------
(* How often a packet was sent, after one more is.                         *)
LEMMA CountTyped ==
    ASSUME TypeOK, NEW i
    PROVE  IsFiniteSet({j \in DOMAIN ghost.sent : ghost.sent[j].n = i}) /\ Count(i) \in Nat
<1>1. ghost.sent \in Seq(Packet) /\ Len(ghost.sent) \in Nat /\ DOMAIN ghost.sent = 1..Len(ghost.sent)
    BY DEF TypeOK
<1>2. IsFiniteSet(1..Len(ghost.sent))
    BY <1>1, FS_Interval
<1>3. {j \in DOMAIN ghost.sent : ghost.sent[j].n = i} \in SUBSET (1..Len(ghost.sent))
    BY <1>1
<1>4. IsFiniteSet({j \in DOMAIN ghost.sent : ghost.sent[j].n = i})
    BY <1>2, <1>3, FS_Subset
<1> QED
    BY <1>4, FS_CardinalityType DEF Count

(* Sending a packet adds one to how often it was sent.                     *)
LEMMA CountAppend ==
    ASSUME TypeOK, NEW p \in Packet, ghost'.sent = Append(ghost.sent, p), NEW i
    PROVE  /\ Count(i)' = IF p.n = i THEN Count(i) + 1 ELSE Count(i)
           /\ Arrived(i) => Arrived(i)'
           /\ p.n = i => Arrived(i)'
<1> DEFINE S == {j \in DOMAIN ghost.sent : ghost.sent[j].n = i}
           T == {j \in DOMAIN (ghost'.sent) : ghost'.sent[j].n = i}
           k == Len(ghost.sent) + 1
<1>1. ghost.sent \in Seq(Packet) /\ Len(ghost.sent) \in Nat
    BY DEF TypeOK
<1>2. /\ DOMAIN (ghost'.sent) = 1..k /\ DOMAIN ghost.sent = 1..Len(ghost.sent)
      /\ ghost'.sent[k] = p /\ \A j \in 1..Len(ghost.sent) : ghost'.sent[j] = ghost.sent[j]
    BY <1>1
<1>3. T = IF p.n = i THEN S \cup {k} ELSE S
    BY <1>1, <1>2
<1>4. IsFiniteSet(S) /\ k \notin S
    <2>1. k \notin 1..Len(ghost.sent)
        BY <1>1
    <2> QED
        BY <1>2, <2>1, CountTyped
<1>5. Count(i) = Cardinality(S) /\ Count(i)' = Cardinality(T)
    BY DEF Count
<1>6. Arrived(i) = (\E j \in DOMAIN ghost.sent : ghost.sent[j].n = i)
      /\ Arrived(i)' = (\E j \in DOMAIN (ghost'.sent) : ghost'.sent[j].n = i)
    BY DEF Arrived
<1>7. (Arrived(i) => Arrived(i)') /\ (p.n = i => Arrived(i)')
    BY <1>1, <1>2, <1>6
<1> HIDE DEF S, T, k
<1> QED
    BY <1>3, <1>4, <1>5, <1>7, FS_AddElement

(* What is settled stays so while only later packets are sent.             *)
LEMMA SettledKept ==
    ASSUME TypeOK, NEW i \in 1..Len(ghost.accepted), Settled(i), scn' = scn,
           Len(ghost.accepted) \in Nat, Len(ghost'.accepted) \in Nat,
           Len(ghost'.accepted) >= Len(ghost.accepted),
           \A k \in 1..Len(ghost.accepted) : ghost'.accepted[k] = ghost.accepted[k],
           \/ ghost'.sent = ghost.sent
           \/ \E p \in Packet : ghost'.sent = Append(ghost.sent, p) /\ p.n # i
    PROVE  Settled(i)'
<1>1. ghost'.accepted[i] = ghost.accepted[i]
    OBVIOUS
<1>2. Count(i)' = Count(i) /\ (Arrived(i) => Arrived(i)')
    BY CountAppend DEF Count, Arrived
<1>3. Superseded(i) => Superseded(i)'
    <2> SUFFICES ASSUME Superseded(i)
                 PROVE  Superseded(i)'
        OBVIOUS
    <2>1. i + 1 \in 1..Len(ghost.accepted) /\ i < Len(ghost'.accepted)
        BY DEF Superseded
    <2>2. ghost'.accepted[i + 1] = ghost.accepted[i + 1]
        BY <2>1
    <2> QED
        BY <1>1, <2>1, <2>2 DEF Superseded
<1> QED
    BY <1>1, <1>2, <1>3 DEF Settled

(* The histories only grow, and after a failure the thread is still.       *)
LEMMA Grows ==
    ASSUME TypeOK, TypeOK', Phases, CallsAreAlone, QueueIsRecent, HolderIsNext, PlaceFitsKind, [Next]_vars
    PROVE  /\ scn' = scn
           /\ TakenCount' >= TakenCount
           /\ Len(ghost'.accepted) \in Nat /\ Len(ghost'.accepted) >= Len(ghost.accepted)
           /\ \A k \in 1..Len(ghost.accepted) : ghost'.accepted[k] = ghost.accepted[k]
           /\ ghost'.sent = ghost.sent \/ (Send /\ Transmits)
           /\ ghost.failed => ghost'.failed /\ sender' = sender
           /\ ~ghost.failed /\ ghost'.failed => sender'.holder = sender.holder /\ Active
<1>1. TakenCount \in Nat /\ Len(ghost.accepted) \in Nat
    BY Counts
<1>2. ASSUME ghost'.accepted = ghost.accepted, Queue' = Queue \/ Queue' = <<>>
             \/ (Queue # <<>> /\ Queue' = Tail(Queue))
      PROVE  /\ TakenCount' >= TakenCount
             /\ Len(ghost'.accepted) \in Nat /\ Len(ghost'.accepted) >= Len(ghost.accepted)
             /\ \A k \in 1..Len(ghost.accepted) : ghost'.accepted[k] = ghost.accepted[k]
    <2>1. Len(Queue') <= Len(Queue) /\ Len(Queue') \in Nat
        BY <1>2, Counts
    <2>2. TakenCount' = Len(ghost'.accepted) - Len(Queue') /\ TakenCount = Len(ghost.accepted) - Len(Queue)
        BY DEF TakenCount, Queue
    <2> QED
        BY <1>1, <1>2, <2>1, <2>2, Counts
<1>3. ASSUME NEW c \in Callers, Call(c) \/ Allocate(c)
      PROVE  /\ ghost'.accepted = ghost.accepted /\ Queue' = Queue /\ scn' = scn /\ sender' = sender
             /\ ghost'.sent = ghost.sent /\ ghost'.failed = ghost.failed
    BY <1>3, CallEffect DEF Call, Allocate, Queue
<1>4. ASSUME NEW p \in Packet, LbqOfferAnswer(packetQueue) = "success", Accept(p)
      PROVE  /\ TakenCount' = TakenCount
             /\ Len(ghost'.accepted) = Len(ghost.accepted) + 1
             /\ \A k \in 1..Len(ghost.accepted) : ghost'.accepted[k] = ghost.accepted[k]
             /\ ghost'.sent = ghost.sent /\ ghost'.failed = ghost.failed
    <2>1. PICK q \in Packet :
             /\ Queue' = Append(Queue, q) /\ q.n = Len(ghost.accepted) + 1
             /\ ghost' = [ghost EXCEPT !.accepted = Append(@, q),
                   !.owed = IF p.kind \in Batched THEN @ \cup {Source(p)} ELSE @]
        BY <1>4, Accepted
    <2>2. /\ ghost'.accepted = Append(ghost.accepted, q) /\ ghost'.failed = ghost.failed
          /\ ghost'.sent = ghost.sent
        BY <2>1 DEF TypeOK
    <2> QED
        BY <2>1, <2>2, AcceptKeepsOrder
<1>5. ASSUME NEW c \in Callers, Offer(c), LbqOfferAnswer(packetQueue) = "success"
      PROVE  Accept(Head(caller[c].todo)) /\ Head(caller[c].todo) \in Packet
    BY <1>5, CallerTyped DEF CallsAreAlone, Offer
<1>6. ASSUME NEW c \in Callers, Offer(c), LbqOfferAnswer(packetQueue) # "success"
      PROVE  ghost' = ghost /\ Queue' = Queue
    BY <1>6 DEF Offer, Queue
<1>7. ASSUME NEW c \in Callers, Offer(c)
      PROVE  scn' = scn /\ sender' = sender
    BY <1>7 DEF Offer
<1>8. Plain("haptics") \in Packet
    BY DEF Plain, Packet, Names
<1>9. CASE EnableHaptics
    <2>1. scn' = scn /\ sender' = sender
        BY <1>9 DEF EnableHaptics
    <2>2. CASE scn.haptics /\ LbqOfferAnswer(packetQueue) = "success"
        <3>1. Accept(Plain("haptics"))
            BY <1>9, <2>2 DEF EnableHaptics
        <3> QED
            BY <1>1, <1>4, <1>8, <2>1, <2>2, <3>1
    <2>3. CASE ~(scn.haptics /\ LbqOfferAnswer(packetQueue) = "success")
        <3>1. ghost' = ghost /\ Queue' = Queue
            BY <1>9, <2>3 DEF EnableHaptics, Queue
        <3> QED
            BY <1>2, <2>1, <3>1
    <2> QED
        BY <2>2, <2>3
<1>10. CASE Take
    <2>1. scn' = scn /\ ghost' = ghost /\ sender.at = "wait" /\ ~ghost.failed
        BY <1>10 DEF Take, HolderIsNext
    <2>2. Queue' = Queue \/ (Queue # <<>> /\ Queue' = Tail(Queue))
        BY <1>10, Waited DEF Take, Queue
    <2> QED
        BY <1>2, <2>1, <2>2
<1>11. CASE MergeOrGoOn
    <2>1. scn' = scn /\ ghost' = ghost /\ sender.at = "merge" /\ ~ghost.failed
        BY <1>11 DEF MergeOrGoOn, HolderIsNext
    <2>2. Queue' = Queue \/ (Queue # <<>> /\ Queue' = Tail(Queue))
        BY <1>11, Polled DEF MergeOrGoOn, Queue
    <2> QED
        BY <1>2, <2>1, <2>2
<1>12. CASE LockAndTake
    <2>1. /\ scn' = scn /\ Queue' = Queue /\ sender.at = "lock" /\ ~ghost.failed
          /\ ghost'.accepted = ghost.accepted /\ ghost'.sent = ghost.sent /\ ghost'.failed = ghost.failed
        BY <1>12, TakenClean DEF LockAndTake, HolderIsNext, Queue
    <2> QED
        BY <1>2, <2>1
<1>13. CASE Send
    <2>1. scn' = scn /\ Queue' = Queue /\ sender.at \in {"send", "part", "point"} /\ ~ghost.failed
        BY <1>13 DEF Send, Transmits, HolderIsNext, Queue
    <2>2. CASE SendFails
        <3>1. ghost'.accepted = ghost.accepted /\ ghost'.sent = ghost.sent /\ sender'.holder = sender.holder
            BY <2>2, SenderFields DEF SendFails, TypeOK, Hands
        <3> QED
            BY <1>2, <2>1, <3>1 DEF Active
    <2>3. CASE Transmits
        <3>1. PICK then : Transmit(sender.holder, then)
            BY <2>3 DEF Transmits
        <3>2. ghost'.failed = ghost.failed /\ ghost'.accepted = ghost.accepted
            BY <3>1, SenderFields, TransmitTyped
        <3> QED
            BY <1>2, <1>13, <2>1, <2>3, <3>2
    <2> QED
        BY <1>13, <2>2, <2>3 DEF Send
<1>14. CASE TextMayGo \/ TextEnds \/ CreateThread
    <2>1. scn' = scn /\ Queue' = Queue /\ ghost' = ghost
        BY <1>14 DEF TextMayGo, TextEnds, CreateThread, Queue
    <2>2. ~ghost.failed
        BY <1>14 DEF TextMayGo, TextEnds, CreateThread, HolderIsNext, Phases
    <2> QED
        BY <1>2, <2>1, <2>2
<1>15. CASE DrainQueue \/ DestroyInputStream
    <2>1. scn' = scn /\ ghost' = ghost /\ sender' = sender /\ (Queue' = Queue \/ Queue' = <<>>)
        BY <1>15 DEF DrainQueue, DestroyInputStream, LbqDrain, LbqFlush, Queue, TypeOK, LbqOf
    <2> QED
        BY <1>2, <2>1
<1>16. CASE InitializeInputStream \/ AllowInput \/ Close \/ ShutFreeList \/ JoinInput \/ Peer \/ Ping
            \/ UNCHANGED vars
    <2>1. UNCHANGED <<scn, packetQueue, sender, ghost>>
        BY <1>16 DEF InitializeInputStream, AllowInput, Close, ShutFreeList, JoinInput, Peer, Acknowledge,
           GiveUp, Ping, vars
    <2> QED
        BY <1>2, <2>1 DEF Queue
<1>17. ASSUME NEW c \in Callers, Call(c) \/ Allocate(c) \/ Offer(c)
       PROVE  /\ scn' = scn /\ TakenCount' >= TakenCount
              /\ Len(ghost'.accepted) \in Nat /\ Len(ghost'.accepted) >= Len(ghost.accepted)
              /\ \A k \in 1..Len(ghost.accepted) : ghost'.accepted[k] = ghost.accepted[k]
              /\ ghost'.sent = ghost.sent /\ ghost'.failed = ghost.failed /\ sender' = sender
    <2>1. CASE Call(c) \/ Allocate(c)
        BY <1>2, <1>3, <2>1
    <2>2. CASE Offer(c) /\ LbqOfferAnswer(packetQueue) = "success"
        BY <1>1, <1>4, <1>5, <1>7, <2>2
    <2>3. CASE Offer(c) /\ LbqOfferAnswer(packetQueue) # "success"
        BY <1>2, <1>6, <1>7, <2>3
    <2> QED
        BY <1>17, <2>1, <2>2, <2>3
<1> QED
    BY <1>9, <1>10, <1>11, <1>12, <1>13, <1>14, <1>15, <1>16, <1>17
       DEF Next, Starting, Stopping, InputThread, JoinWaits, Destroyed

(* Up to where the thread has got.                                         *)
HasProgressed ==
    /\ LastSent \in 0..TakenCount /\ Done \in 0..TakenCount /\ TakenCount <= Len(ghost.accepted)
    /\ Len(ghost.accepted) \in Nat /\ TakenCount \in Nat
    /\ ~ghost.failed => LastSent = TakenCount /\ (Busy <=> Active)
    /\ ~ghost.failed => Done = IF Active THEN TakenCount - 1 ELSE TakenCount
    /\ ghost.failed => Busy /\ LastSent = sender.holder.n /\ Done = sender.holder.n - 1
    /\ Active => ~ghost.failed /\ TakenCount >= 1 /\ sender.holder.n = TakenCount

(* The packets taken are behind the one in hand.                           *)
LEMMA Progress == TypeOK /\ QueueIsRecent /\ HolderIsNext => HasProgressed
<1> SUFFICES ASSUME TypeOK, QueueIsRecent, HolderIsNext
             PROVE  HasProgressed
    OBVIOUS
<1> USE DEF HasProgressed
<1>1. TakenCount \in Nat /\ Len(ghost.accepted) \in Nat /\ TakenCount <= Len(ghost.accepted)
    BY Counts
<1>2. sender.holder.n \in Nat
    BY SenderFields, PacketFields
<1>3. CASE ghost.failed
    <2>1. sender.at = "ended" /\ sender.holder.n \in 1..TakenCount
        BY <1>3 DEF HolderIsNext
    <2> QED
        BY <1>1, <1>3, <2>1 DEF LastSent, Done, Busy, Active
<1>4. CASE ~ghost.failed
    <2>1. Busy <=> Active
        BY <1>4 DEF Busy, Active
    <2>2. Active => TakenCount >= 1 /\ sender.holder.n = TakenCount
        BY DEF HolderIsNext
    <2> QED
        BY <1>1, <1>2, <1>4, <2>1, <2>2 DEF LastSent, Done
<1> QED
    BY <1>3, <1>4

(* What one transmission does: the packet in hand, which is the one taken  *)
(* last, is sent once more.                                                *)
LEMMA Transmitted ==
    ASSUME TypeOK, QueueIsRecent, HolderIsNext, PlaceFitsKind, Send, Transmits
    PROVE  /\ sender.holder \in Packet /\ sender.holder.n = TakenCount
           /\ Active /\ ~ghost.failed
           /\ ghost'.sent = Append(ghost.sent, sender.holder)
           /\ ghost'.accepted = ghost.accepted /\ ghost'.failed = ghost.failed
           /\ TakenCount' = TakenCount /\ sender'.holder = sender.holder
           /\ \/ sender.at = "send" /\ sender'.at = "wait" /\ sender.holder.kind \notin {"mouse", "text"}
              \/ sender.at = "part" /\ sender'.at = "lock" /\ sender.holder.kind = "mouse"
              \/ /\ sender.at = "point" /\ sender'.at = "point" /\ sender.holder.kind = "text"
                 /\ sender.left > 0 /\ sender'.left = sender.left - 1
<1>1. PICK then : Transmit(sender.holder, then)
    BY DEF Transmits
<1>2. Active
    BY DEF Transmits, Active
<1>3. /\ sender.holder \in Packet /\ ghost'.sent = Append(ghost.sent, sender.holder)
      /\ ghost'.accepted = ghost.accepted /\ ghost'.failed = ghost.failed
    BY <1>1, SenderFields, TransmitTyped
<1>4. packetQueue' = packetQueue
    BY DEF Send
<1>5. TakenCount' = TakenCount
    BY <1>3, <1>4, SameOrder DEF Queue
<1>6. sender' \in {[sender EXCEPT !.at = "wait"], [sender EXCEPT !.at = "lock"], [sender EXCEPT !.left = @ - 1]}
      /\ \/ sender.at = "send" /\ sender' = [sender EXCEPT !.at = "wait"]
         \/ sender.at = "part" /\ sender' = [sender EXCEPT !.at = "lock"]
         \/ sender.at = "point" /\ sender.left > 0 /\ sender' = [sender EXCEPT !.left = @ - 1]
    BY DEF Transmits, Transmit
<1>7. /\ sender'.holder = sender.holder
      /\ \/ sender.at = "send" /\ sender'.at = "wait"
         \/ sender.at = "part" /\ sender'.at = "lock"
         \/ sender.at = "point" /\ sender'.at = "point" /\ sender.left > 0 /\ sender'.left = sender.left - 1
    BY <1>6, SenderFields DEF Hands
<1> QED
    BY <1>2, <1>3, <1>5, <1>7, Progress DEF PlaceFitsKind, HasProgressed

(* What is sent comes in the order of what was accepted.                   *)
LEMMA SentStep ==
    ASSUME TypeOK, TypeOK', Phases, CallsAreAlone, QueueIsRecent, HolderIsNext, PlaceFitsKind,
           QueueIsRecent', HolderIsNext', SentInOrder, [Next]_vars
    PROVE  SentInOrder'
<1>1. HasProgressed /\ HasProgressed'
    BY Progress, PTL
<1> USE DEF HasProgressed
<1>2. LastSent' \in Nat
    BY <1>1
<1>3. LastSent' >= LastSent
    <2>1. TakenCount' >= TakenCount /\ TakenCount' \in Nat
        BY <1>1, Grows
    <2>2. CASE ~ghost'.failed
        BY <1>1, <2>1, <2>2
    <2>3. CASE ghost'.failed /\ ~ghost.failed
        <3>1. sender'.holder = sender.holder /\ Active
            BY <2>3, Grows
        <3> QED
            BY <1>1, <2>3, <3>1
    <2>4. CASE ghost.failed
        <3>1. ghost'.failed /\ sender' = sender
            BY <2>4, Grows
        <3> QED
            BY <1>1, <2>4, <3>1
    <2> QED
        BY <2>2, <2>3, <2>4
<1>4. \A k \in 1..Len(ghost.accepted) : ghost'.accepted[k] = ghost.accepted[k]
    BY Grows
<1>5. \A j \in 1..Len(ghost.sent) :
          /\ ghost.sent[j].n \in 1..LastSent'
          /\ j > 1 => ghost.sent[j - 1].n <= ghost.sent[j].n
          /\ ghost.sent[j].kind \notin Batched => ghost.sent[j] = ghost'.accepted[ghost.sent[j].n]
    <2> TAKE j \in 1..Len(ghost.sent)
    <2>1. /\ ghost.sent[j].n \in 1..LastSent
          /\ j > 1 => ghost.sent[j - 1].n <= ghost.sent[j].n
          /\ ghost.sent[j].kind \notin Batched => ghost.sent[j] = ghost.accepted[ghost.sent[j].n]
        BY DEF SentInOrder
    <2>2. ghost.sent[j].n \in 1..LastSent' /\ ghost.sent[j].n \in 1..Len(ghost.accepted)
        BY <1>1, <1>2, <1>3, <2>1
    <2> QED
        BY <1>4, <2>1, <2>2
<1>6. CASE ghost'.sent = ghost.sent
    BY <1>5, <1>6 DEF SentInOrder
<1>7. CASE Send /\ Transmits
    <2>1. /\ ghost'.sent = Append(ghost.sent, sender.holder) /\ sender.holder.n = TakenCount
          /\ Active /\ ~ghost.failed /\ ~ghost'.failed /\ ghost'.accepted = ghost.accepted
          /\ TakenCount' = TakenCount
        BY <1>7, Transmitted
    <2>2. LastSent = TakenCount /\ LastSent' = TakenCount /\ TakenCount >= 1
        BY <1>1, <2>1
    <2>3. sender.holder.kind \notin Batched => sender.holder = ghost'.accepted[sender.holder.n]
        BY <2>1 DEF HolderIsNext
    <2>4. ghost.sent \in Seq(Packet) /\ Len(ghost.sent) \in Nat
        BY Counts
    <2>5. /\ Len(ghost'.sent) = Len(ghost.sent) + 1 /\ ghost'.sent[Len(ghost.sent) + 1] = sender.holder
          /\ \A j \in 1..Len(ghost.sent) : ghost'.sent[j] = ghost.sent[j]
        BY <2>1, <2>4
    <2> SUFFICES ASSUME NEW j \in 1..Len(ghost'.sent)
                 PROVE  /\ ghost'.sent[j].n \in 1..LastSent'
                        /\ j > 1 => ghost'.sent[j - 1].n <= ghost'.sent[j].n
                        /\ ghost'.sent[j].kind \notin Batched =>
                              ghost'.sent[j] = ghost'.accepted[ghost'.sent[j].n]
        BY DEF SentInOrder
    <2>6. CASE j \in 1..Len(ghost.sent)
        <3>1. j > 1 => j - 1 \in 1..Len(ghost.sent)
            BY <2>4, <2>6
        <3> QED
            BY <1>5, <2>5, <2>6, <3>1
    <2>7. CASE j = Len(ghost.sent) + 1
        <3>1. j > 1 => j - 1 \in 1..Len(ghost.sent) /\ j - 1 = Len(ghost.sent)
            BY <2>4, <2>7
        <3>2. j > 1 => ghost'.sent[j - 1].n \in 1..LastSent
            BY <2>5, <3>1 DEF SentInOrder
        <3> QED
            BY <1>1, <2>1, <2>2, <2>3, <2>5, <2>7, <3>2
    <2> QED
        BY <2>4, <2>5, <2>6, <2>7
<1> QED
    BY <1>6, <1>7, Grows

(* The steps of every other thread leave what the input thread holds.      *)
Bystander ==
    \/ Starting /\ ~CreateThread
    \/ Close \/ Stopping \/ Peer \/ Ping \/ UNCHANGED vars
    \/ \E c \in Callers : Call(c) \/ Allocate(c) \/ Offer(c)

(* Steps of others leave what the input thread has sent.                   *)
LEMMA BystanderFrame ==
    ASSUME TypeOK, Phases, CallsAreAlone, QueueIsRecent, HolderIsNext, Bystander
    PROVE  /\ sender' = sender /\ ghost'.sent = ghost.sent /\ ghost'.failed = ghost.failed
           /\ ~ghost.failed => TakenCount' = TakenCount
<1>1. ASSUME NEW p \in Packet, LbqOfferAnswer(packetQueue) = "success", Accept(p)
      PROVE  TakenCount' = TakenCount /\ ghost'.sent = ghost.sent /\ ghost'.failed = ghost.failed
    <2>1. PICK q \in Packet :
             /\ Queue' = Append(Queue, q) /\ q.n = Len(ghost.accepted) + 1
             /\ ghost' = [ghost EXCEPT !.accepted = Append(@, q),
                   !.owed = IF p.kind \in Batched THEN @ \cup {Source(p)} ELSE @]
        BY <1>1, Accepted
    <2>2. /\ ghost'.accepted = Append(ghost.accepted, q) /\ ghost'.failed = ghost.failed
          /\ ghost'.sent = ghost.sent
        BY <2>1 DEF TypeOK
    <2> QED
        BY <2>1, <2>2, AcceptKeepsOrder
<1>2. ASSUME NEW c \in Callers, Call(c) \/ Allocate(c)
      PROVE  /\ ghost'.accepted = ghost.accepted /\ Queue' = Queue /\ sender' = sender
             /\ ghost'.sent = ghost.sent /\ ghost'.failed = ghost.failed
    BY <1>2, CallEffect DEF Call, Allocate, Queue
<1>3. ASSUME NEW c \in Callers, Offer(c)
      PROVE  /\ sender' = sender /\ ghost'.sent = ghost.sent /\ ghost'.failed = ghost.failed
             /\ TakenCount' = TakenCount
    <2> DEFINE p == Head(caller[c].todo)
    <2>1. p \in Packet /\ sender' = sender
        BY <1>3, CallerTyped DEF CallsAreAlone, Offer
    <2>2. CASE LbqOfferAnswer(packetQueue) = "success"
        <3>1. Accept(p)
            BY <1>3, <2>2 DEF Offer
        <3> QED
            BY <1>1, <2>1, <2>2, <3>1
    <2>3. CASE LbqOfferAnswer(packetQueue) # "success"
        <3>1. ghost' = ghost /\ Queue' = Queue
            BY <1>3, <2>3 DEF Offer, Queue
        <3> QED
            BY <2>1, <3>1, SameOrder
    <2> QED
        BY <2>2, <2>3
<1>4. CASE EnableHaptics
    <2>1. Plain("haptics") \in Packet /\ sender' = sender
        BY <1>4 DEF Plain, Packet, Names, EnableHaptics
    <2>2. CASE scn.haptics /\ LbqOfferAnswer(packetQueue) = "success"
        <3>1. Accept(Plain("haptics"))
            BY <1>4, <2>2 DEF EnableHaptics
        <3> QED
            BY <1>1, <2>1, <2>2, <3>1
    <2>3. CASE ~(scn.haptics /\ LbqOfferAnswer(packetQueue) = "success")
        <3>1. ghost' = ghost /\ Queue' = Queue
            BY <1>4, <2>3 DEF EnableHaptics, Queue
        <3> QED
            BY <2>1, <3>1, SameOrder
    <2> QED
        BY <2>2, <2>3
<1>5. CASE DrainQueue
    <2>1. ghost' = ghost /\ sender' = sender /\ Queue' = Queue
        BY <1>5 DEF DrainQueue, LbqDrain, Queue, TypeOK, LbqOf
    <2> QED
        BY <2>1, SameOrder
<1>6. CASE DestroyInputStream
    <2>1. ghost' = ghost /\ sender' = sender /\ Queue' = <<>>
        BY <1>6 DEF DestroyInputStream, LbqFlush, Queue, TypeOK, LbqOf
    <2>2. ~ghost.failed => Queue = <<>>
        BY <1>6 DEF DestroyInputStream, Phases, HolderIsNext, Queue
    <2> QED
        BY <2>1, <2>2, SameOrder
<1>7. CASE InitializeInputStream \/ AllowInput \/ Close \/ ShutFreeList \/ JoinInput \/ Peer \/ Ping
            \/ UNCHANGED vars
    <2>1. UNCHANGED <<packetQueue, sender, ghost>>
        BY <1>7 DEF InitializeInputStream, AllowInput, Close, ShutFreeList, JoinInput, Peer, Acknowledge,
           GiveUp, Ping, vars
    <2> QED
        BY <2>1, SameOrder DEF Queue
<1> QED
    BY <1>2, <1>3, <1>4, <1>5, <1>6, <1>7, SameOrder DEF Bystander, Starting, Stopping

(* What the thread has not come to was not sent.                           *)
LEMMA NotSentYet ==
    ASSUME TypeOK, SentInOrder, LastSent \in Nat, NEW k \in Nat, k > LastSent
    PROVE  Count(k) = 0
<1>1. DOMAIN ghost.sent = 1..Len(ghost.sent)
    BY DEF TypeOK
<1>2. \A j \in DOMAIN ghost.sent : ghost.sent[j].n # k
    BY <1>1 DEF SentInOrder
<1>3. {j \in DOMAIN ghost.sent : ghost.sent[j].n = k} = {}
    BY <1>2
<1> QED
    BY <1>3, FS_EmptySet DEF Count

(* How far a text is.                                                      *)
CountIn(sent, k) == Cardinality({j \in DOMAIN sent : sent[j].n = k})
TextCounts ==
    /\ sender.at = "text" => CountIn(ghost.sent, sender.holder.n) = 0
    /\ sender.at = "point" => CountIn(ghost.sent, sender.holder.n) + sender.left = sender.holder.points

DoneIsSettled == \A i \in 1..Done : Settled(i)

(* What is past, in its two parts.                                         *)
LEMMA PastParts == PastIsSettled <=> DoneIsSettled /\ TextCounts
BY DEF PastIsSettled, DoneIsSettled, TextCounts, Count, CountIn

(* One more transmission counts.                                           *)
LEMMA OneMore ==
    ASSUME TypeOK, NEW p \in Packet, ghost'.sent = Append(ghost.sent, p)
    PROVE  CountIn(ghost'.sent, p.n) = CountIn(ghost.sent, p.n) + 1 /\ CountIn(ghost.sent, p.n) \in Nat
<1>1. \A k : Count(k)' = IF p.n = k THEN Count(k) + 1 ELSE Count(k)
    BY CountAppend
<1>2. \A k : Count(k) \in Nat
    BY CountTyped
<1>3. \A k : Count(k) = CountIn(ghost.sent, k) /\ Count(k)' = CountIn(ghost'.sent, k)
    BY DEF Count, CountIn
<1> QED
    BY <1>1, <1>2, <1>3

(* What the thread is done with is settled.                                *)
LEMMA PastStep ==
    ASSUME TypeOK, TypeOK', Phases, CallsAreAlone, QueueIsRecent, HolderIsNext, PlaceFitsKind,
           QueueIsRecent', HolderIsNext', PlaceFitsKind', SentInOrder, PastIsSettled, [Next]_vars
    PROVE  PastIsSettled'
<1>1. HasProgressed /\ HasProgressed'
    BY Progress, PTL
<1>2. DoneIsSettled /\ TextCounts
    BY PastParts
<1>3. DoneIsSettled' /\ TextCounts' => PastIsSettled'
    BY PastParts, PTL
<1> USE DEF HasProgressed
<1>4. ASSUME NEW i \in 1..Done', i <= Done
      PROVE  Settled(i)'
    <2>1. i \in 1..Done /\ i \in 1..Len(ghost.accepted)
        BY <1>1, <1>4
    <2>2. Settled(i)
        BY <1>2, <2>1 DEF DoneIsSettled
    <2>3. \/ ghost'.sent = ghost.sent
          \/ \E p \in Packet : ghost'.sent = Append(ghost.sent, p) /\ p.n # i
        <3>1. CASE Send /\ Transmits
            BY <1>1, <2>1, <3>1, Transmitted
        <3> QED
            BY <3>1, Grows
    <2>4. /\ scn' = scn /\ Len(ghost'.accepted) \in Nat /\ Len(ghost'.accepted) >= Len(ghost.accepted)
          /\ \A k \in 1..Len(ghost.accepted) : ghost'.accepted[k] = ghost.accepted[k]
        BY Grows
    <2>5. Len(ghost.accepted) \in Nat
        BY <1>1
    <2> QED
        BY <2>1, <2>2, <2>3, <2>4, <2>5, SettledKept
<1>5. Done \in Nat /\ Done' \in Nat
    BY <1>1
<1> HIDE DEF HasProgressed
<1>6. ASSUME \A i \in 1..Done' : i > Done => Settled(i)', TextCounts'
      PROVE  PastIsSettled'
    BY <1>3, <1>4, <1>5, <1>6 DEF DoneIsSettled
<1>7. ASSUME Done' <= Done, TextCounts'
      PROVE  PastIsSettled'
    BY <1>5, <1>6, <1>7
<1>8. ASSUME ~ghost.failed, ~ghost'.failed
      PROVE  /\ Done = IF Active THEN TakenCount - 1 ELSE TakenCount
             /\ Done' = IF Active' THEN TakenCount' - 1 ELSE TakenCount'
             /\ TakenCount \in Nat /\ Len(ghost.accepted) \in Nat
    BY <1>1, <1>8 DEF HasProgressed
<1>9. CASE Bystander
    <2>1. /\ sender' = sender /\ ghost'.sent = ghost.sent /\ ghost'.failed = ghost.failed
          /\ ~ghost.failed => TakenCount' = TakenCount
        BY <1>9, BystanderFrame
    <2>2. TextCounts'
        BY <1>2, <2>1 DEF TextCounts
    <2>3. Done' = Done
        <3>1. CASE ghost.failed
            BY <1>1, <2>1, <3>1 DEF HasProgressed
        <3>2. CASE ~ghost.failed
            BY <1>8, <2>1, <3>2 DEF Active
        <3> QED
            BY <3>1, <3>2
    <2> QED
        BY <1>5, <1>7, <2>2, <2>3
<1>10. CASE Take
    <2>1. ghost' = ghost /\ sender.at = "wait" /\ ~ghost.failed
        BY <1>10 DEF Take, HolderIsNext
    <2>2. CASE LbqWaitAnswer(packetQueue) = "success"
        <3>1. Queue # <<>> /\ Queue' = Tail(Queue)
            BY <1>10, <2>2, Waited DEF Take
        <3>2. sender'.at = FirstStep(Head(Queue)) /\ sender'.holder = Head(Queue)
            BY <1>10, <2>2, SenderFields DEF Take, Queue, Hands
        <3>3. TakenCount' = TakenCount + 1 /\ Head(Queue).n = TakenCount + 1
            BY <2>1, <3>1, TakeKeepsOrder, HeadIsNext
        <3>4. Active' /\ sender'.at # "point"
            BY <3>2 DEF FirstStep, Active
        <3>5. Done' <= Done
            BY <1>8, <2>1, <3>3, <3>4 DEF Active
        <3>6. LastSent = TakenCount /\ LastSent \in Nat
            BY <1>1, <2>1 DEF HasProgressed
        <3>7. \A k \in Nat : k = TakenCount + 1 => CountIn(ghost.sent, k) = 0
            BY <3>6, NotSentYet DEF Count, CountIn
        <3>8. TakenCount + 1 \in Nat
            BY <1>8, <2>1
        <3>9. TextCounts'
            BY <2>1, <3>2, <3>3, <3>4, <3>7, <3>8 DEF TextCounts
        <3> QED
            BY <1>7, <3>5, <3>9
    <2>3. CASE LbqWaitAnswer(packetQueue) # "success"
        <3>1. packetQueue' = packetQueue
            BY <1>10, <2>3, Waited DEF Take
        <3>2. sender'.at = "ended"
            BY <1>10, <2>3, SenderFields DEF Take, Hands
        <3>3. Done' = Done
            BY <1>8, <2>1, <3>1, <3>2, SameOrder DEF Active, Queue
        <3>4. TextCounts'
            BY <3>2 DEF TextCounts
        <3> QED
            BY <1>5, <1>7, <3>3, <3>4
    <2> QED
        BY <2>2, <2>3
<1>11. CASE MergeOrGoOn
    <2>1. ghost' = ghost /\ sender.at = "merge" /\ Active /\ ~ghost.failed
        BY <1>11 DEF MergeOrGoOn, Active, HolderIsNext
    <2>2. CASE LbqPollAnswer(packetQueue) = "success" /\ CanMerge(sender.holder, Head(Queue))
        <3>1. Queue # <<>> /\ Queue' = Tail(Queue)
            BY <1>11, <2>2, Polled DEF MergeOrGoOn, Queue
        <3>2. /\ TakenCount' = TakenCount + 1 /\ TakenCount + 1 <= Len(ghost.accepted)
              /\ Head(Queue) = ghost.accepted[TakenCount + 1] /\ Head(Queue) \in Packet
            BY <2>1, <3>1, TakeKeepsOrder, HeadIsNext
        <3>3. /\ Head(Queue).kind \in {"multi", "pen"} /\ sender.holder.kind = Head(Queue).kind
              /\ Head(Queue).kind = "multi" =>
                    [Head(Queue) EXCEPT !.axes = sender.holder.axes, !.n = sender.holder.n] = sender.holder
              /\ Head(Queue).kind = "pen" =>
                    Head(Queue).type = sender.holder.type /\ Head(Queue).buttons = sender.holder.buttons
            BY <2>2, <3>2, SenderFields, MergedIsNewer
        <3>4. sender'.at = "merge"
            BY <1>11, <2>1, <2>2, SenderFields DEF MergeOrGoOn, Queue, Hands
        <3>5. Done = TakenCount - 1 /\ Done' = TakenCount
            BY <1>8, <2>1, <3>2, <3>4 DEF Active
        <3>6. TakenCount >= 1 /\ sender.holder = ghost.accepted[TakenCount]
            BY <2>1, <3>3 DEF HolderIsNext, Batched
        <3>7. sender.holder.kind = "pen" => Batchable(sender.holder.type)
            BY <2>1 DEF PlaceFitsKind
        <3>8. ASSUME NEW i \in Nat, i = TakenCount
              PROVE  Settled(i)'
            <4>1. ghost'.accepted[i] = sender.holder /\ ghost'.accepted[i + 1] = Head(Queue)
                  /\ i < Len(ghost'.accepted)
                BY <1>8, <2>1, <3>2, <3>6, <3>8
            <4>2. Superseded(i)'
                BY <3>3, <3>7, <4>1 DEF Superseded
            <4> QED
                BY <3>3, <4>1, <4>2 DEF Settled
        <3>9. TextCounts'
            BY <3>4 DEF TextCounts
        <3>10. \A i \in 1..Done' : i > Done => i \in Nat /\ i = TakenCount
            BY <1>8, <2>1, <3>5
        <3> QED
            BY <1>6, <3>8, <3>9, <3>10
    <2>3. CASE ~(LbqPollAnswer(packetQueue) = "success" /\ CanMerge(sender.holder, Head(Queue)))
        <3>1. packetQueue' = packetQueue /\ sender' = [sender EXCEPT !.at = "send"]
            BY <1>11, <2>3 DEF MergeOrGoOn, Queue
        <3>2. sender'.at = "send"
            BY <3>1, SenderFields DEF Hands
        <3>3. Done' = Done
            BY <1>8, <2>1, <3>1, <3>2, SameOrder DEF Active, Queue
        <3>4. TextCounts'
            BY <3>2 DEF TextCounts
        <3> QED
            BY <1>5, <1>7, <3>3, <3>4
    <2> QED
        BY <2>2, <2>3
<1>12. CASE LockAndTake
    <2>1. /\ packetQueue' = packetQueue /\ sender.at = "lock" /\ Active /\ ~ghost.failed
          /\ ghost'.accepted = ghost.accepted /\ ghost'.failed = ghost.failed
        BY <1>12, TakenClean DEF LockAndTake, Active, HolderIsNext
    <2>2. TakenCount' = TakenCount
        BY <2>1, SameOrder DEF Queue
    <2>3. sender'.at \in {"part", "send"} \/ (sender'.at = "wait" /\ sender.holder.kind = "mouse")
        BY <1>12, SenderFields DEF LockAndTake, TakeMove, TakePosition, TakeMotion, Hands
    <2>4. TextCounts'
        BY <2>3 DEF TextCounts
    <2>5. CASE sender'.at \in {"part", "send"}
        <3>1. Done' = Done
            BY <1>8, <2>1, <2>2, <2>5 DEF Active
        <3> QED
            BY <1>5, <1>7, <2>4, <3>1
    <2>6. CASE sender'.at = "wait" /\ sender.holder.kind = "mouse"
        <3>1. Done = TakenCount - 1 /\ Done' = TakenCount
            BY <1>8, <2>1, <2>2, <2>6 DEF Active
        <3>2. ASSUME NEW i \in Nat, i = TakenCount
              PROVE  Settled(i)'
            BY <2>1, <2>6, <3>2 DEF Settled, HolderIsNext
        <3>3. \A i \in 1..Done' : i > Done => i \in Nat /\ i = TakenCount
            BY <1>8, <2>1, <3>1
        <3> QED
            BY <1>6, <2>4, <3>2, <3>3
    <2> QED
        BY <2>3, <2>5, <2>6
<1>13. CASE Send /\ SendFails
    <2>1. sender'.at = "ended" /\ sender'.holder = sender.holder /\ ghost'.failed /\ Active
        BY <1>13, SenderFields DEF SendFails, Send, Transmits, Active, TypeOK, Hands
    <2>2. Done = TakenCount - 1 /\ Done' = sender.holder.n - 1 /\ sender.holder.n = TakenCount
        BY <1>1, <2>1 DEF HasProgressed
    <2>3. TextCounts'
        BY <2>1 DEF TextCounts
    <2> QED
        BY <1>5, <1>7, <2>2, <2>3
<1>14. CASE Send /\ Transmits
    <2>1. /\ sender.holder \in Packet /\ sender.holder.n = TakenCount
          /\ Active /\ ~ghost.failed
          /\ ghost'.sent = Append(ghost.sent, sender.holder)
          /\ ghost'.accepted = ghost.accepted /\ ghost'.failed = ghost.failed
          /\ TakenCount' = TakenCount /\ sender'.holder = sender.holder
        BY <1>14, Transmitted
    <2>2. CASE sender.at = "send" /\ sender'.at = "wait" /\ sender.holder.kind \notin {"mouse", "text"}
        <3>1. Done = TakenCount - 1 /\ Done' = TakenCount
            BY <1>8, <2>1, <2>2 DEF Active
        <3>2. ASSUME NEW i \in Nat, i = TakenCount
              PROVE  Settled(i)'
            <4>1. Arrived(i)'
                BY <2>1, <3>2, CountAppend
            <4>2. ghost'.accepted[i].kind \notin {"mouse", "text"}
                BY <2>1, <2>2, <3>2 DEF HolderIsNext
            <4> QED
                BY <4>1, <4>2 DEF Settled
        <3>3. \A i \in 1..Done' : i > Done => i \in Nat /\ i = TakenCount
            BY <1>8, <2>1, <3>1
        <3>4. TextCounts'
            BY <2>2 DEF TextCounts
        <3> QED
            BY <1>6, <3>2, <3>3, <3>4
    <2>3. CASE sender.at = "part" /\ sender'.at = "lock" /\ sender.holder.kind = "mouse"
        <3>1. Done' = Done
            BY <1>8, <2>1, <2>3 DEF Active
        <3>2. TextCounts'
            BY <2>3 DEF TextCounts
        <3> QED
            BY <1>5, <1>7, <3>1, <3>2
    <2>4. CASE /\ sender.at = "point" /\ sender'.at = "point" /\ sender.holder.kind = "text"
               /\ sender.left > 0 /\ sender'.left = sender.left - 1
        <3>1. Done' = Done
            BY <1>8, <2>1, <2>4 DEF Active
        <3>2. CountIn(ghost'.sent, sender.holder.n) = CountIn(ghost.sent, sender.holder.n) + 1
              /\ CountIn(ghost.sent, sender.holder.n) \in Nat
            BY <2>1, OneMore
        <3>3. CountIn(ghost.sent, sender.holder.n) + sender.left = sender.holder.points /\ sender.left \in Nat
            BY <1>2, <2>4, SenderFields DEF TextCounts
        <3>4. CountIn(ghost'.sent, sender.holder.n) + sender'.left = sender.holder.points
            BY <2>4, <3>2, <3>3
        <3>5. TextCounts'
            BY <2>1, <2>4, <3>4 DEF TextCounts
        <3> QED
            BY <1>5, <1>7, <3>1, <3>5
    <2> QED
        BY <1>14, <2>2, <2>3, <2>4, Transmitted
<1>15. CASE TextMayGo \/ TextEnds \/ CreateThread
    <2>1. packetQueue' = packetQueue /\ ghost' = ghost /\ scn' = scn
        BY <1>15 DEF TextMayGo, TextEnds, CreateThread
    <2>2. TakenCount' = TakenCount
        BY <2>1, SameOrder DEF Queue
    <2>3. CASE TextMayGo
        <3>1. sender.at = "text" /\ sender.holder.kind = "text" /\ Active /\ ~ghost.failed
            BY <2>3 DEF TextMayGo, Active, HolderIsNext, PlaceFitsKind
        <3>2. sender.holder.points \in Nat
            BY <3>1, SenderFields, PacketFields
        <3>3. sender'.at = "point" /\ sender'.holder = sender.holder /\ sender'.left = sender.holder.points
            BY <2>3, SenderFields DEF TextMayGo, Hands
        <3>4. Done' = Done
            BY <1>8, <2>1, <2>2, <3>1, <3>3 DEF Active
        <3>5. TextCounts'
            BY <1>2, <2>1, <3>1, <3>2, <3>3 DEF TextCounts
        <3> QED
            BY <1>5, <1>7, <3>4, <3>5
    <2>4. CASE TextEnds
        <3>1. sender.at = "point" /\ sender.holder.kind = "text" /\ Active /\ ~ghost.failed
              /\ (sender.left = 0 \/ scn.badText)
            BY <2>4 DEF TextEnds, Active, HolderIsNext, PlaceFitsKind
        <3>2. sender'.at = "wait"
            BY <2>4, SenderFields DEF TextEnds, Hands
        <3>3. Done = TakenCount - 1 /\ Done' = TakenCount
            BY <1>8, <2>1, <2>2, <3>1, <3>2 DEF Active
        <3>4. sender.holder = ghost.accepted[TakenCount] /\ sender.holder.n = TakenCount
            BY <3>1 DEF HolderIsNext, Batched
        <3>5. \A k : CountIn(ghost.sent, k) \in Nat
            BY CountTyped DEF Count, CountIn
        <3>6. CountIn(ghost.sent, TakenCount) = sender.holder.points \/ scn.badText
            BY <1>2, <3>1, <3>4, <3>5 DEF TextCounts
        <3>7. ASSUME NEW i \in Nat, i = TakenCount
              PROVE  Settled(i)'
            <4>1. Count(i)' = CountIn(ghost'.sent, i)
                BY DEF Count, CountIn
            <4>2. Count(i)' = ghost'.accepted[i].points \/ scn'.badText
                BY <2>1, <3>4, <3>6, <3>7, <4>1
            <4>3. ghost'.accepted[i].kind = "text"
                BY <2>1, <3>1, <3>4, <3>7
            <4> QED
                BY <4>2, <4>3 DEF Settled
        <3>8. \A i \in 1..Done' : i > Done => i \in Nat /\ i = TakenCount
            BY <1>8, <2>1, <3>3, <3>1
        <3>9. TextCounts'
            BY <3>2 DEF TextCounts
        <3> QED
            BY <1>6, <3>7, <3>8, <3>9
    <2>5. CASE CreateThread
        <3>1. sender.at = "none" /\ ~ghost.failed /\ sender'.at \in {"none", "wait"}
            BY <2>5, SenderFields DEF CreateThread, Phases, HolderIsNext, Hands
        <3>2. Done' = Done
            BY <1>8, <2>1, <2>2, <3>1 DEF Active
        <3>3. TextCounts'
            BY <3>1 DEF TextCounts
        <3> QED
            BY <1>5, <1>7, <3>2, <3>3
    <2> QED
        BY <1>15, <2>3, <2>4, <2>5
<1> QED
    BY <1>9, <1>10, <1>11, <1>12, <1>13, <1>14, <1>15
       DEF Next, InputThread, Send, Bystander, Starting, Stopping, JoinWaits, Destroyed
-----------------------------------------------------------------------------
(* Moves are added up axis by axis.                                        *)
LEMMA AddTyped ==
    ASSUME NEW d \in Moves, NEW e \in Moves
    PROVE  Add(d, e) \in Moves /\ Sub(d, e) \in Moves /\ Still \in Moves
BY DEF Add, Sub, Still, Moves

(* Sums of movements associate.                                            *)
LEMMA AddMore ==
    ASSUME NEW r \in Moves, NEW d \in Moves, NEW e \in Moves, NEW p \in Moves
    PROVE  Add(Add(r, Add(d, p)), e) = Add(r, Add(Add(d, e), p))
BY DEF Add, Moves

(* A part that is taken off a movement can be added back.                  *)
LEMMA AddPart ==
    ASSUME NEW d \in Moves, NEW p \in Moves
    PROVE  Add(Sub(d, p), p) = Add(d, Still)
BY DEF Add, Sub, Still, Moves

(* What arrives of a movement and what is left of it add up.               *)
LEMMA AddArrives ==
    ASSUME NEW r \in Moves, NEW d \in Moves, NEW p \in Moves
    PROVE  Add(r, Add(d, p)) = Add(Add(r, p), Add(d, Still))
BY DEF Add, Still, Moves

(* A call adds to the movement that is batched what it adds to the         *)
(* movement asked for.                                                     *)
LEMMA CallMoves ==
    ASSUME TypeOK, NEW c \in Callers, Call(c)
    PROVE  /\ ghost'.arrived = ghost.arrived /\ ghost'.failed = ghost.failed /\ sender' = sender
           /\ \/ mouse'.delta = mouse.delta /\ ghost'.moved = ghost.moved
              \/ \E d \in Moves : mouse'.delta = Add(mouse.delta, d) /\ ghost'.moved = Add(ghost.moved, d)
<1>1. PICK call \in scn.calls[c] :
          Move(c, call) \/ Position(c, call) \/ Motion(c, call) \/ Scroll(c, call) \/ Queued(c, call)
    BY DEF Call
<1>2. sender' = sender
    BY DEF Call
<1>3. mouse \in [delta: Moves, dirty: BOOLEAN]
    BY DEF TypeOK
<1>4. CASE Move(c, call)
    <2>1. Holder("mouse") \in Packet /\ Holder("mouse").kind = "mouse" /\ Holder("mouse").kind \in Batched
        BY DEF Holder, Packet, Batched
    <2>2. UnderMutex(c, call, Holder("mouse")) /\ call.fn = "LiSendMouseMoveEvent"
        BY <1>4 DEF Move
    <2>3. /\ ghost'.arrived = ghost.arrived /\ ghost'.failed = ghost.failed
          /\ ghost'.moved = Add(ghost.moved, call.delta)
        BY <2>1, <2>2, UnderMutexLocks
    <2>4. mouse'.delta = Add(mouse.delta, call.delta)
        BY <1>3, <1>4 DEF Move
    <2>5. call.delta \in Moves
        BY <2>2, CallFields
    <2> QED
        BY <1>2, <2>3, <2>4, <2>5
<1>5. CASE Position(c, call)
    <2>1. Holder("position") \in Packet /\ Holder("position").kind = "position"
          /\ Holder("position").kind \in Batched
        BY DEF Holder, Packet, Batched
    <2>2. UnderMutex(c, call, Holder("position")) /\ call.fn = "LiSendMousePositionEvent" /\ mouse' = mouse
        BY <1>5 DEF Position
    <2> QED
        BY <1>2, <2>1, <2>2, UnderMutexLocks
<1>6. CASE Motion(c, call)
    <2> DEFINE h == [kind |-> "motion", sensor |-> <<call.pad % MaxGamepads, call.motion>>,
                     reliable |-> FALSE, n |-> 0]
    <2>1. UnderMutex(c, call, h) /\ call.fn = "LiSendControllerMotionEvent" /\ mouse' = mouse
        BY <1>6 DEF Motion
    <2>2. <<call.pad % MaxGamepads, call.motion>> \in Sensors
        BY <2>1, CallFields
    <2>3. h \in Packet /\ h.kind = "motion" /\ h.kind \in Batched
        BY <2>2 DEF Packet, Batched
    <2> HIDE DEF h
    <2> QED
        BY <1>2, <2>1, <2>3, UnderMutexLocks
<1>7. CASE Scroll(c, call) \/ Queued(c, call)
    BY <1>2, <1>7 DEF Scroll, Queued, client
<1> QED
    BY <1>1, <1>4, <1>5, <1>6, <1>7

(* What has not arrived of the moves.                                      *)
InHand == IF sender.at = "part" THEN sender.part ELSE Still
SumsUp == ~ghost.failed => ghost.moved = Add(ghost.arrived, Add(mouse.delta, InHand))

(* Every step keeps the sum of arrived, in hand and batched movements.     *)
LEMMA MovesStep ==
    ASSUME TypeOK, TypeOK', Phases, CallsAreAlone, QueueIsRecent, HolderIsNext, PlaceFitsKind, MovesAddUp, [Next]_vars
    PROVE  MovesAddUp'
<1>1. \A a \in Axis : sender'.part[a] \in (-Int16Max - 1)..Int16Max
    BY DEF TypeOK, Hands, Parts
<1>2. SumsUp
    BY DEF MovesAddUp, SumsUp, InHand
<1> SUFFICES ASSUME TRUE
             PROVE  SumsUp'
    BY <1>1 DEF MovesAddUp, SumsUp, InHand
<1>3. /\ ghost.moved \in Moves /\ ghost.arrived \in Moves /\ mouse.delta \in Moves
      /\ mouse \in [delta: Moves, dirty: BOOLEAN]
    BY DEF TypeOK
<1>4. sender.part \in Moves /\ Still \in Moves /\ InHand \in Moves
    <2>1. sender.part \in Moves
        BY SenderFields, InputAssumption DEF Parts, Moves
    <2> QED
        BY <2>1 DEF InHand, Still, Moves
<1>5. ASSUME ghost'.moved = ghost.moved, ghost'.arrived = ghost.arrived, ghost'.failed = ghost.failed,
             mouse'.delta = mouse.delta, InHand' = InHand
      PROVE  SumsUp'
    BY <1>2, <1>5 DEF SumsUp
<1>6. ASSUME NEW c \in Callers, Call(c)
      PROVE  SumsUp'
    <2>1. sender' = sender /\ ghost'.arrived = ghost.arrived /\ ghost'.failed = ghost.failed
        BY <1>6, CallMoves
    <2>2. InHand' = InHand
        BY <2>1 DEF InHand
    <2>3. CASE mouse'.delta = mouse.delta /\ ghost'.moved = ghost.moved
        BY <1>5, <2>1, <2>2, <2>3
    <2>4. ASSUME NEW d \in Moves, mouse'.delta = Add(mouse.delta, d), ghost'.moved = Add(ghost.moved, d)
          PROVE  SumsUp'
        BY <1>2, <1>3, <1>4, <2>1, <2>2, <2>4, AddMore DEF SumsUp
    <2> QED
        BY <1>6, <2>3, <2>4, CallMoves
<1>7. ASSUME NEW c \in Callers, Allocate(c)
      PROVE  SumsUp'
    BY <1>5, <1>7 DEF Allocate, InHand
<1>8. ASSUME NEW p \in Packet, LbqOfferAnswer(packetQueue) = "success", Accept(p)
      PROVE  ghost'.moved = ghost.moved /\ ghost'.arrived = ghost.arrived /\ ghost'.failed = ghost.failed
    <2>1. PICK q \in Packet : ghost' = [ghost EXCEPT !.accepted = Append(@, q),
                   !.owed = IF p.kind \in Batched THEN @ \cup {Source(p)} ELSE @]
        BY <1>8, Accepted
    <2> QED
        BY <2>1 DEF TypeOK
<1>9. ASSUME NEW c \in Callers, Offer(c)
      PROVE  SumsUp'
    <2> DEFINE p == Head(caller[c].todo)
    <2>1. p \in Packet /\ sender' = sender
        BY <1>9, CallerTyped DEF CallsAreAlone, Offer
    <2>2. InHand' = InHand
        BY <2>1 DEF InHand
    <2>3. CASE LbqOfferAnswer(packetQueue) = "success"
        <3>1. Accept(p) /\ MarkQueued(p)
            BY <1>9, <2>3 DEF Offer
        <3>2. mouse'.delta = mouse.delta
            BY <1>3, <3>1 DEF MarkQueued
        <3> QED
            BY <1>5, <1>8, <2>1, <2>2, <2>3, <3>1, <3>2
    <2>4. CASE LbqOfferAnswer(packetQueue) # "success"
        <3>1. ghost' = ghost /\ mouse' = mouse
            BY <1>9, <2>4 DEF Offer
        <3> QED
            BY <1>5, <2>2, <3>1
    <2> QED
        BY <2>3, <2>4
<1>10. CASE EnableHaptics
    <2>1. Plain("haptics") \in Packet /\ sender' = sender /\ mouse' = mouse
        BY <1>10 DEF Plain, Packet, Names, EnableHaptics, client
    <2>2. InHand' = InHand
        BY <2>1 DEF InHand
    <2>3. CASE scn.haptics /\ LbqOfferAnswer(packetQueue) = "success"
        BY <1>5, <1>8, <1>10, <2>1, <2>2, <2>3 DEF EnableHaptics
    <2>4. CASE ~(scn.haptics /\ LbqOfferAnswer(packetQueue) = "success")
        BY <1>5, <1>10, <2>1, <2>2, <2>4 DEF EnableHaptics
    <2> QED
        BY <2>3, <2>4
<1>11. CASE Take \/ MergeOrGoOn \/ TextMayGo \/ TextEnds \/ CreateThread
    <2>1. ghost' = ghost /\ mouse' = mouse
        BY <1>11 DEF Take, MergeOrGoOn, TextMayGo, TextEnds, CreateThread, client
    <2>2. sender' = sender \/ (sender'.at # "part" /\ sender.at # "part")
        BY <1>11, SenderFields
           DEF Take, MergeOrGoOn, TextMayGo, TextEnds, CreateThread, Phases, FirstStep, Hands
    <2>3. InHand' = InHand
        BY <2>2 DEF InHand
    <2> QED
        BY <1>5, <2>1, <2>3
<1>12. CASE LockAndTake
    <2>1. sender.at = "lock" /\ ghost'.failed = ghost.failed
          /\ ghost'.moved = ghost.moved /\ ghost'.arrived = ghost.arrived
        BY <1>12, TakenClean DEF LockAndTake
    <2>2. InHand = Still
        BY <2>1 DEF InHand
    <2>3. CASE mouse' = mouse /\ sender'.at # "part"
        <3>1. InHand' = InHand
            BY <2>2, <2>3 DEF InHand, Still
        <3> QED
            BY <1>5, <2>1, <2>3, <3>1
    <2>4. CASE TakeMove /\ LoopEnds(mouse)
        <3>1. mouse'.delta = mouse.delta /\ sender'.at = "wait"
            BY <1>3, <2>4, SenderFields DEF TakeMove, Captured, Hands
        <3>2. InHand' = InHand
            BY <2>2, <3>1 DEF InHand, Still
        <3> QED
            BY <1>5, <2>1, <3>1, <3>2
    <2>5. CASE TakeMove /\ ~LoopEnds(mouse)
        <3>1. /\ mouse' = [mouse EXCEPT !.delta = Sub(mouse.delta, Part(mouse.delta))]
              /\ sender' = [sender EXCEPT !.at = "part", !.part = Part(mouse.delta)]
            BY <2>5 DEF TakeMove
        <3>2. mouse'.delta = Sub(mouse.delta, Part(mouse.delta))
            BY <1>3, <3>1
        <3>3. sender'.at = "part" /\ sender'.part = Part(mouse.delta)
            BY <3>1, SenderFields DEF Hands
        <3>4. Part(mouse.delta) \in Moves
            BY <1>3, PartTyped
        <3>5. Add(mouse'.delta, InHand') = Add(mouse.delta, InHand)
            BY <1>3, <2>2, <3>2, <3>3, <3>4, AddPart DEF InHand
        <3> QED
            BY <1>2, <2>1, <3>5 DEF SumsUp
    <2>6. CASE (TakePosition \/ TakeMotion) /\ UNCHANGED mouse
        BY <2>3, <2>6, SenderFields DEF TakePosition, TakeMotion, Hands
    <2> QED
        BY <1>12, <2>4, <2>5, <2>6 DEF LockAndTake
<1>13. CASE Send /\ SendFails
    <2>1. ghost'.failed
        BY <1>13 DEF SendFails, TypeOK
    <2> QED
        BY <2>1 DEF SumsUp
<1>14. CASE Send /\ Transmits
    <2>1. PICK then : Transmit(sender.holder, then)
        BY <1>14 DEF Transmits
    <2>2. /\ ghost'.moved = ghost.moved /\ ghost'.failed = ghost.failed /\ mouse' = mouse
          /\ ghost'.arrived = IF sender.holder.kind = "mouse" THEN Add(ghost.arrived, sender.part)
                              ELSE ghost.arrived
        BY <1>14, <2>1, SenderFields, TransmitTyped DEF Send, client
    <2>3. CASE sender.at = "part" /\ sender'.at = "lock" /\ sender.holder.kind = "mouse"
        <3>1. InHand = sender.part /\ InHand' = Still
            BY <2>3 DEF InHand, Still
        <3> QED
            BY <1>2, <1>3, <1>4, <2>2, <2>3, <3>1, AddArrives DEF SumsUp
    <2>4. CASE sender.at \in {"send", "point"} /\ sender'.at \in {"wait", "point"}
               /\ sender.holder.kind # "mouse"
        <3>1. InHand' = InHand
            BY <2>4 DEF InHand, Still
        <3> QED
            BY <1>5, <2>2, <2>4, <3>1
    <2> QED
        BY <1>14, <2>3, <2>4, Transmitted
<1>15. CASE InitializeInputStream \/ AllowInput \/ Close \/ Stopping \/ Peer \/ Ping \/ UNCHANGED vars
    <2>1. UNCHANGED <<mouse, sender, ghost>>
        BY <1>15 DEF InitializeInputStream, AllowInput, Close, Stopping, ShutFreeList, DrainQueue, JoinInput,
           DestroyInputStream, Peer, Acknowledge, GiveUp, Ping, vars, client
    <2> QED
        BY <1>5, <2>1 DEF InHand
<1> QED
    BY <1>6, <1>7, <1>9, <1>10, <1>11, <1>12, <1>13, <1>14, <1>15
       DEF Next, Starting, InputThread, Send, JoinWaits, Destroyed
-----------------------------------------------------------------------------
(* A stream that was not started has nothing queued, taken or sent.        *)
LEMMA InitIInv == Init => IInv
<1> SUFFICES ASSUME Init
             PROVE  IInv
    OBVIOUS
<1>1. /\ sender = [at |-> "none", holder |-> Plain("none"), part |-> Still, left |-> 0]
      /\ packetQueue = EmptyLbq(QueueBound) /\ mutex = Nobody
      /\ ghost = [accepted |-> <<>>, sent |-> <<>>, moved |-> Still, arrived |-> Still,
                  owed |-> {}, failed |-> FALSE]
      /\ caller = [c \in Callers |-> Returned]
      /\ mouse = [delta |-> Still, dirty |-> FALSE] /\ position = [at |-> 0, dirty |-> FALSE]
      /\ sensors = [s \in Sensors |-> [value |-> 0, dirty |-> FALSE]]
      /\ control = "off" /\ initialized = FALSE
    BY DEF Init
<1>2. /\ packetQueue.items = <<>> /\ packetQueue \in LbqOf(Packet, QueueBound)
      /\ ~packetQueue.shutdown /\ ~packetQueue.userWake
    BY <1>1 DEF EmptyLbq, LbqOf
<1>3. TypeOK
    <2>1. Still \in Moves /\ Still \in Parts
        BY InputAssumption DEF Still, Moves, Parts
    <2>2. Plain("none") \in Packet
        BY DEF Plain, Packet, Names
    <2>3. sender \in Hands
        BY <1>1, <2>1, <2>2 DEF Hands, Places
    <2>4. Returned \in Entry
        BY DEF Returned, Entry, Functions, Names
    <2>5. caller \in [Callers -> Entry]
        BY <1>1, <2>4
    <2>6. wheel \in Int /\ penButtons \in Nat /\ scn \in Scenarios
        BY DEF Init
    <2>7. sensors \in [Sensors -> [value: Int, dirty: BOOLEAN]]
        BY <1>1
    <2> QED
        BY <1>1, <1>2, <2>1, <2>3, <2>5, <2>6, <2>7 DEF TypeOK
<1>4. Phases
    BY <1>1, <1>2 DEF Phases, CallersOut, Returned
<1>5. CallsAreAlone
    BY <1>1 DEF CallsAreAlone, Returned
<1>6. \A s \in Sources : ~IsDirtySource(s) /\ HoldersOf(s) = {} /\ ~HeldFor(s)
    <2> TAKE s \in Sources
    <2>1. HoldersOf(s) = {} /\ ~HeldFor(s)
        BY <1>1, <1>2 DEF HoldersOf, HeldFor
    <2>2. ~IsDirtySource(s)
        BY <1>1 DEF IsDirtySource, Sources
    <2> QED
        BY <2>1, <2>2
<1>7. DirtyHasHolder
    BY <1>1, <1>6 DEF DirtyHasHolder
<1>8. Len(ghost.accepted) = 0 /\ Len(ghost.sent) = 0 /\ Len(packetQueue.items) = 0 /\ TakenCount = 0
    BY <1>1, <1>2 DEF TakenCount
<1>9. QueueIsRecent
    BY <1>8 DEF QueueIsRecent
<1>10. HolderIsNext /\ PlaceFitsKind
    BY <1>1 DEF HolderIsNext, PlaceFitsKind, Active
<1>11. SentInOrder
    BY <1>8 DEF SentInOrder
<1>12. PastIsSettled
    <2>1. Done = 0
        BY <1>1, <1>8 DEF Done, Busy
    <2> QED
        BY <1>1, <2>1 DEF PastIsSettled
<1>13. MovesAddUp
    <2>1. Still = Add(Still, Add(Still, Still))
        BY DEF Still, Add
    <2>2. \A a \in Axis : Still[a] \in (-Int16Max - 1)..Int16Max
        BY InputAssumption DEF Still
    <2> QED
        BY <1>1, <2>1, <2>2 DEF MovesAddUp
<1> QED
    BY <1>3, <1>4, <1>5, <1>7, <1>9, <1>10, <1>11, <1>12, <1>13 DEF IInv

(* Every step keeps the invariant.                                         *)
LEMMA NextIInv == IInv /\ [Next]_vars => IInv'
<1> SUFFICES ASSUME IInv, [Next]_vars
             PROVE  IInv'
    OBVIOUS
<1>1. /\ TypeOK /\ Phases /\ CallsAreAlone /\ DirtyHasHolder /\ QueueIsRecent /\ HolderIsNext
      /\ PlaceFitsKind /\ SentInOrder /\ PastIsSettled /\ MovesAddUp
    BY DEF IInv
<1>2. TypeOK'
    BY <1>1, TypeStep
<1>3. Phases'
    BY <1>1, <1>2, PhasesStep
<1>4. CallsAreAlone'
    BY <1>1, <1>2, AloneStep
<1>5. DirtyHasHolder'
    BY <1>1, <1>2, DirtyStep
<1>6. QueueIsRecent' /\ HolderIsNext' /\ PlaceFitsKind'
    BY <1>1, <1>2, RecentStep
<1>7. SentInOrder'
    BY <1>1, <1>2, <1>6, SentStep
<1>8. PastIsSettled'
    BY <1>1, <1>2, <1>6, PastStep
<1>9. MovesAddUp'
    BY <1>1, <1>2, MovesStep
<1> QED
    BY <1>2, <1>3, <1>4, <1>5, <1>6, <1>7, <1>8, <1>9 DEF IInv

(* The inductive invariant holds in every state.                           *)
LEMMA Invariance == Spec => []IInv
BY InitIInv, NextIInv, PTL DEF Spec

(* Every packet, call and sum keeps its type, whatever the client does.    *)
THEOREM TypeCorrect == Spec => []TypeOK
<1>1. IInv => TypeOK
    BY DEF IInv
<1> QED
    BY <1>1, Invariance, PTL

(* However many threads call, a batched source never has two holders, and  *)
(* what a call left to a queued holder is never without one.               *)
THEOREM HoldersAreThere == Spec => []PendingHasHolder
<1>1. IInv => PendingHasHolder
    <2> SUFFICES ASSUME IInv, NEW s \in Sources
                 PROVE  /\ Cardinality(HoldersOf(s)) + (IF HeldFor(s) THEN 1 ELSE 0) <= 1
                        /\ s \in ghost.owed => ghost.failed \/ HoldersOf(s) # {} \/ HeldFor(s)
        BY DEF PendingHasHolder
    <2>1. /\ \A i, j \in HoldersOf(s) : i = j
          /\ HeldFor(s) => HoldersOf(s) = {}
          /\ s \in ghost.owed => ghost.failed \/ HoldersOf(s) # {} \/ HeldFor(s)
        BY DEF IInv, DirtyHasHolder
    <2>2. CASE HoldersOf(s) = {}
        <3>1. Cardinality(HoldersOf(s)) = 0
            BY <2>2, FS_EmptySet
        <3> QED
            BY <2>1, <3>1
    <2>3. CASE HoldersOf(s) # {}
        <3>1. PICK i : HoldersOf(s) = {i}
            BY <2>1, <2>3
        <3>2. Cardinality(HoldersOf(s)) = 1
            BY <3>1, FS_Singleton
        <3> QED
            BY <2>1, <2>3, <3>2
    <2> QED
        BY <2>2, <2>3
<1> QED
    BY <1>1, Invariance, PTL

(* The parts a move is split into and what is still to be split add up to  *)
(* what the client moved, and each part fits its 16 bits.                  *)
THEOREM NoMoveIsLost == Spec => []MovesAddUp
<1>1. IInv => MovesAddUp
    BY DEF IInv
<1> QED
    BY <1>1, Invariance, PTL

(* What comes before the thread's place is sent, in the order of the       *)
(* accepted packets, or batched with the next one.                         *)
THEOREM ChangesArrive == Spec => []EveryChangeArrives
<1>1. IInv => EveryChangeArrives
    <2> SUFFICES ASSUME IInv
                 PROVE  EveryChangeArrives
        OBVIOUS
    <2>1. TypeOK /\ QueueIsRecent /\ HolderIsNext /\ SentInOrder /\ PastIsSettled
        BY DEF IInv
    <2>2. HasProgressed
        BY <2>1, Progress
    <2>3. Front - 1 = Done
        <3>1. CASE Busy
            BY <3>1 DEF Front, Done
        <3>2. CASE ~Busy /\ Queue # <<>>
            <4>1. Head(Queue).n = TakenCount + 1 /\ TakenCount \in Nat
                BY <2>1, <2>2, <3>2, HeadIsNext DEF HasProgressed
            <4> QED
                BY <3>2, <4>1 DEF Front, Done, Queue
        <3>3. CASE ~Busy /\ Queue = <<>>
            <4>1. TakenCount = Len(ghost.accepted) /\ TakenCount \in Nat
                BY <2>1, <3>3, Counts
            <4> QED
                BY <3>3, <4>1 DEF Front, Done, Queue
        <3> QED
            BY <3>1, <3>2, <3>3
    <2>4. \A i \in 1..(Front - 1) : Settled(i)
        BY <2>1, <2>3 DEF PastIsSettled
    <2>5. DOMAIN ghost.sent = 1..Len(ghost.sent)
        BY <2>1, Counts
    <2> QED
        BY <2>1, <2>4, <2>5 DEF EveryChangeArrives, SentInOrder
<1> QED
    BY <1>1, Invariance, PTL

(* When stopInputStream has joined the thread, all that was accepted was   *)
(* sent unless sending failed.                                             *)
THEOREM StopIsClean == Spec => []StopDrains
<1>1. IInv => StopDrains
    <2> SUFFICES ASSUME IInv, sender.at = "ended", ~ghost.failed
                 PROVE  (\A i \in DOMAIN ghost.accepted : Settled(i)) /\ ghost.owed = {}
        BY DEF StopDrains
    <2>1. TypeOK /\ QueueIsRecent /\ HolderIsNext /\ PastIsSettled /\ DirtyHasHolder
        BY DEF IInv
    <2>2. packetQueue.items = <<>>
        BY <2>1 DEF HolderIsNext
    <2>3. Done = Len(ghost.accepted)
        <3>1. TakenCount = Len(ghost.accepted)
            BY <2>1, <2>2, Counts DEF Queue
        <3> QED
            BY <3>1 DEF Done, Busy
    <2>4. \A i \in DOMAIN ghost.accepted : Settled(i)
        BY <2>1, <2>3, Counts DEF PastIsSettled
    <2>5. \A s \in Sources : HoldersOf(s) = {} /\ ~HeldFor(s)
        BY <2>2 DEF HoldersOf, HeldFor
    <2>6. ghost.owed \subseteq Sources
        BY <2>1 DEF TypeOK
    <2> QED
        BY <2>1, <2>4, <2>5, <2>6 DEF DirtyHasHolder
<1> QED
    BY <1>1, Invariance, PTL
=============================================================================
