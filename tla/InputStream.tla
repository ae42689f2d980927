----------------------------- MODULE InputStream -----------------------------
(***************************************************************************)
(* InputStream.c: the client's calls queue input for one thread that       *)
(* batches it and sends it on the control stream.  Moves of the mouse and  *)
(* readings of sensors live in shared state under batchedInputMutex: only  *)
(* a holder is queued, and "dirty" says that one is.  Controllers and pens *)
(* are batched in the queue: what follows at once and changes no button    *)
(* replaces what the thread holds.                                         *)
(*                                                                         *)
(* Steps of the client's threads, of the input thread, of the thread that  *)
(* starts and stops the stream, and of the network interleave.  Times are  *)
(* left out: a batching delay is the time between two steps.  INT16_MAX,   *)
(* WHEEL_DELTA and the queue's bound are constants.                        *)
(***************************************************************************)
EXTENDS Integers, FiniteSets, LinkedBlockingQueue

CONSTANTS
    Callers,      \* threads of the client that call LiSend...
    Scenarios,    \* what the client calls and the host it calls it for
    QueueBound,   \* MAX_QUEUED_INPUT_PACKETS
    Int16Max,     \* INT16_MAX, which bounds one relative move
    WheelDelta,   \* LI_WHEEL_DELTA
    MaxGamepads,  \* MAX_GAMEPADS
    GfeGamepads,  \* the controllers GeForce Experience knows
    MaxInTransit  \* unacknowledged commands that are told apart: so many, or more

ASSUME InputAssumption ==
    /\ QueueBound \in Nat \ {0} /\ Int16Max \in Nat \ {0} /\ WheelDelta \in Nat \ {0}
    /\ GfeGamepads \in Nat \ {0} /\ MaxGamepads \in Nat \ {0}
    /\ MaxInTransit \in Nat \ {0}

Nobody  == "nobody"
Axis    == {"x", "y"}
Pads    == 0..(MaxGamepads - 1)
Motions == {"gyro", "accelerometer"}
Sensors == Pads \X Motions

(* The calls of Limelight.h and what of their arguments matters.           *)
PlainCalls == {"LiSendMouseButtonEvent", "LiSendKeyboardEvent2", "LiSendHighResHScrollEvent",
               "LiSendControllerBatteryEvent"}
TouchCalls == {"LiSendTouchEvent", "LiSendControllerTouchEvent"}
EventTypes == {"hover", "down", "up", "move", "cancel", "button only", "hover leave", "cancel all"}
Calls ==
    [fn: {"LiSendMouseMoveEvent"}, delta: [Axis -> Int]]
    \cup [fn: {"LiSendMousePositionEvent"}, at: Int]
    \cup [fn: {"LiSendControllerMotionEvent"}, pad: Nat, motion: Motions, value: Int]
    \cup [fn: {"LiSendHighResScrollEvent"}, amount: Int]
    \cup [fn: {"LiSendMultiControllerEvent"}, pad: Nat, mask: SUBSET Nat, low: Nat, high: Nat, axes: Int]
    \cup [fn: {"LiSendControllerArrivalEvent"}, pad: Nat, mask: SUBSET Nat]
    \cup [fn: {"LiSendUtf8TextEvent"}, points: Nat]
    \cup [fn: {"LiSendPenEvent"}, type: EventTypes, buttons: Nat, at: Int]
    \cup [fn: TouchCalls, type: EventTypes]
    \cup [fn: PlainCalls]

ASSUME ClientAssumption ==
    /\ Nobody \notin Callers
    /\ \A s \in Scenarios, c \in Callers : s.calls[c] \subseteq Calls

VARIABLES
    scn,          \* the scenario: calls, budget, host
    budget,       \* the calls each thread of the client may still make
    control,      \* place of the thread that starts and stops the stream
    initialized, packetQueue, freeList, mutex,
    mouse,        \* currentRelativeMouseState
    position,     \* currentAbsoluteMouseState
    sensors,      \* currentGamepadSensorState
    wheel,        \* batchedScrollDelta
    penButtons,   \* currentPenButtonState
    sender,       \* the input thread and the holder in its hands
    caller,       \* the client's threads
    net,          \* the control stream's peer: reliable commands in transit, and connected
    ghost         \* history: accepted and sent packets, moves, what is owed

client == <<mouse, position, sensors, wheel, penButtons>>
vars == <<scn, budget, control, initialized, packetQueue, freeList, mutex, mouse, position, sensors,
          wheel, penButtons, sender, caller, net, ghost>>

Still  == [a \in Axis |-> 0]
Add(d, e) == [a \in Axis |-> d[a] + e[a]]
(* Clearing the sum instead of taking off what was sent. *)
SubAll(d, e) == Still
Sub(d, e) == [a \in Axis |-> d[a] - e[a]]

Sunshine == scn.host = "sunshine"
Gen5     == scn.host /= "gen3"

(* Packets.  "n" is the packet's place among the accepted ones.            *)
Plain(name)  == [kind |-> "plain", name |-> name, reliable |-> TRUE, n |-> 0]
Holder(kind) == [kind |-> kind, reliable |-> TRUE, n |-> 0]
(* TOUCH_EVENT_IS_BATCHABLE *)
Batchable(type) == type \in {"move", "hover"}

(* sendControllerEventInternal: what is left of a call's arguments.        *)
PadPacket(c) ==
    [kind |-> IF Gen5 THEN "multi" ELSE "controller",
     pad  |-> c.pad % (IF Sunshine THEN MaxGamepads ELSE GfeGamepads),
     mask |-> IF Sunshine THEN c.mask ELSE c.mask \cap 0..(GfeGamepads - 1),
     low  |-> c.low, high |-> IF Sunshine THEN c.high ELSE 0,
     axes |-> c.axes, reliable |-> TRUE, n |-> 0]
ZeroPad(c) == [pad |-> c.pad, mask |-> c.mask, low |-> 0, high |-> 0, axes |-> 0]

(* LiSendHighResScrollEvent: the sum after a scroll, a change of direction *)
(* forgetting the rest, and the packet of WHEEL_DELTA a round of the loop  *)
(* queues for a sum, if it is worth one.                                   *)
Rolled(amount) == (IF wheel * amount < 0 THEN 0 ELSE wheel) + amount
ScrollPacket(amount) == [kind |-> "scroll", amount |-> amount, reliable |-> TRUE, n |-> 0]
Sign(i) == IF i < 0 THEN -1 ELSE 1
Notch(sum) == IF sum * Sign(sum) >= WheelDelta THEN <<ScrollPacket(Sign(sum) * WheelDelta)>> ELSE <<>>

(* The calls only Sunshine understands answer LI_ERR_UNSUPPORTED elsewhere.*)
SunshineOnly == {"LiSendHighResHScrollEvent", "LiSendTouchEvent", "LiSendPenEvent",
    "LiSendControllerTouchEvent", "LiSendControllerMotionEvent", "LiSendControllerBatteryEvent"}
Locked == {"LiSendMouseMoveEvent", "LiSendMousePositionEvent", "LiSendControllerMotionEvent"}

Returned == [at |-> "idle", fn |-> "none", todo |-> <<>>]
Called(c, todo) == [at |-> "allocate", fn |-> c.fn, todo |-> todo]

Init ==
    /\ scn \in Scenarios
    /\ control = "off" /\ initialized = FALSE
    /\ packetQueue = EmptyLbq(QueueBound) /\ freeList = EmptyLbq(QueueBound)
    /\ mutex = Nobody
    /\ mouse = [delta |-> Still, dirty |-> FALSE] /\ position = [at |-> 0, dirty |-> FALSE]
    /\ sensors = [s \in Sensors |-> [value |-> 0, dirty |-> FALSE]]
    /\ wheel = 0 /\ penButtons = 0
    /\ sender = [at |-> "none", holder |-> Plain("none"), part |-> Still, left |-> 0]
    /\ caller = [c \in Callers |-> Returned]
    /\ net = [inTransit |-> 0, up |-> TRUE]
    /\ budget = scn.budget
    /\ ghost = [accepted |-> <<>>, sent |-> <<>>, moved |-> Still, arrived |-> Still,
                owed |-> {}, failed |-> FALSE]

(***************************************************************************)
(* The calls                                                               *)
(***************************************************************************)
(* The source of a batched holder, and its dirty flag.                     *)
IsDirty(fn, sensor) ==
    CASE fn = "LiSendMouseMoveEvent"     -> mouse.dirty
      [] fn = "LiSendMousePositionEvent" -> position.dirty
      [] OTHER                           -> sensors[sensor].dirty
Source(p) == IF p.kind = "motion" THEN p.sensor ELSE <<p.kind>>

(* A caller under the mutex updates the state and needs a holder only when *)
(* none is queued; with one queued the call is done.                       *)
UnderMutex(c, call, holder) ==
    /\ mutex = Nobody
    /\ LET dirty == IsDirty(call.fn, IF holder.kind = "motion" THEN holder.sensor ELSE <<0, "gyro">>)
       IN  /\ caller' = [caller EXCEPT ![c] = IF dirty THEN Returned ELSE Called(call, <<holder>>)]
           /\ mutex' = IF dirty THEN Nobody ELSE c
           /\ ghost' = [ghost EXCEPT
                 !.owed = IF dirty THEN @ \cup {Source(holder)} ELSE @,
                 !.moved = IF holder.kind = "mouse" THEN Add(@, call.delta) ELSE @]

(* LiSendMouseMoveEvent *)
Move(c, call) ==
    /\ call.fn = "LiSendMouseMoveEvent" /\ call.delta /= Still
    /\ mouse' = [mouse EXCEPT !.delta = Add(@, call.delta)]
    /\ UnderMutex(c, call, Holder("mouse"))
    /\ UNCHANGED <<position, sensors, wheel, penButtons>>

(* LiSendMousePositionEvent *)
Position(c, call) ==
    /\ call.fn = "LiSendMousePositionEvent"
    /\ position' = [position EXCEPT !.at = call.at]
    /\ UnderMutex(c, call, Holder("position"))
    /\ UNCHANGED <<mouse, sensors, wheel, penButtons>>

(* LiSendControllerMotionEvent *)
Motion(c, call) ==
    /\ call.fn = "LiSendControllerMotionEvent"
    /\ LET s == <<call.pad % MaxGamepads, call.motion>>
       IN  /\ sensors' = [sensors EXCEPT ![s].value = call.value]
           /\ UnderMutex(c, call, [kind |-> "motion", sensor |-> s, reliable |-> FALSE, n |-> 0])
    /\ UNCHANGED <<mouse, position, wheel, penButtons>>

(* LiSendHighResScrollEvent and LiSendScrollEvent *)
Scroll(c, call) ==
    /\ call.fn = "LiSendHighResScrollEvent" /\ call.amount /= 0
    /\ IF scn.notches
         THEN /\ wheel' = Rolled(call.amount)
              /\ caller' = [caller EXCEPT ![c] =
                    IF Notch(Rolled(call.amount)) = <<>> THEN Returned
                    ELSE Called(call, Notch(Rolled(call.amount)))]
         ELSE /\ caller' = [caller EXCEPT ![c] = Called(call, <<ScrollPacket(call.amount)>>)]
              /\ UNCHANGED wheel
    /\ UNCHANGED <<mutex, mouse, position, sensors, penButtons, ghost>>

(* Every other call queues its packets in order: one, or the arrival of a  *)
(* controller (for Sunshine) and an empty controller event.                *)
PacketsOf(call) ==
    CASE call.fn = "LiSendMultiControllerEvent" -> <<PadPacket(call)>>
      [] call.fn = "LiSendControllerArrivalEvent" ->
            IF Sunshine THEN <<Plain("arrival"), PadPacket(ZeroPad(call))>>
            ELSE <<PadPacket(ZeroPad(call))>>
      [] call.fn = "LiSendUtf8TextEvent" ->
            <<[kind |-> "text", points |-> call.points, reliable |-> TRUE, n |-> 0]>>
      [] call.fn = "LiSendPenEvent" ->
            <<[kind |-> "pen", type |-> call.type, buttons |-> call.buttons,
               at |-> call.at, reliable |-> FALSE, n |-> 0]>>
      [] call.fn \in TouchCalls ->
            <<[Plain(call.fn) EXCEPT !.reliable = ~Batchable(call.type)]>>
      [] OTHER -> <<Plain(call.fn)>>
Queued(c, call) ==
    /\ call.fn \notin Locked \cup {"LiSendHighResScrollEvent"}
    /\ caller' = [caller EXCEPT ![c] = Called(call, PacketsOf(call))]
    /\ UNCHANGED <<mutex, client, ghost>>

(* A call that finds the stream uninitialized, or that the host does not   *)
(* know, changes nothing and is left out.                                  *)
Call(c) ==
    /\ caller[c].at = "idle" /\ initialized /\ budget[c] > 0
    /\ \E call \in scn.calls[c] :
          /\ call.fn \in SunshineOnly => Sunshine
          /\ Move(c, call) \/ Position(c, call) \/ Motion(c, call) \/ Scroll(c, call)
                \/ Queued(c, call)
    /\ budget' = [budget EXCEPT ![c] = @ - 1]
    /\ UNCHANGED <<scn, control, initialized, packetQueue, freeList, sender, net>>

(* LiSendPenEvent: a batchable event that changes no button may be lost.   *)
Prepared(p) ==
    IF p.kind = "pen"
    THEN [p EXCEPT !.reliable = ~(Batchable(p.type) /\ p.buttons = penButtons)] ELSE p

(* A call that fails to unlock when nothing was queued for it. *)
ReleaseAfterQueueing(c) ==
    mutex' = IF mutex = c /\ caller[c].at = "offer" THEN Nobody ELSE mutex
Release(c) == mutex' = IF mutex = c THEN Nobody ELSE mutex

(* allocatePacketHolder: only texts that are not empty ask for a holder of *)
(* their own, which does not look at the free list.  The second packet of  *)
(* an arrival is a call of its own, which looks at initialized again.      *)
HasHolder(p) == \/ p.kind = "text" /\ p.points > 0
                \/ LbqPollAnswer(freeList) /= "interrupted"
Refused(c) == caller[c].fn = "LiSendControllerArrivalEvent" /\ ~initialized
              /\ Head(caller[c].todo).kind \in {"multi", "controller"}
Allocate(c) ==
    /\ caller[c].at = "allocate"
    /\ LET p == Head(caller[c].todo)
       IN  IF HasHolder(p) /\ ~Refused(c)
           THEN /\ caller' = [caller EXCEPT ![c] =
                      [at |-> "offer", fn |-> @.fn, todo |-> [@.todo EXCEPT ![1] = Prepared(p)]]]
                /\ penButtons' = IF p.kind = "pen" THEN p.buttons ELSE penButtons
                /\ UNCHANGED mutex
           ELSE /\ caller' = [caller EXCEPT ![c] = Returned]
                /\ Release(c)
                /\ UNCHANGED penButtons
    /\ UNCHANGED <<scn, budget, control, initialized, packetQueue, freeList, mouse, position, sensors,
                   wheel, sender, net, ghost>>

(* A holder that is queued makes its source dirty; a packet of a batched   *)
(* scroll is taken off the sum.                                            *)
MarkQueued(p) ==
    /\ mouse'    = [mouse EXCEPT !.dirty = @ \/ p.kind = "mouse"]
    /\ position' = [position EXCEPT !.dirty = @ \/ p.kind = "position"]
    /\ sensors'  = IF p.kind = "motion" THEN [sensors EXCEPT ![p.sensor].dirty = TRUE] ELSE sensors
    /\ wheel'    = IF p.kind = "scroll" /\ scn.notches THEN wheel - p.amount ELSE wheel
Accept(p) ==
    LET q == [p EXCEPT !.n = Len(ghost.accepted) + 1]
    IN  /\ packetQueue' = LbqOffer(packetQueue, q)
        /\ ghost' = [ghost EXCEPT !.accepted = Append(@, q),
              !.owed = IF p.kind \in {"mouse", "position", "motion"} THEN @ \cup {Source(p)} ELSE @]

(* What a call still has to queue: a batched scroll reads the sum again,   *)
(* which another thread may have changed.                                  *)
Remaining(c) ==
    LET p == Head(caller[c].todo)
    IN  IF p.kind = "scroll" /\ scn.notches THEN Notch(wheel - p.amount) ELSE Tail(caller[c].todo)
(* LbqOfferQueueItem, and what every call does with its answer: a failure  *)
(* frees the holder and ends the call.                                     *)
Offer(c) ==
    /\ caller[c].at = "offer"
    /\ LET p == Head(caller[c].todo)
           rest == Remaining(c)
       IN  IF LbqOfferAnswer(packetQueue) = "success"
           THEN /\ Accept(p) /\ MarkQueued(p)
                /\ caller' = [caller EXCEPT ![c] =
                      IF rest = <<>> THEN Returned ELSE [at |-> "allocate", fn |-> @.fn, todo |-> rest]]
           ELSE /\ caller' = [caller EXCEPT ![c] = Returned]
                /\ UNCHANGED <<packetQueue, ghost, mouse, position, sensors, wheel>>
    /\ Release(c)
    /\ UNCHANGED <<scn, budget, control, initialized, freeList, penButtons, sender, net>>

(***************************************************************************)
(* The input thread                                                        *)
(***************************************************************************)
FirstStep(p) ==
    CASE p.kind = "multi"    -> "merge"
      [] p.kind = "pen"      -> IF Batchable(p.type) THEN "merge" ELSE "send"
      [] p.kind \in {"mouse", "position", "motion"} -> "lock"
      [] p.kind = "text"     -> "text"
      [] OTHER               -> "send"

(* LbqWaitForQueueElement: the thread ends when the queue is drained.      *)
Take ==
    /\ sender.at = "wait" /\ ~LbqMustWait(packetQueue)
    /\ packetQueue' = LbqWait(packetQueue)
    /\ sender' = IF LbqWaitAnswer(packetQueue) = "success"
                 THEN [sender EXCEPT !.at = FirstStep(Head(packetQueue.items)),
                                     !.holder = Head(packetQueue.items)]
                 ELSE [sender EXCEPT !.at = "ended"]
    /\ UNCHANGED <<scn, budget, control, initialized, freeList, mutex, client, caller, net, ghost>>

(* Batching is allowed for the same controller with the same buttons, and  *)
(* for a pen event of the same type with the same buttons.                 *)
CanMergePads(p, q) ==
    /\ p.kind = "multi" /\ q.kind = "multi"
    /\ q.low = p.low /\ q.high = p.high /\ q.pad = p.pad /\ q.mask = p.mask
CanMergePens(p, q) ==
    /\ p.kind = "pen" /\ q.kind = "pen"
    /\ p.buttons = q.buttons /\ p.type = q.type
(* A batch that forgets the buttons only Sunshine has. *)
CanMergeLowButtons(p, q) ==
    \/ p.kind = "pen" /\ CanMergePens(p, q)
    \/ p.kind = "multi" /\ q.kind = "multi" /\ CanMergePads([p EXCEPT !.high = q.high], q)
CanMerge(p, q) == CanMergePads(p, q) \/ CanMergePens(p, q)
Merged(p, q) == IF p.kind = "multi" THEN [p EXCEPT !.axes = q.axes, !.n = q.n] ELSE q
MergeOrGoOn ==
    /\ sender.at = "merge"
    /\ IF LbqPollAnswer(packetQueue) = "success" /\ CanMerge(sender.holder, Head(packetQueue.items))
       THEN /\ packetQueue' = LbqPoll(packetQueue)
            /\ sender' = [sender EXCEPT !.holder = Merged(@, Head(packetQueue.items))]
       ELSE /\ sender' = [sender EXCEPT !.at = "send"]
            /\ UNCHANGED packetQueue
    /\ UNCHANGED <<scn, budget, control, initialized, freeList, mutex, client, caller, net, ghost>>

(* One round of the loop over the pending move: at most INT16_MAX (or down *)
(* to INT16_MIN) of each axis.                                             *)
Clip(i) == IF i < -Int16Max - 1 THEN -Int16Max - 1 ELSE IF i > Int16Max THEN Int16Max ELSE i
Part(d) == [a \in Axis |-> Clip(d[a])]
LoopEnds(m) == m.delta = Still
(* What was captured stays marked as queued. *)
CapturedStaysDirty(s) == s
Captured(s) == [s EXCEPT !.dirty = FALSE]
TakeMove ==
    IF LoopEnds(mouse)
    THEN /\ mouse' = Captured(mouse)
         /\ sender' = [sender EXCEPT !.at = "wait"]
         /\ ghost' = [ghost EXCEPT !.owed = @ \ {<<"mouse">>}]
    ELSE /\ mouse' = [mouse EXCEPT !.delta = Sub(@, Part(@))]
         /\ sender' = [sender EXCEPT !.at = "part", !.part = Part(mouse.delta)]
         /\ UNCHANGED ghost
TakePosition ==
    /\ sender' = [sender EXCEPT !.at = "send",
                     !.holder = [kind |-> "position", at |-> position.at, reliable |-> TRUE, n |-> @.n]]
    /\ position' = Captured(position)
    /\ ghost' = [ghost EXCEPT !.owed = @ \ {<<"position">>}]
TakeMotion ==
    LET s == sender.holder.sensor
        v == sensors[s].value
    IN  /\ sender' = [sender EXCEPT !.at = "send",
              !.holder = [kind |-> "motion", sensor |-> s, value |-> v,
                          reliable |-> s[2] = "gyro" /\ v = 0, n |-> @.n]]
        /\ sensors' = [sensors EXCEPT ![s] = Captured(@)]
        /\ ghost' = [ghost EXCEPT !.owed = @ \ {s}]
(* Between its lock and its unlock the thread sends nothing: one step.     *)
LockAndTake ==
    /\ sender.at = "lock" /\ mutex = Nobody
    /\ \/ sender.holder.kind = "mouse"    /\ TakeMove     /\ UNCHANGED <<position, sensors>>
       \/ sender.holder.kind = "position" /\ TakePosition /\ UNCHANGED <<mouse, sensors>>
       \/ sender.holder.kind = "motion"   /\ TakeMotion   /\ UNCHANGED <<mouse, position>>
    /\ UNCHANGED <<scn, budget, control, initialized, packetQueue, freeList, mutex, wheel, penButtons,
                   caller, net>>

(* isControlDataInTransit, and the text that waits for it to be false: the *)
(* thread looks every 10 ms, so it may miss a short silence.               *)
InTransit == Gen5 /\ net.up /\ net.inTransit > 0
TextMayGo ==
    /\ sender.at = "text" /\ ~InTransit
    /\ sender' = [sender EXCEPT !.at = "point", !.left = sender.holder.points]
    /\ UNCHANGED <<scn, budget, control, initialized, packetQueue, freeList, mutex, client, caller, net, ghost>>

(* One more reliable command in transit. *)
MoreInTransit(n) == IF n < MaxInTransit THEN n + 1 ELSE n
(* sendInputPacket: what is sent, where the thread goes on, and whether    *)
(* the peer has one more command to acknowledge.  GeForce Experience is    *)
(* sent reliable packets only.                                             *)
Transmit(p, then) ==
    /\ Gen5 => net.up
    /\ net' = [net EXCEPT !.inTransit = IF Gen5 /\ (p.reliable \/ ~Sunshine) THEN MoreInTransit(@) ELSE @]
    /\ sender' = then
    /\ ghost' = [ghost EXCEPT !.sent = Append(@, p),
                    !.arrived = IF p.kind = "mouse" THEN Add(@, sender.part) ELSE @]
(* A failure is reported to the client, and the thread returns.            *)
SendFails ==
    /\ (Gen5 /\ ~net.up) \/ scn.faults
    /\ sender' = [sender EXCEPT !.at = "ended"]
    /\ ghost' = [ghost EXCEPT !.failed = TRUE]
    /\ UNCHANGED net
Transmits ==
    \/ sender.at = "send" /\ Transmit(sender.holder, [sender EXCEPT !.at = "wait"])
    \/ sender.at = "part" /\ Transmit(sender.holder, [sender EXCEPT !.at = "lock"])
    \/ sender.at = "point" /\ sender.left > 0
         /\ Transmit(sender.holder, [sender EXCEPT !.left = @ - 1])
Send ==
    /\ \/ Transmits
       \/ /\ sender.at \in {"send", "part"} \/ (sender.at = "point" /\ sender.left > 0)
          /\ SendFails
    /\ UNCHANGED <<scn, budget, control, initialized, packetQueue, freeList, mutex, client, caller>>

(* The text is sent, or starts a code point with an invalid byte.          *)
TextEnds ==
    /\ sender.at = "point" /\ (sender.left = 0 \/ scn.badText)
    /\ sender' = [sender EXCEPT !.at = "wait"]
    /\ UNCHANGED <<scn, budget, control, initialized, packetQueue, freeList, mutex, client, caller, net, ghost>>

InputThread == Take \/ MergeOrGoOn \/ LockAndTake \/ TextMayGo \/ Send \/ TextEnds

(***************************************************************************)
(* Starting and stopping                                                   *)
(***************************************************************************)
ControlStep(from, to) == control = from /\ control' = to
CallersOut == \A c \in Callers : caller[c].at = "idle"

InitializeInputStream ==
    /\ ControlStep("off", "start")
    /\ UNCHANGED <<scn, budget, initialized, packetQueue, freeList, mutex, client, sender, caller, net, ghost>>
CreateThread ==
    /\ control = "start"
    /\ \/ control' = "created" /\ sender' = [sender EXCEPT !.at = "wait"]
       \/ scn.faults /\ control' = "failed" /\ UNCHANGED sender
    /\ UNCHANGED <<scn, budget, initialized, packetQueue, freeList, mutex, client, caller, net, ghost>>
AllowInput ==
    /\ ControlStep("created", "haptics")
    /\ initialized' = TRUE
    /\ UNCHANGED <<scn, budget, packetQueue, freeList, mutex, client, sender, caller, net, ghost>>
(* sendEnableHaptics: scn.haptics is APP_VERSION_AT_LEAST(7, 1, 0).         *)
EnableHaptics ==
    /\ ControlStep("haptics", "running")
    /\ IF scn.haptics /\ LbqOfferAnswer(packetQueue) = "success"
       THEN Accept(Plain("haptics")) ELSE UNCHANGED <<packetQueue, ghost>>
    /\ UNCHANGED <<scn, budget, initialized, freeList, mutex, client, sender, caller, net>>

(* stopInputStream *)
Close ==
    /\ ControlStep("running", "closed")
    /\ initialized' = FALSE
    /\ UNCHANGED <<scn, budget, packetQueue, freeList, mutex, client, sender, caller, net, ghost>>
ShutFreeList ==
    /\ ControlStep("closed", "drain")
    /\ freeList' = LbqShutdown(freeList)
    /\ UNCHANGED <<scn, budget, initialized, packetQueue, mutex, client, sender, caller, net, ghost>>
(* Shutting the queue down instead of draining it. *)
ShutQueue ==
    /\ ControlStep("drain", "join")
    /\ packetQueue' = LbqShutdown(packetQueue)
    /\ UNCHANGED <<scn, budget, initialized, freeList, mutex, client, sender, caller, net, ghost>>
DrainQueue ==
    /\ ControlStep("drain", "join")
    /\ packetQueue' = LbqDrain(packetQueue)
    /\ UNCHANGED <<scn, budget, initialized, freeList, mutex, client, sender, caller, net, ghost>>
JoinInput ==
    /\ sender.at = "ended"
    /\ ControlStep("join", "stopped")
    /\ UNCHANGED <<scn, budget, initialized, packetQueue, freeList, mutex, client, sender, caller, net, ghost>>
(* Until then the join waits. *)
JoinWaits == control = "join" /\ UNCHANGED vars
(* destroyInputStream frees the queue and the mutex: the client has ended  *)
(* its calls by then, an assumption on the client.                         *)
DestroyInputStream ==
    /\ control \in {"stopped", "failed"} /\ CallersOut
    /\ control' = "destroyed"
    /\ packetQueue' = LbqFlush(packetQueue)
    /\ UNCHANGED <<scn, budget, initialized, freeList, mutex, client, sender, caller, net, ghost>>
Destroyed == control = "destroyed" /\ UNCHANGED vars

Starting == InitializeInputStream \/ CreateThread \/ AllowInput \/ EnableHaptics
Stopping == ShutFreeList \/ DrainQueue \/ JoinInput \/ DestroyInputStream

(***************************************************************************)
(* The control stream's peer (Enet models it): each reliable command is    *)
(* acknowledged or the peer is given up, and lossStatsThreadFunc sends a   *)
(* reliable ping every 100 ms, whatever is still in transit.  The answer   *)
(* of isControlDataInTransit is FALSE only when all are acknowledged.      *)
(***************************************************************************)
Acknowledge ==
    /\ net.up /\ net.inTransit > 0
    /\ net' = [net EXCEPT !.inTransit = @ - 1]
    /\ UNCHANGED <<scn, budget, control, initialized, packetQueue, freeList, mutex, client, sender, caller, ghost>>
Ping ==
    /\ Gen5 /\ net.up /\ scn.pings
    /\ net' = [net EXCEPT !.inTransit = MoreInTransit(@)]
    /\ UNCHANGED <<scn, budget, control, initialized, packetQueue, freeList, mutex, client, sender, caller, ghost>>
GiveUp ==
    /\ scn.faults /\ InTransit
    /\ net' = [net EXCEPT !.up = FALSE]
    /\ UNCHANGED <<scn, budget, control, initialized, packetQueue, freeList, mutex, client, sender, caller, ghost>>
Peer == Acknowledge \/ GiveUp

Next ==
    \/ Starting \/ Close \/ Stopping \/ JoinWaits \/ Destroyed
    \/ \E c \in Callers : Call(c) \/ Allocate(c) \/ Offer(c)
    \/ InputThread \/ Peer \/ Ping

Fairness ==
    /\ WF_vars(Starting) /\ WF_vars(Stopping)
    /\ \A c \in Callers : WF_vars(Allocate(c)) /\ WF_vars(Offer(c))
    /\ WF_vars(Take) /\ WF_vars(MergeOrGoOn) /\ WF_vars(LockAndTake)
    /\ WF_vars(TextMayGo) /\ WF_vars(Send) /\ WF_vars(TextEnds)
    /\ WF_vars(Peer)

Spec == Init /\ [][Next]_vars /\ Fairness

(***************************************************************************)
(* Properties                                                              *)
(***************************************************************************)
Busy == sender.at \notin {"none", "wait"} /\ (sender.at = "ended" => ghost.failed)
Batched == {"mouse", "position", "motion"}
HoldersOf(s) == {i \in DOMAIN packetQueue.items :
    packetQueue.items[i].kind \in Batched /\ Source(packetQueue.items[i]) = s}
HeldFor(s) == sender.at \in {"lock", "part"} /\ Source(sender.holder) = s
Sources == Sensors \cup {<<"mouse">>, <<"position">>}

(* A dirty source has one holder in the queue or in the hands of the input *)
(* thread, and what a call accepted into the shared state is never left    *)
(* behind without one: "There's already a packet holder queued to send     *)
(* this event" is true whenever a call relies on it.                       *)
PendingHasHolder ==
    \A s \in Sources :
        /\ Cardinality(HoldersOf(s)) + (IF HeldFor(s) THEN 1 ELSE 0) <= 1
        /\ s \in ghost.owed => ghost.failed \/ HoldersOf(s) /= {} \/ HeldFor(s)

(* No part of a move is lost or sent twice, however the client's calls     *)
(* fall between the packets a long move is split into, and whatever calls  *)
(* failed in between; each packet fits the 16 bits it has.                 *)
MovesAddUp ==
    /\ ~ghost.failed => ghost.moved =
          Add(ghost.arrived, Add(mouse.delta, IF sender.at = "part" THEN sender.part ELSE Still))
    /\ \A a \in Axis : sender.part[a] \in (-Int16Max - 1)..Int16Max

(* The host sees every accepted event in order.  One that it never sees    *)
(* was followed at once by an event it was batched with, and that changes  *)
(* no button, controller, mask or type; a text arrives whole.              *)
Arrived(i) == \E j \in DOMAIN ghost.sent : ghost.sent[j].n = i
Count(i)   == Cardinality({j \in DOMAIN ghost.sent : ghost.sent[j].n = i})
Superseded(i) ==
    /\ i < Len(ghost.accepted)
    /\ LET p == ghost.accepted[i]
           q == ghost.accepted[i + 1]
       IN  \/ p.kind = "multi" /\ q.kind = "multi" /\ [q EXCEPT !.axes = p.axes, !.n = p.n] = p
           \/ p.kind = "pen" /\ q.kind = "pen" /\ Batchable(p.type)
                /\ q.type = p.type /\ q.buttons = p.buttons
Settled(i) ==
    LET p == ghost.accepted[i]
    IN  CASE p.kind = "mouse" -> TRUE
          [] p.kind = "text"  -> Count(i) = p.points \/ scn.badText
          [] OTHER            -> Arrived(i) \/ Superseded(i)
Front == IF Busy THEN sender.holder.n
         ELSE IF packetQueue.items /= <<>> THEN Head(packetQueue.items).n
         ELSE Len(ghost.accepted) + 1
EveryChangeArrives ==
    /\ \A i \in 1..(Front - 1) : i \in DOMAIN ghost.accepted => Settled(i)
    /\ \A j \in DOMAIN ghost.sent :
          /\ j > 1 => ghost.sent[j - 1].n <= ghost.sent[j].n
          /\ ghost.sent[j].kind \notin Batched => ghost.sent[j] = ghost.accepted[ghost.sent[j].n]

(* stopInputStream returns when all that was accepted was sent: the key    *)
(* that is released last is released on the host.                          *)
StopDrains ==
    control \in {"stopped", "destroyed"} /\ sender.at = "ended" /\ ~ghost.failed =>
        /\ \A i \in DOMAIN ghost.accepted : Settled(i)
        /\ ghost.owed = {}

(* A stop returns, and input that was accepted is sent unless sending      *)
(* failed: the thread never waits for ever for the mutex, for its queue or *)
(* for the acknowledgements of what it sent before a text.  It may for     *)
(* pings: where each is sent before the last is acknowledged, the 10 ms    *)
(* poll need not see a silent moment, the text waits, and stopInputStream, *)
(* which does not interrupt the thread, waits with it.                     *)
TextWaits == sender.at = "text" /\ InTransit /\ scn.pings
InputEnds ==
    /\ control = "closed" ~> (control = "stopped" \/ TextWaits)
    /\ []<>(\/ sender.at \in {"none", "ended"} \/ TextWaits
            \/ sender.at = "wait" /\ packetQueue.items = <<>>)

(* "Allow move and hover events to be dropped if a newer one arrives (if   *)
(* no buttons changed), but don't allow state changing events like         *)
(* up/down/leave events to be dropped" (InputStream.c:1374): what shows    *)
(* the host a change of the pen's buttons is sent reliably.                *)
LastPen(j) == {i \in 1..(j - 1) : ghost.sent[i].kind = "pen"}
Newest(S) == CHOOSE i \in S : \A k \in S : k <= i
ButtonsBefore(j) == IF LastPen(j) = {} THEN 0 ELSE ghost.sent[Newest(LastPen(j))].buttons
PenButtonsAreReliable ==
    \A j \in DOMAIN ghost.sent :
        ghost.sent[j].kind = "pen" /\ ghost.sent[j].buttons /= ButtonsBefore(j) => ghost.sent[j].reliable
================================================================================
