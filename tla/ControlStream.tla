----------------------------- MODULE ControlStream -----------------------------
(***************************************************************************)
(* ControlStream.c: the threads that share the control connection with the *)
(* host, and the one-shot report of a lost connection (Connection.c).      *)
(* Since generation 5 the connection is ENet over UDP under enetMutex, and *)
(* the receive thread reads from it; before, it is a TCP socket and every  *)
(* request is answered.                                                    *)
(*                                                                         *)
(* A thread is where it next takes a lock or blocks.  What happens under   *)
(* enetMutex is one step.  A thread that has yet to look whether it was    *)
(* interrupted is where it looks next.  The video threads appear as far as *)
(* they use the control stream.  ENet is the interface of EnetPeer.tla and *)
(* Enet.tla: what arrives, what is dispatched, and what a disconnect does  *)
(* to what was received and not dispatched.                                *)
(***************************************************************************)
EXTENDS Integers, LinkedBlockingQueue

CONSTANTS Scenarios,  \* bound of the model: what may happen in a run (see MCConnection)
          RfiBound,   \* size of invalidReferenceFrameTuples (20 in the code)
          AsyncBound  \* size of asyncCallbackQueue (30 in the code)

ASSUME ControlAssumption == {RfiBound, AsyncBound} \subseteq Nat \ {0}

\* A message of the host: what it asks for, the controller, and its place among the
\* host's.  A scenario opens some of the things that can happen.
HostKinds == {"rumble", "led", "hdr", "motion", "noise", "ended", "failed"}
Messages  == [kind: HostKinds, ctl: Nat, n: Nat]
Plans == [tcp: BOOLEAN, direct: BOOLEAN, rfi: BOOLEAN, fails: BOOLEAN, interrupts: BOOLEAN,
          errors: BOOLEAN, slow: BOOLEAN, losses: BOOLEAN, inputs: BOOLEAN, bundled: BOOLEAN,
          frames: BOOLEAN, stops: BOOLEAN, msgs: Seq(Messages), leaves: SUBSET {"leaving", "dead"}]
ASSUME ScenarioAssumption ==
    /\ Scenarios \subseteq Plans
    /\ \A p \in Scenarios : \A i \in DOMAIN p.msgs : p.msgs[i].n = i

VARIABLES
    plan,        \* the scenario
    at,          \* where each thread is: "none", "ended" or a place of its own
    why,         \* the error a thread is about to report
    told,        \* threads PltInterruptThread was called for; "input": its queue drains
    interrupted, \* ConnectionInterrupted
    stopping,    \* stopping
    terminated,  \* alreadyTerminated
    code,        \* terminationCallbackErrorCode
    alarms,      \* termination callback threads that have not run yet
    heard,       \* calls of the client's connectionTerminated
    link,        \* peer, client, ctlSock and what they hold
    host,        \* what the host does
    event,       \* idrFrameRequiredEvent
    rfiQ,        \* invalidReferenceFrameTuples
    asyncQ,      \* asyncCallbackQueue
    got,         \* the event the receive thread handles
    held,        \* the callback the callback thread is about to make
    hdr,         \* hdrEnabled: which message set it
    seen,        \* lastSeenFrame is not 0
    taken,       \* of each kind and controller, the newest message that was queued
    shown        \* ... and the newest one the client was called for

reporting == <<interrupted, terminated, code, alarms, heard>>
queues    == <<event, rfiQ, asyncQ>>
showing   == <<held, taken, shown>>
controlVars == <<plan, at, why, told, interrupted, stopping, terminated, code, alarms, heard,
                 link, host, event, rfiQ, asyncQ, got, held, hdr, seen, taken, shown>>

Threads == {"recv", "loss", "idr", "async", "rfi", "input", "vrecv", "vdec", "vping"}
Senders == {"loss", "idr", "rfi", "input"}
Alive(t) == at[t] \notin {"none", "ended"}

\* A newer message takes the place of an older one in the same slot.
Slot(m)  == <<m.kind, m.ctl>>
SlotsOf(p) == {Slot(p.msgs[i]) : i \in DOMAIN p.msgs}
Nothing  == [kind |-> "nothing", ctl |-> 0, n |-> 0]
NoLink   == [peer |-> "null", sock |-> "invalid", intercept |-> FALSE, pending |-> FALSE,
             wire |-> <<>>, inbox |-> <<>>, lost |-> FALSE]

\* initializeControlStream and the static initializers
ControlInit ==
    /\ plan \in Scenarios
    /\ at = [t \in Threads |-> "none"] /\ why = [t \in Threads |-> "none"] /\ told = {}
    /\ interrupted = FALSE /\ stopping = FALSE /\ terminated = FALSE
    /\ code = "none" /\ alarms = 0 /\ heard = 0
    /\ link = NoLink /\ host = "here"
    /\ event = FALSE /\ rfiQ = EmptyLbq(RfiBound) /\ asyncQ = EmptyLbq(AsyncBound)
    /\ got = Nothing /\ held = Nothing /\ hdr = 0 /\ seen = FALSE
    /\ taken = [s \in SlotsOf(plan) |-> 0] /\ shown = taken

(***************************************************************************)
(* ENet as the control stream sees it.                                     *)
(***************************************************************************)
\* A disconnect makes the peer a zombie and drops what was received and not dispatched.
Severed(l) == [l EXCEPT !.peer = "zombie", !.inbox = <<>>, !.lost = @ \/ l.inbox # <<>>]

\* Mutant: the hook is not installed.
DisconnectArrivesUnhooked(l) == Severed(l)

\* ignoreDisconnectIntercept swallows a datagram that holds a DISCONNECT and nothing else.
DisconnectArrives(l) ==
    IF l.intercept /\ ~plan.bundled THEN [l EXCEPT !.pending = TRUE] ELSE Severed(l)

\* What a call of enet_host_service may find: some of what the host sent, then
\* perhaps its DISCONNECT, or that the host has been silent for too long.
Serviced(l) ==
    LET some == {[l EXCEPT !.inbox = @ \o SubSeq(l.wire, 1, k),
                           !.wire = SubSeq(@, k + 1, Len(@))] : k \in 0 .. Len(l.wire)}
    IN  IF l.peer # "connected" THEN {l}
        ELSE IF host = "expired" THEN {Severed(l)}
        ELSE some \cup {DisconnectArrives(x) : x \in {y \in some : host = "leaving" /\ y.wire = <<>>}}

\* ... when the caller asks for an event: what waits is handed out first.
HandOut(l) ==
    CASE l.peer = "zombie" -> [ev |-> [Nothing EXCEPT !.kind = "disconnect"],
                               link |-> [l EXCEPT !.peer = "disconnected"]]
      [] l.peer # "zombie" /\ l.inbox # <<>> -> [ev |-> Head(l.inbox),
                                                 link |-> [l EXCEPT !.inbox = Tail(@)]]
      [] OTHER -> [ev |-> Nothing, link |-> l]
ServicedForEvent(l) ==
    IF HandOut(l).ev # Nothing THEN {HandOut(l)} ELSE {HandOut(x) : x \in Serviced(l)}

(***************************************************************************)
(* ClInternalConnectionTerminated looks at the flags, sets them and starts *)
(* the thread that calls the client, all without a lock.                   *)
(***************************************************************************)
Top(t) == IF t \in told THEN "ended" ELSE IF t = "loss" THEN "send" ELSE "wait"
AfterReport(t) == IF t \in {"idr", "rfi"} THEN Top(t) ELSE "ended"
Goes(t, place) == at' = [at EXCEPT ![t] = place]
Reports(t, err) == at' = [at EXCEPT ![t] = "report"] /\ why' = [why EXCEPT ![t] = err]

Report(t) ==
    /\ at[t] = "report"
    /\ Goes(t, IF terminated \/ interrupted THEN AfterReport(t) ELSE "raise")
    /\ UNCHANGED <<plan, why, told, stopping, reporting, link, host, queues, got, showing, hdr, seen>>
Raise(t) ==
    /\ at[t] = "raise"
    /\ code' = why[t] /\ terminated' = TRUE /\ alarms' = alarms + 1
    /\ Goes(t, AfterReport(t))
    /\ UNCHANGED <<plan, why, told, stopping, interrupted, heard, link, host, queues, got, showing, hdr, seen>>
\* terminationCallbackThreadFunc
CallClient ==
    /\ alarms > 0
    /\ alarms' = alarms - 1 /\ heard' = heard + 1
    /\ UNCHANGED <<plan, at, why, told, stopping, interrupted, terminated, code, link, host, queues,
                   got, showing, hdr, seen>>

(***************************************************************************)
(* controlReceiveThreadFunc.                                               *)
(***************************************************************************)
\* The head of the loop; the thread has nothing to do on a TCP connection.
ReceiverEnds ==
    /\ at["recv"] = "poll" /\ (plan.tcp \/ "recv" \in told)
    /\ Goes("recv", "ended")
    /\ UNCHANGED <<plan, why, told, stopping, reporting, link, host, queues, got, showing, hdr, seen>>

\* serviceEnetHost fails: the connection was interrupted, or the socket has an error.
ServiceFails ==
    /\ at["recv"] \in {"poll", "linger"} /\ ~plan.tcp
    /\ at["recv"] = "poll" => "recv" \notin told
    /\ interrupted \/ plan.errors
    /\ Reports("recv", "socket")
    /\ UNCHANGED <<plan, told, stopping, reporting, link, host, queues, got, showing, hdr, seen>>

Poll ==
    /\ at["recv"] = "poll" /\ ~plan.tcp /\ "recv" \notin told /\ ~interrupted
    /\ \E r \in ServicedForEvent(link) :
          /\ link' = r.link /\ got' = r.ev
          /\ Goes("recv", CASE r.ev # Nothing                      -> "act"
                            [] r.ev = Nothing /\ r.link.pending    -> "linger"
                            [] OTHER                               -> "poll")
    /\ UNCHANGED <<plan, why, told, stopping, reporting, host, queues, showing, hdr, seen>>

\* A DISCONNECT was swallowed and nothing was ready: wait for what is still on
\* its way, then take the hook off, then wait for the DISCONNECT to come again.
Linger ==
    /\ at["recv"] = "linger" /\ ~interrupted
    /\ \E r \in ServicedForEvent(link) :
          /\ got' = r.ev
          /\ link' = [r.link EXCEPT !.intercept = @ /\ r.ev # Nothing]
          /\ IF r.ev = Nothing /\ ~link.intercept
             THEN Reports("recv", "disconnect")
             ELSE Goes("recv", IF r.ev # Nothing THEN "act" ELSE "poll") /\ UNCHANGED why
    /\ UNCHANGED <<plan, told, stopping, reporting, host, queues, showing, hdr, seen>>

\* needsAsyncCallback
AsyncKinds == {"rumble", "led", "hdr", "motion"}
\* The state of HDR is global; the callback reads it when it is made.
HdrAfter(m) == IF m.kind = "hdr" THEN m.n ELSE hdr
QueueCallback ==
    /\ at["recv"] = "act" /\ got.kind \in AsyncKinds
    /\ hdr' = HdrAfter(got)
    /\ asyncQ' = LbqOffer(asyncQ, got)
    /\ taken' = IF LbqOfferAnswer(asyncQ) = "success"
                THEN [taken EXCEPT ![Slot(got)] = got.n] ELSE taken
    /\ got' = Nothing /\ Goes("recv", "poll")
    /\ UNCHANGED <<plan, why, told, stopping, reporting, link, host, event, rfiQ, held, shown, seen>>

\* A runt, something that cannot be decrypted, or a message of no known type.
IgnoreMessage ==
    /\ at["recv"] = "act" /\ got.kind = "noise"
    /\ got' = Nothing /\ Goes("recv", "poll")
    /\ UNCHANGED <<plan, why, told, stopping, reporting, link, host, queues, showing, hdr, seen>>

\* The host ends the stream: the peer is cut off first, then the client is told.
TerminationCode(m) ==
    CASE m.kind = "ended" /\ seen  -> "graceful"
      [] m.kind = "ended" /\ ~seen -> "early"
      [] OTHER                     -> "reason"
\* Mutant: the other threads are interrupted before the client is told.
HandleTerminationInterrupting ==
    /\ at["recv"] = "act" /\ got.kind \in {"ended", "failed"}
    /\ link' = [link EXCEPT !.peer = "disconnected", !.inbox = <<>>]
    /\ Reports("recv", TerminationCode(got)) /\ got' = Nothing /\ interrupted' = TRUE
    /\ UNCHANGED <<plan, told, stopping, terminated, code, alarms, heard, host, queues, showing, hdr, seen>>
HandleTermination ==
    /\ at["recv"] = "act" /\ got.kind \in {"ended", "failed"}
    /\ link' = [link EXCEPT !.peer = "disconnected", !.inbox = <<>>]
    /\ Reports("recv", TerminationCode(got)) /\ got' = Nothing
    /\ UNCHANGED <<plan, told, stopping, reporting, host, queues, showing, hdr, seen>>
HandleDisconnect ==
    /\ at["recv"] = "act" /\ got.kind = "disconnect"
    /\ Reports("recv", "disconnect") /\ got' = Nothing
    /\ UNCHANGED <<plan, told, stopping, reporting, link, host, queues, showing, hdr, seen>>

Receiver == ReceiverEnds \/ ServiceFails \/ Poll \/ Linger \/ QueueCallback \/ IgnoreMessage
               \/ HandleTermination \/ HandleDisconnect

(***************************************************************************)
(* Sending: sendMessageEnet, sendMessageTcp, sendMessageAndDiscardReply.   *)
(***************************************************************************)
SockFails == link.sock # "open" \/ host = "expired"
MayFail == IF plan.errors THEN {"failed"} ELSE {}
Answered(t) == t \in {"idr", "rfi", "app"}

\* What a message by t may lead to: where the sender goes and what becomes of the link.
\* "resend": the mutex is released while the message has not been put on the wire.
\* These calls do not look at ConnectionInterrupted.
EnetSends ==
    IF link.peer # "connected" THEN {[to |-> "failed", link |-> link]}
    ELSE [to: {"sent"} \cup MayFail, link: Serviced(link)]
         \cup (IF plan.slow THEN [to: {"resend"}, link: {l \in Serviced(link) : l.peer = "connected"}]
                            ELSE {})
TcpSends(t) ==
    IF SockFails THEN {[to |-> "failed", link |-> link]}
    ELSE [to: {IF Answered(t) THEN "reply" ELSE "sent"} \cup MayFail, link: {link}]
Sends(t) == IF plan.tcp THEN TcpSends(t) ELSE EnetSends

\* Back from the sleep; the tenth time the message is left to later calls.
Resends == [to: {"sent"} \cup MayFail, link: Serviced(link)]
\* readNvctlPacketTcp
Replies ==
    IF SockFails THEN {[to |-> "failed", link |-> link]} ELSE [to: {"sent"} \cup MayFail, link: {link}]

SenderGoes(t, r) ==
    /\ link' = r.link
    /\ CASE r.to = "failed" -> Reports(t, "socket")
         [] r.to = "sent"   -> Goes(t, Top(t)) /\ UNCHANGED why
         [] OTHER           -> Goes(t, r.to) /\ UNCHANGED why
    /\ UNCHANGED <<plan, told, stopping, reporting, host, queues, got, showing, hdr, seen>>
SendMessage(t) ==
    \/ at[t] = "send" /\ (t = "loss" => t \notin told) /\ \E r \in Sends(t) : SenderGoes(t, r)
    \/ at[t] = "resend" /\ \E r \in Resends : SenderGoes(t, r)
    \/ at[t] = "reply" /\ \E r \in Replies : SenderGoes(t, r)

\* lossStatsThreadFunc sends until it is interrupted.
LossTurn ==
    \/ SendMessage("loss")
    \/ /\ at["loss"] = "send" /\ "loss" \in told
       /\ Goes("loss", "ended")
       /\ UNCHANGED <<plan, why, told, stopping, reporting, link, host, queues, got, showing, hdr, seen>>
\* requestIdrFrame, requestInvalidateReferenceFrames, sendInputPacketOnControlStream
RequestIdrFrame == SendMessage("idr")
RequestInvalidation == SendMessage("rfi")
SendInputPacket == SendMessage("input")

\* requestIdrFrameFunc: wait, clear, look at stopping, drop the invalidations, ask.
IdrWakes ==
    /\ at["idr"] = "wait" /\ event
    /\ Goes("idr", "clear")
    /\ UNCHANGED <<plan, why, told, stopping, reporting, link, host, queues, got, showing, hdr, seen>>
IdrClears ==
    /\ at["idr"] = "clear"
    /\ event' = FALSE /\ Goes("idr", "check")
    /\ UNCHANGED <<plan, why, told, stopping, reporting, link, host, rfiQ, asyncQ, got, showing, hdr, seen>>
IdrChecks ==
    /\ at["idr"] = "check"
    /\ rfiQ' = IF stopping THEN rfiQ ELSE LbqFlush(rfiQ)
    /\ Goes("idr", IF stopping THEN "ended" ELSE "send")
    /\ UNCHANGED <<plan, why, told, stopping, reporting, link, host, event, asyncQ, got, showing, hdr, seen>>

\* invalidateRefFramesFunc: wait, take everything that is queued as one range, ask.
InvalidationWakes ==
    /\ at["rfi"] = "wait" /\ ~LbqMustWait(rfiQ)
    /\ rfiQ' = LbqFlush(rfiQ)
    /\ Goes("rfi", IF LbqWaitAnswer(rfiQ) = "success" THEN "send" ELSE "ended")
    /\ UNCHANGED <<plan, why, told, stopping, reporting, link, host, event, asyncQ, got, showing, hdr, seen>>

\* inputSendThreadProc, as far as it uses the control stream (see InputStream)
InputWakes ==
    /\ at["input"] = "wait"
    /\ \/ "input" \in told /\ Goes("input", "ended")
       \/ plan.inputs /\ Goes("input", "send")
    /\ UNCHANGED <<plan, why, told, stopping, reporting, link, host, queues, got, showing, hdr, seen>>

(***************************************************************************)
(* asyncCallbackThreadFunc.                                                *)
(***************************************************************************)
\* Mutant: the controller's number is not compared.
SameCallbackAnyController(a, b) == a.kind = b.kind /\ a.kind # "motion"
\* A newer message of the same kind for the same controller replaces the older one.
SameCallback(a, b) == Slot(a) = Slot(b) /\ a.kind # "motion"

TakeCallback ==
    /\ at["async"] = "wait" /\ ~LbqMustWait(asyncQ)
    /\ asyncQ' = LbqWait(asyncQ)
    /\ IF LbqWaitAnswer(asyncQ) = "success"
       THEN held' = Head(asyncQ.items) /\ Goes("async", "batch")
       ELSE Goes("async", "ended") /\ UNCHANGED held
    /\ UNCHANGED <<plan, why, told, stopping, reporting, link, host, event, rfiQ, got, taken, shown, hdr, seen>>
CanBatch == LbqPollAnswer(asyncQ) = "success" /\ SameCallback(held, Head(asyncQ.items))
Batch ==
    /\ at["async"] = "batch" /\ CanBatch
    /\ held' = Head(asyncQ.items) /\ asyncQ' = LbqPoll(asyncQ)
    /\ UNCHANGED <<plan, at, why, told, stopping, reporting, link, host, event, rfiQ, got, taken, shown, hdr, seen>>
MakeCallback ==
    /\ at["async"] = "batch" /\ ~CanBatch
    /\ shown' = [shown EXCEPT ![Slot(held)] = IF held.kind = "hdr" THEN hdr ELSE held.n]
    /\ held' = Nothing /\ Goes("async", "wait")
    /\ UNCHANGED <<plan, why, told, stopping, reporting, link, host, queues, got, taken, hdr, seen>>
Callbacks == TakeCallback \/ Batch \/ MakeCallback

(***************************************************************************)
(* The video threads: VideoStream.c, as far as they use the others.        *)
(***************************************************************************)
VideoReceiverEnds ==
    /\ at["vrecv"] = "wait" /\ "vrecv" \in told
    /\ Goes("vrecv", "ended")
    /\ UNCHANGED <<plan, why, told, stopping, reporting, link, host, queues, got, showing, hdr, seen>>
\* The socket fails, no memory, or ten seconds without a packet or without a frame
VideoReceiverFails ==
    /\ at["vrecv"] = "wait" /\ "vrecv" \notin told
    /\ \/ plan.errors /\ Reports("vrecv", "socket")
       \/ plan.errors /\ ~seen /\ Reports("vrecv", "novideo")
    /\ UNCHANGED <<plan, told, stopping, reporting, link, host, queues, got, showing, hdr, seen>>
\* connectionSawFrame
SawFrame ==
    /\ at["vrecv"] = "wait" /\ "vrecv" \notin told /\ plan.frames
    /\ seen' = TRUE
    /\ UNCHANGED <<plan, at, why, told, stopping, reporting, link, host, queues, got, showing, hdr>>

\* LiRequestIdrFrame: the invalidations are dropped, then the event is set.
\* queueFrameInvalidationTuple falls back to it when it cannot queue.
DetectLoss ==
    /\ at["vrecv"] = "wait" /\ "vrecv" \notin told /\ plan.losses
    /\ IF plan.rfi
       THEN rfiQ' = LbqOffer(rfiQ, "range")
            /\ Goes("vrecv", IF LbqOfferAnswer(rfiQ) = "bound" THEN "request" ELSE "wait")
       ELSE Goes("vrecv", "request") /\ UNCHANGED rfiQ
    /\ UNCHANGED <<plan, why, told, stopping, reporting, link, host, event, asyncQ, got, showing, hdr, seen>>
FlushInvalidations(t) ==
    /\ at[t] = "request"
    /\ rfiQ' = LbqFlush(rfiQ) /\ Goes(t, "demand")
    /\ UNCHANGED <<plan, why, told, stopping, reporting, link, host, event, asyncQ, got, showing, hdr, seen>>
DemandIdr(t) ==
    /\ at[t] = "demand"
    /\ event' = TRUE /\ Goes(t, "wait")
    /\ UNCHANGED <<plan, why, told, stopping, reporting, link, host, rfiQ, asyncQ, got, showing, hdr, seen>>

\* VideoDecoderThreadProc waits until the depacketizer was stopped ("vdec" is told
\* by stopVideoDepacketizer as well); a decoder may need an IDR frame.
DecoderWakes ==
    /\ at["vdec"] = "wait"
    /\ \/ "depacketizer" \in told /\ Goes("vdec", "ended")
       \/ plan.losses /\ "depacketizer" \notin told /\ Goes("vdec", "request")
    /\ UNCHANGED <<plan, why, told, stopping, reporting, link, host, queues, got, showing, hdr, seen>>
PingEnds ==
    /\ at["vping"] = "wait" /\ "vping" \in told
    /\ Goes("vping", "ended")
    /\ UNCHANGED <<plan, why, told, stopping, reporting, link, host, queues, got, showing, hdr, seen>>
Video(t) == FlushInvalidations(t) \/ DemandIdr(t)

(***************************************************************************)
(* The host: sends its messages, leaves by a DISCONNECT that it repeats    *)
(* until it gives up, or dies; ten seconds of silence expire the peer.     *)
(***************************************************************************)
HostLeaves ==
    /\ link.peer = "connected" \/ link.sock = "open"
    /\ host = "here"
    /\ host' \in plan.leaves
    /\ link' = IF host' = "dead" THEN [link EXCEPT !.wire = <<>>] ELSE link
    /\ UNCHANGED <<plan, at, why, told, stopping, reporting, queues, got, showing, hdr, seen>>
HostGivesUp ==
    /\ host = "leaving" /\ link.wire = <<>>
    /\ host' = "dead"
    /\ UNCHANGED <<plan, at, why, told, stopping, reporting, link, queues, got, showing, hdr, seen>>
\* By then the receive thread has dispatched what had arrived.
PeerExpires ==
    /\ host = "dead" /\ link.inbox = <<>>
    /\ host' = "expired"
    /\ UNCHANGED <<plan, at, why, told, stopping, reporting, link, queues, got, showing, hdr, seen>>

Thread(t) ==
    \/ Report(t) \/ Raise(t)
    \/ t = "recv" /\ Receiver
    \/ t = "loss" /\ LossTurn
    \/ t = "idr" /\ (IdrWakes \/ IdrClears \/ IdrChecks \/ RequestIdrFrame)
    \/ t = "rfi" /\ (InvalidationWakes \/ RequestInvalidation)
    \/ t = "input" /\ (InputWakes \/ SendInputPacket)
    \/ t = "async" /\ Callbacks
    \/ t = "vrecv" /\ (VideoReceiverEnds \/ VideoReceiverFails \/ SawFrame \/ DetectLoss)
    \/ t = "vdec" /\ DecoderWakes
    \/ t = "vping" /\ PingEnds
    \/ t \in {"vrecv", "vdec"} /\ Video(t)
Environment == HostLeaves \/ HostGivesUp \/ PeerExpires
================================================================================
