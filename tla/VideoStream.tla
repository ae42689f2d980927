------------------------------ MODULE VideoStream ------------------------------
(***************************************************************************)
(* The video of a connection: VideoStream.c's receive thread puts packets  *)
(* through the RTP video queue and the depacketizer; whole frames go to    *)
(* the decoder callback, at once (CAPABILITY_DIRECT_SUBMIT) or by way of   *)
(* decodeUnitQueue and a decoder thread, which may also find out that it   *)
(* needs an IDR frame.  Two threads of the control stream send requests to *)
(* the host.  The host and the network are the environment:                *)
(*   - the host encodes frame after frame, and answers requests: an IDR    *)
(*     frame needs no other, an R frame no frame of the ranges reported    *)
(*     lost or later, any other frame the one before it;                   *)
(*   - the network loses, repeats and reorders packets: any packet within  *)
(*     Behind and Ahead of the newest one may arrive next.                 *)
(***************************************************************************)
EXTENDS RtpVideoQueue, VideoDepacketizer

CONSTANTS Frames,      \* bound of the model: frames the host encodes
          Behind,      \* bound of the model: how far behind the newest packet one may arrive
          Ahead,       \* bound of the model: Ahead - 1 packets in a row may be missing
          Bound,       \* size of decodeUnitQueue (15 in the code)
          Modes,       \* the decoders: [direct, strict]
          Refreshes,   \* bound of the model: how often the decoder asks for an IDR frame
          Corruptions  \* bound of the model: rebuilt packets that are not what was sent

ASSUME VideoStreamAssumption ==
    /\ {Frames, Behind, Ahead, Bound, Refreshes, Corruptions} \subseteq Nat /\ Bound > 0
    /\ Modes \subseteq [direct: BOOLEAN, strict: BOOLEAN]

VARIABLES
    mode,     \* what the decoder can do
    queue,    \* rtpQueue
    rx,       \* the receive thread: where it is
    calls,    \* calls to the depacketizer it still makes for the packet
    d,        \* the depacketizer
    lbq,      \* decodeUnitQueue
    dec,      \* the decoder thread: where it is
    held,     \* the frame it has
    requests, \* invalidReferenceFrameTuples and idrFrameRequiredEvent
    taken,    \* the range the RFI thread took and has not sent yet
    sent,     \* frames the host has encoded
    host,     \* what the host was asked for since: an IDR frame, a range from some frame
    high,     \* newest packet that arrived
    shown,    \* frames decoded since the last IDR frame
    raced,    \* no code reads it: a P-frame was queued behind a refresh, an IDR frame before its flush
    revived,  \* no code reads it: a frame that was reported lost came after all
    refreshes, corruptions

vars == <<mode, queue, rx, calls, d, lbq, dec, held, requests, taken, sent, host, high, shown,
          raced, revived, refreshes, corruptions>>
decoding == <<dec, held>>
world    == <<sent, host, high, corruptions>>
asking   == <<requests, taken>>

None == 0

Init ==
    /\ mode \in Modes
    /\ queue = EmptyVideoQueue /\ rx = "recv" /\ calls = <<>>
    /\ d = EmptyDepacketizer(mode.strict)
    /\ lbq = EmptyLbq(Bound) /\ dec = "wait" /\ held = None
    /\ requests = NoRequests /\ taken = None
    /\ sent = <<>> /\ host = [idr |-> FALSE, rfi |-> None] /\ high = FirstSeq
    /\ shown = {} /\ raced = FALSE /\ revived = FALSE /\ refreshes = 0 /\ corruptions = 0

(***************************************************************************)
(* The host and the network.                                               *)
(***************************************************************************)
\* A frame and the frame it needs.
IFrame    == [type |-> "I", ref |-> None]
RFrame(r) == IF r > 1 /\ \A f \in r .. Len(sent) : sent[f].type # "I"
             THEN [type |-> "R", ref |-> r - 1] ELSE IFrame
PFrame    == [type |-> "P", ref |-> Len(sent)]
Encode ==
    /\ Len(sent) < Frames
    /\ sent' = Append(sent, CASE sent = <<>> \/ host.idr -> IFrame
                              [] sent # <<>> /\ ~host.idr /\ host.rfi # None -> RFrame(host.rfi)
                              [] OTHER -> PFrame)
    /\ host' = [idr |-> FALSE, rfi |-> None]
    /\ UNCHANGED <<mode, queue, rx, calls, d, lbq, decoding, asking, high, shown, raced, revived,
                   refreshes, corruptions>>

Arriving == {p \in UNION {PacketsOf(f) : f \in 1 .. Len(sent)} : high - Behind <= p.n /\ p.n < high + Ahead}

(***************************************************************************)
(* VideoReceiveThreadProc: one packet, and the calls it leads to.          *)
(***************************************************************************)
Receive(p, bad) ==
    /\ rx = "recv"
    /\ bad < DataShards => corruptions < Corruptions
    /\ corruptions' = IF bad < DataShards THEN corruptions + 1 ELSE corruptions
    /\ high' = IF p.n > high THEN p.n ELSE high
    /\ LET a == AddVideoPacket(queue, p, bad)
       IN /\ queue' = a.q /\ calls' = a.calls
          /\ rx' = IF a.calls = <<>> THEN "recv" ELSE Head(a.calls).call
    /\ revived' = (revived \/ (queue.lost /\ queue'.pending = {} /\ (p.frame = queue.frame /\ p.block = queue.block)))
    /\ UNCHANGED <<mode, d, lbq, decoding, asking, sent, host, shown, raced, refreshes>>

\* The call is done: the next one, or the next packet.
Return == calls' = Tail(calls) /\ rx' = IF Tail(calls) = <<>> THEN "recv" ELSE Head(Tail(calls)).call
Current == Head(calls).frame

\* notifyFrameLost
NotifyFrameLost ==
    /\ rx = "lost"
    /\ LET l == FrameLost(d, requests, Current) IN d' = l.d /\ requests' = l.c
    /\ Return
    /\ UNCHANGED <<mode, queue, lbq, decoding, taken, world, shown, raced, revived, refreshes>>

\* queueRtpPacket for the packets of the frame: an old frame's are dropped
OldFrame ==
    /\ rx = "frame" /\ Old(d, Current)
    /\ Return
    /\ UNCHANGED <<mode, queue, d, lbq, decoding, asking, world, shown, raced, revived, refreshes>>
StartFrame ==
    /\ rx = "frame" /\ ~Old(d, Current)
    /\ d' = FirstPacket(d, Current, sent[Current].type)
    /\ requests' = FirstPacketRequests(d, Current, requests)
    /\ rx' = "last"
    /\ UNCHANGED <<mode, queue, calls, lbq, decoding, taken, world, shown, raced, revived, refreshes>>
RejectFrame ==
    /\ rx = "last" /\ corruptions < Corruptions
    /\ corruptions' = corruptions + 1
    /\ LET e == CorruptFrame(d, requests, Current) IN d' = e.d /\ requests' = e.c
    /\ Return
    /\ UNCHANGED <<mode, queue, lbq, decoding, taken, sent, host, high, shown, raced, revived, refreshes>>
DropUndecodable ==
    /\ rx = "last" /\ MustWait(d)
    /\ LET e == GiveUp(d, requests, Current) IN d' = e.d /\ requests' = e.c
    /\ Return
    /\ UNCHANGED <<mode, queue, lbq, decoding, taken, world, shown, raced, revived, refreshes>>
CompleteFrame ==
    /\ rx = "last" /\ ~MustWait(d)
    /\ d' = EndFrame(d, Current) /\ rx' = "pending"
    /\ UNCHANGED <<mode, queue, calls, lbq, decoding, asking, world, shown, raced, revived, refreshes>>

\* A refresh of the decoder drops the frame, unless it is what was asked for.
DropPendingFrame ==
    /\ rx = "pending" /\ d.dropPending /\ sent[Current].type # "I"
    /\ d' = DropFrame(d) /\ requests' = DropRequests(d, requests)
    /\ Return
    /\ UNCHANGED <<mode, queue, lbq, decoding, taken, world, shown, raced, revived, refreshes>>
KeepFrame ==
    /\ rx = "pending" /\ (d.dropPending => sent[Current].type = "I")
    /\ d' = [d EXCEPT !.dropPending = FALSE]
    /\ rx' = IF mode.direct THEN "submit" ELSE "offer"
    /\ UNCHANGED <<mode, queue, calls, lbq, decoding, asking, world, shown, raced, revived, refreshes>>

\* reassembleFrame
OfferFrame ==
    /\ rx = "offer" /\ LbqOfferAnswer(lbq) = "success"
    /\ lbq' = LbqOffer(lbq, Current)
    /\ d' = Submitted(d)
    /\ raced' = (raced \/ IF sent[Current].type = "I" THEN dec = "flush"
                           ELSE d.dropPending \/ dec = "pending")
    /\ Return
    /\ UNCHANGED <<mode, queue, decoding, asking, world, shown, revived, refreshes>>
Overflow ==
    /\ rx = "offer" /\ LbqOfferAnswer(lbq) = "bound"
    /\ d' = DropFrame([d EXCEPT !.waitIdr = TRUE])
    /\ requests' = DropRequests(d, requests)
    /\ rx' = "flush"
    /\ UNCHANGED <<mode, queue, calls, lbq, decoding, taken, world, shown, raced, revived, refreshes>>
FlushQueue ==
    /\ rx = "flush"
    /\ lbq' = LbqFlush(lbq) /\ requests' = RequestIdr(requests)
    /\ Return
    /\ UNCHANGED <<mode, queue, d, decoding, taken, world, shown, raced, revived, refreshes>>

\* The decoder gets frame f.
Show(f) == shown' = IF sent[f].type = "I" THEN {f} ELSE shown \cup {f}

\* Direct submission: the callback, LiCompleteVideoFrame and the rest of reassembleFrame.
SubmitDirect ==
    /\ rx = "submit"
    /\ \/ d' = Submitted([d EXCEPT !.idrDone = @ \/ sent[Current].type = "I"])
          /\ UNCHANGED <<requests, refreshes>>
       \/ /\ refreshes < Refreshes /\ refreshes' = refreshes + 1
          /\ d' = Submitted([d EXCEPT !.waitIdr = TRUE, !.dropPending = TRUE])
          /\ requests' = RequestIdr(requests)
    /\ Show(Current)
    /\ Return
    /\ UNCHANGED <<mode, queue, lbq, decoding, taken, world, raced, revived>>

Receiver ==
    \/ \E p \in Arriving, bad \in 0 .. DataShards : Receive(p, bad)
    \/ NotifyFrameLost \/ OldFrame \/ StartFrame \/ RejectFrame \/ DropUndecodable \/ CompleteFrame
    \/ DropPendingFrame \/ KeepFrame \/ OfferFrame \/ Overflow \/ FlushQueue \/ SubmitDirect

(***************************************************************************)
(* VideoDecoderThreadProc.                                                 *)
(***************************************************************************)
TakeFrame ==
    /\ dec = "wait" /\ LbqWaitAnswer(lbq) = "success"
    /\ held' = Head(lbq.items) /\ lbq' = LbqWait(lbq) /\ dec' = "decode"
    /\ UNCHANGED <<mode, queue, rx, calls, d, asking, world, shown, raced, revived, refreshes>>
Decoded ==
    /\ dec = "decode"
    /\ d' = [d EXCEPT !.idrDone = @ \/ sent[held].type = "I"]
    /\ Show(held) /\ dec' = "wait" /\ held' = None
    /\ UNCHANGED <<mode, queue, rx, calls, lbq, asking, world, raced, revived, refreshes>>

\* DR_NEED_IDR: requestDecoderRefresh
NeedIdr ==
    /\ dec = "decode" /\ refreshes < Refreshes
    /\ refreshes' = refreshes + 1
    /\ d' = [d EXCEPT !.waitIdr = TRUE]
    /\ Show(held) /\ dec' = "flush" /\ held' = None
    /\ UNCHANGED <<mode, queue, rx, calls, lbq, asking, world, raced, revived>>
FlushDecodeUnits ==
    /\ dec = "flush"
    /\ lbq' = LbqFlush(lbq) /\ dec' = "pending"
    /\ UNCHANGED <<mode, queue, rx, calls, d, held, asking, world, shown, raced, revived, refreshes>>
SetDropPending ==
    /\ dec = "pending"
    /\ d' = [d EXCEPT !.dropPending = TRUE] /\ dec' = "request"
    /\ UNCHANGED <<mode, queue, rx, calls, lbq, held, asking, world, shown, raced, revived, refreshes>>
RequestRefresh ==
    /\ dec = "request"
    /\ requests' = RequestIdr(requests) /\ dec' = "wait"
    /\ UNCHANGED <<mode, queue, rx, calls, d, lbq, held, taken, world, shown, raced, revived, refreshes>>
Decoder == TakeFrame \/ Decoded \/ NeedIdr \/ FlushDecodeUnits \/ SetDropPending \/ RequestRefresh

(***************************************************************************)
(* ControlStream.c: invalidateRefFramesFunc and requestIdrFrameFunc.       *)
(***************************************************************************)
\* All ranges that wait are joined to one, from the first one's start.
TakeRanges ==
    /\ taken = None /\ requests.tuples.items # <<>>
    /\ taken' = Head(requests.tuples.items).from
    /\ requests' = [requests EXCEPT !.tuples = LbqFlush(@)]
    /\ UNCHANGED <<mode, queue, rx, calls, d, lbq, decoding, world, shown, raced, revived, refreshes>>
SendRange ==
    /\ taken # None
    /\ host' = [host EXCEPT !.rfi = IF @ # None /\ @ < taken THEN @ ELSE taken]
    /\ taken' = None
    /\ UNCHANGED <<mode, queue, rx, calls, d, lbq, decoding, requests, sent, high, corruptions,
                   shown, raced, revived, refreshes>>
SendIdrRequest ==
    /\ requests.idr
    /\ requests' = [requests EXCEPT !.idr = FALSE, !.tuples = LbqFlush(@)]
    /\ host' = [host EXCEPT !.idr = TRUE]
    /\ UNCHANGED <<mode, queue, rx, calls, d, lbq, decoding, taken, sent, high, corruptions,
                   shown, raced, revived, refreshes>>
Control == TakeRanges \/ SendRange \/ SendIdrRequest

Idle == Len(sent) = Frames /\ UNCHANGED vars
Next == Encode \/ Receiver \/ Decoder \/ Control \/ Idle
Spec == Init /\ [][Next]_vars

--------------------------------------------------------------------------------
\* What the RTP queue asserts of its counts, whatever order the packets come in.
BlockCountsAreSound == queue.pending # {} => CountsAreSound(queue)

\* What the depacketizer asserts: a lost frame is not one the decoder already has
\* (notifyFrameLost), and nothing is dropped in the middle of a frame.
LossesAreNew ==
    /\ rx = "lost" => Current >= d.start
    /\ rx \in {"lost", "pending", "offer"} => ~d.decoding

\* The frame that goes to the decoder, and the one it needs.
AtDecoder == CASE dec = "decode"                    -> held
               [] dec # "decode" /\ rx = "submit"   -> Current
               [] OTHER                             -> None
HasReference(f) == sent[f].type = "I" \/ sent[f].ref \in shown

\* Whatever is lost, late, repeated or dropped on the way, the decoder gets no
\* frame without the frame it refers to, except through a race with a refresh.
DecoderHasReferences == AtDecoder # None /\ ~raced => HasReference(AtDecoder)

\* requestDecoderRefresh "ensures the next frame submitted to the decoder will be
\* an IDR frame": stated without that exception.
RefreshedByIdrFrame == AtDecoder # None => HasReference(AtDecoder)

\* While frames are dropped for want of one the decoder can use, one is on its
\* way, was asked for, or will be once the next whole frame comes.
Helps(f)  == sent[f].type = "I" \/ (~d.waitIdr /\ sent[f].type = "R")
Asked     == requests.idr \/ requests.tuples.items # <<>> \/ taken # None \/ host.idr \/ host.rfi # None
NoSilentWait ==
    rx = "recv" /\ dec = "wait" /\ MustWait(d) /\ ~revived =>
        \/ Asked
        \/ sent = <<>> \/ \E f \in d.next .. Len(sent) : Helps(f)
        \/ d.waitNext
        \/ queue.frame # d.next \/ queue.lost
================================================================================
