--------------------------- MODULE VideoDepacketizer ---------------------------
(***************************************************************************)
(* VideoDepacketizer.c, the state it keeps between two frames and what its *)
(* functions do to it; and the requests for help it makes of the control   *)
(* stream (ControlStream.c): a full frame (IDR), or frames that do without *)
(* those that were lost (RFI, reference frame invalidation).               *)
(*                                                                         *)
(* A frame is a number and a type: "I" (an IDR frame), "P", or "R", a      *)
(* P-frame the host marks as the first after an invalidation.  The bit     *)
(* stream, NAL units and time stamps are left out.                         *)
(***************************************************************************)
EXTENDS LinkedBlockingQueue

CONSTANTS DropLimit,  \* CONSECUTIVE_DROP_LIMIT
          TupleBound  \* size of invalidReferenceFrameTuples (20 in the code)

ASSUME DepacketizerAssumption == {DropLimit, TupleBound} \subseteq Nat \ {0}

(***************************************************************************)
(* Requests: the queue of lost ranges and the event of the IDR thread.     *)
(***************************************************************************)
NoRequests == [tuples |-> EmptyLbq(TupleBound), idr |-> FALSE]

\* LiRequestIdrFrame: ranges that wait to be sent are dropped
RequestIdr(c) == [c EXCEPT !.tuples = LbqFlush(@), !.idr = TRUE]

\* connectionDetectedFrameLoss: too many ranges, or a decoder that cannot, call for an IDR frame
DetectedLoss(c, strict, from, to) ==
    IF strict \/ LbqOfferAnswer(c.tuples) = "bound"
    THEN RequestIdr(c)
    ELSE [c EXCEPT !.tuples = LbqOffer(@, [from |-> from, to |-> to])]

(***************************************************************************)
(* The depacketizer.  strict: the decoder cannot do without lost frames.   *)
(***************************************************************************)
\* initializeVideoDepacketizer
EmptyDepacketizer(strict) ==
    [next |-> 1, start |-> 0, waitNext |-> FALSE, waitIdr |-> TRUE, waitRfi |-> FALSE,
     decoding |-> FALSE, dropPending |-> FALSE, idrDone |-> FALSE, strict |-> strict, drops |-> 0]

\* dropFrameState
NeedsIdr(d)    == d.strict \/ ~d.idrDone \/ d.waitIdr
AtDropLimit(d) == d.drops + 1 = DropLimit
DropFrame(d) ==
    [d EXCEPT !.dropPending = FALSE,
              !.waitIdr = NeedsIdr(d) \/ AtDropLimit(d),
              !.waitRfi = @ \/ ~NeedsIdr(d),
              !.drops = IF AtDropLimit(d) THEN 0 ELSE @ + 1]
DropRequests(d, c) == IF AtDropLimit(d) THEN RequestIdr(c) ELSE c

\* notifyFrameLost: [d, c] after it
FrameLost(d, c, f) ==
    LET e == DropFrame(d)
        x == DropRequests(d, c)
    IN IF e.waitIdr THEN [d |-> e, c |-> x]
       ELSE [d |-> [e EXCEPT !.next = f + 1], c |-> DetectedLoss(x, e.strict, e.start, f)]

\* processRtpPayload, first packet of frame f of that type: a gap before it is
\* noticed, and a frame that can be decoded ends the wait for one.
Old(d, f) == f < d.next
IdrBegins(d) == [d EXCEPT !.waitIdr = FALSE, !.waitRfi = FALSE, !.waitNext = FALSE]
FirstPacket(d, f, type) ==
    LET g == IF d.next < f THEN [DropFrame(d) EXCEPT !.next = f, !.waitNext = TRUE] ELSE d
        h == [g EXCEPT !.decoding = TRUE]
    IN CASE type = "I"                -> IdrBegins(h)
         [] type = "R" /\ h.waitRfi   -> [h EXCEPT !.waitRfi = FALSE, !.waitNext = FALSE]
         [] OTHER                     -> h
FirstPacketRequests(d, f, c) == IF d.next < f THEN DropRequests(d, c) ELSE c

\* A packet that cannot be what the host sent: the frame is given up.
CorruptFrame(d, c, f) ==
    LET g == [d EXCEPT !.decoding = FALSE, !.next = f + 1]
        e == DropFrame(g)
        x == DropRequests(g, c)
    IN [d |-> e, c |-> IF e.waitIdr THEN RequestIdr(x) ELSE DetectedLoss(x, e.strict, e.start, f)]

\* ... last packet
\* Mutant: decodingFrame is not reset.
EndFrameStillDecoding(d, f) == [d EXCEPT !.next = f + 1]
EndFrame(d, f)  == [d EXCEPT !.decoding = FALSE, !.next = f + 1]
\* Mutant: only an IDR frame is waited for.
MustWaitForIdr(d) == d.waitIdr
MustWait(d)     == d.waitIdr \/ d.waitRfi

\* Mutant: the first good frame after a loss asks for nothing.
GiveUpSilently(d, c, f) ==
    LET e == EndFrame(d, f)
    IN [d |-> [DropFrame(e) EXCEPT !.waitNext = FALSE],
        c |-> DropRequests(e, IF e.waitIdr THEN c ELSE DetectedLoss(c, e.strict, e.start, f))]

\* A frame that cannot be decoded is dropped; the host is asked for one that can.
GiveUp(d, c, f) ==
    LET e == EndFrame(d, f)
        x == CASE e.waitIdr /\ e.waitNext  -> RequestIdr(c)
               [] e.waitIdr /\ ~e.waitNext -> c
               [] OTHER                    -> DetectedLoss(c, e.strict, e.start, f)
    IN [d |-> [DropFrame(e) EXCEPT !.waitNext = FALSE], c |-> DropRequests(e, x)]

\* reassembleFrame, once the frame is the decoder's
Submitted(d) == [d EXCEPT !.drops = 0, !.start = d.next]
================================================================================
