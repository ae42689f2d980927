----------------------------- MODULE VideoSender -----------------------------
(***************************************************************************)
(* The video path of the streamer: Sunshine's decoder callback             *)
(* (video.rs, submit_decode_unit) splits a frame into RTP packets and      *)
(* sends them through a bounded channel to the pacer (sender.rs,           *)
(* sample_sender), which writes them to the WebRTC track at the pace of a  *)
(* token bucket.  A browser that lost a packet sends a PLI; the next       *)
(* callback asks Sunshine for an IDR frame.                                *)
(*                                                                         *)
(* A packet is its size.  Time is counted in ticks, the budget in whole    *)
(* bytes: the rounding of the f64 arithmetic is left out.                  *)
(***************************************************************************)
EXTENDS Integers, Sequences

CONSTANTS MaxSize,     \* the largest packet
          MaxFrame,    \* bound of the model: packets of a frame
          ChannelSize, \* video_sample_queue_size
          QueueMax,    \* PACE_QUEUE_MAX
          Rate,        \* bytes per tick
          Burst,       \* burst_bytes
          MaxWait,     \* bound of the model: ticks that are counted between refills
          MaxBacklog   \* bound of the model: packets on their way before a frame is started

ASSUME SenderAssumption ==
    /\ {MaxSize, MaxFrame, ChannelSize, Rate, Burst, MaxWait} \subseteq Nat \ {0}
    /\ {QueueMax, MaxBacklog} \subseteq Nat
    /\ MaxWait * Rate >= Burst + MaxSize  \* a longer wait fills the bucket just the same

VARIABLES
    decoder,  \* the callback thread: "idle", "sending" a frame, "gone" with the stream
    frame,    \* the packets it still has to send
    needsIdr, \* needs_idr
    answer,   \* the last DecodeResult
    channel,  \* from the callback to the pacer
    queue,    \* the pacer's local queue
    pacer,    \* where sample_sender is: "top", "recv", "sleep", "write", "ended"
    open,     \* its flag of that name
    budget,   \* tokens
    waited,   \* ticks since last_refill
    sleep,    \* ticks of its sleep that are left
    level     \* history: what was written, less Rate for every tick, never below 0

senderVars == <<decoder, frame, needsIdr, answer, channel, queue, pacer, open, budget, waited, sleep, level>>
decoderVars == <<decoder, frame, needsIdr, answer>>
bucketVars == <<budget, waited, level>>

Sizes == 1 .. MaxSize
Frames == UNION {[1 .. n -> Sizes] : n \in 1 .. MaxFrame}
Least(a, b) == IF a <= b THEN a ELSE b
Most(a, b) == IF a >= b THEN a ELSE b

SenderTypeOK ==
    /\ decoder \in {"idle", "sending", "gone"}
    /\ frame \in Seq(Sizes)
    /\ needsIdr \in BOOLEAN
    /\ answer \in {"ok", "idr"}
    /\ channel \in Seq(Sizes) /\ Len(channel) <= ChannelSize
    /\ queue \in Seq(Sizes)
    /\ pacer \in {"top", "recv", "sleep", "write", "ended"}
    /\ open \in BOOLEAN
    /\ budget \in Int /\ budget > -MaxSize /\ budget <= Burst
    /\ waited \in 0 .. MaxWait
    /\ sleep \in Nat
    /\ level \in Nat

SenderInit ==
    /\ decoder = "idle" /\ frame = <<>> /\ needsIdr = FALSE /\ answer = "ok"
    /\ channel = <<>> /\ queue = <<>>
    /\ pacer = "top" /\ open = TRUE
    /\ budget = Burst /\ waited = 0 /\ sleep = 0 /\ level = 0
-----------------------------------------------------------------------------
(* The callback thread, and the task that reads RTCP.                      *)

\* Mutant: a request that is pending when the frame starts is taken for served.
StartFrameServed(f) ==
    /\ decoder = "idle"
    /\ Len(queue) + Len(channel) <= MaxBacklog
    /\ decoder' = "sending"
    /\ frame' = f
    /\ needsIdr' = FALSE
    /\ UNCHANGED <<answer, channel, queue, pacer, open, bucketVars, sleep>>

\* submit_decode_unit: a frame becomes packets.
StartFrame(f) ==
    /\ decoder = "idle"
    /\ Len(queue) + Len(channel) <= MaxBacklog
    /\ decoder' = "sending"
    /\ frame' = f
    /\ UNCHANGED <<needsIdr, answer, channel, queue, pacer, open, bucketVars, sleep>>

\* blocking_send waits for room.
SendPacket ==
    /\ decoder = "sending"
    /\ frame # <<>>
    /\ Len(channel) < ChannelSize
    /\ channel' = Append(channel, Head(frame))
    /\ frame' = Tail(frame)
    /\ UNCHANGED <<decoder, needsIdr, answer, queue, pacer, open, bucketVars, sleep>>

\* The compare_exchange of needs_idr is the result of the callback.
Return ==
    /\ decoder = "sending"
    /\ frame = <<>>
    /\ decoder' = "idle"
    /\ answer' = IF needsIdr THEN "idr" ELSE "ok"
    /\ needsIdr' = FALSE
    /\ UNCHANGED <<frame, channel, queue, pacer, open, bucketVars, sleep>>

\* stop() drops the stream, its decoder and the sending end of the channel.
Hangup ==
    /\ decoder = "idle"
    /\ decoder' = "gone"
    /\ UNCHANGED <<frame, needsIdr, answer, channel, queue, pacer, open, bucketVars, sleep>>

\* The browser asks for a picture.
Pli ==
    /\ decoder # "gone"
    /\ needsIdr' = TRUE
    /\ UNCHANGED <<decoder, frame, answer, channel, queue, pacer, open, bucketVars, sleep>>

Callback == (\E f \in Frames : StartFrame(f)) \/ SendPacket \/ Return
-----------------------------------------------------------------------------
(* The pacer.                                                              *)

\* What try_recv has moved to the local queue when it reports Empty or Disconnected.
Arrived == queue \o channel
StillOpen == open /\ decoder # "gone"

\* Mutant: a queue that is too long is looked at before the channel is drained, and kept.
DropBacklogKept ==
    /\ pacer = "top"
    /\ Len(Arrived) > QueueMax
    /\ UNCHANGED senderVars

DropBacklog ==
    /\ pacer = "top"
    /\ Len(Arrived) > QueueMax
    /\ queue' = <<>>
    /\ channel' = <<>>
    /\ open' = StillOpen
    /\ UNCHANGED <<decoderVars, pacer, bucketVars, sleep>>

NothingQueued ==
    /\ pacer = "top"
    /\ Arrived = <<>>
    /\ open' = StillOpen
    /\ pacer' = IF StillOpen THEN "recv" ELSE "ended"
    /\ UNCHANGED <<decoderVars, channel, queue, bucketVars, sleep>>

\* The budget after the time since the last refill.
Refill == Least(budget + waited * Rate, Burst)

\* Mutant: last_refill is not moved on.
PaceStaleClock ==
    /\ pacer = "top"
    /\ Len(Arrived) \in 1 .. QueueMax
    /\ queue' = Arrived
    /\ channel' = <<>>
    /\ open' = StillOpen
    /\ budget' = Refill
    /\ \/ budget' <= 0 /\ pacer' = "sleep" /\ sleep' = Most(1, (Rate - 1 - budget') \div Rate)
       \/ budget' > 0 /\ pacer' = "write" /\ UNCHANGED sleep
    /\ UNCHANGED <<decoderVars, waited, level>>

\* Refill, then either wait for the deficit, at least one tick, or write.
Pace ==
    /\ pacer = "top"
    /\ Len(Arrived) \in 1 .. QueueMax
    /\ queue' = Arrived
    /\ channel' = <<>>
    /\ open' = StillOpen
    /\ budget' = Refill
    /\ waited' = 0
    /\ \/ budget' <= 0 /\ pacer' = "sleep" /\ sleep' = Most(1, (Rate - 1 - budget') \div Rate)
       \/ budget' > 0 /\ pacer' = "write" /\ UNCHANGED sleep
    /\ UNCHANGED <<decoderVars, level>>

\* recv() with nothing else to do, or while the deficit is waited for.
Receive ==
    /\ pacer \in {"recv", "sleep"}
    /\ channel # <<>>
    /\ queue' = Append(queue, Head(channel))
    /\ channel' = Tail(channel)
    /\ pacer' = IF pacer = "recv" THEN "top" ELSE "sleep"
    /\ UNCHANGED <<decoderVars, open, bucketVars, sleep>>

SenderIsGone ==
    /\ pacer \in {"recv", "sleep"}
    /\ channel = <<>> /\ decoder = "gone" /\ open
    /\ open' = FALSE
    /\ pacer' = IF pacer = "recv" THEN "top" ELSE "sleep"
    /\ UNCHANGED <<decoderVars, channel, queue, bucketVars, sleep>>

SleepEnds ==
    /\ pacer = "sleep"
    /\ sleep = 0
    /\ pacer' = "top"
    /\ UNCHANGED <<decoderVars, channel, queue, open, bucketVars, sleep>>

\* One packet of the inner loop; the write may take a while.
Write ==
    /\ pacer = "write"
    /\ budget' = budget - Head(queue)
    /\ level' = level + Head(queue)
    /\ queue' = Tail(queue)
    /\ pacer' = IF budget' > 0 /\ queue' # <<>> THEN "write" ELSE "top"
    /\ UNCHANGED <<decoderVars, channel, open, waited, sleep>>

Pacer ==
    \/ DropBacklog \/ NothingQueued \/ Pace \/ Receive \/ SenderIsGone \/ SleepEnds \/ Write

Tick ==
    /\ waited' = Least(waited + 1, MaxWait)
    /\ sleep' = Most(sleep - 1, 0)
    /\ level' = Most(level - Rate, 0)
    /\ UNCHANGED <<decoderVars, channel, queue, pacer, open, budget>>

SenderNext == Callback \/ Hangup \/ Pli \/ Pacer \/ Tick

SenderSpec == SenderInit /\ [][SenderNext]_senderVars

\* The callback thread and the pacer run, writes end, time passes.  That frames keep
\* coming is an assumption about Sunshine: needs_idr is looked at for no other reason.
Fairness == WF_senderVars(Callback) /\ WF_senderVars(Pacer) /\ WF_senderVars(Tick)

SenderFairSpec == SenderSpec /\ Fairness
-----------------------------------------------------------------------------
\* However packets, writes and waits interleave: what is written in any interval is
\* at most Rate times its length and a constant.  A write that takes long lets the
\* bucket fill behind the budget that is still in hand, so the constant is two bursts
\* (and two packets that overdraw), not one.
PacedBound == level <= 2 * Burst + 2 * MaxSize

\* A PLI that comes at any moment is answered by a NeedIdr: none is lost between the
\* check of the flag and its reset, or behind a full channel.
IdrIsAsked == needsIdr ~> ((~needsIdr /\ answer = "idr") \/ decoder = "gone")

\* "so the (blocking) decode callback side never stalls on a full channel": it always
\* comes back, though the link takes less than Sunshine sends.
CallbackReturns == decoder = "sending" ~> decoder = "idle"

\* Once the stream is dropped the pacer ends, and with it the track.
PacerEnds == decoder = "gone" ~> pacer = "ended"
=============================================================================
