----------------------------- MODULE RtpVideoQueue -----------------------------
(***************************************************************************)
(* RtpVideoQueue.c: collects the packets of one FEC block of one video     *)
(* frame at a time, rebuilds lost data packets from parity, and hands a    *)
(* frame to the depacketizer once all its blocks are there.  The receive   *)
(* thread alone uses it, so a call is an operator: the queue after it and  *)
(* the calls it makes to the depacketizer, in order.                       *)
(*                                                                         *)
(* A packet is known by the number n the host gave it before the wrap to   *)
(* 16 bits; the code compares n % SeqSpace.  Frames have equal blocks of   *)
(* DataShards + ParityShards packets; the frames of MultiBlock have two.   *)
(***************************************************************************)
EXTENDS Integers, Sequences, FiniteSets

CONSTANTS DataShards,   \* bufferDataPackets
          ParityShards, \* bufferParityPackets
          SeqSpace,     \* sequence numbers are counted modulo this (2^16 in the code)
          FirstSeq,     \* the number of the host's first packet
          MultiBlock,   \* frames of two FEC blocks
          Cooldown      \* SPECULATIVE_RFI_COOLDOWN_PERIOD_MS, in frames

Shards == DataShards + ParityShards

ASSUME VideoQueueAssumption ==
    /\ {DataShards, SeqSpace} \subseteq Nat \ {0} /\ {ParityShards, FirstSeq, Cooldown} \subseteq Nat
    /\ MultiBlock \subseteq Nat /\ 4 * Shards < SeqSpace

\* isBefore16
IsBefore16(x, y) == (x - y) % SeqSpace > (SeqSpace - 1) \div 2

\* A packet: its frame, its FEC block, its index in the block (fecIndex), its number.
BlocksOf(f)   == IF f \in MultiBlock THEN 2 ELSE 1
FirstOf(f, b) == FirstSeq + Shards * ((f - 1) + Cardinality({g \in MultiBlock : g < f}) + b)
Packet(f, b, i) == [frame |-> f, block |-> b, index |-> i, n |-> FirstOf(f, b) + i]
PacketsOf(f) == {Packet(f, b, i) : b \in 0 .. BlocksOf(f) - 1, i \in 0 .. Shards - 1}

\* RtpvInitializeQueue.  pending has the indices in pendingFecBlockList, staged says
\* how many blocks of the frame are in completedFecBlockList, oosAt is the frame of
\* lastOosFramePresentationTimestamp.
EmptyVideoQueue ==
    [frame |-> 1, block |-> 0, last |-> 0, low |-> 0, contig |-> 0, pending |-> {}, staged |-> 0,
     data |-> 0, parity |-> 0, highest |-> 0, missing |-> 0, fast |-> FALSE,
     lost |-> FALSE, oos |-> FALSE, oosAt |-> 0]

\* What an RtpvAddPacket does: the queue after it, the depacketizer's calls, the
\* frame connectionSawFrame is told of (0 for none).
LostCall(f, speculative) == [call |-> "lost", frame |-> f, speculative |-> speculative]
FrameCall(f)             == [call |-> "frame", frame |-> f, speculative |-> FALSE]
Result(q, calls)         == [q |-> q, calls |-> calls, saw |-> 0]

(***************************************************************************)
(* The packet does not continue the block the queue collects.              *)
(***************************************************************************)
Behind16(q, p) ==
    \/ IsBefore16(p.n, q.contig)
    \/ p.frame < q.frame
    \/ p.frame = q.frame /\ p.block < q.block
StartsBlock(q, p) == q.pending = {} \/ q.frame # p.frame \/ q.block # p.block

Expected(q, p) == IF q.frame = p.frame THEN q.block ELSE 0

\* The rest of a frame whose block was missed is skipped: nothing of it can be used.
\* A packet of the next block ends the frame it belongs to, one of a later frame's
\* later block ends that one; either way it is q.frame that is reported.
SkipFrame(q, p) ==
    Result([q EXCEPT !.pending = {}, !.staged = 0, !.lost = TRUE, !.frame = p.frame + 1, !.block = 0],
           IF q.lost THEN <<>> ELSE <<LostCall(q.frame, FALSE)>>)
MissedBlock(q, p) ==
    \/ q.pending # {} /\ q.last # 0 /\ q.frame = p.frame
    \/ p.block # Expected(q, p)

\* The queue is set up for the packet's block.
StartBlock(q, p) ==
    [q EXCEPT !.frame = p.frame, !.low = p.n - p.index, !.contig = p.n - p.index, !.pending = {},
              !.staged = IF q.frame = p.frame THEN @ ELSE 0, !.data = 0, !.parity = 0,
              !.highest = 0, !.missing = 0, !.fast = TRUE, !.lost = FALSE,
              !.block = p.block, !.last = BlocksOf(p.frame) - 1]

\* A gap between frames is reported, unless it is the one frame already reported.
GapCalls(q, p) ==
    IF q.frame # p.frame /\ (q.frame + 1 # p.frame \/ ~q.lost)
    THEN <<LostCall(p.frame - 1, FALSE)>> ELSE <<>>

(***************************************************************************)
(* queuePacket and the counts.                                             *)
(***************************************************************************)
InOrder(q, p)      == q.fast /\ p.n = q.contig
IsDuplicate(q, p)  == ~InOrder(q, p) /\ p.index \in q.pending
Late(q, p)         == ~InOrder(q, p) /\ \E i \in q.pending : i > p.index

\* Out of order data ends the speculation on lost frames, for a while.
NoteOrder(q, p) ==
    CASE Late(q, p)                                      -> [q EXCEPT !.oos = TRUE, !.oosAt = p.frame]
      [] ~Late(q, p) /\ q.oos /\ p.frame > q.oosAt + Cooldown -> [q EXCEPT !.oos = FALSE]
      [] OTHER                                           -> q

\* Mutant: a packet out of order leaves the fast path open.
QueuePacketStaysFast(q, p) ==
    [NoteOrder(q, p) EXCEPT !.pending = @ \cup {p.index},
                            !.contig = IF InOrder(q, p) THEN p.n + 1 ELSE @]

QueuePacket(q, p) ==
    [NoteOrder(q, p) EXCEPT !.pending = @ \cup {p.index},
                            !.fast = InOrder(q, p),
                            !.contig = IF InOrder(q, p) THEN p.n + 1 ELSE @]

CountPacket(q, p) ==
    LET first == Cardinality(q.pending) = 1
        above == ~first /\ IsBefore16(q.highest, p.n)
    IN [q EXCEPT !.missing = CASE first -> @ + (p.n - q.low)
                               [] above -> @ + (p.n - q.highest - 1)
                               [] OTHER -> @ - 1,
                 !.highest = IF first \/ above THEN p.n ELSE @,
                 !.data   = IF p.index < DataShards THEN @ + 1 ELSE @,
                 !.parity = IF p.index < DataShards THEN @ ELSE @ + 1]

(***************************************************************************)
(* reconstructFrame, stageCompleteFecBlock and submitCompletedFrame.       *)
(***************************************************************************)
Complete(q) == Cardinality(q.pending) >= DataShards

\* Too few packets: without reordering, the frame is lost as soon as more are
\* missing than the parity makes up for.
Speculates(q) == ~q.lost /\ ~q.oos /\ q.missing > ParityShards
Incomplete(q) ==
    IF Speculates(q)
    THEN Result([q EXCEPT !.lost = TRUE], <<LostCall(q.frame, TRUE)>>)
    ELSE Result(q, <<>>)

\* A frame that was reported lost and came after all: no more speculation for a while.
Mispredicted(q) ==
    IF q.lost /\ ~q.oos THEN [q EXCEPT !.oos = TRUE, !.oosAt = q.frame] ELSE q

\* The block is staged, with the last one the frame is submitted.
Stage(q) ==
    IF q.block < q.last
    THEN Result([q EXCEPT !.pending = {}, !.staged = @ + 1, !.block = @ + 1], <<>>)
    ELSE Result([q EXCEPT !.pending = {}, !.staged = 0, !.frame = @ + 1, !.block = 0],
                <<FrameCall(q.frame)>>)

\* bad: the first of the packets rebuilt from the parity that fails its checks, or
\* DataShards for none.  Those before it are queued by then, as if they had come; those
\* after it are freed.
NeedsParity(q) == q.data < DataShards
Rebuilt(q)     == (0 .. DataShards - 1) \ q.pending
KeepRebuilt(q, bad) ==
    LET kept == {i \in Rebuilt(q) : i < bad}
    IN  [q EXCEPT !.pending = @ \cup kept, !.fast = @ /\ kept = {}]
Reconstruct(q, bad) ==
    IF ~Complete(q) THEN Incomplete(q)
    ELSE IF NeedsParity(q) /\ bad \in Rebuilt(q) THEN Result(KeepRebuilt(Mispredicted(q), bad), <<>>)
    ELSE Stage(Mispredicted(q))

(***************************************************************************)
(* RtpvAddPacket                                                           *)
(***************************************************************************)
AddVideoPacket(q, p, bad) ==
    LET fresh == StartsBlock(q, p)
        s == IF fresh THEN StartBlock(q, p) ELSE q
        k == CountPacket(QueuePacket(s, p), p)
        r == Reconstruct(k, bad)
    IN CASE Behind16(q, p) -> Result(q, <<>>)
         [] ~Behind16(q, p) /\ fresh /\ MissedBlock(q, p) -> SkipFrame(q, p)
         [] OTHER ->
              [r EXCEPT !.q = IF IsDuplicate(s, p) THEN s ELSE @,
                        !.calls = (IF fresh THEN GapCalls(q, p) ELSE <<>>)
                                  \o (IF IsDuplicate(s, p) THEN <<>> ELSE @),
                        !.saw = IF fresh THEN p.frame ELSE 0]

\* What the code asserts of the counts of a block that has packets.
CountsAreSound(q) ==
    /\ q.missing >= 0 /\ q.missing < Shards
    /\ q.data <= DataShards /\ q.parity <= ParityShards
    /\ IF Complete(q) THEN q.missing <= ParityShards
       ELSE q.lost \/ q.oos
            \/ DataShards - Cardinality(q.pending) <= q.low + Shards - 1 - q.highest
================================================================================
