--------------------------- MODULE VideoStreamProofs ---------------------------
(***************************************************************************)
(* Proofs about the video stream, for frames, blocks, queues and requests  *)
(* of any number and size: the counts of a block that the RTP queue        *)
(* asserts, the losses the depacketizer is told of, and the frames the     *)
(* decoder refers to.                                                      *)
(***************************************************************************)
EXTENDS VideoStream, SequenceTheorems, FiniteSetTheorems, TLAPS

(***************************************************************************)
(* Types.                                                                  *)
(***************************************************************************)
Indices == 0 .. Shards - 1
Queues == [frame: Nat \ {0}, block: Nat, last: Nat, low: Nat, contig: Nat, pending: SUBSET Indices,
           staged: Nat, data: Nat, parity: Nat, highest: Nat, missing: Int, fast: BOOLEAN,
           lost: BOOLEAN, oos: BOOLEAN, oosAt: Nat]
Calls == [call: {"lost", "frame"}, frame: Nat, speculative: BOOLEAN]
Depacketizers == [next: Nat, start: Nat, waitNext: BOOLEAN, waitIdr: BOOLEAN, waitRfi: BOOLEAN,
                  decoding: BOOLEAN, dropPending: BOOLEAN, idrDone: BOOLEAN, strict: BOOLEAN, drops: Nat]
Ranges   == [from: Nat, to: Nat]
Requests == [tuples: LbqOf(Ranges, TupleBound), idr: BOOLEAN]
\* Where the ranges that wait begin.
Froms(c) == {c.tuples.items[i].from : i \in DOMAIN c.tuples.items}
Encoded  == [type: {"I", "P", "R"}, ref: Nat]
Opened(q) == ~q.shutdown /\ ~q.draining /\ ~q.userWake
SoundRequests == {c \in Requests : Opened(c.tuples)}

AtFrame == {"last", "pending", "submit", "offer", "flush"}

QueueOK == queue \in Queues /\ calls \in Seq(Calls)
DepacketizerOK == d \in Depacketizers /\ d.strict = mode.strict
RequestsOK == requests \in SoundRequests /\ taken \in Nat
DecoderOK ==
    /\ lbq \in LbqOf(Nat, Bound) /\ Opened(lbq)
    /\ dec \in {"wait", "decode", "flush", "pending", "request"} /\ held \in Nat
WorldOK ==
    /\ sent \in Seq(Encoded) /\ host \in [idr: BOOLEAN, rfi: Nat] /\ high \in Nat /\ shown \subseteq Nat
    /\ raced \in BOOLEAN /\ revived \in BOOLEAN /\ refreshes \in Nat /\ corruptions \in Nat
\* The receive thread is at the first of the calls it has left.
RxOK ==
    /\ rx \in {"recv", "lost", "frame"} \cup AtFrame
    /\ (rx = "recv") = (calls = <<>>)
    /\ rx \in {"lost", "frame"} => Head(calls).call = rx
    /\ rx \in AtFrame => Head(calls).call = "frame"
TypeOK ==
    mode \in Modes /\ RxOK /\ QueueOK /\ DepacketizerOK /\ RequestsOK /\ DecoderOK /\ WorldOK

(***************************************************************************)
(* The packets of a block, and what the queue counts of them.              *)
(***************************************************************************)
\* A block with packets is the one of its frame.  The counts are those of the packets that
\* came: up to the highest one, each has come or is missing.  A rebuilt packet is there
\* without being counted, but none is before enough have come.
Tallied(q) ==
    /\ q.low = FirstOf(q.frame, q.block) /\ q.last = BlocksOf(q.frame) - 1
    /\ q.low <= q.highest /\ q.highest - q.low \in q.pending
    /\ \A i \in q.pending : i <= q.highest - q.low
    /\ q.missing = q.highest - q.low + 1 - (q.data + q.parity)
    /\ q.data + q.parity >= 1
    /\ q.data <= Cardinality({i \in q.pending : i < DataShards})
    /\ q.parity = Cardinality({i \in q.pending : i >= DataShards})
    /\ q.data = Cardinality({i \in q.pending : i < DataShards}) \/ q.data + q.parity >= DataShards
    /\ q.fast => q.pending = 0 .. q.contig - q.low - 1 /\ q.low < q.contig
CountsFollow(q) ==
    q.pending # {} => Tallied(q) /\ (Complete(q) \/ q.lost \/ q.oos \/ q.missing <= ParityShards)
BlockIsCounted == CountsFollow(queue)
\* The queue holds what came of a frame since it was reported lost.
HoldsLost(q) == q.lost /\ q.pending # {}

(***************************************************************************)
(* The frames the calls are about.                                         *)
(***************************************************************************)
\* They grow, and a frame that is handed over is behind the queue.
CallsGrow ==
    /\ Len(calls) <= 2
    /\ \A i \in DOMAIN calls :
          /\ calls[i].frame \in DOMAIN sent /\ calls[i].frame <= queue.frame
          /\ calls[i].call = "frame" => calls[i].frame < queue.frame
          /\ \A j \in 1 .. i - 1 : calls[j].frame < calls[i].frame
FramesKnown == queue.frame <= Len(sent) + 1

\* The depacketizer follows the queue, and is in a frame from its first packet to its last.
Following ==
    /\ d.start <= d.next /\ d.next <= queue.frame + 1 /\ d.next <= Len(sent) + 1
    /\ d.start <= queue.frame
    /\ calls # <<>> => d.start <= Current /\ d.next <= Current + 1
    /\ d.decoding <=> rx = "last"
    /\ rx = "last" => d.next = Current
    /\ rx \in {"pending", "submit", "offer"} => d.next = Current + 1

\* The receive thread's place, in the queue, the calls and the depacketizer; and
\* what the others have.
Place ==
    /\ mode \in Modes /\ RxOK /\ QueueOK /\ DepacketizerOK
    /\ BlockIsCounted /\ CallsGrow /\ FramesKnown /\ Following
Reception == Place /\ RequestsOK /\ DecoderOK /\ WorldOK

(***************************************************************************)
(* The frames the decoder gets.                                            *)
(***************************************************************************)
\* A frame refers to an earlier one, and to none across an IDR frame.
FramesRefer ==
    \A f \in DOMAIN sent :
        sent[f].type # "I" =>
            /\ sent[f].ref \in 1 .. f - 1
            /\ \A g \in sent[f].ref + 1 .. f - 1 : sent[g].type # "I"
            /\ sent[f].type = "P" => sent[f].ref = f - 1

\* The frames on their way to the decoder, in order, and those it can refer to.
Pipe  == {lbq.items[i] : i \in DOMAIN lbq.items} \cup (IF dec = "decode" THEN {held} ELSE {})
Avail == shown \cup Pipe
PipeInOrder ==
    /\ \A i, j \in DOMAIN lbq.items : i < j => lbq.items[i] < lbq.items[j]
    /\ \A i \in DOMAIN lbq.items : dec = "decode" => held < lbq.items[i]
    /\ Avail \subseteq DOMAIN sent
    /\ \A a \in Avail : a < d.start
    /\ \A a \in shown, b \in Pipe : a < b
    /\ mode.direct => dec = "wait" /\ lbq.items = <<>> /\ rx \notin {"offer", "flush"}
    /\ ~mode.direct => rx # "submit"
    /\ rx = "submit" => ~d.dropPending
    /\ rx = "flush" => d.waitIdr

\* What is on its way refers to what is on its way, or was decoded; so will the
\* next frame, unless one that can be decoded is waited for.
Refers(f) == sent[f].type = "I" \/ sent[f].ref \in Avail
References ==
    /\ \A f \in Pipe : Refers(f)
    /\ rx \in {"pending", "offer", "submit"} => Refers(Current) \/ d.dropPending \/ dec = "pending"
    /\ rx = "last" /\ sent[Current].type = "P" => MustWait(d) \/ sent[Current].ref \in Avail
    /\ rx \notin AtFrame \ {"flush"} => MustWait(d) \/ (d.next = d.start /\ d.start - 1 \in Avail)

\* A range that was reported lost, or may be, starts behind a frame the decoder
\* has, or an IDR frame comes before it matters.
Reported == Froms(requests) \cup {taken, host.rfi}
Intact(a) == a \in Avail \/ d.waitIdr \/ \E g \in DOMAIN sent : a < g /\ sent[g].type = "I"
RangesKnown ==
    /\ \A r \in Reported : r <= d.start
    /\ \A f \in DOMAIN sent : sent[f].type = "R" => sent[f].ref < d.start
RangesFit ==
    /\ \A r \in Reported \cup {d.start} : r > 1 => Intact(r - 1)
    /\ \A f \in DOMAIN sent : sent[f].type = "R" /\ d.next <= f => sent[f].ref \in Avail \/ d.waitIdr

\* Between the flag and the flush of a refresh, the decoder waits for an IDR
\* frame or one has come that was not queued.
FlushIsSafe ==
    dec = "flush" =>
        \/ d.waitIdr
        \/ \E g \in DOMAIN sent :
              sent[g].type = "I" /\ d.start <= g /\ (g < d.next \/ (rx = "last" /\ g = Current))

\* All of it, the last three but for a race with a refresh.
Good == References /\ RangesFit /\ FlushIsSafe
IInv == Reception /\ FramesRefer /\ PipeInOrder /\ RangesKnown /\ (~raced => Good)

(***************************************************************************)
(* The waits of the depacketizer.                                          *)
(***************************************************************************)
\* The first frame the depacketizer has yet to get, after the calls that are left.
NextOut(q, cs) ==
    IF cs # <<>> /\ cs[Len(cs)].call = "frame" THEN cs[Len(cs)].frame ELSE q.frame
\* The queue is done with frame f, or holds what came of it since it was reported lost.
Passed(q, cs, f) ==
    f < NextOut(q, cs) \/ (HoldsLost(q) /\ NextOut(q, cs) = q.frame /\ f = q.frame)
FrameIsLast(cs) == \A i \in DOMAIN cs : cs[i].call = "frame" => i = Len(cs)

\* An IDR frame is asked for, will be, or is on its way.
ToCome(f) == f \in DOMAIN sent /\ d.next <= f /\ (rx = "last" => Current < f)
IdrIsDue ==
    \/ requests.idr \/ host.idr \/ dec \in {"flush", "pending", "request"} \/ rx = "flush"
    \/ \E f \in DOMAIN sent : ToCome(f) /\ sent[f].type = "I"
RangeIsDue ==
    \/ requests.tuples.items # <<>> \/ taken # None \/ host.rfi # None
    \/ \E f \in DOMAIN sent : ToCome(f) /\ sent[f].type = "R"

\* Ranges are for a decoder that can do without frames and has one.
CanAsk ==
    /\ d.waitRfi => ~d.strict /\ d.idrDone
    /\ d.idrDone => d.start > 0
    /\ \A r \in Froms(requests) : r > 0
\* Who waits for a frame after a range that was lost has asked for it, and who
\* drops frames for the sake of a refresh has asked for an IDR frame.
RangeIsAsked ==
    /\ d.waitRfi /\ rx # "last" => IdrIsDue \/ RangeIsDue
    /\ d.waitRfi /\ d.waitIdr => IdrIsDue \/ (rx = "last" /\ d.waitNext)
DropIsRefreshed ==
    d.dropPending => IdrIsDue \/ (rx \in {"last", "pending"} /\ sent[Current].type = "I")

\* The depacketizer follows what the queue has done, and who waits for an IDR
\* frame that is not due has missed one, or will be told of a loss.
Between == {"recv", "lost", "frame"}
Follows ==
    /\ rx \in Between => Passed(queue, calls, d.next - 1)
    /\ rx = "lost" => d.next <= Current
    /\ \A i \in DOMAIN calls : calls[i].call = "lost" => Passed(queue, calls, calls[i].frame)
IdrIsComing ==
    d.waitIdr => \/ IdrIsDue \/ d.waitNext \/ sent = <<>>
                 \/ rx \in Between /\ Passed(queue, calls, d.next)

\* The last two but for a frame that was reported lost and came after all.
Waits ==
    /\ FrameIsLast(calls) /\ CanAsk /\ RangeIsAsked /\ DropIsRefreshed
    /\ ~revived => Follows /\ IdrIsComing

(***************************************************************************)
(* Numbers, packets and sets of packets.                                   *)
(***************************************************************************)
(* The constants are numbers, and a block is short for the numbers it has. *)
LEMMA Sizes ==
    /\ DataShards \in Nat \ {0} /\ ParityShards \in Nat /\ Shards \in Nat \ {0}
    /\ SeqSpace \in Nat \ {0} /\ FirstSeq \in Nat /\ Cooldown \in Nat /\ MultiBlock \subseteq Nat
    /\ DataShards + ParityShards = Shards /\ 4 * Shards < SeqSpace
    BY VideoQueueAssumption DEF VideoQueueAssumption, Shards

(* isBefore16 orders the numbers of one block as they are.                 *)
LEMMA Before16 ==
    ASSUME NEW x \in Nat, NEW y \in Nat, x < y + Shards, y < x + Shards
    PROVE  IsBefore16(x, y) <=> x < y
    <1>1. /\ (SeqSpace - 1) \div 2 >= 2 * Shards /\ (SeqSpace - 1) \div 2 <= SeqSpace - 2 * Shards
          /\ (SeqSpace - 1) \div 2 \in Nat
        BY Sizes
    <1>2. CASE x < y
        <2>1. y - x \in 1 .. SeqSpace - 1
            BY <1>2, Sizes
        <2>2. (-(y - x)) % SeqSpace = SeqSpace - (y - x)
            BY <2>1, Sizes
        <2>3. x - y = -(y - x)
            OBVIOUS
        <2> QED
            BY <1>1, <1>2, <2>2, <2>3, Sizes DEF IsBefore16
    <1>3. CASE y <= x
        <2>1. x - y \in 0 .. SeqSpace - 1
            BY <1>3, Sizes
        <2>2. (x - y) % SeqSpace = x - y
            BY <2>1, Sizes
        <2> QED
            BY <1>1, <1>3, <2>2, Sizes DEF IsBefore16
    <1> QED
        BY <1>2, <1>3

(* A packet of a frame the host has encoded.                               *)
Packets ==
    {p \in [frame: Nat \ {0}, block: Nat, index: Indices, n: Nat] :
        p.block < BlocksOf(p.frame) /\ p.n = FirstOf(p.frame, p.block) + p.index}

(* The first number of a block and the number of blocks of a frame.        *)
LEMMA FirstNumbers ==
    ASSUME NEW f \in Nat \ {0}, NEW b \in Nat
    PROVE  FirstOf(f, b) \in Nat /\ BlocksOf(f) \in {1, 2}
    <1>1. Cardinality({g \in MultiBlock : g < f}) \in Nat
        <2>1. IsFiniteSet(0 .. f - 1)
            BY FS_Interval
        <2>2. ASSUME NEW g \in MultiBlock, g < f
              PROVE  g \in 0 .. f - 1
            <3>1. g \in Nat
                BY Sizes
            <3> QED
                BY <2>2, <3>1
        <2>4. {g \in MultiBlock : g < f} \subseteq 0 .. f - 1
            BY <2>2
        <2>3. IsFiniteSet({g \in MultiBlock : g < f})
            BY <2>1, <2>4, FS_Subset
        <2> QED
            BY <2>3, FS_CardinalityType
    <1> DEFINE x == (f - 1) + Cardinality({g \in MultiBlock : g < f}) + b
    <1>2. x \in Nat
        BY <1>1
    <1>3. Shards * x \in Nat
        <2> HIDE DEF x
        <2> QED
            BY <1>2, Sizes
    <1> QED
        BY <1>3, Sizes DEF FirstOf, BlocksOf

(* What arrives is a packet of a frame that was sent.                      *)
LEMMA PacketsArePackets ==
    ASSUME NEW f \in Nat \ {0}, NEW p \in PacketsOf(f)
    PROVE  p \in Packets /\ p.frame = f
    <1>1. PICK b \in 0 .. BlocksOf(f) - 1, i \in 0 .. Shards - 1 : p = Packet(f, b, i)
        BY DEF PacketsOf
    <1>2. BlocksOf(f) \in {1, 2} /\ b \in Nat
        BY <1>1, FirstNumbers DEF BlocksOf
    <1>3. FirstOf(f, b) \in Nat
        BY <1>2, FirstNumbers
    <1>4. i \in Nat /\ i \in Indices
        BY Sizes DEF Indices
    <1> QED
        BY <1>1, <1>2, <1>3, <1>4 DEF Packet, Packets

(* A set of indices with one more.                                         *)
LEMMA OneMore ==
    ASSUME NEW S \in SUBSET Indices, NEW i \in Indices, i \notin S
    PROVE  /\ IsFiniteSet(S) /\ Cardinality(S) \in Nat
           /\ S \cup {i} \in SUBSET Indices /\ Cardinality(S \cup {i}) = Cardinality(S) + 1
           /\ Cardinality(S \cup {i}) = 1 <=> S = {}
           /\ i < DataShards =>
                /\ Cardinality({j \in S \cup {i} : j < DataShards}) = Cardinality({j \in S : j < DataShards}) + 1
                /\ {j \in S \cup {i} : j >= DataShards} = {j \in S : j >= DataShards}
           /\ i >= DataShards =>
                /\ Cardinality({j \in S \cup {i} : j >= DataShards}) = Cardinality({j \in S : j >= DataShards}) + 1
                /\ {j \in S \cup {i} : j < DataShards} = {j \in S : j < DataShards}
    <1>1. IsFiniteSet(Indices)
        BY FS_Interval, Sizes DEF Indices
    <1>2. \A T \in SUBSET Indices : IsFiniteSet(T) /\ Cardinality(T) \in Nat
        BY <1>1, FS_Subset, FS_CardinalityType
    <1>3. \A T \in SUBSET Indices : i \notin T => Cardinality(T \cup {i}) = Cardinality(T) + 1
        BY <1>2, FS_AddElement
    <1>4. Cardinality(S \cup {i}) = 1 <=> S = {}
        BY <1>2, <1>3, FS_EmptySet
    <1>5. ASSUME i < DataShards
          PROVE  /\ Cardinality({j \in S \cup {i} : j < DataShards}) = Cardinality({j \in S : j < DataShards}) + 1
                 /\ {j \in S \cup {i} : j >= DataShards} = {j \in S : j >= DataShards}
        <2>1. {j \in S \cup {i} : j < DataShards} = {j \in S : j < DataShards} \cup {i}
            BY <1>5
        <2>2. {j \in S : j < DataShards} \in SUBSET Indices /\ i \notin {j \in S : j < DataShards}
            OBVIOUS
        <2>3. {j \in S \cup {i} : j >= DataShards} = {j \in S : j >= DataShards}
            BY <1>5, Sizes DEF Indices
        <2> QED
            BY <1>3, <2>1, <2>2, <2>3
    <1>6. ASSUME i >= DataShards
          PROVE  /\ Cardinality({j \in S \cup {i} : j >= DataShards}) = Cardinality({j \in S : j >= DataShards}) + 1
                 /\ {j \in S \cup {i} : j < DataShards} = {j \in S : j < DataShards}
        <2>1. {j \in S \cup {i} : j >= DataShards} = {j \in S : j >= DataShards} \cup {i}
            BY <1>6
        <2>2. {j \in S : j >= DataShards} \in SUBSET Indices /\ i \notin {j \in S : j >= DataShards}
            OBVIOUS
        <2>3. {j \in S \cup {i} : j < DataShards} = {j \in S : j < DataShards}
            BY <1>6, Sizes DEF Indices
        <2> QED
            BY <1>3, <2>1, <2>2, <2>3
    <1> QED
        BY <1>2, <1>3, <1>4, <1>5, <1>6

(***************************************************************************)
(* RtpvAddPacket and the counts.                                           *)
(***************************************************************************)
\* The queue is about the packet's block.
For(q, p) ==
    /\ q.frame = p.frame /\ q.block = p.block /\ q.last = BlocksOf(p.frame) - 1
    /\ q.low = FirstOf(p.frame, p.block) /\ q.low = p.n - p.index
\* ... and counts what it has of it.
Ready(q, p) ==
    /\ For(q, p)
    /\ q.pending = {} => q.data = 0 /\ q.parity = 0 /\ q.missing = 0 /\ q.fast /\ q.contig = q.low
    /\ q.pending # {} => Tallied(q)

(* queuePacket changes what it says, and the note on the order.            *)
LEMMA QueuePacketFields ==
    ASSUME NEW q \in Queues, NEW p \in Packets
    PROVE  LET r == QueuePacket(q, p)
           IN  /\ r \in Queues
               /\ r.pending = q.pending \cup {p.index}
               /\ r.fast = InOrder(q, p)
               /\ r.contig = IF InOrder(q, p) THEN p.n + 1 ELSE q.contig
               /\ r.frame = q.frame /\ r.block = q.block /\ r.last = q.last /\ r.low = q.low
               /\ r.staged = q.staged /\ r.data = q.data /\ r.parity = q.parity
               /\ r.highest = q.highest /\ r.missing = q.missing /\ r.lost = q.lost
    <1> DEFINE n == NoteOrder(q, p)
    <1>1. p.frame \in Nat /\ p.index \in Indices /\ p.n \in Nat
        BY DEF Packets
    <1>2. /\ n \in Queues
          /\ n.frame = q.frame /\ n.block = q.block /\ n.last = q.last /\ n.low = q.low /\ n.contig = q.contig
          /\ n.pending = q.pending /\ n.staged = q.staged /\ n.data = q.data /\ n.parity = q.parity
          /\ n.highest = q.highest /\ n.missing = q.missing /\ n.lost = q.lost /\ n.fast = q.fast
        BY <1>1 DEF NoteOrder, Queues
    <1>3. InOrder(q, p) \in BOOLEAN
        BY DEF InOrder, Queues
    <1>4. QueuePacket(q, p) = [n EXCEPT !.pending = @ \cup {p.index}, !.fast = InOrder(q, p),
                                        !.contig = IF InOrder(q, p) THEN p.n + 1 ELSE @]
        BY DEF QueuePacket
    <1> HIDE DEF n
    <1>5. n.pending \cup {p.index} \in SUBSET Indices
        BY <1>1, <1>2 DEF Queues
    <1>6. (IF InOrder(q, p) THEN p.n + 1 ELSE n.contig) \in Nat
        BY <1>1, <1>2 DEF Queues
    <1> DEFINE S == n.pending \cup {p.index}
               b == InOrder(q, p)
               g == IF b THEN p.n + 1 ELSE n.contig
    <1>7. QueuePacket(q, p) = [n EXCEPT !.pending = S, !.fast = b, !.contig = g]
        BY <1>4
    <1>8. S \in SUBSET Indices /\ b \in BOOLEAN /\ g \in Nat /\ S = q.pending \cup {p.index}
          /\ b = InOrder(q, p) /\ g = IF InOrder(q, p) THEN p.n + 1 ELSE q.contig
        BY <1>2, <1>3, <1>5, <1>6
    <1> HIDE DEF S, b, g
    <1>9. QueuePacket(q, p) \in Queues
        BY <1>2, <1>7, <1>8 DEF Queues
    <1> QED
        BY <1>2, <1>7, <1>8, <1>9 DEF Queues

(* A packet that is in order, or no duplicate, is not there yet.           *)
LEMMA PacketIsNew ==
    ASSUME NEW q \in Queues, NEW p \in Packets, Ready(q, p), ~IsDuplicate(q, p)
    PROVE  p.index \notin q.pending
    <1>1. CASE InOrder(q, p) /\ q.pending # {}
        <2>1. q.pending = 0 .. q.contig - q.low - 1 /\ p.n = q.contig /\ q.low = p.n - p.index
            BY <1>1 DEF Ready, For, Tallied, InOrder
        <2>2. p.index \in Nat /\ p.n \in Nat
            BY Sizes DEF Packets, Indices
        <2>3. p.index = q.contig - q.low
            BY <2>1, <2>2
        <2>4. p.index \notin 0 .. p.index - 1
            BY <2>2
        <2> QED
            BY <2>1, <2>3, <2>4
    <1> QED
        BY <1>1 DEF IsDuplicate

(* Sets of indices are as large as the intervals they are in at most.      *)
LEMMA Within ==
    ASSUME NEW S, NEW a \in Nat, NEW b \in Nat, a <= b, S \subseteq a .. b - 1
    PROVE  IsFiniteSet(S) /\ Cardinality(S) \in Nat /\ Cardinality(S) <= b - a
    <1>1. IsFiniteSet(a .. b - 1) /\ Cardinality(a .. b - 1) = IF a > b - 1 THEN 0 ELSE (b - 1) - a + 1
        BY FS_Interval
    <1>2. Cardinality(a .. b - 1) = b - a
        BY <1>1
    <1> QED
        BY <1>1, <1>2, FS_Subset, FS_CardinalityType

(* The data packets and the parity packets of a block make up all of them. *)
LEMMA Halves ==
    ASSUME NEW S \in SUBSET Indices
    PROVE  LET few  == {j \in S : j < DataShards}
               many == {j \in S : j >= DataShards}
           IN  /\ IsFiniteSet(S) /\ Cardinality(S) \in Nat
               /\ IsFiniteSet(few) /\ Cardinality(few) \in Nat /\ Cardinality(few) <= DataShards
               /\ IsFiniteSet(many) /\ Cardinality(many) \in Nat /\ Cardinality(many) <= ParityShards
               /\ Cardinality(S) = Cardinality(few) + Cardinality(many)
    <1> DEFINE few  == {j \in S : j < DataShards}
               many == {j \in S : j >= DataShards}
    <1>1. /\ DataShards \in Nat /\ ParityShards \in Nat /\ 0 <= DataShards /\ 0 \in Nat
          /\ Shards = DataShards + ParityShards /\ DataShards <= Shards /\ Shards \in Nat
        BY Sizes DEF Shards
    <1>2. S \subseteq 0 .. Shards - 1
        BY DEF Indices
    <1>3. \A j \in S : /\ j \in Nat /\ j \in 0 .. Shards - 1
                       /\ j < DataShards => j \in 0 .. DataShards - 1 /\ ~(j >= DataShards)
                       /\ ~(j < DataShards) => j \in DataShards .. Shards - 1 /\ j >= DataShards
        <2> SUFFICES ASSUME NEW j \in S
                     PROVE  /\ j \in Nat /\ j \in 0 .. Shards - 1
                            /\ j < DataShards => j \in 0 .. DataShards - 1 /\ ~(j >= DataShards)
                            /\ ~(j < DataShards) => j \in DataShards .. Shards - 1 /\ j >= DataShards
            OBVIOUS
        <2>1. j \in 0 .. Shards - 1
            BY <1>2
        <2> QED
            BY <1>1, <2>1
    <1>4. /\ few \subseteq 0 .. DataShards - 1 /\ many \subseteq DataShards .. Shards - 1
          /\ S = few \cup many /\ few \cap many = {}
        BY <1>3, Zenon
    <1> HIDE DEF few, many
    <1>5. /\ IsFiniteSet(few) /\ Cardinality(few) \in Nat /\ Cardinality(few) <= DataShards
          /\ IsFiniteSet(many) /\ Cardinality(many) \in Nat /\ Cardinality(many) <= ParityShards
        <2>1. IsFiniteSet(few) /\ Cardinality(few) \in Nat /\ Cardinality(few) <= DataShards - 0
            BY <1>1, <1>4, Within
        <2>2. IsFiniteSet(many) /\ Cardinality(many) \in Nat /\ Cardinality(many) <= Shards - DataShards
            BY <1>1, <1>4, Within
        <2> QED
            BY <1>1, <2>1, <2>2
    <1>6. IsFiniteSet(S) /\ Cardinality(S) = Cardinality(few) + Cardinality(many) - Cardinality(few \cap many)
        BY <1>4, <1>5, FS_Union
    <1>7. Cardinality(few \cap many) = 0
        BY <1>4, FS_EmptySet
    <1>8. Cardinality(S) \in Nat /\ Cardinality(S) = Cardinality(few) + Cardinality(many)
        BY <1>5, <1>6, <1>7
    <1> QED
        BY <1>5, <1>6, <1>8 DEF few, many

(* The counts are of packets that are there, and enough once the block is complete. *)
LEMMA EnoughCame ==
    ASSUME NEW q \in Queues, Tallied(q)
    PROVE  /\ q.data + q.parity <= Cardinality(q.pending)
           /\ Complete(q) => q.data + q.parity >= DataShards
    <1>1. q.pending \in SUBSET Indices /\ q.data \in Nat /\ q.parity \in Nat /\ DataShards \in Nat
        BY Sizes DEF Queues
    <1> DEFINE few  == {j \in q.pending : j < DataShards}
               many == {j \in q.pending : j >= DataShards}
               c    == Cardinality(q.pending)
    <1>2. /\ c \in Nat /\ Cardinality(few) \in Nat /\ Cardinality(many) \in Nat
          /\ c = Cardinality(few) + Cardinality(many)
        BY <1>1, Halves
    <1>3. /\ q.data <= Cardinality(few) /\ q.parity = Cardinality(many)
          /\ q.data = Cardinality(few) \/ q.data + q.parity >= DataShards
        BY DEF Tallied
    <1>4. Complete(q) <=> c >= DataShards
        BY DEF Complete
    <1> HIDE DEF few, many, c
    <1> QED
        BY <1>1, <1>2, <1>3, <1>4 DEF c

(* The counts after the packet are those of the packets that are there.    *)
LEMMA PacketIsCounted ==
    ASSUME NEW q \in Queues, NEW p \in Packets, Ready(q, p), ~IsDuplicate(q, p)
    PROVE  LET k == CountPacket(QueuePacket(q, p), p)
           IN  /\ k \in Queues /\ Tallied(k) /\ k.pending # {}
               /\ k.frame = q.frame /\ k.block = q.block /\ k.last = q.last /\ k.staged = q.staged
               /\ k.lost = q.lost
    <1> DEFINE r == QueuePacket(q, p)
               k == CountPacket(r, p)
    <1>1. /\ r \in Queues
          /\ r.pending = q.pending \cup {p.index}
          /\ r.fast = InOrder(q, p)
          /\ r.contig = IF InOrder(q, p) THEN p.n + 1 ELSE q.contig
          /\ r.frame = q.frame /\ r.block = q.block /\ r.last = q.last /\ r.low = q.low
          /\ r.staged = q.staged /\ r.data = q.data /\ r.parity = q.parity
          /\ r.highest = q.highest /\ r.missing = q.missing /\ r.lost = q.lost
        BY QueuePacketFields
    <1> HIDE DEF r
    <1>2. /\ p.index \in Indices /\ p.index \in Nat /\ p.n \in Nat /\ q.low \in Nat /\ p.n = q.low + p.index
          /\ p.index < Shards
        BY Sizes DEF Packets, Indices, Queues, Ready, For
    <1>3. q.pending \in SUBSET Indices /\ p.index \notin q.pending
        BY PacketIsNew DEF Queues
    <1>4. /\ IsFiniteSet(q.pending) /\ Cardinality(q.pending) \in Nat
          /\ Cardinality(r.pending) = Cardinality(q.pending) + 1
          /\ Cardinality(r.pending) = 1 <=> q.pending = {}
        <2>1. /\ IsFiniteSet(q.pending) /\ Cardinality(q.pending) \in Nat
              /\ Cardinality(q.pending \cup {p.index}) = Cardinality(q.pending) + 1
              /\ Cardinality(q.pending \cup {p.index}) = 1 <=> q.pending = {}
            BY <1>2, <1>3, OneMore
        <2> QED
            BY <1>1, <2>1
    <1> DEFINE first == Cardinality(r.pending) = 1
               above == ~first /\ IsBefore16(r.highest, p.n)
               miss  == CASE first -> r.missing + (p.n - r.low)
                          [] above -> r.missing + (p.n - r.highest - 1)
                          [] OTHER -> r.missing - 1
               high2 == IF first \/ above THEN p.n ELSE r.highest
               dat   == IF p.index < DataShards THEN r.data + 1 ELSE r.data
               par   == IF p.index < DataShards THEN r.parity ELSE r.parity + 1
    <1>5. k = [r EXCEPT !.missing = miss, !.highest = high2, !.data = dat, !.parity = par]
        BY DEF CountPacket
    <1>6. first <=> q.pending = {}
        BY <1>4
    <1>7. q.pending # {} =>
             /\ q.low <= q.highest /\ q.highest - q.low \in q.pending
             /\ \A i \in q.pending : i <= q.highest - q.low
             /\ q.missing = q.highest - q.low + 1 - (q.data + q.parity)
             /\ q.highest \in Nat /\ q.highest < q.low + Shards
        <2> SUFFICES ASSUME q.pending # {}
                     PROVE  /\ q.low <= q.highest /\ q.highest - q.low \in q.pending
                            /\ \A i \in q.pending : i <= q.highest - q.low
                            /\ q.missing = q.highest - q.low + 1 - (q.data + q.parity)
                            /\ q.highest \in Nat /\ q.highest < q.low + Shards
            OBVIOUS
        <2>1. /\ q.low <= q.highest /\ q.highest - q.low \in q.pending
              /\ \A i \in q.pending : i <= q.highest - q.low
              /\ q.missing = q.highest - q.low + 1 - (q.data + q.parity)
            BY DEF Ready, Tallied
        <2>2. q.highest \in Nat /\ q.highest - q.low \in Indices
            BY <2>1 DEF Queues
        <2>3. q.highest < q.low + Shards
            BY <1>2, <2>2, Sizes DEF Indices
        <2> QED
            BY <2>1, <2>2, <2>3
    <1>8. q.pending # {} => (above <=> q.highest < p.n)
        <2>1. q.pending # {} => (IsBefore16(q.highest, p.n) <=> q.highest < p.n)
            BY <1>2, <1>7, Before16, Sizes
        <2> QED
            BY <1>1, <1>6, <2>1
    <1>9. /\ high2 \in Nat /\ q.low <= high2 /\ high2 - q.low \in r.pending
          /\ \A i \in r.pending : i <= high2 - q.low
        <2>1. CASE q.pending = {}
            <3>1. r.pending = {p.index} /\ high2 = p.n
                BY <1>1, <1>6, <2>1
            <3>2. high2 - q.low = p.index
                BY <1>2, <3>1
            <3> QED
                BY <1>2, <3>1, <3>2
        <2>2. CASE q.pending # {} /\ q.highest < p.n
            <3>1. high2 = p.n
                BY <1>8, <2>2
            <3>2. high2 - q.low = p.index
                BY <1>2, <3>1
            <3>3. ASSUME NEW i \in q.pending PROVE i <= high2 - q.low
                <4>1. i \in Nat /\ i <= q.highest - q.low
                    BY <1>3, <1>7, <2>2, Sizes DEF Indices
                <4> QED
                    BY <1>2, <1>7, <2>2, <3>1, <4>1
            <3>4. ASSUME NEW i \in r.pending PROVE i <= high2 - q.low
                <4>1. i \in q.pending \/ i = p.index
                    BY <1>1
                <4> QED
                    BY <1>2, <3>2, <3>3, <4>1
            <3>5. high2 \in Nat /\ q.low <= high2
                BY <1>2, <3>1
            <3>6. high2 - q.low \in r.pending
                BY <1>1, <3>2
            <3> QED
                BY <3>4, <3>5, <3>6
        <2>3. CASE q.pending # {} /\ ~(q.highest < p.n)
            <3>1. high2 = q.highest
                BY <1>1, <1>6, <1>8, <2>3
            <3>2. p.index <= high2 - q.low
                BY <1>2, <1>7, <2>3, <3>1
            <3> QED
                BY <1>1, <1>7, <2>3, <3>1, <3>2
        <2> QED
            BY <2>1, <2>2, <2>3
    <1>10. /\ miss = high2 - q.low + 1 - (dat + par) /\ miss \in Int
           /\ dat \in Nat /\ par \in Nat /\ dat + par = q.data + q.parity + 1
        <2>0. q.data \in Nat /\ q.parity \in Nat
            BY DEF Queues
        <2>4. dat \in Nat /\ par \in Nat /\ dat + par = q.data + q.parity + 1
            BY <1>1, <2>0
        <2> HIDE DEF dat, par
        <2>1. CASE q.pending = {}
            <3>1. miss = 0 + (p.n - q.low) /\ high2 = p.n /\ q.data = 0 /\ q.parity = 0
                BY <1>1, <1>6, <2>1 DEF Ready
            <3> QED
                BY <1>2, <2>4, <3>1
        <2>2. CASE q.pending # {} /\ q.highest < p.n
            <3>1. miss = q.missing + (p.n - q.highest - 1) /\ high2 = p.n
                BY <1>1, <1>6, <1>8, <2>2
            <3> QED
                BY <1>2, <1>7, <2>0, <2>2, <2>4, <3>1
        <2>3. CASE q.pending # {} /\ ~(q.highest < p.n)
            <3>1. miss = q.missing - 1 /\ high2 = q.highest
                BY <1>1, <1>6, <1>8, <2>3
            <3> QED
                BY <1>2, <1>7, <2>0, <2>3, <2>4, <3>1
        <2> QED
            BY <2>1, <2>2, <2>3
    <1> DEFINE few(S)  == {j \in S : j < DataShards}
               many(S) == {j \in S : j >= DataShards}
    <1>11. /\ dat <= Cardinality(few(r.pending)) /\ par = Cardinality(many(r.pending))
           /\ dat = Cardinality(few(r.pending)) \/ dat + par >= DataShards
        <2>1. /\ q.data <= Cardinality(few(q.pending)) /\ q.parity = Cardinality(many(q.pending))
              /\ q.data = Cardinality(few(q.pending)) \/ q.data + q.parity >= DataShards
            <3>1. CASE q.pending = {}
                <4>1. few(q.pending) = {} /\ many(q.pending) = {}
                    BY <3>1
                <4>2. q.data = 0 /\ q.parity = 0
                    BY <3>1 DEF Ready
                <4> QED
                    BY <4>1, <4>2, FS_EmptySet
            <3>2. CASE q.pending # {}
                BY <3>2 DEF Ready, Tallied
            <3> QED
                BY <3>1, <3>2
        <2>2. /\ q.data \in Nat /\ q.parity \in Nat
              /\ Cardinality(few(q.pending)) \in Nat /\ Cardinality(many(q.pending)) \in Nat
            BY <1>3, Halves DEF Queues
        <2>3. CASE p.index < DataShards
            <3>1. /\ Cardinality(few(q.pending \cup {p.index})) = Cardinality(few(q.pending)) + 1
                  /\ many(q.pending \cup {p.index}) = many(q.pending)
                BY <1>2, <1>3, <2>3, OneMore
            <3>2. /\ Cardinality(few(r.pending)) = Cardinality(few(q.pending)) + 1
                  /\ Cardinality(many(r.pending)) = Cardinality(many(q.pending))
                BY <1>1, <3>1
            <3>3. dat = q.data + 1 /\ par = q.parity
                BY <1>1, <2>3
            <3> HIDE DEF few, many, dat, par
            <3> QED
                BY <2>1, <2>2, <3>2, <3>3, Sizes
        <2>4. CASE ~(p.index < DataShards)
            <3>0. p.index >= DataShards
                BY <1>2, <2>4, Sizes
            <3>1. /\ Cardinality(many(q.pending \cup {p.index})) = Cardinality(many(q.pending)) + 1
                  /\ few(q.pending \cup {p.index}) = few(q.pending)
                BY <1>2, <1>3, <3>0, OneMore
            <3>2. /\ Cardinality(many(r.pending)) = Cardinality(many(q.pending)) + 1
                  /\ Cardinality(few(r.pending)) = Cardinality(few(q.pending))
                BY <1>1, <3>1
            <3>3. dat = q.data /\ par = q.parity + 1
                BY <1>1, <2>4
            <3> HIDE DEF few, many, dat, par
            <3> QED
                BY <2>1, <2>2, <3>2, <3>3, Sizes
        <2> QED
            BY <2>3, <2>4
    <1>12. r.fast => r.pending = 0 .. r.contig - q.low - 1 /\ q.low < r.contig
        <2> SUFFICES ASSUME InOrder(q, p)
                     PROVE  r.pending = 0 .. r.contig - q.low - 1 /\ q.low < r.contig
            BY <1>1
        <2>1. q.fast /\ p.n = q.contig /\ r.contig = p.n + 1
            BY <1>1 DEF InOrder
        <2>2. q.pending = 0 .. p.index - 1
            <3>1. CASE q.pending = {}
                <4>1. q.contig = q.low
                    BY <3>1 DEF Ready
                <4>2. p.index = 0
                    BY <1>2, <2>1, <4>1
                <4> QED
                    BY <3>1, <4>2
            <3>2. CASE q.pending # {}
                <4>1. q.pending = 0 .. q.contig - q.low - 1
                    BY <2>1, <3>2 DEF Ready, Tallied
                <4>2. q.contig - q.low = p.index
                    BY <1>2, <2>1
                <4> QED
                    BY <4>1, <4>2
            <3> QED
                BY <3>1, <3>2
        <2>3. r.contig - q.low - 1 = p.index /\ q.low < r.contig
            BY <1>2, <2>1
        <2>4. (0 .. p.index - 1) \cup {p.index} = 0 .. p.index
            BY <1>2
        <2> QED
            BY <1>1, <2>2, <2>3, <2>4
    <1> HIDE DEF miss, high2, dat, par
    <1>13. /\ k \in Queues
           /\ k.pending = r.pending /\ k.frame = q.frame /\ k.block = q.block /\ k.last = q.last
           /\ k.staged = q.staged /\ k.lost = q.lost /\ k.low = q.low /\ k.fast = r.fast /\ k.contig = r.contig
           /\ k.missing = miss /\ k.highest = high2 /\ k.data = dat /\ k.parity = par
        <2> HIDE DEF k
        <2> QED
            BY <1>1, <1>5, <1>9, <1>10 DEF Queues
    <1> HIDE DEF k
    <1>14. Tallied(k)
        <2>1. q.low = FirstOf(q.frame, q.block) /\ q.last = BlocksOf(q.frame) - 1
            BY DEF Ready, For
        <2>2. q.data \in Nat /\ q.parity \in Nat
            BY DEF Queues
        <2>3. dat + par >= 1
            BY <1>10, <2>2
        <2> QED
            BY <1>9, <1>10, <1>11, <1>12, <1>13, <2>1, <2>3 DEF Tallied
    <1>15. k.pending # {}
        BY <1>1, <1>13
    <1> QED
        BY <1>13, <1>14, <1>15 DEF k, r

(* What a call answers has the queue and the calls it says.                *)
LEMMA ResultFields ==
    ASSUME NEW q, NEW c
    PROVE  Result(q, c).q = q /\ Result(q, c).calls = c /\ Result(q, c).saw = 0
    BY DEF Result

(* A queue of which some fields are set is a queue.                        *)
LEMMA BlockMoves ==
    ASSUME NEW q \in Queues, NEW b \in Nat, NEW g \in Nat, NEW S \in SUBSET Indices
    PROVE  [q EXCEPT !.pending = S, !.staged = g, !.block = b] \in Queues
    BY DEF Queues

(* The same when the frame is done.                                        *)
LEMMA FrameMoves ==
    ASSUME NEW q \in Queues, NEW f \in Nat \ {0}, NEW b \in Nat, NEW g \in Nat, NEW S \in SUBSET Indices
    PROVE  [q EXCEPT !.pending = S, !.staged = g, !.frame = f, !.block = b] \in Queues
    BY DEF Queues

(* The same when the frame is given up.                                    *)
LEMMA FrameIsLeft ==
    ASSUME NEW q \in Queues, NEW f \in Nat \ {0}, NEW b \in Nat, NEW g \in Nat, NEW S \in SUBSET Indices,
           NEW x \in BOOLEAN
    PROVE  [q EXCEPT !.pending = S, !.staged = g, !.lost = x, !.frame = f, !.block = b] \in Queues
    BY DEF Queues

(* The same when a block begins, with its counts.                          *)
LEMMA BlockIsNew ==
    ASSUME NEW q \in Queues, NEW f \in Nat \ {0}, NEW b \in Nat, NEW l \in Nat, NEW lo \in Nat, NEW g \in Nat,
           NEW z \in Nat, NEW S \in SUBSET Indices, NEW x \in BOOLEAN, NEW y \in BOOLEAN
    PROVE  [q EXCEPT !.frame = f, !.low = lo, !.contig = lo, !.pending = S, !.staged = g, !.data = z,
                     !.parity = z, !.highest = z, !.missing = z, !.fast = x, !.lost = y, !.block = b,
                     !.last = l] \in Queues
    <1> DEFINE m == [q EXCEPT !.pending = S, !.staged = g, !.lost = y, !.frame = f, !.block = b]
               n == [m EXCEPT !.low = lo, !.contig = lo, !.data = z, !.parity = z]
    <1>1. m \in Queues
        BY FrameIsLeft
    <1>2. n \in Queues
        <2> HIDE DEF m
        <2> QED
            BY <1>1 DEF Queues
    <1> DEFINE o == [n EXCEPT !.highest = z, !.missing = z]
    <1>5. o \in Queues
        <2> HIDE DEF n
        <2>1. z \in Int
            OBVIOUS
        <2> QED
            BY <1>2, <2>1 DEF Queues
    <1>3. [o EXCEPT !.fast = x, !.last = l] \in Queues
        <2> HIDE DEF o
        <2> QED
            BY <1>5 DEF Queues
    <1>4. [o EXCEPT !.fast = x, !.last = l] =
            [q EXCEPT !.frame = f, !.low = lo, !.contig = lo, !.pending = S, !.staged = g, !.data = z,
                      !.parity = z, !.highest = z, !.missing = z, !.fast = x, !.lost = y, !.block = b,
                      !.last = l]
        BY DEF Queues
    <1> QED
        BY <1>3, <1>4

(* StartBlock sets the queue up for the packet's block.                    *)
LEMMA BlockIsStarted ==
    ASSUME NEW q \in Queues, NEW p \in Packets
    PROVE  LET s == StartBlock(q, p)
           IN  s \in Queues /\ Ready(s, p) /\ s.pending = {} /\ ~s.lost
    <1> DEFINE s == StartBlock(q, p)
               g == IF q.frame = p.frame THEN q.staged ELSE 0
    <1>1. /\ p.index \in Nat /\ p.n \in Nat /\ p.frame \in Nat \ {0} /\ p.block \in Nat
          /\ p.n = FirstOf(p.frame, p.block) + p.index
        BY Sizes DEF Packets, Indices
    <1>2. FirstOf(p.frame, p.block) \in Nat /\ BlocksOf(p.frame) \in {1, 2}
        BY <1>1, FirstNumbers
    <1>3. p.n - p.index = FirstOf(p.frame, p.block) /\ BlocksOf(p.frame) - 1 \in Nat
        BY <1>1, <1>2
    <1>4. /\ s = [q EXCEPT !.frame = p.frame, !.low = p.n - p.index, !.contig = p.n - p.index, !.pending = {},
                           !.staged = g, !.data = 0, !.parity = 0,
                           !.highest = 0, !.missing = 0, !.fast = TRUE, !.lost = FALSE,
                           !.block = p.block, !.last = BlocksOf(p.frame) - 1]
          /\ g \in Nat
        BY DEF StartBlock, Queues
    <1> HIDE DEF s, g
    <1>5. /\ s.frame = p.frame /\ s.low = p.n - p.index /\ s.contig = p.n - p.index /\ s.pending = {}
          /\ s.data = 0 /\ s.parity = 0 /\ s.missing = 0 /\ s.fast /\ ~s.lost
          /\ s.block = p.block /\ s.last = BlocksOf(p.frame) - 1
        BY <1>4 DEF Queues
    <1>6. s \in Queues
        <2>1. p.n - p.index \in Nat /\ {} \in SUBSET Indices
            BY <1>2, <1>3
        <2>2. 0 \in Nat /\ TRUE \in BOOLEAN /\ FALSE \in BOOLEAN
            OBVIOUS
        <2>3. p.frame \in Nat \ {0} /\ p.block \in Nat /\ g \in Nat /\ BlocksOf(p.frame) - 1 \in Nat
            BY <1>1, <1>3, <1>4
        <2> DEFINE l == BlocksOf(p.frame) - 1
                   lo == p.n - p.index
                   S == {}
        <2>4. s = [q EXCEPT !.frame = p.frame, !.low = lo, !.contig = lo, !.pending = S,
                            !.staged = g, !.data = 0, !.parity = 0,
                            !.highest = 0, !.missing = 0, !.fast = TRUE, !.lost = FALSE,
                            !.block = p.block, !.last = l]
            BY <1>4
        <2>5. l \in Nat /\ lo \in Nat /\ S \in SUBSET Indices
            BY <2>1, <2>3
        <2> HIDE DEF l, lo, S
        <2> QED
            BY <2>2, <2>3, <2>4, <2>5, BlockIsNew
    <1>7. Ready(s, p)
        BY <1>3, <1>5 DEF Ready, For
    <1> QED
        BY <1>5, <1>6, <1>7 DEF s

\* What RtpvAddPacket does to the block of the packet, once it collects that block.
Collected(s, p, bad) ==
    LET r == Reconstruct(CountPacket(QueuePacket(s, p), p), bad)
    IN  IF IsDuplicate(s, p) THEN Result(s, <<>>) ELSE r

(* Packets rebuilt before a bad one stay in the block, which is complete.  *)
LEMMA RebuiltIsKept ==
    ASSUME NEW m \in Queues, Tallied(m), Complete(m), NEW bad \in 0 .. DataShards, bad \in Rebuilt(m)
    PROVE  LET n == KeepRebuilt(m, bad)
           IN  n \in Queues /\ CountsFollow(n) /\ n.frame = m.frame /\ n.lost = m.lost
    <1> DEFINE kept == {i \in Rebuilt(m) : i < bad}
               S    == m.pending \cup kept
               fast == m.fast /\ kept = {}
               n    == KeepRebuilt(m, bad)
    <1>1. /\ DataShards \in Nat /\ m.pending \in SUBSET Indices /\ m.highest \in Nat /\ m.low \in Nat
          /\ m.fast \in BOOLEAN /\ m.data \in Nat /\ m.parity \in Nat
        BY Sizes DEF Queues
    <1>2. /\ kept \subseteq 0 .. DataShards - 1 /\ bad \in 0 .. DataShards - 1 /\ bad \notin m.pending
        BY DEF Rebuilt
    <1>3. S \in SUBSET Indices
        <2>1. 0 .. DataShards - 1 \subseteq Indices
            BY Sizes DEF Indices, Shards
        <2> QED
            BY <1>1, <1>2, <2>1
    <1>4. /\ n = [m EXCEPT !.pending = S, !.fast = fast] /\ fast \in BOOLEAN
          /\ m.pending \subseteq S /\ S \subseteq m.pending \cup (0 .. DataShards - 1)
          /\ fast => m.fast /\ S = m.pending
        BY <1>1, <1>2 DEF KeepRebuilt
    <1> HIDE DEF kept, S, fast, n
    <1>5. n \in Queues
        BY <1>3, <1>4 DEF Queues
    <1>6. /\ n.pending = S /\ n.fast = fast /\ n.frame = m.frame /\ n.block = m.block /\ n.last = m.last
          /\ n.low = m.low /\ n.highest = m.highest /\ n.missing = m.missing /\ n.contig = m.contig
          /\ n.data = m.data /\ n.parity = m.parity /\ n.lost = m.lost
        BY <1>4 DEF Queues
    <1>7. m.highest - m.low >= DataShards
        <2>1. PICK j \in m.pending : j >= DataShards
            <3> SUFFICES ASSUME \A j \in m.pending : ~(j >= DataShards) PROVE FALSE
                OBVIOUS
            <3>1. m.pending \subseteq (0 .. DataShards - 1) \ {bad}
                BY <1>1, <1>2, Sizes DEF Indices
            <3>2. IsFiniteSet(0 .. DataShards - 1) /\ Cardinality(0 .. DataShards - 1) = DataShards
                <4>1. 0 \in Int /\ DataShards - 1 \in Int /\ ~(0 > DataShards - 1)
                      /\ (DataShards - 1) - 0 + 1 = DataShards
                    BY Sizes
                <4>2. /\ IsFiniteSet(0 .. DataShards - 1)
                      /\ Cardinality(0 .. DataShards - 1) = (DataShards - 1) - 0 + 1
                    BY <4>1, FS_Interval, Zenon
                <4> QED
                    BY <4>1, <4>2
            <3>3. Cardinality((0 .. DataShards - 1) \ {bad}) = DataShards - 1
                  /\ IsFiniteSet((0 .. DataShards - 1) \ {bad})
                BY <1>2, <3>2, FS_RemoveElement
            <3>4. Cardinality(m.pending) \in Nat /\ Cardinality(m.pending) <= DataShards - 1
                BY <3>1, <3>3, FS_Subset, FS_CardinalityType
            <3> QED
                BY <1>1, <3>4 DEF Complete
        <2>2. j \in Nat /\ j <= m.highest - m.low
            BY <1>1, Sizes DEF Tallied, Indices
        <2> QED
            BY <1>1, <2>1, <2>2
    <1>8. \A i \in S : i <= m.highest - m.low
        <2> SUFFICES ASSUME NEW i \in S PROVE i <= m.highest - m.low
            OBVIOUS
        <2>1. CASE i \in m.pending
            BY <2>1 DEF Tallied
        <2>2. CASE i \in 0 .. DataShards - 1
            BY <1>1, <1>7, <2>2
        <2> QED
            BY <1>4, <2>1, <2>2
    <1> DEFINE few(T)  == {j \in T : j < DataShards}
               many(T) == {j \in T : j >= DataShards}
    <1>9. many(S) = many(m.pending) /\ few(m.pending) \subseteq few(S)
        BY <1>1, <1>4
    <1>10. /\ Cardinality(few(m.pending)) <= Cardinality(few(S)) /\ Cardinality(few(S)) \in Nat
           /\ Cardinality(few(m.pending)) \in Nat
           /\ Cardinality(m.pending) <= Cardinality(S) /\ Cardinality(S) \in Nat
           /\ Cardinality(m.pending) \in Nat
        <2>1. IsFiniteSet(few(S)) /\ Cardinality(few(S)) \in Nat /\ IsFiniteSet(S) /\ Cardinality(S) \in Nat
            BY <1>3, Halves
        <2>2. Cardinality(few(m.pending)) \in Nat /\ Cardinality(m.pending) \in Nat
            BY <1>1, Halves
        <2> HIDE DEF few
        <2> QED
            BY <1>4, <1>9, <2>1, <2>2, FS_Subset
    <1>11. m.data + m.parity >= DataShards
        BY EnoughCame
    <1>12. Tallied(n)
        <2>1. /\ m.low = FirstOf(m.frame, m.block) /\ m.last = BlocksOf(m.frame) - 1
              /\ m.low <= m.highest /\ m.highest - m.low \in m.pending
              /\ m.missing = m.highest - m.low + 1 - (m.data + m.parity)
              /\ m.data + m.parity >= 1
              /\ m.data <= Cardinality(few(m.pending)) /\ m.parity = Cardinality(many(m.pending))
              /\ m.fast => m.pending = 0 .. m.contig - m.low - 1 /\ m.low < m.contig
            BY DEF Tallied
        <2>2. m.data <= Cardinality(few(S)) /\ m.parity = Cardinality(many(S))
            <3>1. m.data <= Cardinality(few(m.pending)) /\ m.parity = Cardinality(many(m.pending))
                BY <2>1
            <3> HIDE DEF few, many
            <3> QED
                BY <1>1, <1>9, <1>10, <3>1
        <2>3. m.highest - m.low \in S
            BY <1>4, <2>1
        <2>4. fast => S = 0 .. m.contig - m.low - 1 /\ m.low < m.contig
            BY <1>4, <2>1
        <2> QED
            BY <1>6, <1>8, <1>11, <2>1, <2>2, <2>3, <2>4 DEF Tallied
    <1>13. Complete(n)
        BY <1>1, <1>6, <1>10 DEF Complete
    <1> QED
        BY <1>5, <1>6, <1>12, <1>13 DEF CountsFollow, n

(* A block that is complete goes on, one that is not may be given up.      *)
LEMMA Reconstructed ==
    ASSUME NEW k \in Queues, Tallied(k), k.pending # {}, NEW bad \in 0 .. DataShards
    PROVE  LET r == Reconstruct(k, bad)
           IN  /\ r.q \in Queues /\ CountsFollow(r.q)
               /\ \/ r.calls = <<>> /\ r.q.frame = k.frame /\ (k.lost => r.q.lost \/ r.q.pending = {})
                  \/ r.calls = <<LostCall(k.frame, TRUE)>> /\ r.q.frame = k.frame /\ HoldsLost(r.q) /\ ~k.lost
                  \/ r.calls = <<FrameCall(k.frame)>> /\ r.q.frame = k.frame + 1 /\ r.q.pending = {}
    <1> DEFINE r == Reconstruct(k, bad)
    <1>1. /\ k.frame \in Nat \ {0} /\ k.block \in Nat /\ k.staged \in Nat /\ k.missing \in Int
          /\ k.lost \in BOOLEAN /\ k.oos \in BOOLEAN
        BY DEF Queues
    <1>2. CASE ~Complete(k)
        <2>1. r = Incomplete(k)
            BY <1>2 DEF Reconstruct
        <2>2. CASE Speculates(k)
            <3> DEFINE l == [k EXCEPT !.lost = TRUE]
            <3>3. Incomplete(k) = Result(l, <<LostCall(k.frame, TRUE)>>)
                BY <2>2 DEF Incomplete
            <3>2. l \in Queues /\ Tallied(l) /\ l.lost /\ l.frame = k.frame /\ HoldsLost(l) /\ ~k.lost
                BY <2>2 DEF Queues, Tallied, HoldsLost, Speculates
            <3> HIDE DEF l
            <3> DEFINE c == <<LostCall(k.frame, TRUE)>>
            <3>4. Result(l, c).q = l /\ Result(l, c).calls = c
                <4> HIDE DEF c
                <4> QED
                    BY ResultFields
            <3>1. r.q = l /\ r.calls = c
                <4> HIDE DEF r
                <4> QED
                    BY <2>1, <3>3, <3>4 DEF r
            <3> QED
                BY <3>1, <3>2 DEF CountsFollow
        <2>3. CASE ~Speculates(k)
            <3>1. r.q = k /\ r.calls = <<>>
                BY <2>1, <2>3 DEF Incomplete, Result
            <3>2. k.lost \/ k.oos \/ k.missing <= ParityShards
                BY <1>1, <2>3, Sizes DEF Speculates
            <3> QED
                BY <3>1, <3>2 DEF CountsFollow
        <2> QED
            BY <2>2, <2>3
    <1> DEFINE m == Mispredicted(k)
    <1>3. /\ m \in Queues /\ Tallied(m) /\ m.pending = k.pending /\ m.frame = k.frame /\ m.block = k.block
          /\ m.staged = k.staged /\ m.last = k.last /\ (Complete(k) => Complete(m)) /\ m.lost = k.lost
        BY <1>1 DEF Mispredicted, Queues, Tallied, Complete
    <1> HIDE DEF m
    <1>6. {} \in SUBSET Indices
        OBVIOUS
    <1>4. CASE Complete(k) /\ NeedsParity(k) /\ bad \in Rebuilt(k)
        <2> DEFINE n == KeepRebuilt(m, bad)
        <2>1. r.q = n /\ r.calls = <<>>
            BY <1>4, ResultFields DEF Reconstruct, m
        <2>2. n \in Queues /\ CountsFollow(n) /\ n.frame = m.frame /\ n.lost = m.lost
            BY <1>3, <1>4, RebuiltIsKept DEF Rebuilt
        <2> HIDE DEF n, r
        <2> QED
            BY <1>3, <2>1, <2>2 DEF r
    <1>5. CASE Complete(k) /\ ~(NeedsParity(k) /\ bad \in Rebuilt(k))
        <2>1. r = Stage(m)
            BY <1>5 DEF Reconstruct, m
        <2>2. m.block \in Nat /\ m.staged \in Nat /\ m.frame \in Nat
            BY <1>3 DEF Queues
        <2>3. CASE m.block < m.last
            <3> DEFINE l == [m EXCEPT !.pending = {}, !.staged = @ + 1, !.block = @ + 1]
            <3>1. r.q = l /\ r.calls = <<>>
                BY <2>1, <2>3, ResultFields DEF Stage
            <3>3. l = [m EXCEPT !.pending = {}, !.staged = m.staged + 1, !.block = m.block + 1]
                OBVIOUS
            <3>5. m.staged + 1 \in Nat /\ m.block + 1 \in Nat
                BY <2>2
            <3>4. l \in Queues
                BY <1>3, <1>6, <3>5, <3>3, BlockMoves
            <3>2. l \in Queues /\ l.pending = {} /\ l.frame = m.frame
                BY <1>3, <3>4 DEF Queues
            <3> QED
                BY <1>3, <3>1, <3>2 DEF CountsFollow
        <2>4. CASE ~(m.block < m.last)
            <3> DEFINE l == [m EXCEPT !.pending = {}, !.staged = 0, !.frame = @ + 1, !.block = 0]
            <3>1. r.q = l /\ r.calls = <<FrameCall(m.frame)>>
                BY <2>1, <2>4, ResultFields DEF Stage
            <3>3. l = [m EXCEPT !.pending = {}, !.staged = 0, !.frame = m.frame + 1, !.block = 0]
                OBVIOUS
            <3>5. m.frame + 1 \in Nat \ {0} /\ 0 \in Nat
                BY <2>2
            <3>4. l \in Queues
                BY <1>3, <1>6, <3>3, <3>5, FrameMoves
            <3>2. l \in Queues /\ l.pending = {} /\ l.frame = m.frame + 1
                BY <1>3, <3>4 DEF Queues
            <3> QED
                BY <1>3, <3>1, <3>2 DEF CountsFollow
        <2> QED
            BY <2>3, <2>4
    <1> QED
        BY <1>2, <1>4, <1>5

(* A packet of the block that is collected.                                *)
LEMMA BlockCollects ==
    ASSUME NEW s \in Queues, NEW p \in Packets, Ready(s, p), CountsFollow(s), NEW bad \in 0 .. DataShards
    PROVE  LET r == Collected(s, p, bad)
           IN  /\ r.q \in Queues /\ CountsFollow(r.q)
               /\ \/ r.calls = <<>> /\ r.q.frame = p.frame /\ (s.lost => r.q.lost \/ r.q.pending = {})
                  \/ r.calls = <<LostCall(p.frame, TRUE)>> /\ r.q.frame = p.frame /\ HoldsLost(r.q) /\ ~s.lost
                  \/ r.calls = <<FrameCall(p.frame)>> /\ r.q.frame = p.frame + 1 /\ r.q.pending = {}
    <1>1. s.frame = p.frame
        BY DEF Ready, For
    <1>2. CASE IsDuplicate(s, p)
        <2>1. Collected(s, p, bad).q = s /\ Collected(s, p, bad).calls = <<>>
            BY <1>2 DEF Collected, Result
        <2> QED
            BY <1>1, <2>1
    <1>3. CASE ~IsDuplicate(s, p)
        <2> DEFINE k == CountPacket(QueuePacket(s, p), p)
        <2>1. k \in Queues /\ Tallied(k) /\ k.pending # {} /\ k.frame = s.frame /\ k.lost = s.lost
            BY <1>3, PacketIsCounted
        <2>2. Collected(s, p, bad) = Reconstruct(k, bad)
            BY <1>3 DEF Collected
        <2> HIDE DEF k
        <2> DEFINE r == Reconstruct(k, bad)
        <2>3. /\ r.q \in Queues /\ CountsFollow(r.q)
              /\ \/ r.calls = <<>> /\ r.q.frame = k.frame /\ (k.lost => r.q.lost \/ r.q.pending = {})
                 \/ r.calls = <<LostCall(k.frame, TRUE)>> /\ r.q.frame = k.frame /\ HoldsLost(r.q) /\ ~k.lost
                 \/ r.calls = <<FrameCall(k.frame)>> /\ r.q.frame = k.frame + 1 /\ r.q.pending = {}
            BY <2>1, Reconstructed
        <2>4. Collected(s, p, bad) = r
            BY <2>2
        <2> HIDE DEF r
        <2> QED
            BY <1>1, <2>1, <2>3, <2>4
    <1> QED
        BY <1>2, <1>3

(* What the calls about a packet are: of frames from the queue's to the    *)
(* packet's, in order, and none is handed over that the queue still has.   *)
CallsFit(c, low, frame, up) ==
    /\ c \in Seq(Calls) /\ Len(c) <= 2
    /\ \A i \in DOMAIN c :
          /\ c[i].frame \in low .. up /\ c[i].frame <= frame
          /\ c[i].call = "frame" => c[i].frame < frame
          /\ \A j \in 1 .. i - 1 : c[j].frame < c[i].frame

(* The two calls are calls, about the frame they name.                     *)
LEMMA CallFields ==
    ASSUME NEW f \in Nat, NEW x \in BOOLEAN
    PROVE  /\ LostCall(f, x) \in Calls /\ LostCall(f, x).frame = f /\ LostCall(f, x).call = "lost"
           /\ FrameCall(f) \in Calls /\ FrameCall(f).frame = f /\ FrameCall(f).call = "frame"
    BY DEF LostCall, FrameCall, Calls

(* The empty row of calls fits.                                            *)
LEMMA NoCallFits ==
    ASSUME NEW low \in Nat, NEW up \in Nat, NEW frame \in Nat
    PROVE  CallsFit(<<>>, low, frame, up)
    BY DEF CallsFit

(* One call fits if its frame does.                                        *)
LEMMA OneCallFits ==
    ASSUME NEW low \in Nat, NEW up \in Nat, NEW frame \in Nat, NEW k \in Calls,
           k.frame \in low .. up, k.frame <= frame, k.call = "frame" => k.frame < frame
    PROVE  CallsFit(<<k>>, low, frame, up)
    <1>1. <<k>> \in Seq(Calls) /\ Len(<<k>>) = 1 /\ DOMAIN <<k>> = {1} /\ <<k>>[1] = k
        OBVIOUS
    <1> DEFINE c == <<k>>
    <1> HIDE DEF c
    <1>2. c \in Seq(Calls) /\ Len(c) = 1 /\ DOMAIN c = {1} /\ c[1] = k
        BY <1>1 DEF c
    <1>3. CallsFit(c, low, frame, up)
        BY <1>2 DEF CallsFit
    <1> QED
        BY <1>3 DEF c

(* Two calls fit: one about a gap, and one about a frame behind it.        *)
LEMMA TwoCallsFit ==
    ASSUME NEW low \in Nat, NEW up \in Nat, NEW frame \in Nat, NEW k \in Calls, NEW l \in Calls,
           k.frame \in low .. up, k.call = "lost", k.frame < l.frame,
           l.frame \in low .. up, l.frame <= frame, l.call = "frame" => l.frame < frame
    PROVE  CallsFit(<<k>> \o <<l>>, low, frame, up)
    <1> DEFINE c == <<k>> \o <<l>>
           x == <<k>>
           y == <<l>>
    <1>1. /\ x \in Seq(Calls) /\ Len(x) = 1 /\ x[1] = k
          /\ y \in Seq(Calls) /\ Len(y) = 1 /\ y[1] = l
        OBVIOUS
    <1>2. c \in Seq(Calls) /\ Len(c) = 2 /\ DOMAIN c = {1, 2} /\ c[1] = k /\ c[2] = l
        <2> HIDE DEF x, y
        <2>1. c = x \o y
            BY DEF x, y
        <2> HIDE DEF c
        <2>2. c \in Seq(Calls) /\ Len(c) = 2 /\ c[1] = x[1] /\ c[2] = y[1]
            BY <1>1, <2>1, ConcatProperties
        <2> QED
            BY <1>1, <2>2
    <1> HIDE DEF c
    <1>3. k.frame <= frame
        BY DEF Calls
    <1>4. \A i \in DOMAIN c : \A j \in 1 .. i - 1 : c[j].frame < c[i].frame
        <2> SUFFICES ASSUME NEW i \in DOMAIN c, NEW j \in 1 .. i - 1
                     PROVE  c[j].frame < c[i].frame
            OBVIOUS
        <2>1. i = 2 /\ j = 1
            BY <1>2
        <2> QED
            BY <1>2, <2>1
    <1>5. CallsFit(c, low, frame, up)
        BY <1>2, <1>3, <1>4 DEF CallsFit
    <1> QED
        BY <1>5 DEF c

(* RtpvAddPacket as a whole.                                               *)
LEMMA PacketIsAdded ==
    ASSUME NEW q \in Queues, NEW p \in Packets, CountsFollow(q), NEW bad \in 0 .. DataShards
    PROVE  LET a == AddVideoPacket(q, p, bad)
           IN  /\ a.q \in Queues /\ CountsFollow(a.q)
               /\ q.frame <= a.q.frame /\ (a.q.frame <= q.frame \/ a.q.frame <= p.frame + 1)
               /\ CallsFit(a.calls, q.frame, a.q.frame, p.frame)
    <1> DEFINE a == AddVideoPacket(q, p, bad)
    <1>1. /\ p.frame \in Nat \ {0} /\ p.block \in Nat /\ p.index \in Nat /\ p.n \in Nat
          /\ p.n = FirstOf(p.frame, p.block) + p.index /\ FirstOf(p.frame, p.block) \in Nat
          /\ q.frame \in Nat \ {0} /\ q.block \in Nat /\ q.lost \in BOOLEAN
        <2>1. /\ p.frame \in Nat \ {0} /\ p.block \in Nat /\ p.index \in Nat /\ p.n \in Nat
              /\ p.n = FirstOf(p.frame, p.block) + p.index
            BY Sizes DEF Packets, Indices
        <2>2. FirstOf(p.frame, p.block) \in Nat
            BY <2>1, FirstNumbers
        <2>3. q.frame \in Nat \ {0} /\ q.block \in Nat /\ q.lost \in BOOLEAN
            BY DEF Queues
        <2> QED
            BY <2>1, <2>2, <2>3
    <1>2. CASE Behind16(q, p)
        <2>1. a = Result(q, <<>>)
            BY <1>2 DEF AddVideoPacket
        <2>2. a.q = q /\ a.calls = <<>>
            BY <2>1, ResultFields
        <2> HIDE DEF a
        <2> QED
            BY <1>1, <2>2, NoCallFits DEF a
    <1>3. CASE ~Behind16(q, p) /\ StartsBlock(q, p) /\ MissedBlock(q, p)
        <2>1. a = SkipFrame(q, p)
            BY <1>3 DEF AddVideoPacket
        <2>2. q.frame <= p.frame
            BY <1>1, <1>3 DEF Behind16
        <2> DEFINE l == [q EXCEPT !.pending = {}, !.staged = 0, !.lost = TRUE, !.frame = p.frame + 1, !.block = 0]
                   c == IF q.lost THEN <<>> ELSE <<LostCall(q.frame, FALSE)>>
        <2>3. l \in Queues
            <3>1. {} \in SUBSET Indices /\ p.frame + 1 \in Nat \ {0} /\ 0 \in Nat /\ TRUE \in BOOLEAN
                BY <1>1
            <3> QED
                BY <3>1, FrameIsLeft
        <2>4. l.pending = {} /\ l.frame = p.frame + 1
            BY DEF Queues
        <2>5. CallsFit(c, q.frame, p.frame + 1, p.frame)
            <3>1. CASE q.lost
                BY <1>1, <3>1, NoCallFits
            <3>2. CASE ~q.lost
                <4> DEFINE k == LostCall(q.frame, FALSE)
                <4>1. k \in Calls /\ k.frame = q.frame /\ k.call = "lost"
                    BY <1>1, CallFields
                <4> HIDE DEF k
                <4>2. k.frame \in q.frame .. p.frame /\ k.frame <= p.frame + 1 /\ p.frame + 1 \in Nat
                    BY <1>1, <2>2, <4>1
                <4>3. CallsFit(<<k>>, q.frame, p.frame + 1, p.frame)
                    BY <1>1, <4>1, <4>2, OneCallFits
                <4>4. c = <<k>>
                    BY <3>2 DEF k
                <4> QED
                    BY <4>3, <4>4
            <3> QED
                BY <3>1, <3>2
        <2>6. a = Result(l, c)
            BY <2>1 DEF SkipFrame
        <2> HIDE DEF a, l, c
        <2>7. a.q = l /\ a.calls = c
            BY <2>6, ResultFields
        <2>8. CountsFollow(l)
            BY <2>4 DEF CountsFollow
        <2>9. /\ a.q \in Queues /\ CountsFollow(a.q)
              /\ q.frame <= a.q.frame /\ a.q.frame <= p.frame + 1
              /\ CallsFit(a.calls, q.frame, a.q.frame, p.frame)
            BY <1>1, <2>2, <2>3, <2>4, <2>5, <2>7, <2>8
        <2> QED
            BY <2>9 DEF a
    <1>4. CASE ~Behind16(q, p) /\ ~(StartsBlock(q, p) /\ MissedBlock(q, p))
        <2> DEFINE fresh == StartsBlock(q, p)
                   s == IF fresh THEN StartBlock(q, p) ELSE q
                   g == IF fresh THEN GapCalls(q, p) ELSE <<>>
                   k == Reconstruct(CountPacket(QueuePacket(s, p), p), bad)
                   r == Collected(s, p, bad)
        <2>1. s \in Queues /\ Ready(s, p) /\ CountsFollow(s)
            <3>1. CASE fresh
                BY <3>1, BlockIsStarted DEF CountsFollow
            <3>2. CASE ~fresh
                <4>1. q.pending # {} /\ q.frame = p.frame /\ q.block = p.block
                    BY <3>2 DEF StartsBlock
                <4>2. Tallied(q)
                    BY <4>1 DEF CountsFollow
                <4>3. Ready(q, p)
                    BY <1>1, <4>1, <4>2 DEF Ready, For, Tallied
                <4> QED
                    BY <3>2, <4>3
            <3> QED
                BY <3>1, <3>2
        <2> HIDE DEF s
        <2>2. /\ r.q \in Queues /\ CountsFollow(r.q)
              /\ \/ r.calls = <<>> /\ r.q.frame = p.frame
                 \/ r.calls = <<LostCall(p.frame, TRUE)>> /\ r.q.frame = p.frame
                 \/ r.calls = <<FrameCall(p.frame)>> /\ r.q.frame = p.frame + 1 /\ r.q.pending = {}
            BY <2>1, BlockCollects
        <2>3. a = [k EXCEPT !.q = IF IsDuplicate(s, p) THEN s ELSE @,
                            !.calls = g \o (IF IsDuplicate(s, p) THEN <<>> ELSE @),
                            !.saw = IF fresh THEN p.frame ELSE 0]
            BY <1>4 DEF AddVideoPacket, s
        <2>4. \E m, c : k = Result(m, c)
            BY DEF Reconstruct, Incomplete, Stage
        <2> HIDE DEF k, g
        <2>5. r = IF IsDuplicate(s, p) THEN Result(s, <<>>) ELSE k
            BY DEF Collected, k
        <2> HIDE DEF r
        <2>6. a.q = r.q /\ a.calls = g \o r.calls
            BY <2>3, <2>4, <2>5 DEF Result
        <2>7. q.frame <= p.frame /\ (q.frame # p.frame => q.frame < p.frame)
            BY <1>1, <1>4 DEF Behind16
        <2>8. g = <<>> \/ (g = <<LostCall(p.frame - 1, FALSE)>> /\ q.frame < p.frame)
            BY <2>7 DEF g, GapCalls
        <2>9. q.frame <= r.q.frame /\ r.q.frame <= p.frame + 1 /\ p.frame <= r.q.frame /\ r.q.frame \in Nat
            <3>1. r.q.frame \in Nat /\ (r.q.frame = p.frame \/ r.q.frame = p.frame + 1)
                BY <2>2 DEF Queues
            <3> QED
                BY <1>1, <2>7, <3>1
        <2> DEFINE One == \E l \in Calls : /\ r.calls = <<l>> /\ l.frame = p.frame
                                           /\ l.call = "frame" => r.q.frame = p.frame + 1
        <2>10. r.calls = <<>> \/ One
            BY <1>1, <2>2, CallFields
        <2>11. CallsFit(g \o r.calls, q.frame, r.q.frame, p.frame)
            <3>1. CASE r.calls = <<>> /\ g = <<>>
                <4>1. g \o r.calls = <<>>
                    BY <3>1
                <4> QED
                    BY <1>1, <2>9, <4>1, NoCallFits
            <3>2. CASE r.calls = <<>> /\ g # <<>>
                <4> DEFINE l == LostCall(p.frame - 1, FALSE)
                <4>1. g = <<l>> /\ q.frame < p.frame
                    BY <2>8, <3>2
                <4>5. p.frame - 1 \in Nat
                    BY <1>1
                <4>2. l \in Calls /\ l.frame = p.frame - 1 /\ l.call = "lost"
                    BY <4>5, CallFields
                <4> HIDE DEF l
                <4>3. g \o r.calls = <<l>>
                    BY <3>2, <4>1
                <4>4. l.frame \in q.frame .. p.frame /\ l.frame <= r.q.frame
                    BY <1>1, <2>9, <4>1, <4>2
                <4> QED
                    BY <1>1, <2>9, <4>2, <4>3, <4>4, OneCallFits
            <3>3. ASSUME NEW l \in Calls, r.calls = <<l>>, l.frame = p.frame,
                         l.call = "frame" => r.q.frame = p.frame + 1
                  PROVE  CallsFit(g \o r.calls, q.frame, r.q.frame, p.frame)
                <4>1. l.frame \in q.frame .. p.frame /\ l.frame <= r.q.frame /\ (l.call = "frame" => l.frame < r.q.frame)
                    BY <1>1, <2>7, <2>9, <3>3
                <4>2. CASE g = <<>>
                    <5>1. g \o r.calls = <<l>>
                        BY <3>3, <4>2
                    <5> QED
                        BY <1>1, <2>9, <4>1, <5>1, OneCallFits
                <4>3. CASE g # <<>>
                    <5> DEFINE j == LostCall(p.frame - 1, FALSE)
                    <5>1. g = <<j>> /\ q.frame < p.frame
                        BY <2>8, <4>3
                    <5>5. p.frame - 1 \in Nat
                        BY <1>1
                    <5>2. j \in Calls /\ j.frame = p.frame - 1 /\ j.call = "lost"
                        BY <5>5, CallFields
                    <5> HIDE DEF j
                    <5>3. g \o r.calls = <<j>> \o <<l>>
                        BY <3>3, <5>1
                    <5>4. j.frame \in q.frame .. p.frame /\ j.frame < l.frame
                        BY <1>1, <3>3, <5>1, <5>2
                    <5> QED
                        BY <1>1, <2>9, <4>1, <5>2, <5>3, <5>4, TwoCallsFit
                <4> QED
                    BY <4>2, <4>3
            <3>4. CASE One
                <4>1. PICK l \in Calls : /\ r.calls = <<l>> /\ l.frame = p.frame
                                         /\ l.call = "frame" => r.q.frame = p.frame + 1
                    BY <3>4
                <4> QED
                    BY <3>3, <4>1
            <3> HIDE DEF One
            <3> QED
                BY <2>10, <3>1, <3>2, <3>4
        <2> HIDE DEF a
        <2>12. /\ a.q \in Queues /\ CountsFollow(a.q)
               /\ q.frame <= a.q.frame /\ a.q.frame <= p.frame + 1
               /\ CallsFit(a.calls, q.frame, a.q.frame, p.frame)
            BY <2>2, <2>6, <2>9, <2>11
        <2> QED
            BY <2>12 DEF a
    <1> QED
        BY <1>2, <1>3, <1>4

(***************************************************************************)
(* The depacketizer's functions.                                           *)
(***************************************************************************)
\* e is e0 but for what says how decodable the next frame is.
SamePlace(e, e0) ==
    /\ e \in Depacketizers /\ e.start = e0.start /\ e.strict = e0.strict /\ e.idrDone = e0.idrDone
\* e has dropped a frame that e0 had not, and waits for one it can decode.
Dropped(e, e0) ==
    SamePlace(e, e0) /\ ~e.dropPending /\ MustWait(e) /\ (e0.waitIdr => e.waitIdr) /\ (e.strict => e.waitIdr)

(* dropFrameState: some frame is waited for from now on.                   *)
LEMMA DropFrameWaits ==
    ASSUME NEW e \in Depacketizers
    PROVE  Dropped(DropFrame(e), e) /\ DropFrame(e).next = e.next /\ DropFrame(e).decoding = e.decoding
    <1> DEFINE x == NeedsIdr(e) \/ AtDropLimit(e)
               y == e.waitRfi \/ ~NeedsIdr(e)
               z == IF AtDropLimit(e) THEN 0 ELSE e.drops + 1
    <1>1. DropFrame(e) = [e EXCEPT !.dropPending = FALSE, !.waitIdr = x, !.waitRfi = y, !.drops = z]
        BY DEF DropFrame, Depacketizers
    <1>2. x \in BOOLEAN /\ y \in BOOLEAN /\ z \in Nat /\ (x \/ y) /\ (e.waitIdr => x) /\ (e.strict => x)
        BY DEF NeedsIdr, AtDropLimit, Depacketizers
    <1> HIDE DEF x, y, z
    <1> DEFINE f == DropFrame(e)
    <1>3. /\ f \in Depacketizers /\ f.start = e.start /\ f.strict = e.strict /\ f.idrDone = e.idrDone
          /\ f.next = e.next /\ f.decoding = e.decoding /\ ~f.dropPending /\ f.waitIdr = x /\ f.waitRfi = y
        BY <1>1, <1>2 DEF Depacketizers
    <1> HIDE DEF f
    <1>4. Dropped(f, e) /\ f.next = e.next /\ f.decoding = e.decoding
        BY <1>2, <1>3 DEF Dropped, SamePlace, MustWait, Depacketizers
    <1> QED
        BY <1>4 DEF f

(* Fields that are set one at a time.                                      *)
LEMMA NextIsSet ==
    ASSUME NEW e \in Depacketizers, NEW n \in Nat
    PROVE  /\ [e EXCEPT !.next = n] \in Depacketizers
           /\ [e EXCEPT !.next = n].next = n /\ [e EXCEPT !.next = n].decoding = e.decoding
           /\ [e EXCEPT !.next = n].start = e.start /\ [e EXCEPT !.next = n].strict = e.strict
           /\ [e EXCEPT !.next = n].waitIdr = e.waitIdr /\ [e EXCEPT !.next = n].waitRfi = e.waitRfi
           /\ [e EXCEPT !.next = n].dropPending = e.dropPending /\ [e EXCEPT !.next = n].idrDone = e.idrDone
    BY DEF Depacketizers

(* processRtpPayload at the end of a frame: the next one is expected.      *)
LEMMA EndFrameFields ==
    ASSUME NEW e \in Depacketizers, NEW f \in Nat
    PROVE  LET g == EndFrame(e, f)
           IN  /\ g \in Depacketizers /\ g.next = f + 1 /\ ~g.decoding /\ g.start = e.start
               /\ g.strict = e.strict /\ g.idrDone = e.idrDone /\ g.dropPending = e.dropPending
               /\ g.waitIdr = e.waitIdr /\ g.waitRfi = e.waitRfi /\ g.waitNext = e.waitNext
    <1> DEFINE n == f + 1
               g == EndFrame(e, f)
    <1>1. n \in Nat /\ g = [e EXCEPT !.decoding = FALSE, !.next = n]
        BY DEF EndFrame
    <1> HIDE DEF n, g
    <1>2. /\ g \in Depacketizers /\ g.next = n /\ ~g.decoding /\ g.start = e.start
          /\ g.strict = e.strict /\ g.idrDone = e.idrDone /\ g.dropPending = e.dropPending
          /\ g.waitIdr = e.waitIdr /\ g.waitRfi = e.waitRfi /\ g.waitNext = e.waitNext
        BY <1>1 DEF Depacketizers
    <1> QED
        BY <1>2 DEF n, g

(* notifyFrameLost: what follows the frame is expected, or an IDR frame.   *)
LEMMA FrameLostFields ==
    ASSUME NEW e \in Depacketizers, NEW c, NEW f \in Nat
    PROVE  LET g == FrameLost(e, c, f).d
           IN  /\ Dropped(g, e) /\ g.decoding = e.decoding
               /\ g.waitIdr => g.next = e.next
               /\ ~g.waitIdr => g.next = f + 1
    <1> DEFINE g == DropFrame(e)
               l == FrameLost(e, c, f).d
    <1>1. Dropped(g, e) /\ g.next = e.next /\ g.decoding = e.decoding /\ g \in Depacketizers
        BY DropFrameWaits DEF Dropped, SamePlace
    <1>2. l = IF g.waitIdr THEN g ELSE [g EXCEPT !.next = f + 1]
        BY DEF FrameLost
    <1> HIDE DEF g, l
    <1>3. ASSUME g.waitIdr
          PROVE  /\ Dropped(l, e) /\ l.decoding = e.decoding
                 /\ l.waitIdr => l.next = e.next
                 /\ ~l.waitIdr => l.next = f + 1
        <2>1. l = g
            BY <1>2, <1>3
        <2> QED
            BY <1>1, <1>3, <2>1
    <1>4. ASSUME ~g.waitIdr
          PROVE  /\ Dropped(l, e) /\ l.decoding = e.decoding
                 /\ l.waitIdr => l.next = e.next
                 /\ ~l.waitIdr => l.next = f + 1
        <2>1. f + 1 \in Nat
            OBVIOUS
        <2>2. /\ l \in Depacketizers /\ l.next = f + 1 /\ l.decoding = g.decoding /\ l.start = g.start
              /\ l.strict = g.strict /\ l.waitIdr = g.waitIdr /\ l.waitRfi = g.waitRfi
              /\ l.dropPending = g.dropPending /\ l.idrDone = g.idrDone
            BY <1>1, <1>2, <1>4, <2>1, NextIsSet
        <2>3. Dropped(l, e)
            BY <1>1, <2>2 DEF Dropped, SamePlace, MustWait
        <2> QED
            BY <1>1, <1>4, <2>2, <2>3
    <1>5. /\ Dropped(l, e) /\ l.decoding = e.decoding
          /\ l.waitIdr => l.next = e.next
          /\ ~l.waitIdr => l.next = f + 1
        BY <1>3, <1>4
    <1> QED
        BY <1>5 DEF l

(* processRtpPayload at the start of frame f, which is not an old one.     *)
LEMMA FirstPacketFields ==
    ASSUME NEW e \in Depacketizers, NEW f \in Nat, NEW t, ~Old(e, f)
    PROVE  LET g == FirstPacket(e, f, t)
           IN  /\ SamePlace(g, e) /\ g.decoding /\ g.next = f
               /\ g.dropPending => e.dropPending
               /\ t = "P" => (MustWait(e) \/ e.next < f => MustWait(g))
               /\ t # "I" => (e.waitIdr => g.waitIdr)
               /\ e.dropPending /\ e.next = f => g.dropPending
    <1> DEFINE g0 == IF e.next < f THEN [DropFrame(e) EXCEPT !.next = f, !.waitNext = TRUE] ELSE e
               h  == [g0 EXCEPT !.decoding = TRUE]
               g  == FirstPacket(e, f, t)
    <1>1. /\ SamePlace(g0, e) /\ (g0.dropPending => e.dropPending) /\ g0.next = f
          /\ (MustWait(e) \/ e.next < f => MustWait(g0)) /\ (e.waitIdr => g0.waitIdr)
          /\ (e.dropPending /\ e.next = f => g0.dropPending)
        <2>1. CASE e.next < f
            <3> DEFINE k == DropFrame(e)
            <3>1. Dropped(k, e) /\ k \in Depacketizers
                BY DropFrameWaits DEF Dropped, SamePlace
            <3> HIDE DEF k
            <3>2. g0 = [k EXCEPT !.next = f, !.waitNext = TRUE]
                BY <2>1 DEF k
            <3> HIDE DEF g0
            <3>3. /\ g0 \in Depacketizers /\ g0.next = f /\ g0.start = k.start /\ g0.strict = k.strict
                  /\ g0.idrDone = k.idrDone /\ g0.dropPending = k.dropPending
                  /\ g0.waitIdr = k.waitIdr /\ g0.waitRfi = k.waitRfi
                BY <3>1, <3>2 DEF Depacketizers
            <3> QED
                BY <2>1, <3>1, <3>3 DEF Dropped, SamePlace, MustWait, Depacketizers
        <2>2. CASE ~(e.next < f)
            <3>1. e.next = f /\ g0 = e
                BY <2>2 DEF Old, Depacketizers
            <3> QED
                BY <2>2, <3>1 DEF SamePlace
        <2> QED
            BY <2>1, <2>2
    <1>2. g0 \in Depacketizers
        BY <1>1 DEF SamePlace
    <1>3. g = CASE t = "I" -> IdrBegins(h)
                [] t = "R" /\ h.waitRfi -> [h EXCEPT !.waitRfi = FALSE, !.waitNext = FALSE]
                [] OTHER -> h
        BY DEF FirstPacket
    <1> HIDE DEF g, g0
    <1>4. /\ h \in Depacketizers /\ h.decoding /\ h.next = g0.next /\ h.start = g0.start /\ h.strict = g0.strict
          /\ h.idrDone = g0.idrDone /\ h.dropPending = g0.dropPending
          /\ h.waitIdr = g0.waitIdr /\ h.waitRfi = g0.waitRfi
        BY <1>2 DEF Depacketizers
    <1> HIDE DEF h
    <1>5. /\ g \in Depacketizers /\ g.decoding /\ g.next = h.next /\ g.start = h.start /\ g.strict = h.strict
          /\ g.idrDone = h.idrDone /\ g.dropPending = h.dropPending
          /\ (t # "I" => g.waitIdr = h.waitIdr) /\ (t = "P" => g.waitRfi = h.waitRfi)
        <2>1. CASE t = "I"
            <3>1. g = [h EXCEPT !.waitIdr = FALSE, !.waitRfi = FALSE, !.waitNext = FALSE]
                BY <1>3, <2>1 DEF IdrBegins
            <3> QED
                BY <1>4, <2>1, <3>1 DEF Depacketizers
        <2>2. CASE t = "R" /\ h.waitRfi
            <3>1. g = [h EXCEPT !.waitRfi = FALSE, !.waitNext = FALSE]
                BY <1>3, <2>2
            <3> QED
                BY <1>4, <2>2, <3>1 DEF Depacketizers
        <2>3. CASE t # "I" /\ ~(t = "R" /\ h.waitRfi)
            <3>1. g = h
                BY <1>3, <2>3
            <3> QED
                BY <1>4, <3>1
        <2> QED
            BY <2>1, <2>2, <2>3
    <1>6. /\ SamePlace(g, e) /\ g.decoding /\ g.next = f
          /\ g.dropPending => e.dropPending
          /\ t = "P" => (MustWait(e) \/ e.next < f => MustWait(g))
          /\ t # "I" => (e.waitIdr => g.waitIdr)
          /\ e.dropPending /\ e.next = f => g.dropPending
        BY <1>1, <1>4, <1>5 DEF SamePlace, MustWait
    <1> QED
        BY <1>6 DEF g

(* A frame that is given up, damaged or not to be decoded.                 *)
LEMMA CorruptFrameFields ==
    ASSUME NEW e \in Depacketizers, NEW c, NEW f \in Nat
    PROVE  LET g == CorruptFrame(e, c, f).d
           IN  Dropped(g, e) /\ g.next = f + 1 /\ ~g.decoding
    <1> DEFINE k == [e EXCEPT !.decoding = FALSE, !.next = f + 1]
               g == CorruptFrame(e, c, f).d
    <1>1. /\ k \in Depacketizers /\ k.next = f + 1 /\ ~k.decoding /\ k.start = e.start
          /\ k.strict = e.strict /\ k.idrDone = e.idrDone /\ k.waitIdr = e.waitIdr
        BY EndFrameFields DEF EndFrame
    <1>2. g = DropFrame(k)
        BY DEF CorruptFrame
    <1> HIDE DEF k, g
    <1>3. Dropped(g, k) /\ g.next = k.next /\ g.decoding = k.decoding
        BY <1>1, <1>2, DropFrameWaits
    <1>4. Dropped(g, e) /\ g.next = f + 1 /\ ~g.decoding
        BY <1>1, <1>3 DEF Dropped, SamePlace
    <1> QED
        BY <1>4 DEF g

(* A frame that is given up: its place, and the ranges that are reported.  *)
LEMMA GiveUpFields ==
    ASSUME NEW e \in Depacketizers, NEW c, NEW f \in Nat
    PROVE  LET g == GiveUp(e, c, f).d
           IN  Dropped(g, e) /\ g.next = f + 1 /\ ~g.decoding
    <1> DEFINE k == EndFrame(e, f)
               j == DropFrame(k)
               g == GiveUp(e, c, f).d
    <1>1. /\ k \in Depacketizers /\ k.next = f + 1 /\ ~k.decoding /\ k.start = e.start
          /\ k.strict = e.strict /\ k.idrDone = e.idrDone /\ k.waitIdr = e.waitIdr
        BY EndFrameFields
    <1>2. g = [j EXCEPT !.waitNext = FALSE]
        BY DEF GiveUp
    <1> HIDE DEF k, g
    <1>3. Dropped(j, k) /\ j.next = k.next /\ j.decoding = k.decoding
        BY <1>1, DropFrameWaits
    <1> HIDE DEF j
    <1>4. /\ g \in Depacketizers /\ g.next = j.next /\ g.start = j.start /\ g.strict = j.strict
          /\ g.decoding = j.decoding /\ g.idrDone = j.idrDone /\ g.dropPending = j.dropPending
          /\ g.waitIdr = j.waitIdr /\ g.waitRfi = j.waitRfi
        BY <1>2, <1>3 DEF Dropped, SamePlace, Depacketizers
    <1>5. Dropped(g, e) /\ g.next = f + 1 /\ ~g.decoding
        BY <1>1, <1>3, <1>4 DEF Dropped, SamePlace, MustWait
    <1> QED
        BY <1>5 DEF g

(***************************************************************************)
(* The queues and the requests.                                            *)
(***************************************************************************)
(* A queue that is open stays so, and holds what it held or less or one more. *)
LEMMA QueuesHold ==
    ASSUME NEW S, NEW n \in Nat, NEW q \in LbqOf(S, n), Opened(q)
    PROVE  /\ LbqFlush(q) \in LbqOf(S, n) /\ Opened(LbqFlush(q)) /\ LbqFlush(q).items = <<>>
           /\ LbqOfferAnswer(q) \in {"bound", "success"}
           /\ \A x \in S :
                 /\ LbqOffer(q, x) \in LbqOf(S, n) /\ Opened(LbqOffer(q, x))
                 /\ LbqOfferAnswer(q) = "success" => LbqOffer(q, x).items = Append(q.items, x)
                 /\ LbqOfferAnswer(q) # "success" => LbqOffer(q, x) = q
           /\ LbqWaitAnswer(q) = "success" =>
                 /\ q.items # <<>> /\ LbqWait(q) \in LbqOf(S, n) /\ Opened(LbqWait(q))
                 /\ LbqWait(q).items = Tail(q.items)
    <1>1. /\ ~q.shutdown /\ ~q.draining /\ ~q.userWake /\ q.items \in Seq(S)
          /\ q = [items |-> q.items, bound |-> n, shutdown |-> FALSE, draining |-> FALSE, userWake |-> FALSE]
        BY DEF Opened, LbqOf
    <1>2. /\ LbqFlush(q) \in LbqOf(S, n) /\ Opened(LbqFlush(q)) /\ LbqFlush(q).items = <<>>
        <2> DEFINE e == <<>>
        <2>1. e \in Seq(S)
            OBVIOUS
        <2> HIDE DEF e
        <2>2. [q EXCEPT !.items = e] \in LbqOf(S, n) /\ Opened([q EXCEPT !.items = e]) /\ [q EXCEPT !.items = e].items = e
            BY <1>1, <2>1 DEF LbqOf, Opened
        <2> QED
            BY <2>2 DEF LbqFlush, e
    <1>3. /\ LbqOfferAnswer(q) = IF Len(q.items) = q.bound THEN "bound" ELSE "success"
          /\ LbqOfferAnswer(q) \in {"bound", "success"}
        BY <1>1 DEF LbqOfferAnswer
    <1>4. ASSUME NEW x \in S
          PROVE  /\ LbqOffer(q, x) \in LbqOf(S, n) /\ Opened(LbqOffer(q, x))
                 /\ LbqOfferAnswer(q) = "success" => LbqOffer(q, x).items = Append(q.items, x)
                 /\ LbqOfferAnswer(q) # "success" => LbqOffer(q, x) = q
        <2> DEFINE e == Append(q.items, x)
        <2>1. e \in Seq(S)
            BY <1>1
        <2>2. LbqOffer(q, x) = IF LbqOfferAnswer(q) = "success" THEN [q EXCEPT !.items = e] ELSE q
            BY DEF LbqOffer
        <2> HIDE DEF e
        <2>3. [q EXCEPT !.items = e] \in LbqOf(S, n) /\ Opened([q EXCEPT !.items = e]) /\ [q EXCEPT !.items = e].items = e
            BY <1>1, <2>1 DEF LbqOf, Opened
        <2> QED
            BY <2>2, <2>3 DEF e
    <1>5. ASSUME LbqWaitAnswer(q) = "success"
          PROVE  /\ q.items # <<>> /\ LbqWait(q) \in LbqOf(S, n) /\ Opened(LbqWait(q))
                 /\ LbqWait(q).items = Tail(q.items)
        <2>1. q.items # <<>>
            BY <1>1, <1>5 DEF LbqWaitAnswer
        <2> DEFINE e == Tail(q.items)
        <2>2. e \in Seq(S)
            BY <1>1, <2>1
        <2>3. LbqWait(q) = [q EXCEPT !.items = e]
            BY <1>5 DEF LbqWait
        <2> HIDE DEF e
        <2>4. [q EXCEPT !.items = e] \in LbqOf(S, n) /\ Opened([q EXCEPT !.items = e]) /\ [q EXCEPT !.items = e].items = e
            BY <1>1, <2>2 DEF LbqOf, Opened
        <2> QED
            BY <2>1, <2>3, <2>4 DEF e
    <1> QED
        BY <1>2, <1>3, <1>4, <1>5


(* The ranges are dropped, with or without a request for an IDR frame.     *)
LEMMA RequestsAreDropped ==
    ASSUME NEW c \in SoundRequests, NEW b \in BOOLEAN
    PROVE  LET r == [c EXCEPT !.tuples = LbqFlush(@), !.idr = b]
           IN  r \in SoundRequests /\ Froms(r) = {} /\ r.idr = b /\ r.tuples.items = <<>>
    <1>1. TupleBound \in Nat /\ c \in Requests /\ c.tuples \in LbqOf(Ranges, TupleBound) /\ Opened(c.tuples)
        BY DepacketizerAssumption DEF DepacketizerAssumption, SoundRequests, Requests
    <1> DEFINE t == LbqFlush(c.tuples)
               r == [c EXCEPT !.tuples = t, !.idr = b]
    <1>2. t \in LbqOf(Ranges, TupleBound) /\ Opened(t) /\ t.items = <<>>
        BY <1>1, QueuesHold
    <1> HIDE DEF t
    <1>3. r \in Requests /\ r.tuples = t /\ r.idr = b
        BY <1>1, <1>2 DEF Requests
    <1> HIDE DEF r
    <1>4. Froms(r) = {}
        BY <1>2, <1>3 DEF Froms
    <1>5. r \in SoundRequests
        BY <1>2, <1>3 DEF SoundRequests
    <1>6. r = [c EXCEPT !.tuples = LbqFlush(@), !.idr = b]
        BY DEF r, t
    <1> QED
        BY <1>2, <1>3, <1>4, <1>5, <1>6

(* A request for an IDR frame drops the ranges that wait.                  *)
LEMMA RequestIdrDrops ==
    ASSUME NEW c \in SoundRequests
    PROVE  RequestIdr(c) \in SoundRequests /\ Froms(RequestIdr(c)) = {}
    <1>1. RequestIdr(c) = [c EXCEPT !.tuples = LbqFlush(@), !.idr = TRUE]
        BY DEF RequestIdr
    <1> QED
        BY <1>1, RequestsAreDropped

(* A dropped frame adds no range.                                          *)
LEMMA DropRequestsKeeps ==
    ASSUME NEW c \in SoundRequests, NEW e
    PROVE  DropRequests(e, c) \in SoundRequests /\ Froms(DropRequests(e, c)) \subseteq Froms(c)
    BY RequestIdrDrops DEF DropRequests

(* A range that was lost waits, or is made an IDR frame's request.         *)
LEMMA LossIsDetected ==
    ASSUME NEW c \in SoundRequests, NEW s \in BOOLEAN, NEW f \in Nat, NEW g \in Nat
    PROVE  /\ DetectedLoss(c, s, f, g) \in SoundRequests
           /\ Froms(DetectedLoss(c, s, f, g)) \subseteq Froms(c) \cup {f}
           /\ s => Froms(DetectedLoss(c, s, f, g)) = {}
    <1>1. TupleBound \in Nat /\ c \in Requests /\ c.tuples \in LbqOf(Ranges, TupleBound) /\ Opened(c.tuples)
        BY DepacketizerAssumption DEF DepacketizerAssumption, SoundRequests, Requests
    <1>2. CASE s \/ LbqOfferAnswer(c.tuples) = "bound"
        BY <1>2, RequestIdrDrops DEF DetectedLoss
    <1>3. CASE ~(s \/ LbqOfferAnswer(c.tuples) = "bound")
        <2> DEFINE x == [from |-> f, to |-> g]
                   t == LbqOffer(c.tuples, x)
                   r == [c EXCEPT !.tuples = t]
        <2>1. x \in Ranges /\ x.from = f
            BY DEF Ranges
        <2>5. DetectedLoss(c, s, f, g) = r
            BY <1>3 DEF DetectedLoss
        <2> HIDE DEF x
        <2>2. /\ t \in LbqOf(Ranges, TupleBound) /\ Opened(t)
              /\ t.items = Append(c.tuples.items, x) \/ t = c.tuples
            BY <1>1, <2>1, QueuesHold
        <2> HIDE DEF t
        <2>3. r \in Requests /\ r.tuples = t
            BY <1>1, <2>2 DEF Requests
        <2> HIDE DEF r
        <2>6. c.tuples.items \in Seq(Ranges)
            BY <1>1 DEF LbqOf
        <2>4. Froms(r) \subseteq Froms(c) \cup {f}
            <3>1. CASE t.items = Append(c.tuples.items, x)
                <4> DEFINE u == c.tuples.items
                <4> SUFFICES ASSUME NEW i \in DOMAIN t.items
                             PROVE  t.items[i].from \in Froms(c) \cup {f}
                    BY <2>3 DEF Froms
                <4>1. u \in Seq(Ranges) /\ t.items = Append(u, x)
                    BY <2>6, <3>1
                <4>3. \A j \in DOMAIN u : u[j].from \in Froms(c)
                    BY DEF Froms
                <4> HIDE DEF u
                <4>2. t.items[i] = x \/ (i \in DOMAIN u /\ t.items[i] = u[i])
                    BY <2>1, <4>1
                <4> QED
                    BY <2>1, <4>2, <4>3
            <3>2. CASE t = c.tuples
                BY <2>3, <3>2 DEF Froms
            <3> QED
                BY <2>2, <3>1, <3>2
        <2>7. r \in SoundRequests
            BY <2>2, <2>3 DEF SoundRequests
        <2> QED
            BY <1>3, <2>4, <2>5, <2>7
    <1> QED
        BY <1>2, <1>3

(* What the depacketizer's functions ask for: of frames of their own, from *)
(* the first one that the decoder does not have.                           *)
LEMMA CallsForHelp ==
    ASSUME NEW e \in Depacketizers, NEW c \in SoundRequests, NEW f \in Nat
    PROVE  /\ FrameLost(e, c, f).c \in SoundRequests
           /\ Froms(FrameLost(e, c, f).c) \subseteq Froms(c) \cup {e.start}
           /\ FirstPacketRequests(e, f, c) \in SoundRequests
           /\ Froms(FirstPacketRequests(e, f, c)) \subseteq Froms(c)
           /\ CorruptFrame(e, c, f).c \in SoundRequests
           /\ Froms(CorruptFrame(e, c, f).c) \subseteq Froms(c) \cup {e.start}
           /\ GiveUp(e, c, f).c \in SoundRequests
           /\ Froms(GiveUp(e, c, f).c) \subseteq Froms(c) \cup {e.start}
    <1>1. \A k \in Depacketizers : /\ k.start \in Nat /\ k.strict \in BOOLEAN /\ k.next \in Nat
                                   /\ DropFrame(k) \in Depacketizers /\ DropFrame(k).start = k.start
        BY DropFrameWaits DEF Dropped, SamePlace, Depacketizers
    <1>2. /\ FrameLost(e, c, f).c \in SoundRequests
          /\ Froms(FrameLost(e, c, f).c) \subseteq Froms(c) \cup {e.start}
        <2> DEFINE g == DropFrame(e)
                   x == DropRequests(e, c)
        <2>1. g \in Depacketizers /\ g.start = e.start /\ g.start \in Nat /\ g.strict \in BOOLEAN
            BY <1>1
        <2>2. x \in SoundRequests /\ Froms(x) \subseteq Froms(c)
            BY DropRequestsKeeps
        <2>3. FrameLost(e, c, f).c = IF g.waitIdr THEN x ELSE DetectedLoss(x, g.strict, g.start, f)
            BY DEF FrameLost
        <2> HIDE DEF g, x
        <2>4. DetectedLoss(x, g.strict, g.start, f) \in SoundRequests
            BY <2>1, <2>2, LossIsDetected
        <2>5. Froms(DetectedLoss(x, g.strict, g.start, f)) \subseteq Froms(x) \cup {g.start}
            BY <2>1, <2>2, LossIsDetected
        <2> QED
            BY <2>1, <2>2, <2>3, <2>4, <2>5
    <1>3. /\ FirstPacketRequests(e, f, c) \in SoundRequests
          /\ Froms(FirstPacketRequests(e, f, c)) \subseteq Froms(c)
        BY DropRequestsKeeps DEF FirstPacketRequests
    <1>4. /\ CorruptFrame(e, c, f).c \in SoundRequests
          /\ Froms(CorruptFrame(e, c, f).c) \subseteq Froms(c) \cup {e.start}
        <2> DEFINE k == [e EXCEPT !.decoding = FALSE, !.next = f + 1]
                   g == DropFrame(k)
                   x == DropRequests(k, c)
        <2>1. k \in Depacketizers /\ k.start = e.start
            BY EndFrameFields DEF EndFrame
        <2>2. x \in SoundRequests /\ Froms(x) \subseteq Froms(c)
            BY DropRequestsKeeps
        <2>3. CorruptFrame(e, c, f).c = IF g.waitIdr THEN RequestIdr(x) ELSE DetectedLoss(x, g.strict, g.start, f)
            BY DEF CorruptFrame
        <2> HIDE DEF x, k
        <2>6. g \in Depacketizers /\ g.start = e.start /\ g.start \in Nat /\ g.strict \in BOOLEAN
            BY <1>1, <2>1
        <2> HIDE DEF g
        <2>4. DetectedLoss(x, g.strict, g.start, f) \in SoundRequests
            BY <2>6, <2>2, LossIsDetected
        <2>5. Froms(DetectedLoss(x, g.strict, g.start, f)) \subseteq Froms(x) \cup {g.start}
            BY <2>6, <2>2, LossIsDetected
        <2>7. RequestIdr(x) \in SoundRequests /\ Froms(RequestIdr(x)) = {}
            BY <2>2, RequestIdrDrops
        <2> QED
            BY <2>2, <2>3, <2>4, <2>5, <2>6, <2>7
    <1>5. /\ GiveUp(e, c, f).c \in SoundRequests
          /\ Froms(GiveUp(e, c, f).c) \subseteq Froms(c) \cup {e.start}
        <2> DEFINE k == EndFrame(e, f)
                   x == CASE k.waitIdr /\ k.waitNext  -> RequestIdr(c)
                          [] k.waitIdr /\ ~k.waitNext -> c
                          [] OTHER                    -> DetectedLoss(c, k.strict, k.start, f)
        <2>1. k \in Depacketizers /\ k.start = e.start
            BY EndFrameFields
        <2>2. k.start \in Nat /\ k.strict \in BOOLEAN
            BY <1>1, <2>1
        <2>3. GiveUp(e, c, f).c = DropRequests(k, x)
            BY DEF GiveUp
        <2> HIDE DEF k
        <2>4. DetectedLoss(c, k.strict, k.start, f) \in SoundRequests
            BY <2>2, LossIsDetected
        <2>5. Froms(DetectedLoss(c, k.strict, k.start, f)) \subseteq Froms(c) \cup {k.start}
            BY <2>2, LossIsDetected
        <2>6. RequestIdr(c) \in SoundRequests /\ Froms(RequestIdr(c)) = {}
            BY RequestIdrDrops
        <2>7. x \in SoundRequests /\ Froms(x) \subseteq Froms(c) \cup {e.start}
            BY <2>1, <2>4, <2>5, <2>6
        <2> HIDE DEF x
        <2>8. DropRequests(k, x) \in SoundRequests /\ Froms(DropRequests(k, x)) \subseteq Froms(x)
            BY <2>7, DropRequestsKeeps
        <2> QED
            BY <2>3, <2>7, <2>8
    <1> QED
        BY <1>2, <1>3, <1>4, <1>5

(***************************************************************************)
(* The receive thread's place: in the queue, the calls and the depacketizer. *)
(***************************************************************************)

(* The call it is at is about a frame that was sent.                       *)
LEMMA CurrentFrame ==
    ASSUME Place, rx # "recv"
    PROVE  /\ calls # <<>> /\ Current \in DOMAIN sent /\ Current <= queue.frame
           /\ rx # "lost" => Current < queue.frame
           /\ d.start <= Current /\ d.next <= Current + 1
    <1>1. calls # <<>> /\ calls \in Seq(Calls)
        BY DEF Place, RxOK, QueueOK
    <1>2. 1 \in DOMAIN calls /\ Head(calls) = calls[1]
        BY <1>1
    <1>3. rx # "lost" => Head(calls).call = "frame"
        BY DEF Place, RxOK, AtFrame
    <1> QED
        BY <1>1, <1>2, <1>3 DEF Place, CallsGrow, Following, Current

(* The call is done.                                                       *)
LEMMA Returned ==
    ASSUME calls \in Seq(Calls), calls # <<>>, CallsGrow, Return, queue' = queue, sent' = sent
    PROVE  /\ calls' \in Seq(Calls) /\ RxOK' /\ CallsGrow' /\ rx' \in {"recv", "lost", "frame"}
           /\ calls' # <<>> => Current < Current'
    <1> DEFINE t == Tail(calls)
    <1>1. t \in Seq(Calls) /\ Len(t) = Len(calls) - 1 /\ \A i \in DOMAIN t : i + 1 \in DOMAIN calls /\ t[i] = calls[i + 1]
        OBVIOUS
    <1>2. calls' = t /\ rx' = IF t = <<>> THEN "recv" ELSE Head(t).call
        BY DEF Return
    <1> HIDE DEF t
    <1>3. t # <<>> => 1 \in DOMAIN t /\ Head(t) = t[1] /\ t[1] \in Calls
        BY <1>1
    <1>4. rx' \in {"recv", "lost", "frame"} /\ (t # <<>> => Head(t).call = rx' /\ rx' # "recv")
        BY <1>2, <1>3 DEF Calls
    <1>5. RxOK'
        BY <1>2, <1>4 DEF RxOK, AtFrame
    <1>6. CallsGrow'
        <2>1. Len(t) <= 2
            BY <1>1 DEF CallsGrow
        <2>2. ASSUME NEW i \in DOMAIN t
              PROVE  /\ t[i].frame \in DOMAIN sent /\ t[i].frame <= queue.frame
                     /\ t[i].call = "frame" => t[i].frame < queue.frame
                     /\ \A j \in 1 .. i - 1 : t[j].frame < t[i].frame
            <3>1. i + 1 \in DOMAIN calls /\ t[i] = calls[i + 1]
                BY <1>1
            <3>2. ASSUME NEW j \in 1 .. i - 1
                  PROVE  t[j].frame < t[i].frame
                <4>1. j \in DOMAIN t /\ i \in Nat
                    BY <1>1
                <4>2. t[j] = calls[j + 1] /\ j + 1 \in 1 .. (i + 1) - 1
                    BY <1>1, <4>1
                <4> QED
                    BY <3>1, <4>2 DEF CallsGrow
            <3> QED
                BY <3>1, <3>2 DEF CallsGrow
        <2> QED
            BY <1>2, <2>1, <2>2 DEF CallsGrow
    <1>7. t # <<>> => Head(calls).frame < Head(t).frame
        <2>1. t # <<>> => 2 \in DOMAIN calls /\ Head(t) = calls[2] /\ Head(calls) = calls[1] /\ 1 \in 1 .. 2 - 1
            BY <1>1, <1>3
        <2> QED
            BY <2>1 DEF CallsGrow
    <1> QED
        BY <1>1, <1>2, <1>4, <1>5, <1>6, <1>7 DEF Current

(* The call is done, and the depacketizer is at most behind its frame.     *)
LEMMA ReturnKeepsPlace ==
    ASSUME Place, WorldOK, rx # "recv", Return, queue' = queue, sent' = sent, mode' = mode,
           d' \in Depacketizers, d'.strict = d.strict, ~d'.decoding,
           d'.start <= d'.next, d'.next <= Current + 1, d'.start <= queue.frame
    PROVE  Place'
    <1>1. calls # <<>> /\ Current \in DOMAIN sent /\ Current <= queue.frame
        BY CurrentFrame
    <1>2. calls \in Seq(Calls) /\ CallsGrow /\ queue \in Queues
        BY DEF Place, QueueOK
    <1>3. /\ calls' \in Seq(Calls) /\ RxOK' /\ CallsGrow' /\ rx' \in {"recv", "lost", "frame"}
          /\ calls' # <<>> => Current < Current'
        BY <1>1, <1>2, Returned
    <1>4. Len(sent) \in Nat /\ DOMAIN sent = 1 .. Len(sent)
        BY DEF WorldOK
    <1>5. d'.next \in Nat /\ d'.start \in Nat /\ Current \in Nat /\ Current <= Len(sent) /\ queue.frame \in Nat
        <2>1. d'.next \in Nat /\ d'.start \in Nat
            BY DEF Depacketizers
        <2>2. queue.frame \in Nat
            BY <1>2 DEF Queues
        <2>3. Current \in Nat /\ Current <= Len(sent)
            BY <1>1, <1>4
        <2> QED
            BY <2>1, <2>2, <2>3
    <1>6. calls' # <<>> => Current' \in Nat
        <2>1. calls' # <<>> => 1 \in DOMAIN calls' /\ Head(calls') = calls'[1]
            BY <1>3
        <2>2. calls' # <<>> => Head(calls').frame \in DOMAIN sent'
            BY <1>3, <2>1 DEF CallsGrow
        <2> QED
            BY <1>4, <2>2 DEF Current
    <1>7. Following'
        <2>1. d'.next <= queue'.frame + 1 /\ d'.next <= Len(sent') + 1 /\ d'.start <= queue'.frame
            BY <1>1, <1>5
        <2>2. calls' # <<>> => d'.start <= Current' /\ d'.next <= Current' + 1
            BY <1>3, <1>5, <1>6
        <2> QED
            BY <1>3, <2>1, <2>2 DEF Following
    <1>8. (mode \in Modes)' /\ QueueOK' /\ DepacketizerOK' /\ BlockIsCounted' /\ FramesKnown'
        BY <1>3 DEF Place, QueueOK, DepacketizerOK, BlockIsCounted, FramesKnown
    <1> QED
        BY <1>3, <1>7, <1>8 DEF Place

(* The call goes on.                                                       *)
LEMMA StepKeepsPlace ==
    ASSUME Place, WorldOK, rx \in {"frame"} \cup AtFrame, rx' \in AtFrame,
           calls' = calls, queue' = queue, sent' = sent, mode' = mode,
           d' \in Depacketizers, d'.strict = d.strict, d'.start = d.start,
           rx' = "last" => d'.decoding /\ d'.next = Current,
           rx' # "last" => ~d'.decoding /\ d'.next = Current + 1
    PROVE  Place'
    <1>1. calls # <<>> /\ Current \in DOMAIN sent /\ Current < queue.frame /\ d.start <= Current
        BY CurrentFrame DEF AtFrame
    <1>2. calls \in Seq(Calls) /\ CallsGrow /\ queue \in Queues /\ RxOK
        BY DEF Place, QueueOK
    <1>4. Len(sent) \in Nat /\ DOMAIN sent = 1 .. Len(sent)
        BY DEF WorldOK
    <1>5. d'.next \in Nat /\ d'.start \in Nat /\ Current \in Nat /\ Current <= Len(sent) /\ queue.frame \in Nat
        <2>1. d'.next \in Nat /\ d'.start \in Nat
            BY DEF Depacketizers
        <2>2. queue.frame \in Nat
            BY <1>2 DEF Queues
        <2>3. Current \in Nat /\ Current <= Len(sent)
            BY <1>1, <1>4
        <2> QED
            BY <2>1, <2>2, <2>3
    <1>6. RxOK'
        BY <1>1, <1>2 DEF RxOK, AtFrame
    <1>7. Current' = Current /\ CallsGrow'
        BY <1>2 DEF Current, CallsGrow
    <1>8. Following'
        <2>1. d'.start <= d'.next /\ d'.next <= queue'.frame + 1 /\ d'.next <= Len(sent') + 1 /\ d'.start <= queue'.frame
            BY <1>1, <1>5
        <2>2. d'.start <= Current' /\ d'.next <= Current' + 1
            BY <1>1, <1>5, <1>7
        <2> QED
            BY <1>7, <2>1, <2>2 DEF Following
    <1>9. (mode \in Modes)' /\ QueueOK' /\ DepacketizerOK' /\ BlockIsCounted' /\ FramesKnown'
        BY <1>2 DEF Place, QueueOK, DepacketizerOK, BlockIsCounted, FramesKnown
    <1> QED
        BY <1>6, <1>7, <1>8, <1>9 DEF Place

(* Another thread, or the host, takes a step.                              *)
LEMMA OthersKeepPlace ==
    ASSUME Place, UNCHANGED <<mode, queue, rx, calls>>,
           sent \in Seq(Encoded), sent' \in Seq(Encoded), Len(sent) <= Len(sent'),
           d' \in Depacketizers, d'.strict = d.strict, d'.start = d.start, d'.next = d.next, d'.decoding = d.decoding
    PROVE  Place'
    <1>1. /\ Len(sent) \in Nat /\ DOMAIN sent = 1 .. Len(sent)
          /\ Len(sent') \in Nat /\ DOMAIN sent' = 1 .. Len(sent')
        OBVIOUS
    <1>2. queue.frame \in Nat /\ d.next \in Nat
        BY DEF Place, QueueOK, DepacketizerOK, Queues, Depacketizers
    <1>3. CallsGrow'
        <2>1. \A i \in DOMAIN calls : calls[i].frame \in DOMAIN sent => calls[i].frame \in DOMAIN sent'
            BY <1>1
        <2> QED
            BY <2>1 DEF Place, CallsGrow
    <1>4. Following'
        <2>1. d.next <= Len(sent) + 1 => d.next <= Len(sent') + 1
            BY <1>1, <1>2
        <2> QED
            BY <2>1 DEF Place, Following, Current
    <1>5. FramesKnown'
        BY <1>1, <1>2 DEF Place, FramesKnown
    <1> QED
        BY <1>3, <1>4, <1>5 DEF Place, RxOK, QueueOK, DepacketizerOK, BlockIsCounted

(* The queue for the decoder and the constants are what they are said to be. *)
LEMMA Bounds == Bound \in Nat \ {0} /\ Frames \in Nat /\ TupleBound \in Nat
    BY VideoStreamAssumption, DepacketizerAssumption DEF VideoStreamAssumption, DepacketizerAssumption

(* A queue that was just initialized.                                      *)
LEMMA NewQueue ==
    ASSUME NEW S, NEW n \in Nat
    PROVE  EmptyLbq(n) \in LbqOf(S, n) /\ Opened(EmptyLbq(n)) /\ EmptyLbq(n).items = <<>>
    <1> DEFINE e == <<>>
    <1>1. e \in Seq(S)
        OBVIOUS
    <1>2. EmptyLbq(n) = [items |-> e, bound |-> n, shutdown |-> FALSE, draining |-> FALSE, userWake |-> FALSE]
        BY DEF EmptyLbq
    <1> HIDE DEF e
    <1>3. EmptyLbq(n) \in LbqOf(S, n) /\ Opened(EmptyLbq(n)) /\ EmptyLbq(n).items = e
        BY <1>1, <1>2 DEF LbqOf, Opened
    <1> QED
        BY <1>3 DEF e

(* The initial state: nothing was sent, nothing waits.                     *)
LEMMA InitReception == Init => Reception /\ sent = <<>> /\ lbq.items = <<>> /\ Froms(requests) = {}
    <1> SUFFICES ASSUME Init PROVE Reception /\ sent = <<>> /\ lbq.items = <<>> /\ Froms(requests) = {}
        OBVIOUS
    <1>1. mode \in Modes /\ mode.strict \in BOOLEAN
        BY VideoStreamAssumption DEF VideoStreamAssumption, Init
    <1>2. queue \in Queues /\ queue.pending = {} /\ queue.frame = 1
        BY DEF Init, EmptyVideoQueue, Queues
    <1>3. calls = <<>> /\ calls \in Seq(Calls) /\ DOMAIN calls = {} /\ Len(calls) = 0 /\ rx = "recv"
        BY DEF Init
    <1>4. sent = <<>> /\ sent \in Seq(Encoded) /\ Len(sent) = 0
        BY DEF Init
    <1>5. d = EmptyDepacketizer(mode.strict)
        BY DEF Init
    <1>6. /\ d \in Depacketizers /\ d.strict = mode.strict /\ d.next = 1 /\ d.start = 0 /\ ~d.decoding
        <2>1. DepacketizerAssumption
            BY DepacketizerAssumption
        <2> QED
            BY <1>1, <1>5 DEF EmptyDepacketizer, Depacketizers
    <1>7. Following
        BY <1>2, <1>3, <1>4, <1>6 DEF Following
    <1>8. RxOK
        BY <1>3 DEF RxOK, AtFrame
    <1>9. CallsGrow
        BY <1>3 DEF CallsGrow
    <1>10. FramesKnown
        BY <1>2, <1>4 DEF FramesKnown
    <1>11. Place
        BY <1>1, <1>2, <1>3, <1>6, <1>7, <1>8, <1>9, <1>10 DEF Place, QueueOK, DepacketizerOK, BlockIsCounted, CountsFollow
    <1>12. requests \in SoundRequests /\ Froms(requests) = {} /\ taken \in Nat
        <2> DEFINE t == EmptyLbq(TupleBound)
        <2>1. t \in LbqOf(Ranges, TupleBound) /\ Opened(t) /\ t.items = <<>>
            BY Bounds, NewQueue
        <2>2. requests = [tuples |-> t, idr |-> FALSE] /\ taken = 0
            BY DEF Init, NoRequests, None
        <2> HIDE DEF t
        <2>3. requests \in Requests /\ requests.tuples = t
            BY <2>1, <2>2 DEF Requests
        <2> QED
            BY <2>1, <2>2, <2>3 DEF SoundRequests, Froms
    <1>13. DecoderOK /\ lbq.items = <<>>
        <2>1. lbq = EmptyLbq(Bound) /\ dec = "wait" /\ held = 0
            BY DEF Init, None
        <2> QED
            BY <2>1, Bounds, NewQueue DEF DecoderOK
    <1>14. WorldOK
        BY <1>4, Sizes DEF Init, WorldOK, None
    <1> QED
        BY <1>4, <1>11, <1>12, <1>13, <1>14 DEF Reception, RequestsOK

(* A packet that arrives.                                                  *)
LEMMA ReceiveReception ==
    ASSUME Reception, NEW p \in Arriving, NEW bad \in 0 .. DataShards, Receive(p, bad)
    PROVE  /\ Reception' /\ rx = "recv" /\ rx' \in {"recv", "lost", "frame"}
           /\ UNCHANGED <<mode, d, lbq, dec, held, requests, taken, sent, host, shown, raced>>
    <1>0. /\ mode \in Modes /\ RxOK /\ queue \in Queues /\ calls \in Seq(Calls) /\ DepacketizerOK
          /\ CountsFollow(queue) /\ queue.frame <= Len(sent) + 1 /\ Following /\ WorldOK
        BY DEF Reception, Place, QueueOK, BlockIsCounted, FramesKnown
    <1>1. Len(sent) \in Nat /\ DOMAIN sent = 1 .. Len(sent)
        BY <1>0 DEF WorldOK
    <1>2. p \in Packets /\ p.frame \in 1 .. Len(sent) /\ p.n \in Nat
        <2>1. PICK f \in 1 .. Len(sent) : p \in PacketsOf(f)
            BY DEF Arriving
        <2>2. f \in Nat \ {0}
            BY <1>1
        <2> QED
            BY <2>1, <2>2, PacketsArePackets DEF Packets
    <1> DEFINE a == AddVideoPacket(queue, p, bad)
    <1>3. /\ a.q \in Queues /\ CountsFollow(a.q)
          /\ queue.frame <= a.q.frame /\ (a.q.frame <= queue.frame \/ a.q.frame <= p.frame + 1)
          /\ CallsFit(a.calls, queue.frame, a.q.frame, p.frame)
        BY <1>0, <1>2, PacketIsAdded
    <1> HIDE DEF a
    <1>4. /\ rx = "recv" /\ queue' = a.q /\ calls' = a.calls
          /\ rx' = IF a.calls = <<>> THEN "recv" ELSE Head(a.calls).call
          /\ UNCHANGED <<mode, d, lbq, decoding, asking, sent, host, shown, raced, refreshes>>
          /\ high' = IF p.n > high THEN p.n ELSE high
          /\ corruptions' = IF bad < DataShards THEN corruptions + 1 ELSE corruptions
        BY DEF Receive, a
    <1>15. revived' \in BOOLEAN
        BY DEF Receive
    <1>5. queue.frame \in Nat /\ a.q.frame \in Nat /\ p.frame \in Nat
        <2>1. a.q \in Queues /\ queue \in Queues
            BY <1>0, <1>3
        <2>2. p.frame \in Nat
            BY <1>1, <1>2
        <2> QED
            BY <2>1, <2>2 DEF Queues
    <1>6. /\ calls' \in Seq(Calls) /\ Len(calls') <= 2
          /\ \A i \in DOMAIN calls' :
                /\ calls'[i].frame \in queue.frame .. p.frame /\ calls'[i].frame <= queue'.frame
                /\ calls'[i].call = "frame" => calls'[i].frame < queue'.frame
                /\ \A j \in 1 .. i - 1 : calls'[j].frame < calls'[i].frame
        BY <1>3, <1>4 DEF CallsFit
    <1>7. calls' # <<>> => 1 \in DOMAIN calls' /\ Head(calls') = calls'[1] /\ calls'[1] \in Calls
        BY <1>6
    <1>8. RxOK'
        <2>1. rx' = IF calls' = <<>> THEN "recv" ELSE Head(calls').call
            BY <1>4
        <2>2. calls' # <<>> => Head(calls').call \in {"lost", "frame"}
            BY <1>7 DEF Calls
        <2> QED
            BY <2>1, <2>2 DEF RxOK, AtFrame
    <1>9. CallsGrow'
        <2>1. \A i \in DOMAIN calls' : calls'[i].frame \in 1 .. Len(sent)
            <3> SUFFICES ASSUME NEW i \in DOMAIN calls' PROVE calls'[i].frame \in 1 .. Len(sent)
                OBVIOUS
            <3>1. calls'[i].frame \in queue.frame .. p.frame
                BY <1>6
            <3>2. 1 <= queue.frame
                BY <1>0 DEF Queues
            <3> QED
                BY <1>1, <1>2, <1>5, <3>1, <3>2
        <2> QED
            BY <1>1, <1>4, <1>6, <2>1 DEF CallsGrow
    <1>10. Following'
        <2>1. /\ d.start <= d.next /\ d.next <= queue.frame + 1 /\ d.next <= Len(sent) + 1
              /\ d.start <= queue.frame /\ ~d.decoding
            BY <1>0, <1>4 DEF Following
        <2>2. d.next \in Nat /\ d.start \in Nat
            BY <1>0 DEF DepacketizerOK, Depacketizers
        <2>3. calls' # <<>> => queue.frame <= Current' /\ Current' \in Nat
            BY <1>5, <1>6, <1>7 DEF Current
        <2>4. d.next <= queue'.frame + 1 /\ d.start <= queue'.frame
            BY <1>3, <1>4, <1>5, <2>1, <2>2
        <2>5. calls' # <<>> => d.start <= Current' /\ d.next <= Current' + 1
            BY <1>5, <2>1, <2>2, <2>3
        <2>6. rx' \in {"recv", "lost", "frame"}
            BY <1>4, <1>7 DEF Calls
        <2> QED
            BY <1>4, <2>1, <2>4, <2>5, <2>6 DEF Following
    <1>11. FramesKnown'
        BY <1>0, <1>1, <1>2, <1>3, <1>4, <1>5 DEF FramesKnown
    <1>12. Place'
        BY <1>0, <1>3, <1>4, <1>6, <1>8, <1>9, <1>10, <1>11 DEF Place, QueueOK, DepacketizerOK, BlockIsCounted
    <1>13. WorldOK'
        BY <1>0, <1>2, <1>4, <1>15 DEF WorldOK
    <1>14. RequestsOK' /\ DecoderOK'
        BY <1>4 DEF Reception, RequestsOK, DecoderOK, asking, decoding
    <1>16. rx' \in {"recv", "lost", "frame"}
        BY <1>4, <1>7 DEF Calls
    <1> QED
        BY <1>4, <1>12, <1>13, <1>14, <1>16 DEF Reception, asking, decoding

(* The calls of notifyFrameLost and queueRtpPacket: those that end with the call. *)
LEMMA ReturnsReception ==
    ASSUME Reception,
           NotifyFrameLost \/ OldFrame \/ RejectFrame \/ DropUndecodable \/ DropPendingFrame
    PROVE  /\ Reception'
           /\ UNCHANGED <<mode, queue, lbq, dec, held, taken, sent, host, shown, raced>>
           /\ rx # "recv" /\ Return
           /\ \/ d' = d /\ requests' = requests /\ rx = "frame" /\ Current < d.next
              \/ /\ Dropped(d', d) /\ Froms(requests') \subseteq Froms(requests) \cup {d.start}
                 /\ d'.next \in {d.next, Current + 1} /\ (rx # "lost" => d'.next = Current + 1)
                 /\ ~d'.waitIdr => d'.next = Current + 1
    <1>1. /\ Place /\ WorldOK /\ DecoderOK /\ d \in Depacketizers /\ requests \in SoundRequests /\ taken \in Nat
          /\ Following /\ calls \in Seq(Calls)
        BY DEF Reception, Place, DepacketizerOK, RequestsOK, QueueOK
    <1>2. rx # "recv"
        BY DEF NotifyFrameLost, OldFrame, RejectFrame, DropUndecodable, DropPendingFrame
    <1>3. /\ calls # <<>> /\ Current \in DOMAIN sent /\ Current <= queue.frame
          /\ rx # "lost" => Current < queue.frame
          /\ d.start <= Current /\ d.next <= Current + 1
        BY <1>1, <1>2, CurrentFrame
    <1>4. Current \in Nat /\ d.start \in Nat /\ d.next \in Nat /\ queue.frame \in Nat /\ d.start <= queue.frame /\ d.start <= d.next
        <2>1. Current \in 1 .. Len(sent) /\ Len(sent) \in Nat
            BY <1>1, <1>3 DEF WorldOK
        <2> QED
            BY <1>1, <2>1 DEF Following, Depacketizers, Place, QueueOK, Queues
    <1>5. /\ UNCHANGED <<mode, queue, lbq, dec, held, taken, sent, host, high, shown, raced, revived, refreshes>>
          /\ Return /\ corruptions' \in Nat
        BY <1>1 DEF NotifyFrameLost, OldFrame, RejectFrame, DropUndecodable, DropPendingFrame,
                    world, decoding, asking, WorldOK
    <1>6. WorldOK' /\ DecoderOK'
        BY <1>1, <1>5 DEF WorldOK, DecoderOK
    <1>7. ASSUME d' \in Depacketizers, d'.strict = d.strict, ~d'.decoding, d'.start = d.start,
                 d'.start <= d'.next, d'.next <= Current + 1, requests' \in SoundRequests
          PROVE  Reception'
        <2>1. Place'
            BY <1>1, <1>2, <1>4, <1>5, <1>7, ReturnKeepsPlace
        <2> QED
            BY <1>1, <1>5, <1>6, <1>7, <2>1 DEF Reception, RequestsOK
    <1>8. CASE OldFrame
        <2>1. d' = d /\ requests' = requests /\ rx = "frame" /\ Current < d.next
            BY <1>8 DEF OldFrame, Old, asking
        <2>2. ~d.decoding
            BY <1>1, <2>1 DEF Following
        <2>3. Reception'
            BY <1>1, <1>3, <1>4, <1>7, <2>1, <2>2
        <2> QED
            BY <1>2, <1>5, <2>1, <2>3
    <1>9. ASSUME Dropped(d', d), ~d'.decoding, requests' \in SoundRequests,
                 Froms(requests') \subseteq Froms(requests) \cup {d.start},
                 d'.next \in {d.next, Current + 1}, rx # "lost" => d'.next = Current + 1,
                 ~d'.waitIdr => d'.next = Current + 1
          PROVE  /\ Reception'
                 /\ \/ d' = d /\ requests' = requests /\ rx = "frame" /\ Current < d.next
                    \/ /\ Dropped(d', d) /\ Froms(requests') \subseteq Froms(requests) \cup {d.start}
                       /\ d'.next \in {d.next, Current + 1} /\ (rx # "lost" => d'.next = Current + 1)
                       /\ ~d'.waitIdr => d'.next = Current + 1
        <2>1. d' \in Depacketizers /\ d'.strict = d.strict /\ d'.start = d.start
            BY <1>9 DEF Dropped, SamePlace
        <2>2. d'.start <= d'.next /\ d'.next <= Current + 1
            BY <1>3, <1>4, <1>9, <2>1
        <2>3. Reception'
            BY <1>7, <1>9, <2>1, <2>2
        <2> QED
            BY <1>9, <2>3
    <1>10. CASE NotifyFrameLost
        <2> DEFINE l == FrameLost(d, requests, Current)
        <2>1. d' = l.d /\ requests' = l.c /\ rx = "lost"
            BY <1>10 DEF NotifyFrameLost
        <2>2. Dropped(l.d, d) /\ l.d.decoding = d.decoding /\ (l.d.waitIdr => l.d.next = d.next) /\ (~l.d.waitIdr => l.d.next = Current + 1)
            BY <1>1, <1>4, FrameLostFields
        <2>3. l.c \in SoundRequests /\ Froms(l.c) \subseteq Froms(requests) \cup {d.start}
            BY <1>1, <1>4, CallsForHelp
        <2> HIDE DEF l
        <2>4. ~d.decoding
            BY <1>1, <2>1 DEF Following
        <2> QED
            BY <1>2, <1>5, <1>9, <2>1, <2>2, <2>3, <2>4
    <1>11. CASE RejectFrame
        <2> DEFINE l == CorruptFrame(d, requests, Current)
        <2>1. d' = l.d /\ requests' = l.c /\ rx = "last"
            BY <1>11 DEF RejectFrame
        <2>2. Dropped(l.d, d) /\ ~l.d.decoding /\ l.d.next = Current + 1
            BY <1>1, <1>4, CorruptFrameFields
        <2>3. l.c \in SoundRequests /\ Froms(l.c) \subseteq Froms(requests) \cup {d.start}
            BY <1>1, <1>4, CallsForHelp
        <2> HIDE DEF l
        <2> QED
            BY <1>2, <1>5, <1>9, <2>1, <2>2, <2>3
    <1>12. CASE DropUndecodable
        <2> DEFINE l == GiveUp(d, requests, Current)
        <2>1. d' = l.d /\ requests' = l.c /\ rx = "last"
            BY <1>12 DEF DropUndecodable
        <2>2. Dropped(l.d, d) /\ ~l.d.decoding /\ l.d.next = Current + 1
            BY <1>1, <1>4, GiveUpFields
        <2>3. l.c \in SoundRequests /\ Froms(l.c) \subseteq Froms(requests) \cup {d.start}
            BY <1>1, <1>4, CallsForHelp
        <2> HIDE DEF l
        <2> QED
            BY <1>2, <1>5, <1>9, <2>1, <2>2, <2>3
    <1>13. CASE DropPendingFrame
        <2>1. d' = DropFrame(d) /\ requests' = DropRequests(d, requests) /\ rx = "pending"
            BY <1>13 DEF DropPendingFrame
        <2>2. Dropped(d', d) /\ d'.next = d.next /\ d'.decoding = d.decoding
            BY <1>1, <2>1, DropFrameWaits
        <2>3. requests' \in SoundRequests /\ Froms(requests') \subseteq Froms(requests)
            BY <1>1, <2>1, DropRequestsKeeps
        <2>4. ~d.decoding /\ d.next = Current + 1
            BY <1>1, <2>1 DEF Following
        <2> QED
            BY <1>2, <1>5, <1>9, <2>1, <2>2, <2>3, <2>4
    <1> QED
        BY <1>8, <1>10, <1>11, <1>12, <1>13

(* The frame that begins, ends and goes on to the decoder.                 *)
LEMMA StartReception ==
    ASSUME Reception, StartFrame
    PROVE  /\ Reception' /\ ~Old(d, Current)
           /\ d' = FirstPacket(d, Current, sent[Current].type)
           /\ UNCHANGED <<mode, queue, calls, lbq, dec, held, taken, sent, host, shown, raced>>
           /\ rx = "frame" /\ rx' = "last" /\ Froms(requests') \subseteq Froms(requests)
    <1>1. /\ Place /\ WorldOK /\ DecoderOK /\ d \in Depacketizers /\ requests \in SoundRequests /\ taken \in Nat
        BY DEF Reception, Place, DepacketizerOK, RequestsOK
    <1>2. /\ rx = "frame" /\ rx' = "last" /\ ~Old(d, Current)
          /\ d' = FirstPacket(d, Current, sent[Current].type)
          /\ requests' = FirstPacketRequests(d, Current, requests)
          /\ UNCHANGED <<mode, queue, calls, lbq, dec, held, taken, sent, host, high, shown, raced, revived,
                         refreshes, corruptions>>
        BY DEF StartFrame, decoding, world
    <1>3. Current \in Nat
        BY <1>1, <1>2, CurrentFrame DEF WorldOK
    <1>4. SamePlace(d', d) /\ d'.decoding /\ d'.next = Current
        BY <1>1, <1>2, <1>3, FirstPacketFields
    <1>5. requests' \in SoundRequests /\ Froms(requests') \subseteq Froms(requests)
        BY <1>1, <1>2, <1>3, CallsForHelp
    <1>6. Place'
        BY <1>1, <1>2, <1>4, StepKeepsPlace DEF SamePlace, AtFrame
    <1>7. WorldOK' /\ DecoderOK'
        BY <1>1, <1>2 DEF WorldOK, DecoderOK
    <1> QED
        BY <1>1, <1>2, <1>5, <1>6, <1>7 DEF Reception, RequestsOK

(* The last packet of a frame.                                             *)
LEMMA CompleteReception ==
    ASSUME Reception, CompleteFrame
    PROVE  /\ Reception' /\ ~MustWait(d) /\ d' = EndFrame(d, Current)
           /\ UNCHANGED <<mode, queue, calls, lbq, dec, held, requests, taken, sent, host, shown, raced>>
           /\ rx = "last" /\ rx' = "pending"
    <1>1. /\ Place /\ WorldOK /\ DecoderOK /\ d \in Depacketizers /\ RequestsOK
        BY DEF Reception, Place, DepacketizerOK
    <1>2. /\ rx = "last" /\ rx' = "pending" /\ ~MustWait(d) /\ d' = EndFrame(d, Current)
          /\ UNCHANGED <<mode, queue, calls, lbq, dec, held, requests, taken, sent, host, high, shown, raced, revived,
                         refreshes, corruptions>>
        BY DEF CompleteFrame, decoding, world, asking
    <1>3. Current \in Nat
        BY <1>1, <1>2, CurrentFrame DEF WorldOK
    <1>4. d' \in Depacketizers /\ d'.strict = d.strict /\ d'.start = d.start /\ ~d'.decoding /\ d'.next = Current + 1
        BY <1>1, <1>2, <1>3, EndFrameFields
    <1>6. Place'
        BY <1>1, <1>2, <1>4, StepKeepsPlace DEF AtFrame
    <1>7. WorldOK' /\ DecoderOK'
        BY <1>1, <1>2 DEF WorldOK, DecoderOK
    <1> QED
        BY <1>1, <1>2, <1>6, <1>7 DEF Reception, RequestsOK

(* The frame is kept.                                                      *)
LEMMA KeepReception ==
    ASSUME Reception, KeepFrame
    PROVE  /\ Reception' /\ (d.dropPending => sent[Current].type = "I")
           /\ UNCHANGED <<mode, queue, calls, lbq, dec, held, requests, taken, sent, host, shown, raced>>
           /\ d' = [d EXCEPT !.dropPending = FALSE]
           /\ rx = "pending" /\ rx' = IF mode.direct THEN "submit" ELSE "offer"
    <1>1. /\ Place /\ WorldOK /\ DecoderOK /\ d \in Depacketizers /\ RequestsOK /\ Following
        BY DEF Reception, Place, DepacketizerOK
    <1>2. /\ rx = "pending" /\ rx' = IF mode.direct THEN "submit" ELSE "offer"
          /\ (d.dropPending => sent[Current].type = "I") /\ d' = [d EXCEPT !.dropPending = FALSE]
          /\ UNCHANGED <<mode, queue, calls, lbq, dec, held, requests, taken, sent, host, high, shown, raced, revived,
                         refreshes, corruptions>>
        BY DEF KeepFrame, decoding, world, asking
    <1>3. d' \in Depacketizers /\ d'.strict = d.strict /\ d'.start = d.start /\ d'.decoding = d.decoding /\ d'.next = d.next
        BY <1>1, <1>2 DEF Depacketizers
    <1>4. ~d.decoding /\ d.next = Current + 1
        BY <1>1, <1>2 DEF Following
    <1>5. rx' \in AtFrame /\ rx \in AtFrame /\ rx' # "last"
        BY <1>2 DEF AtFrame
    <1>6. Place'
        BY <1>1, <1>2, <1>3, <1>4, <1>5, StepKeepsPlace
    <1>7. WorldOK' /\ DecoderOK'
        BY <1>1, <1>2 DEF WorldOK, DecoderOK
    <1> QED
        BY <1>1, <1>2, <1>6, <1>7 DEF Reception, RequestsOK

(* The frame is the decoder's: the next one starts anew.                   *)
LEMMA SubmittedFields ==
    ASSUME NEW e \in Depacketizers
    PROVE  LET g == Submitted(e)
           IN  /\ g \in Depacketizers /\ g.start = e.next /\ g.next = e.next /\ g.strict = e.strict
               /\ g.decoding = e.decoding /\ g.waitIdr = e.waitIdr /\ g.waitRfi = e.waitRfi
               /\ g.dropPending = e.dropPending
    <1> DEFINE n == e.next
               z == 0
               g == Submitted(e)
    <1>1. n \in Nat /\ z \in Nat /\ g = [e EXCEPT !.drops = z, !.start = n]
        BY DEF Submitted, Depacketizers
    <1> HIDE DEF n, z, g
    <1>2. /\ g \in Depacketizers /\ g.start = n /\ g.next = e.next /\ g.strict = e.strict
          /\ g.decoding = e.decoding /\ g.waitIdr = e.waitIdr /\ g.waitRfi = e.waitRfi
          /\ g.dropPending = e.dropPending
        BY <1>1 DEF Depacketizers
    <1> QED
        BY <1>2 DEF g, n

(* The frame is put into decodeUnitQueue.                                  *)
LEMMA OfferReception ==
    ASSUME Reception, OfferFrame
    PROVE  /\ Reception' /\ Return /\ rx = "offer"
           /\ UNCHANGED <<mode, queue, dec, held, requests, taken, sent, host, shown>>
           /\ lbq'.items = Append(lbq.items, Current) /\ d' = Submitted(d) /\ d.next = Current + 1
           /\ raced' = (raced \/ IF sent[Current].type = "I" THEN dec = "flush"
                                 ELSE d.dropPending \/ dec = "pending")
    <1>1. /\ Place /\ WorldOK /\ DecoderOK /\ d \in Depacketizers /\ RequestsOK /\ Following
        BY DEF Reception, Place, DepacketizerOK
    <1>2. /\ rx = "offer" /\ Return /\ LbqOfferAnswer(lbq) = "success" /\ lbq' = LbqOffer(lbq, Current)
          /\ d' = Submitted(d)
          /\ raced' = (raced \/ IF sent[Current].type = "I" THEN dec = "flush"
                                 ELSE d.dropPending \/ dec = "pending")
          /\ UNCHANGED <<mode, queue, dec, held, requests, taken, sent, host, high, shown, revived,
                         refreshes, corruptions>>
        BY DEF OfferFrame, decoding, world, asking
    <1>3. /\ Current \in Nat /\ Current < queue.frame /\ d.next = Current + 1 /\ ~d.decoding
          /\ queue.frame \in Nat
        <2>1. Current \in DOMAIN sent /\ Current < queue.frame
            BY <1>1, <1>2, CurrentFrame
        <2>2. d.next = Current + 1 /\ ~d.decoding
            BY <1>1, <1>2 DEF Following
        <2>3. DOMAIN sent \subseteq Nat
            BY <1>1 DEF WorldOK
        <2>4. queue.frame \in Nat
            BY <1>1 DEF Place, QueueOK, Queues
        <2> QED
            BY <2>1, <2>2, <2>3, <2>4
    <1>4. /\ lbq' \in LbqOf(Nat, Bound) /\ Opened(lbq') /\ lbq'.items = Append(lbq.items, Current)
        BY <1>1, <1>2, <1>3, Bounds, QueuesHold DEF DecoderOK
    <1>5. /\ d' \in Depacketizers /\ d'.strict = d.strict /\ d'.start = d.next /\ d'.next = d.next /\ ~d'.decoding
        BY <1>1, <1>2, <1>3, SubmittedFields
    <1>6. Place'
        <2>1. d'.start <= d'.next /\ d'.next <= Current + 1 /\ d'.start <= queue.frame
            BY <1>3, <1>5
        <2> QED
            BY <1>1, <1>2, <1>5, <2>1, ReturnKeepsPlace
    <1>8. raced' \in BOOLEAN
        BY <1>2
    <1>7. WorldOK' /\ DecoderOK'
        BY <1>1, <1>2, <1>4, <1>8 DEF WorldOK, DecoderOK
    <1> QED
        BY <1>1, <1>2, <1>3, <1>4, <1>6, <1>7 DEF Reception, RequestsOK

(* The frame is decoded by the receive thread itself.                      *)
LEMMA SubmitReception ==
    ASSUME Reception, SubmitDirect
    PROVE  /\ Reception' /\ Return /\ rx = "submit" /\ d.next = Current + 1 /\ Show(Current)
           /\ UNCHANGED <<mode, queue, lbq, dec, held, taken, sent, host, raced>>
           /\ Froms(requests') \subseteq Froms(requests)
           /\ d'.start = d.next /\ d'.next = d.next
           /\ d.waitIdr => d'.waitIdr
           /\ MustWait(d) => MustWait(d')
    <1>1. /\ Place /\ WorldOK /\ DecoderOK /\ d \in Depacketizers /\ Following /\ requests \in SoundRequests
          /\ taken \in Nat
        BY DEF Reception, Place, DepacketizerOK, RequestsOK
    <1>2. /\ rx = "submit" /\ Return /\ Show(Current)
          /\ UNCHANGED <<mode, queue, lbq, dec, held, taken, sent, host, high, revived, raced, corruptions>>
        BY DEF SubmitDirect, decoding, world
    <1>3. /\ Current \in Nat /\ Current < queue.frame /\ d.next = Current + 1 /\ ~d.decoding
          /\ queue.frame \in Nat
        <2>1. Current \in DOMAIN sent /\ Current < queue.frame
            BY <1>1, <1>2, CurrentFrame
        <2>2. d.next = Current + 1 /\ ~d.decoding
            BY <1>1, <1>2 DEF Following
        <2>3. DOMAIN sent \subseteq Nat
            BY <1>1 DEF WorldOK
        <2>4. queue.frame \in Nat
            BY <1>1 DEF Place, QueueOK, Queues
        <2> QED
            BY <2>1, <2>2, <2>3, <2>4
    <1>4. /\ d' \in Depacketizers /\ d'.strict = d.strict /\ d'.start = d.next /\ d'.next = d.next /\ ~d'.decoding
          /\ (d.waitIdr => d'.waitIdr) /\ (MustWait(d) => MustWait(d'))
          /\ requests' \in SoundRequests /\ Froms(requests') \subseteq Froms(requests) /\ refreshes' \in Nat
        <2>1. CASE /\ d' = Submitted([d EXCEPT !.idrDone = @ \/ sent[Current].type = "I"])
                   /\ UNCHANGED <<requests, refreshes>>
            <3> DEFINE b == d.idrDone \/ sent[Current].type = "I"
                       e == [d EXCEPT !.idrDone = b]
            <3>1. b \in BOOLEAN
                BY <1>1 DEF Depacketizers
            <3> HIDE DEF b
            <3>2. /\ e \in Depacketizers /\ e.next = d.next /\ e.strict = d.strict /\ e.decoding = d.decoding
                  /\ e.waitIdr = d.waitIdr /\ e.waitRfi = d.waitRfi
                BY <1>1, <3>1 DEF Depacketizers
            <3>3. d' = Submitted(e)
                BY <2>1 DEF b
            <3> HIDE DEF e
            <3> QED
                BY <1>1, <1>3, <2>1, <3>2, <3>3, SubmittedFields DEF MustWait, WorldOK
        <2>2. CASE /\ refreshes < Refreshes /\ refreshes' = refreshes + 1
                   /\ d' = Submitted([d EXCEPT !.waitIdr = TRUE, !.dropPending = TRUE])
                   /\ requests' = RequestIdr(requests)
            <3> DEFINE e == [d EXCEPT !.waitIdr = TRUE, !.dropPending = TRUE]
            <3>2. /\ e \in Depacketizers /\ e.next = d.next /\ e.strict = d.strict /\ e.decoding = d.decoding
                  /\ e.waitIdr
                BY <1>1 DEF Depacketizers
            <3>3. d' = Submitted(e)
                BY <2>2
            <3> HIDE DEF e
            <3>4. requests' \in SoundRequests /\ Froms(requests') = {}
                BY <1>1, <2>2, RequestIdrDrops
            <3> QED
                BY <1>1, <1>3, <2>2, <3>2, <3>3, <3>4, SubmittedFields DEF MustWait, WorldOK
        <2> QED
            BY <2>1, <2>2 DEF SubmitDirect
    <1>6. Place'
        <2>1. d'.start <= d'.next /\ d'.next <= Current + 1 /\ d'.start <= queue.frame
            BY <1>3, <1>4
        <2> QED
            BY <1>1, <1>2, <1>4, <2>1, ReturnKeepsPlace
    <1>8. shown' \subseteq Nat
        BY <1>1, <1>2, <1>3 DEF Show, WorldOK
    <1>7. WorldOK' /\ DecoderOK'
        BY <1>1, <1>2, <1>4, <1>8 DEF WorldOK, DecoderOK
    <1> QED
        BY <1>1, <1>2, <1>3, <1>4, <1>6, <1>7 DEF Reception, RequestsOK

(* The queue for the decoder is full.                                      *)
LEMMA OverflowReception ==
    ASSUME Reception, Overflow
    PROVE  /\ Reception' /\ rx = "offer" /\ rx' = "flush" /\ Dropped(d', d) /\ d'.waitIdr /\ d'.next = d.next
           /\ UNCHANGED <<mode, queue, calls, lbq, dec, held, taken, sent, host, shown, raced>>
           /\ Froms(requests') \subseteq Froms(requests)
    <1>1. /\ Place /\ WorldOK /\ DecoderOK /\ d \in Depacketizers /\ requests \in SoundRequests /\ taken \in Nat /\ Following
        BY DEF Reception, Place, DepacketizerOK, RequestsOK
    <1> DEFINE e == [d EXCEPT !.waitIdr = TRUE]
    <1>2. /\ rx = "offer" /\ rx' = "flush" /\ d' = DropFrame(e) /\ requests' = DropRequests(d, requests)
          /\ UNCHANGED <<mode, queue, calls, lbq, dec, held, taken, sent, host, high, shown, raced, revived,
                         refreshes, corruptions>>
        BY DEF Overflow, decoding, world
    <1>3. /\ e \in Depacketizers /\ e.start = d.start /\ e.strict = d.strict /\ e.idrDone = d.idrDone
          /\ e.next = d.next /\ e.decoding = d.decoding /\ e.waitIdr
        BY <1>1 DEF Depacketizers
    <1> HIDE DEF e
    <1>4. Dropped(d', e) /\ d'.next = e.next /\ d'.decoding = e.decoding
        BY <1>2, <1>3, DropFrameWaits
    <1>5. Dropped(d', d) /\ d'.waitIdr /\ d'.next = d.next /\ d'.decoding = d.decoding
        BY <1>3, <1>4 DEF Dropped, SamePlace
    <1>6. requests' \in SoundRequests /\ Froms(requests') \subseteq Froms(requests)
        BY <1>1, <1>2, DropRequestsKeeps
    <1>7. ~d.decoding /\ d.next = Current + 1
        BY <1>1, <1>2 DEF Following
    <1>8. rx' \in AtFrame /\ rx \in AtFrame /\ rx' # "last"
        BY <1>2 DEF AtFrame
    <1>9. Place'
        BY <1>1, <1>2, <1>5, <1>7, <1>8, StepKeepsPlace DEF Dropped, SamePlace
    <1>10. WorldOK' /\ DecoderOK'
        BY <1>1, <1>2 DEF WorldOK, DecoderOK
    <1> QED
        BY <1>1, <1>2, <1>5, <1>6, <1>9, <1>10 DEF Reception, RequestsOK

(* The full queue is emptied, and an IDR frame asked for.                  *)
LEMMA FlushReception ==
    ASSUME Reception, FlushQueue
    PROVE  /\ Reception' /\ Return /\ rx = "flush" /\ lbq'.items = <<>> /\ Froms(requests') = {}
           /\ UNCHANGED <<mode, queue, d, dec, held, taken, sent, host, shown, raced>>
    <1>1. /\ Place /\ WorldOK /\ DecoderOK /\ d \in Depacketizers /\ requests \in SoundRequests /\ taken \in Nat /\ Following
        BY DEF Reception, Place, DepacketizerOK, RequestsOK
    <1>2. /\ rx = "flush" /\ Return /\ lbq' = LbqFlush(lbq) /\ requests' = RequestIdr(requests)
          /\ UNCHANGED <<mode, queue, d, dec, held, taken, sent, host, high, shown, raced, revived,
                         refreshes, corruptions>>
        BY DEF FlushQueue, decoding, world
    <1>3. lbq' \in LbqOf(Nat, Bound) /\ Opened(lbq') /\ lbq'.items = <<>>
        BY <1>1, <1>2, Bounds, QueuesHold DEF DecoderOK
    <1>4. requests' \in SoundRequests /\ Froms(requests') = {}
        BY <1>1, <1>2, RequestIdrDrops
    <1>5. ~d.decoding /\ d.start <= d.next /\ d.start <= queue.frame
        BY <1>1, <1>2 DEF Following
    <1>6. d.next <= Current + 1
        BY <1>1, <1>2, CurrentFrame
    <1>7. Place'
        BY <1>1, <1>2, <1>5, <1>6, ReturnKeepsPlace
    <1>10. WorldOK' /\ DecoderOK'
        BY <1>1, <1>2, <1>3 DEF WorldOK, DecoderOK
    <1> QED
        BY <1>1, <1>2, <1>3, <1>4, <1>7, <1>10 DEF Reception, RequestsOK

(* The decoder thread.                                                     *)
LEMMA DecoderReception ==
    ASSUME Reception, Decoder
    PROVE  /\ Reception' /\ UNCHANGED <<mode, queue, rx, calls, sent, raced>>
           /\ d'.start = d.start /\ d'.next = d.next /\ d'.decoding = d.decoding
           /\ (d.waitIdr => d'.waitIdr) /\ (MustWait(d) => MustWait(d'))
           /\ Froms(requests') \subseteq Froms(requests) /\ taken' = taken /\ host' = host
           /\ \/ /\ dec = "wait" /\ dec' = "decode" /\ lbq.items # <<>> /\ d' = d
                 /\ held' = Head(lbq.items) /\ lbq'.items = Tail(lbq.items) /\ shown' = shown
              \/ /\ dec = "decode" /\ dec' \in {"wait", "flush"} /\ lbq' = lbq /\ Show(held)
                 /\ d'.dropPending = d.dropPending /\ (dec' = "flush" => d'.waitIdr)
              \/ /\ dec = "flush" /\ dec' = "pending" /\ lbq'.items = <<>> /\ d' = d /\ shown' = shown
              \/ /\ dec = "pending" /\ dec' = "request" /\ lbq' = lbq /\ d'.dropPending /\ shown' = shown
                 /\ d'.waitIdr = d.waitIdr
              \/ /\ dec = "request" /\ dec' = "wait" /\ lbq' = lbq /\ d' = d /\ shown' = shown
    <1>1. /\ Place /\ WorldOK /\ DecoderOK /\ d \in Depacketizers /\ requests \in SoundRequests /\ taken \in Nat
          /\ sent \in Seq(Encoded) /\ lbq \in LbqOf(Nat, Bound) /\ Opened(lbq) /\ held \in Nat /\ Len(sent) <= Len(sent)
        BY DEF Reception, Place, DepacketizerOK, RequestsOK, WorldOK, DecoderOK
    <1>2. UNCHANGED <<mode, queue, rx, calls, sent, host, high, raced, revived, taken, corruptions>>
        BY DEF Decoder, TakeFrame, Decoded, NeedIdr, FlushDecodeUnits, SetDropPending, RequestRefresh, world, asking
    <1>3. ASSUME d' \in Depacketizers, d'.strict = d.strict, d'.start = d.start, d'.next = d.next,
                 d'.decoding = d.decoding, requests' \in SoundRequests, lbq' \in LbqOf(Nat, Bound), Opened(lbq'),
                 dec' \in {"wait", "decode", "flush", "pending", "request"}, held' \in Nat,
                 shown' \subseteq Nat, refreshes' \in Nat
          PROVE  Reception'
        <2>1. Place'
            BY <1>1, <1>2, <1>3, OthersKeepPlace
        <2> QED
            BY <1>1, <1>2, <1>3, <2>1 DEF Reception, RequestsOK, WorldOK, DecoderOK
    <1>4. CASE TakeFrame
        <2>1. /\ dec = "wait" /\ LbqWaitAnswer(lbq) = "success" /\ held' = Head(lbq.items) /\ lbq' = LbqWait(lbq)
              /\ dec' = "decode" /\ UNCHANGED <<d, requests, shown, refreshes>>
            BY <1>4 DEF TakeFrame, asking
        <2>2. lbq.items # <<>> /\ lbq' \in LbqOf(Nat, Bound) /\ Opened(lbq') /\ lbq'.items = Tail(lbq.items)
            BY <1>1, <2>1, Bounds, QueuesHold
        <2>3. held' \in Nat
            <3>1. lbq.items \in Seq(Nat)
                BY <1>1 DEF LbqOf
            <3> QED
                BY <2>1, <2>2, <3>1
        <2>4. Reception'
            BY <1>1, <1>3, <2>1, <2>2, <2>3 DEF WorldOK
        <2> QED
            BY <1>2, <2>1, <2>2, <2>4
    <1>5. CASE Decoded
        <2> DEFINE b == d.idrDone \/ sent[held].type = "I"
        <2>1. /\ dec = "decode" /\ d' = [d EXCEPT !.idrDone = b] /\ Show(held) /\ dec' = "wait" /\ held' = 0
              /\ UNCHANGED <<lbq, requests, refreshes>>
            BY <1>5 DEF Decoded, asking, None
        <2>2. b \in BOOLEAN
            BY <1>1 DEF Depacketizers
        <2>3. shown' \subseteq Nat
            BY <1>1, <2>1 DEF Show, WorldOK
        <2> HIDE DEF b
        <2>4. /\ d' \in Depacketizers /\ d'.strict = d.strict /\ d'.start = d.start /\ d'.next = d.next
              /\ d'.decoding = d.decoding /\ d'.waitIdr = d.waitIdr /\ d'.waitRfi = d.waitRfi
              /\ d'.dropPending = d.dropPending
            BY <1>1, <2>1, <2>2 DEF Depacketizers
        <2>5. Reception'
            BY <1>1, <1>3, <2>1, <2>3, <2>4 DEF WorldOK
        <2> QED
            BY <1>2, <2>1, <2>4, <2>5 DEF MustWait
    <1>6. CASE NeedIdr
        <2>1. /\ dec = "decode" /\ d' = [d EXCEPT !.waitIdr = TRUE] /\ Show(held) /\ dec' = "flush" /\ held' = 0
              /\ UNCHANGED <<lbq, requests>> /\ refreshes' = refreshes + 1
            BY <1>6 DEF NeedIdr, asking, None
        <2>3. shown' \subseteq Nat
            BY <1>1, <2>1 DEF Show, WorldOK
        <2>4. /\ d' \in Depacketizers /\ d'.strict = d.strict /\ d'.start = d.start /\ d'.next = d.next
              /\ d'.decoding = d.decoding /\ d'.waitIdr /\ d'.waitRfi = d.waitRfi
              /\ d'.dropPending = d.dropPending
            BY <1>1, <2>1 DEF Depacketizers
        <2>5. Reception'
            BY <1>1, <1>3, <2>1, <2>3, <2>4 DEF WorldOK
        <2> QED
            BY <1>2, <2>1, <2>4, <2>5 DEF MustWait
    <1>7. CASE FlushDecodeUnits
        <2>1. /\ dec = "flush" /\ dec' = "pending" /\ lbq' = LbqFlush(lbq) /\ UNCHANGED <<d, held, requests, shown, refreshes>>
            BY <1>7 DEF FlushDecodeUnits, asking
        <2>2. lbq' \in LbqOf(Nat, Bound) /\ Opened(lbq') /\ lbq'.items = <<>>
            BY <1>1, <2>1, Bounds, QueuesHold
        <2>3. Reception'
            BY <1>1, <1>3, <2>1, <2>2 DEF WorldOK
        <2> QED
            BY <1>2, <2>1, <2>2, <2>3
    <1>8. CASE SetDropPending
        <2>1. /\ dec = "pending" /\ dec' = "request" /\ d' = [d EXCEPT !.dropPending = TRUE]
              /\ UNCHANGED <<lbq, held, requests, shown, refreshes>>
            BY <1>8 DEF SetDropPending, asking
        <2>2. /\ d' \in Depacketizers /\ d'.strict = d.strict /\ d'.start = d.start /\ d'.next = d.next
              /\ d'.decoding = d.decoding /\ d'.waitIdr = d.waitIdr /\ d'.waitRfi = d.waitRfi /\ d'.dropPending
            BY <1>1, <2>1 DEF Depacketizers
        <2>3. Reception'
            BY <1>1, <1>3, <2>1, <2>2 DEF WorldOK
        <2> QED
            BY <1>2, <2>1, <2>2, <2>3 DEF MustWait
    <1>9. CASE RequestRefresh
        <2>1. /\ dec = "request" /\ dec' = "wait" /\ requests' = RequestIdr(requests)
              /\ UNCHANGED <<d, lbq, held, shown, refreshes>>
            BY <1>9 DEF RequestRefresh
        <2>2. requests' \in SoundRequests /\ Froms(requests') = {}
            BY <1>1, <2>1, RequestIdrDrops
        <2>3. Reception'
            BY <1>1, <1>3, <2>1, <2>2 DEF WorldOK
        <2> QED
            BY <1>2, <2>1, <2>2, <2>3
    <1> QED
        BY <1>4, <1>5, <1>6, <1>7, <1>8, <1>9 DEF Decoder

(* The threads of the control stream, and the host.                        *)
LEMMA ControlReception ==
    ASSUME Reception, Control
    PROVE  /\ Reception' /\ UNCHANGED <<mode, queue, rx, calls, d, lbq, dec, held, sent, shown, raced>>
           /\ Froms(requests') \cup {taken', host'.rfi} \subseteq Froms(requests) \cup {taken, host.rfi, 0}
    <1>1. /\ Place /\ WorldOK /\ DecoderOK /\ d \in Depacketizers /\ requests \in SoundRequests /\ taken \in Nat
          /\ sent \in Seq(Encoded) /\ host \in [idr: BOOLEAN, rfi: Nat] /\ Len(sent) <= Len(sent)
        BY DEF Reception, Place, DepacketizerOK, RequestsOK, WorldOK, DecoderOK
    <1>2. UNCHANGED <<mode, queue, rx, calls, d, lbq, dec, held, sent, high, shown, raced, revived, refreshes, corruptions>>
        BY DEF Control, TakeRanges, SendRange, SendIdrRequest, world, decoding
    <1>3. Place'
        BY <1>1, <1>2, OthersKeepPlace
    <1>4. ASSUME requests' \in SoundRequests, taken' \in Nat, host' \in [idr: BOOLEAN, rfi: Nat]
          PROVE  Reception'
        BY <1>1, <1>2, <1>3, <1>4 DEF Reception, RequestsOK, WorldOK, DecoderOK
    <1>5. CASE TakeRanges
        <2>1. /\ requests.tuples.items # <<>> /\ taken' = Head(requests.tuples.items).from
              /\ requests' = [requests EXCEPT !.tuples = LbqFlush(@)] /\ host' = host
            BY <1>5 DEF TakeRanges, world
        <2>2. requests' = [requests EXCEPT !.tuples = LbqFlush(@), !.idr = requests.idr] /\ requests.idr \in BOOLEAN
            BY <1>1, <2>1 DEF SoundRequests, Requests
        <2>3. requests' \in SoundRequests /\ Froms(requests') = {}
            BY <1>1, <2>2, RequestsAreDropped
        <2>4. requests.tuples.items \in Seq(Ranges)
            BY <1>1 DEF SoundRequests, Requests, LbqOf
        <2>5. /\ Head(requests.tuples.items) = requests.tuples.items[1] /\ 1 \in DOMAIN requests.tuples.items
              /\ requests.tuples.items[1] \in Ranges
            BY <2>1, <2>4
        <2>6. taken' \in Nat /\ taken' \in Froms(requests)
            BY <2>1, <2>5 DEF Froms, Ranges
        <2>7. Reception'
            BY <1>1, <1>4, <2>1, <2>3, <2>6
        <2> QED
            BY <1>2, <2>1, <2>3, <2>6, <2>7
    <1>6. CASE SendRange
        <2>1. /\ host' = [host EXCEPT !.rfi = IF @ # 0 /\ @ < taken THEN @ ELSE taken] /\ taken' = 0
              /\ requests' = requests
            BY <1>6 DEF SendRange, None
        <2>2. host' \in [idr: BOOLEAN, rfi: Nat] /\ host'.rfi \in {host.rfi, taken}
            BY <1>1, <2>1
        <2>7. Reception'
            BY <1>1, <1>4, <2>1, <2>2
        <2> QED
            BY <1>2, <2>1, <2>2, <2>7
    <1>7. CASE SendIdrRequest
        <2>1. /\ requests' = [requests EXCEPT !.idr = FALSE, !.tuples = LbqFlush(@)]
              /\ host' = [host EXCEPT !.idr = TRUE] /\ taken' = taken
            BY <1>7 DEF SendIdrRequest
        <2>2. requests' = [requests EXCEPT !.tuples = LbqFlush(@), !.idr = FALSE]
            BY <1>1, <2>1 DEF SoundRequests, Requests
        <2>3. requests' \in SoundRequests /\ Froms(requests') = {}
            BY <1>1, <2>2, RequestsAreDropped
        <2>4. host' \in [idr: BOOLEAN, rfi: Nat] /\ host'.rfi = host.rfi
            BY <1>1, <2>1
        <2>7. Reception'
            BY <1>1, <1>4, <2>1, <2>3, <2>4
        <2> QED
            BY <1>2, <2>1, <2>3, <2>4, <2>7
    <1> QED
        BY <1>5, <1>6, <1>7 DEF Control

(* The host encodes one more frame.                                        *)
LEMMA EncodeReception ==
    ASSUME Reception, Encode
    PROVE  /\ Reception' /\ UNCHANGED <<mode, queue, rx, calls, d, lbq, dec, held, requests, taken, shown, raced>>
           /\ host'.rfi = 0
           /\ \E e \in Encoded :
                 /\ sent' = Append(sent, e)
                 /\ \/ e.type = "I"
                    \/ e.type = "P" /\ e.ref = Len(sent) /\ sent # <<>>
                    \/ /\ e.type = "R" /\ host.rfi > 1 /\ e.ref = host.rfi - 1
                       /\ \A g \in host.rfi .. Len(sent) : sent[g].type # "I"
    <1>1. /\ Place /\ WorldOK /\ DecoderOK /\ d \in Depacketizers /\ RequestsOK
          /\ sent \in Seq(Encoded) /\ host \in [idr: BOOLEAN, rfi: Nat]
        BY DEF Reception, Place, DepacketizerOK, WorldOK
    <1>2. /\ UNCHANGED <<mode, queue, rx, calls, d, lbq, dec, held, requests, taken, high, shown, raced, revived,
                         refreshes, corruptions>>
          /\ host' = [idr |-> FALSE, rfi |-> 0]
        BY DEF Encode, asking, decoding, None
    <1> DEFINE Fits(e) == \/ e.type = "I"
                          \/ e.type = "P" /\ e.ref = Len(sent) /\ sent # <<>>
                          \/ /\ e.type = "R" /\ host.rfi > 1 /\ e.ref = host.rfi - 1
                             /\ \A g \in host.rfi .. Len(sent) : sent[g].type # "I"
    <1>3. \E e \in Encoded : sent' = Append(sent, e) /\ Fits(e)
        <2>1. CASE sent = <<>> \/ host.idr
            <3>1. IFrame \in Encoded /\ Fits(IFrame)
                BY DEF IFrame, Encoded, None
            <3>2. sent' = Append(sent, IFrame)
                BY <2>1 DEF Encode
            <3> QED
                BY <3>1, <3>2
        <2>2. CASE sent # <<>> /\ ~host.idr /\ host.rfi # None
            <3>1. sent' = Append(sent, RFrame(host.rfi))
                BY <2>2 DEF Encode
            <3>2. RFrame(host.rfi) \in Encoded /\ Fits(RFrame(host.rfi))
                <4>1. CASE host.rfi > 1 /\ \A f \in host.rfi .. Len(sent) : sent[f].type # "I"
                    <5>1. RFrame(host.rfi) = [type |-> "R", ref |-> host.rfi - 1] /\ host.rfi - 1 \in Nat
                        BY <1>1, <4>1 DEF RFrame
                    <5> QED
                        BY <4>1, <5>1 DEF Encoded
                <4>2. CASE ~(host.rfi > 1 /\ \A f \in host.rfi .. Len(sent) : sent[f].type # "I")
                    <5>1. RFrame(host.rfi) = IFrame
                        BY <4>2 DEF RFrame
                    <5> QED
                        BY <5>1 DEF IFrame, Encoded, None
                <4> QED
                    BY <4>1, <4>2
            <3> QED
                BY <3>1, <3>2
        <2>3. CASE sent # <<>> /\ ~host.idr /\ host.rfi = None
            <3>1. sent' = Append(sent, PFrame)
                BY <2>3 DEF Encode
            <3>2. PFrame \in Encoded /\ Fits(PFrame)
                BY <1>1, <2>3 DEF PFrame, Encoded
            <3> QED
                BY <3>1, <3>2
        <2> QED
            BY <2>1, <2>2, <2>3
    <1>4. sent' \in Seq(Encoded) /\ Len(sent) <= Len(sent')
        <2>1. PICK e \in Encoded : sent' = Append(sent, e)
            BY <1>3
        <2> QED
            BY <1>1, <2>1
    <1>5. Place'
        BY <1>1, <1>2, <1>4, OthersKeepPlace
    <1>6. Reception'
        BY <1>1, <1>2, <1>4, <1>5 DEF Reception, RequestsOK, WorldOK, DecoderOK
    <1> QED
        BY <1>2, <1>3, <1>6

(* All of it is inductive.                                                 *)
LEMMA ReceptionStep == Reception /\ [Next]_vars => Reception'
    <1> SUFFICES ASSUME Reception, [Next]_vars PROVE Reception'
        OBVIOUS
    <1>1. CASE UNCHANGED vars
        BY <1>1 DEF vars, Reception, Place, RxOK, QueueOK, DepacketizerOK, BlockIsCounted, CallsGrow, FramesKnown,
                    Following, RequestsOK, DecoderOK, WorldOK, Current
    <1>2. CASE Encode
        BY <1>2, EncodeReception
    <1>3. CASE Decoder
        BY <1>3, DecoderReception
    <1>4. CASE Control
        BY <1>4, ControlReception
    <1>5. CASE Receiver
        <2>1. CASE \E p \in Arriving, bad \in 0 .. DataShards : Receive(p, bad)
            BY <2>1, ReceiveReception
        <2>2. CASE NotifyFrameLost \/ OldFrame \/ RejectFrame \/ DropUndecodable \/ DropPendingFrame
            BY <2>2, ReturnsReception
        <2>3. CASE StartFrame
            BY <2>3, StartReception
        <2>4. CASE CompleteFrame
            BY <2>4, CompleteReception
        <2>5. CASE KeepFrame
            BY <2>5, KeepReception
        <2>6. CASE OfferFrame
            BY <2>6, OfferReception
        <2>7. CASE Overflow
            BY <2>7, OverflowReception
        <2>8. CASE FlushQueue
            BY <2>8, FlushReception
        <2>9. CASE SubmitDirect
            BY <2>9, SubmitReception
        <2> QED
            BY <1>5, <2>1, <2>2, <2>3, <2>4, <2>5, <2>6, <2>7, <2>8, <2>9 DEF Receiver
    <1> QED
        BY <1>1, <1>2, <1>3, <1>4, <1>5 DEF Next, Idle

(* It is an invariant.                                                     *)
LEMMA ReceptionHolds == Spec => []Reception
    BY InitReception, ReceptionStep, PTL DEF Spec

(***************************************************************************)
(* What follows of that: types, counts, losses.                            *)
(***************************************************************************)
(* Counts that follow the packets are sound, as the code asserts.          *)
LEMMA CountsFollowSound ==
    ASSUME NEW q \in Queues, q.pending # {}, CountsFollow(q)
    PROVE  CountsAreSound(q)
    <1> DEFINE h == q.highest - q.low
               c == Cardinality(q.pending)
    <1>1. /\ Tallied(q) /\ (Complete(q) \/ q.lost \/ q.oos \/ q.missing <= ParityShards)
        BY DEF CountsFollow
    <1>2. q.low \in Nat /\ q.highest \in Nat /\ q.missing \in Int /\ q.pending \in SUBSET Indices
        BY DEF Queues
    <1>3. h \in Indices /\ h \in Nat /\ h < Shards
        BY <1>1, <1>2, Sizes DEF Tallied, Indices
    <1>4. q.pending \subseteq 0 .. (h + 1) - 1
        <2> SUFFICES ASSUME NEW i \in q.pending PROVE i \in 0 .. (h + 1) - 1
            OBVIOUS
        <2>1. i \in Nat /\ i <= h
            BY <1>1, <1>2, Sizes DEF Tallied, Indices
        <2> QED
            BY <1>3, <2>1
    <1> HIDE DEF h
    <1>5. IsFiniteSet(q.pending) /\ c \in Nat /\ c <= h + 1
        <2>1. h + 1 \in Nat /\ 0 <= h + 1
            BY <1>3
        <2>2. Cardinality(q.pending) \in Nat /\ Cardinality(q.pending) <= (h + 1) - 0 /\ IsFiniteSet(q.pending)
            BY <1>4, <2>1, Within
        <2> QED
            BY <1>3, <2>2
    <1>6. c # 0
        BY <1>5, FS_EmptySet
    <1> DEFINE came == q.data + q.parity
    <1>7. /\ q.missing = h + 1 - came /\ came \in Nat /\ came >= 1 /\ came <= c
          /\ Complete(q) => came >= DataShards
        <2>1. q.data \in Nat /\ q.parity \in Nat
            BY DEF Queues
        <2>2. came <= c /\ (Complete(q) => came >= DataShards)
            BY <1>1, EnoughCame
        <2>3. q.missing = h + 1 - came /\ came >= 1
            BY <1>1 DEF Tallied, h
        <2> QED
            BY <2>1, <2>2, <2>3
    <1>8. q.data <= DataShards /\ q.parity <= ParityShards
        <2> DEFINE few  == {j \in q.pending : j < DataShards}
                   many == {j \in q.pending : j >= DataShards}
        <2>1. /\ Cardinality(few) \in Nat /\ Cardinality(few) <= DataShards
              /\ Cardinality(many) \in Nat /\ Cardinality(many) <= ParityShards
            BY <1>2, Halves
        <2>2. q.data <= Cardinality(few) /\ q.parity = Cardinality(many)
            BY <1>1 DEF Tallied
        <2>3. q.data \in Nat /\ q.parity \in Nat
            BY DEF Queues
        <2> HIDE DEF few, many
        <2> QED
            BY <2>1, <2>2, <2>3, Sizes
    <1>10. q.missing >= 0 /\ q.missing < Shards
        <2> HIDE DEF c, came
        <2> QED
            BY <1>3, <1>5, <1>7, Sizes
    <1> HIDE DEF c, came
    <1>11. CASE Complete(q)
        <2>1. c >= DataShards
            BY <1>11 DEF Complete, c
        <2>2. q.missing <= ParityShards
            BY <1>3, <1>7, <1>11, Sizes
        <2> QED
            BY <1>8, <1>10, <1>11, <2>2 DEF CountsAreSound
    <1>12. CASE ~Complete(q)
        <2>1. q.lost \/ q.oos \/ DataShards - c <= q.low + Shards - 1 - q.highest
            <3>1. q.missing <= ParityShards => DataShards - c <= q.low + Shards - 1 - q.highest
                BY <1>2, <1>5, <1>7, Sizes DEF h
            <3> QED
                BY <1>1, <1>12, <3>1
        <2> QED
            BY <1>8, <1>10, <1>12, <2>1 DEF CountsAreSound, c
    <1> QED
        BY <1>11, <1>12

(* Types: every variable has the type the comments say.                    *)
THEOREM TypeCorrect == Spec => []TypeOK
    <1>1. Reception => TypeOK
        BY DEF Reception, Place, TypeOK
    <1> QED
        BY <1>1, ReceptionHolds, PTL

(* RtpVideoQueue.c, queuePacket and reconstructFrame: what it asserts of   *)
(* the counts of a block holds in whatever order, and with whatever gaps   *)
(* and repetitions, the packets arrive.                                    *)
THEOREM CountsAreRight == Spec => []BlockCountsAreSound
    <1>1. Reception => BlockCountsAreSound
        BY CountsFollowSound DEF Reception, Place, QueueOK, BlockIsCounted, BlockCountsAreSound
    <1> QED
        BY <1>1, ReceptionHolds, PTL

(* VideoDepacketizer.c, notifyFrameLost and dropFrameState: the frame that *)
(* is reported lost is none the decoder has, and nothing is dropped in the *)
(* middle of a frame.                                                      *)
THEOREM LostFramesAreNew == Spec => []LossesAreNew
    <1>1. Reception => LossesAreNew
        <2> SUFFICES ASSUME Reception PROVE LossesAreNew
            OBVIOUS
        <2>1. Following /\ Place
            BY DEF Reception, Place
        <2>2. rx = "lost" => d.start <= Current
            BY <2>1, CurrentFrame
        <2>3. rx = "lost" => d.start \in Nat /\ Current \in Nat
            BY <2>1, CurrentFrame DEF Place, DepacketizerOK, Depacketizers, Reception, WorldOK
        <2> QED
            BY <2>1, <2>2, <2>3 DEF Following, LossesAreNew
    <1> QED
        BY <1>1, ReceptionHolds, PTL

(***************************************************************************)
(* The frames on their way to the decoder.                                 *)
(***************************************************************************)
(* What the invariant says of the numbers of frames.                       *)
LEMMA Numbers ==
    ASSUME Reception
    PROVE  /\ sent \in Seq(Encoded) /\ Len(sent) \in Nat /\ DOMAIN sent = 1 .. Len(sent) /\ DOMAIN sent \subseteq Nat
           /\ d \in Depacketizers /\ d.start \in Nat /\ d.next \in Nat /\ d.start <= d.next /\ d.next <= Len(sent) + 1
           /\ lbq.items \in Seq(Nat) /\ held \in Nat /\ shown \subseteq Nat
           /\ \A f \in DOMAIN sent : sent[f].type \in {"I", "P", "R"} /\ sent[f].ref \in Nat
           /\ rx # "recv" => Current \in DOMAIN sent /\ Current \in Nat /\ d.start <= Current /\ d.next <= Current + 1
    <1>1. /\ sent \in Seq(Encoded) /\ Len(sent) \in Nat /\ DOMAIN sent = 1 .. Len(sent) /\ DOMAIN sent \subseteq Nat
          /\ d \in Depacketizers /\ lbq.items \in Seq(Nat) /\ held \in Nat /\ shown \subseteq Nat
        BY DEF Reception, Place, DepacketizerOK, WorldOK, DecoderOK, LbqOf
    <1>2. d.start \in Nat /\ d.next \in Nat
        BY <1>1 DEF Depacketizers
    <1>3. d.start <= d.next /\ d.next <= Len(sent) + 1
        BY DEF Reception, Place, Following
    <1>4. \A f \in DOMAIN sent : sent[f].type \in {"I", "P", "R"} /\ sent[f].ref \in Nat
        <2> SUFFICES ASSUME NEW f \in DOMAIN sent PROVE sent[f] \in Encoded
            BY DEF Encoded
        <2> QED
            BY <1>1
    <1>5. rx # "recv" => Current \in DOMAIN sent /\ d.start <= Current /\ d.next <= Current + 1
        BY CurrentFrame DEF Reception
    <1> QED
        BY <1>1, <1>2, <1>3, <1>4, <1>5

(* The decoder keeps its frames, or those in the queue are thrown away.    *)
LEMMA PipeStays ==
    ASSUME PipeInOrder, UNCHANGED <<mode, dec, held, shown>>, DOMAIN sent \subseteq DOMAIN sent',
           lbq'.items = lbq.items \/ lbq'.items = <<>>, d'.start = d.start,
           mode.direct => rx' \notin {"offer", "flush"}, ~mode.direct => rx' # "submit",
           rx' = "submit" => ~d'.dropPending, rx' = "flush" => d'.waitIdr
    PROVE  PipeInOrder' /\ Pipe' \subseteq Pipe /\ (lbq'.items = lbq.items => Pipe' = Pipe /\ Avail' = Avail)
    <1>1. Pipe' \subseteq Pipe /\ Avail' \subseteq Avail /\ (lbq'.items = lbq.items => Pipe' = Pipe /\ Avail' = Avail)
        <2>1. CASE lbq'.items = lbq.items
            BY <2>1 DEF Pipe, Avail
        <2>2. CASE lbq'.items = <<>>
            <3>1. DOMAIN lbq'.items = {}
                BY <2>2
            <3> QED
                BY <2>2, <3>1 DEF Pipe, Avail
        <2> QED
            BY <2>1, <2>2
    <1>2. /\ \A i, j \in DOMAIN lbq'.items : i < j => lbq'.items[i] < lbq'.items[j]
          /\ \A i \in DOMAIN lbq'.items : dec' = "decode" => held' < lbq'.items[i]
        <2>1. CASE lbq'.items = lbq.items
            BY <2>1 DEF PipeInOrder
        <2>2. CASE lbq'.items = <<>>
            <3>1. DOMAIN lbq'.items = {}
                BY <2>2
            <3> QED
                BY <3>1
        <2> QED
            BY <2>1, <2>2
    <1>3. Avail' \subseteq DOMAIN sent' /\ (\A a \in Avail' : a < d'.start) /\ (\A a \in shown', b \in Pipe' : a < b)
        BY <1>1 DEF PipeInOrder
    <1>4. mode.direct => lbq'.items = <<>>
        BY DEF PipeInOrder
    <1> QED
        BY <1>1, <1>2, <1>3, <1>4 DEF PipeInOrder

(* A call that is done is followed by the next one, or by the next packet. *)
LEMMA ReturnsTo ==
    ASSUME Reception, rx # "recv", Return, queue' = queue, sent' = sent
    PROVE  rx' \in {"recv", "lost", "frame"}
    <1>1. calls \in Seq(Calls) /\ calls # <<>> /\ CallsGrow
        BY CurrentFrame DEF Reception, Place, QueueOK
    <1> QED
        BY <1>1, Returned

(* The frame is put behind the others.                                     *)
LEMMA OfferPipe ==
    ASSUME Reception, PipeInOrder, OfferFrame
    PROVE  /\ PipeInOrder' /\ Pipe' = Pipe \cup {Current} /\ Avail' = Avail \cup {Current}
           /\ d'.start = Current + 1 /\ d'.next = Current + 1
    <1>1. /\ Return /\ rx = "offer"
          /\ UNCHANGED <<mode, queue, dec, held, requests, taken, sent, host, shown>>
          /\ lbq'.items = Append(lbq.items, Current) /\ d' = Submitted(d) /\ d.next = Current + 1
        BY OfferReception
    <1>2. /\ d \in Depacketizers /\ d.start \in Nat /\ lbq.items \in Seq(Nat) /\ held \in Nat /\ shown \subseteq Nat
          /\ Current \in DOMAIN sent /\ Current \in Nat /\ d.start <= Current
        BY <1>1, Numbers
    <1>3. d'.start = Current + 1 /\ d'.next = Current + 1
        BY <1>1, <1>2, SubmittedFields
    <1> DEFINE l == lbq.items
               m == Append(l, Current)
               c == Current
    <1>4. /\ \A i \in DOMAIN l : l[i] \in Pipe /\ l[i] \in Nat
          /\ dec = "decode" => held \in Pipe
        BY <1>2 DEF Pipe
    <1>5. \A a \in Avail : a < d.start /\ a \in DOMAIN sent /\ a \in Nat
        BY <1>2, Numbers DEF PipeInOrder
    <1>6. \A a \in Avail : a < c
        BY <1>2, <1>5
    <1>7. Pipe \subseteq Avail /\ shown \subseteq Avail
        BY DEF Avail
    <1>8. l \in Seq(Nat) /\ c \in Nat /\ lbq'.items = m
        BY <1>1, <1>2
    <1>9. /\ \A i, j \in DOMAIN l : i < j => l[i] < l[j]
          /\ \A i \in DOMAIN l : dec = "decode" => held < l[i]
        BY DEF PipeInOrder
    <1>10. Pipe = {l[i] : i \in DOMAIN l} \cup (IF dec = "decode" THEN {held} ELSE {})
        BY DEF Pipe
    <1>11. Pipe' = {m[i] : i \in DOMAIN m} \cup (IF dec = "decode" THEN {held} ELSE {})
        BY <1>1 DEF Pipe
    <1> HIDE DEF l, c
    <1>12. /\ \A i \in DOMAIN m : m[i] = c \/ (i \in DOMAIN l /\ m[i] = l[i])
           /\ \A i \in DOMAIN l : i \in DOMAIN m /\ m[i] = l[i] /\ i < Len(m)
           /\ Len(m) \in DOMAIN m /\ m[Len(m)] = c
           /\ \A i \in DOMAIN m : i \in DOMAIN l \/ i = Len(m)
           /\ DOMAIN m \subseteq Nat /\ Len(m) \in Nat /\ \A i \in DOMAIN m : i <= Len(m)
        <2>1. m = Append(l, c) /\ Len(m) = Len(l) + 1 /\ DOMAIN m = 1 .. Len(l) + 1 /\ Len(l) \in Nat /\ DOMAIN l = 1 .. Len(l)
            BY <1>8 DEF c
        <2>2. \A i \in 1 .. Len(l) : m[i] = l[i]
            BY <1>8, <2>1
        <2>3. m[Len(l) + 1] = c
            BY <1>8, <2>1
        <2> HIDE DEF m
        <2> QED
            BY <2>1, <2>2, <2>3
    <1> HIDE DEF m
    <1>13. Pipe' = Pipe \cup {c}
        BY <1>10, <1>11, <1>12
    <1>14. Avail' = Avail \cup {c}
        BY <1>1, <1>13 DEF Avail
    <1>15. \A i, j \in DOMAIN m : i < j => m[i] < m[j]
        <2> SUFFICES ASSUME NEW i \in DOMAIN m, NEW j \in DOMAIN m, i < j PROVE m[i] < m[j]
            OBVIOUS
        <2>2. i \in Nat /\ j \in Nat /\ Len(m) \in Nat /\ j <= Len(m)
            BY <1>12
        <2>1. i \in DOMAIN l
            BY <1>12, <2>2
        <2>3. CASE j \in DOMAIN l
            BY <1>9, <1>12, <2>1, <2>3
        <2>4. CASE j = Len(m)
            BY <1>4, <1>6, <1>7, <1>12, <2>1, <2>4
        <2> QED
            BY <1>12, <2>3, <2>4
    <1>16. \A i \in DOMAIN m : dec' = "decode" => held' < m[i]
        BY <1>1, <1>4, <1>6, <1>7, <1>9, <1>12
    <1>17. Avail' \subseteq DOMAIN sent' /\ \A a \in Avail' : a < d'.start
        BY <1>1, <1>2, <1>3, <1>5, <1>6, <1>8, <1>14 DEF c
    <1>18. \A a \in shown', b \in Pipe' : a < b
        BY <1>1, <1>6, <1>7, <1>13 DEF PipeInOrder
    <1>19. ~mode.direct
        BY <1>1 DEF PipeInOrder
    <1>20. rx' \in {"recv", "lost", "frame"}
        BY <1>1, ReturnsTo
    <1> QED
        BY <1>1, <1>3, <1>8, <1>13, <1>14, <1>15, <1>16, <1>17, <1>18, <1>19, <1>20 DEF PipeInOrder, c

(* The frame is decoded by the receive thread.                             *)
LEMMA SubmitPipe ==
    ASSUME Reception, PipeInOrder, SubmitDirect
    PROVE  /\ PipeInOrder' /\ Pipe = {} /\ Pipe' = {} /\ Current \in Avail' /\ dec = "wait" /\ dec' = "wait"
           /\ \A a \in Avail : a \in Avail' \/ sent[Current].type = "I"
           /\ d'.start = Current + 1 /\ d'.next = Current + 1
    <1>1. /\ Return /\ rx = "submit" /\ d.next = Current + 1 /\ Show(Current)
          /\ UNCHANGED <<mode, queue, lbq, dec, held, taken, sent, host, raced>>
          /\ d'.start = d.next /\ d'.next = d.next
        BY SubmitReception
    <1>2. /\ d \in Depacketizers /\ d.start \in Nat /\ lbq.items \in Seq(Nat) /\ held \in Nat /\ shown \subseteq Nat
          /\ Current \in DOMAIN sent /\ Current \in Nat /\ d.start <= Current
        BY <1>1, Numbers
    <1>3. mode.direct /\ dec = "wait" /\ lbq.items = <<>>
        BY <1>1 DEF PipeInOrder
    <1>4. DOMAIN lbq.items = {} /\ Pipe = {} /\ Pipe' = {}
        BY <1>1, <1>3 DEF Pipe
    <1>5. /\ shown' \subseteq shown \cup {Current} /\ Current \in shown'
          /\ \A a \in shown : a \in shown' \/ sent[Current].type = "I"
        BY <1>1 DEF Show
    <1>6. \A a \in shown : a < d.start /\ a \in DOMAIN sent /\ a \in Nat
        BY <1>2 DEF PipeInOrder, Avail
    <1>7. \A a \in shown' : a < d'.start /\ a \in DOMAIN sent
        <2> SUFFICES ASSUME NEW a \in shown' PROVE a < d'.start /\ a \in DOMAIN sent
            OBVIOUS
        <2>1. d'.start = Current + 1
            BY <1>1
        <2>2. CASE a = Current
            BY <1>2, <2>1, <2>2
        <2>3. CASE a \in shown
            <3>1. a < d.start /\ a \in DOMAIN sent /\ a \in Nat
                BY <1>6, <2>3
            <3> QED
                BY <1>2, <2>1, <3>1
        <2> QED
            BY <1>5, <2>2, <2>3
    <1>8. Avail = shown /\ Avail' = shown'
        BY <1>4 DEF Avail
    <1>20. rx' \in {"recv", "lost", "frame"}
        BY <1>1, ReturnsTo
    <1> QED
        BY <1>1, <1>3, <1>4, <1>5, <1>7, <1>8, <1>20 DEF PipeInOrder

(* The decoder takes the frames in order, and may throw them away.         *)
LEMMA DecoderPipe ==
    ASSUME Reception, PipeInOrder, Decoder
    PROVE  /\ PipeInOrder' /\ rx # "submit" /\ Pipe' \subseteq Pipe
           /\ \/ dec = "flush" /\ dec' = "pending" /\ shown' = shown /\ d' = d
              \/ /\ dec = "decode" /\ held \in Pipe /\ (dec' = "flush" => d'.waitIdr)
                 /\ dec' \in {"wait", "flush"} /\ d'.dropPending = d.dropPending
                 /\ \A a \in Avail : a \in Avail' \/ (a < held /\ sent[held].type = "I")
              \/ /\ dec \notin {"decode", "flush"} /\ Avail' = Avail /\ dec' \notin {"pending", "flush"}
                 /\ (dec = "pending" => d'.dropPending) /\ (d.dropPending => d'.dropPending)
    <1>1. /\ Reception' /\ UNCHANGED <<mode, queue, rx, calls, sent, raced>>
          /\ d'.start = d.start
          /\ d.waitIdr => d'.waitIdr
        BY DecoderReception
    <1>2. /\ d.start \in Nat /\ lbq.items \in Seq(Nat) /\ held \in Nat /\ shown \subseteq Nat /\ DOMAIN sent \subseteq Nat
        BY Numbers
    <1> DEFINE l == lbq.items
               m == lbq'.items
    <1>3. /\ \A i, j \in DOMAIN l : i < j => l[i] < l[j]
          /\ \A i \in DOMAIN l : dec = "decode" => held < l[i]
          /\ Avail \subseteq DOMAIN sent /\ (\A a \in Avail : a < d.start) /\ (\A a \in shown, b \in Pipe : a < b)
          /\ mode.direct => dec = "wait" /\ l = <<>> /\ rx \notin {"offer", "flush"}
          /\ ~mode.direct => rx # "submit"
          /\ rx = "flush" => d.waitIdr
        BY DEF PipeInOrder
    <1>4. ~mode.direct /\ rx # "submit"
        BY <1>3, DecoderReception
    <1>5. ASSUME Pipe' \subseteq Pipe, Avail' \subseteq Avail, \A a \in shown', b \in Pipe' : a < b,
                 \A i, j \in DOMAIN m : i < j => m[i] < m[j],
                 \A i \in DOMAIN m : dec' = "decode" => held' < m[i]
          PROVE  PipeInOrder'
        BY <1>1, <1>3, <1>4, <1>5 DEF PipeInOrder
    <1>6. Pipe = {l[i] : i \in DOMAIN l} \cup (IF dec = "decode" THEN {held} ELSE {})
        BY DEF Pipe
    <1>7. Pipe' = {m[i] : i \in DOMAIN m} \cup (IF dec' = "decode" THEN {held'} ELSE {})
        BY DEF Pipe
    <1>8. Avail = shown \cup Pipe /\ Avail' = shown' \cup Pipe'
        BY DEF Avail
    <1>9. CASE /\ dec = "wait" /\ dec' = "decode" /\ lbq.items # <<>> /\ d' = d
               /\ held' = Head(lbq.items) /\ lbq'.items = Tail(lbq.items) /\ shown' = shown
        <2>1. /\ l \in Seq(Nat) /\ l # <<>> /\ m = Tail(l) /\ held' = l[1] /\ 1 \in DOMAIN l
            BY <1>2, <1>9
        <2> HIDE DEF l, m
        <2>2. /\ m \in Seq(Nat) /\ Len(m) = Len(l) - 1 /\ DOMAIN l = 1 .. Len(l) /\ Len(l) \in Nat
              /\ DOMAIN m = 1 .. Len(m) /\ \A i \in DOMAIN m : m[i] = l[i + 1]
            BY <2>1
        <2>3. /\ \A i \in DOMAIN m : i \in Nat /\ i + 1 \in DOMAIN l /\ m[i] = l[i + 1] /\ 1 < i + 1
              /\ \A i \in DOMAIN l : i = 1 \/ (i - 1 \in DOMAIN m /\ m[i - 1] = l[i])
            <3>1. ASSUME NEW i \in DOMAIN m
                  PROVE  i \in Nat /\ i + 1 \in DOMAIN l /\ m[i] = l[i + 1] /\ 1 < i + 1
                BY <2>2
            <3>2. ASSUME NEW i \in DOMAIN l, i # 1
                  PROVE  i - 1 \in DOMAIN m /\ m[i - 1] = l[i]
                <4>1. i - 1 \in DOMAIN m /\ i = (i - 1) + 1
                    BY <2>2, <3>2
                <4> QED
                    BY <2>2, <4>1
            <3> QED
                BY <3>1, <3>2
        <2>4. Pipe' = Pipe
            <3>1. {l[i] : i \in DOMAIN l} = {m[i] : i \in DOMAIN m} \cup {l[1]}
                <4>1. \A i \in DOMAIN m : m[i] \in {l[k] : k \in DOMAIN l}
                    BY <2>3
                <4>2. \A i \in DOMAIN l : l[i] = l[1] \/ l[i] \in {m[k] : k \in DOMAIN m}
                    <5> SUFFICES ASSUME NEW i \in DOMAIN l, i # 1 PROVE l[i] \in {m[k] : k \in DOMAIN m}
                        OBVIOUS
                    <5>1. i - 1 \in DOMAIN m /\ m[i - 1] = l[i]
                        BY <2>3
                    <5> QED
                        BY <5>1
                <4>3. l[1] \in {l[k] : k \in DOMAIN l}
                    BY <2>1
                <4> QED
                    BY <4>1, <4>2, <4>3
            <3> QED
                BY <1>6, <1>7, <1>9, <2>1, <3>1
        <2>5. \A i, j \in DOMAIN m : i < j => m[i] < m[j]
            <3> SUFFICES ASSUME NEW i \in DOMAIN m, NEW j \in DOMAIN m, i < j PROVE m[i] < m[j]
                OBVIOUS
            <3>1. i + 1 < j + 1 /\ i + 1 \in DOMAIN l /\ j + 1 \in DOMAIN l
                BY <2>3
            <3> QED
                BY <1>3, <2>3, <3>1
        <2>6. \A i \in DOMAIN m : held' < m[i]
            BY <1>3, <2>1, <2>3
        <2> QED
            BY <1>3, <1>4, <1>5, <1>8, <1>9, <2>4, <2>5, <2>6
    <1>10. CASE /\ dec = "decode" /\ dec' \in {"wait", "flush"} /\ lbq' = lbq /\ Show(held)
                /\ d'.dropPending = d.dropPending /\ (dec' = "flush" => d'.waitIdr)
        <2>1. m = l /\ shown' = IF sent[held].type = "I" THEN {held} ELSE shown \cup {held}
            BY <1>10 DEF Show
        <2> HIDE DEF l, m
        <2>2. held \in Pipe /\ Pipe' \subseteq Pipe /\ \A a \in Pipe : a = held \/ a \in Pipe'
            BY <1>6, <1>7, <1>10, <2>1
        <2>3. Avail' \subseteq Avail
            BY <1>8, <2>1, <2>2
        <2>4. \A a \in shown', b \in Pipe' : a < b
            <3>1. \A b \in Pipe' : held < b
                BY <1>3, <1>7, <1>10, <2>1
            <3> QED
                BY <1>3, <2>1, <2>2, <3>1
        <2>5. \A a \in Avail : a \in Avail' \/ (a < held /\ sent[held].type = "I")
            BY <1>3, <1>8, <2>1, <2>2
        <2>6. PipeInOrder'
            BY <1>3, <1>5, <1>10, <2>1, <2>2, <2>3, <2>4
        <2> QED
            BY <1>4, <1>10, <2>2, <2>5, <2>6
    <1>11. CASE /\ dec = "flush" /\ dec' = "pending" /\ lbq'.items = <<>> /\ d' = d /\ shown' = shown
        <2>1. m = <<>> /\ DOMAIN m = {}
            BY <1>11
        <2> HIDE DEF l, m
        <2>2. Pipe' = {}
            BY <1>7, <1>11, <2>1
        <2>3. PipeInOrder'
            BY <1>5, <1>8, <1>11, <2>1, <2>2
        <2> QED
            BY <1>4, <1>11, <2>2, <2>3
    <1>12. CASE /\ dec \in {"pending", "request"} /\ dec' \in {"request", "wait"} /\ lbq' = lbq /\ shown' = shown
                /\ (dec = "pending" => d'.dropPending) /\ (d.dropPending => d'.dropPending)
        <2>1. m = l
            BY <1>12
        <2> HIDE DEF l, m
        <2>2. Pipe' = Pipe /\ Avail' = Avail
            BY <1>6, <1>7, <1>8, <1>12, <2>1
        <2>3. PipeInOrder'
            BY <1>3, <1>5, <1>12, <2>1, <2>2
        <2> QED
            BY <1>4, <1>12, <2>2, <2>3
    <1> QED
        BY <1>9, <1>10, <1>11, <1>12, DecoderReception

(***************************************************************************)
(* References, and the ranges that are reported lost.                      *)
(***************************************************************************)
(* No frame refers to one before an IDR frame.                             *)
LEMMA NoIdrBetween ==
    ASSUME Reception, FramesRefer, NEW f \in DOMAIN sent, sent[f].type # "I",
           NEW g \in DOMAIN sent, sent[g].type = "I"
    PROVE  ~(sent[f].ref < g /\ g <= f)
    <1> SUFFICES ASSUME sent[f].ref < g, g <= f PROVE FALSE
        OBVIOUS
    <1>1. sent[f].ref \in Nat /\ f \in Nat /\ g \in Nat
        BY Numbers
    <1>2. g # f
        OBVIOUS
    <1>3. g \in sent[f].ref + 1 .. f - 1
        BY <1>1, <1>2
    <1> QED
        BY <1>3 DEF FramesRefer
(* A frame refers to an earlier one.                                       *)
LEMMA RefIsEarlier ==
    ASSUME Reception, FramesRefer, NEW f \in DOMAIN sent, sent[f].type # "I"
    PROVE  /\ sent[f].ref \in Nat /\ f \in Nat /\ sent[f].ref < f
           /\ sent[f].type = "P" => sent[f].ref = f - 1
    <1>1. f \in Nat /\ sent[f].ref \in 1 .. f - 1 /\ (sent[f].type = "P" => sent[f].ref = f - 1)
        BY Numbers DEF FramesRefer
    <1> QED
        BY <1>1

\* The ranges that wait are those that did, and those from the first frame that
\* the decoder does not have.
Reporting == Froms(requests') \cup {taken', host'.rfi} \subseteq Reported \cup {d.start, 0}

(* They are numbers of frames.                                             *)
LEMMA ReportedNumbers ==
    ASSUME Reception
    PROVE  \A r \in Reported : r \in Nat
    <1>1. \A i \in DOMAIN requests.tuples.items : requests.tuples.items[i].from \in Nat
        <2>1. requests.tuples.items \in Seq(Ranges)
            BY DEF Reception, RequestsOK, SoundRequests, Requests, LbqOf
        <2> SUFFICES ASSUME NEW i \in DOMAIN requests.tuples.items PROVE requests.tuples.items[i] \in Ranges
            BY DEF Ranges
        <2> QED
            BY <2>1
    <1>2. taken \in Nat /\ host.rfi \in Nat
        BY DEF Reception, RequestsOK, WorldOK
    <1> QED
        BY <1>1, <1>2 DEF Reported, Froms

(* They start at or before the first frame the decoder does not have.      *)
LEMMA KnownStays ==
    ASSUME Reception, Reception', RangesKnown, sent' = sent, d.start <= d'.start, Reporting
    PROVE  RangesKnown'
    <1>1. d.start \in Nat /\ d'.start \in Nat
        BY Numbers DEF Reception, Place, DepacketizerOK, Depacketizers
    <1>2. \A r \in Reported : r \in Nat
        BY ReportedNumbers
    <1>3. ASSUME NEW r \in Reported'
          PROVE  r <= d'.start
        <2>1. r \in Reported \cup {d.start, 0}
            BY <1>3 DEF Reported, Reporting
        <2> QED
            BY <1>1, <1>2, <2>1 DEF RangesKnown
    <1>4. ASSUME NEW f \in DOMAIN sent, sent[f].type = "R"
          PROVE  sent[f].ref < d'.start
        <2>1. sent[f].ref < d.start /\ sent[f].ref \in Nat
            BY <1>4, Numbers DEF RangesKnown
        <2> QED
            BY <1>1, <2>1
    <1> QED
        BY <1>3, <1>4 DEF RangesKnown

(* Whether frames can be referred to depends on the frames the decoder has *)
(* and on the wait for an IDR frame: one that comes makes up for both.     *)
LEMMA RangesMove ==
    ASSUME Reception, Reception', FramesRefer, PipeInOrder, RangesKnown, RangesFit, sent' = sent, Reporting,
           d.start <= d'.start, d.next <= d'.next, d'.start = d.start \/ d'.start - 1 \in Avail',
           \A a \in Avail : \/ a \in Avail' \/ d'.waitIdr
                            \/ \E g \in DOMAIN sent : sent[g].type = "I" /\ a < g /\ g <= d'.next,
           d.waitIdr => \/ d'.waitIdr
                        \/ \E g \in DOMAIN sent : sent[g].type = "I" /\ d.start <= g /\ g <= d'.next
    PROVE  RangesFit'
    <1>1. /\ d.start \in Nat /\ d.next \in Nat /\ d'.start \in Nat /\ d'.next \in Nat /\ d.start <= d.next
          /\ DOMAIN sent \subseteq Nat /\ \A f \in DOMAIN sent : sent[f].type \in {"I", "P", "R"} /\ sent[f].ref \in Nat
        BY Numbers DEF Reception, Place, DepacketizerOK, Depacketizers
    <1>2. \A a \in Avail : a < d.start /\ a \in Nat
        BY <1>1 DEF PipeInOrder
    <1>3. ASSUME NEW r \in Reported' \cup {d'.start}, r > 1
          PROVE  Intact(r - 1)'
        <2>1. CASE r - 1 \in Avail'
            BY <2>1 DEF Intact
        <2>2. CASE r - 1 \notin Avail'
            <3>1. r \in Reported \cup {d.start} \/ r = 0
                BY <1>3, <2>2 DEF Reported, Reporting
            <3>2. r \in Reported \cup {d.start}
                BY <1>3, <3>1
            <3> DEFINE a == r - 1
            <3>3. Intact(a) /\ a < d.start /\ a \in Int
                <4>1. r <= d.start /\ r \in Nat
                    <5>1. r \in Reported => r \in Nat
                        BY ReportedNumbers
                    <5> QED
                        BY <1>1, <3>2, <5>1 DEF RangesKnown
                <4>2. Intact(r - 1)
                    BY <1>3, <3>2 DEF RangesFit
                <4> QED
                    BY <1>1, <4>1, <4>2
            <3> HIDE DEF a
            <3>4. d'.waitIdr \/ \E g \in DOMAIN sent : a < g /\ sent[g].type = "I"
                <4>1. CASE a \in Avail
                    <5>1. a \notin Avail'
                        BY <2>2 DEF a
                    <5> QED
                        BY <4>1, <5>1
                <4>2. CASE d.waitIdr
                    <5>1. \A g \in DOMAIN sent : d.start <= g => a < g
                        BY <1>1, <3>3
                    <5> QED
                        BY <4>2, <5>1
                <4> QED
                    BY <3>3, <4>1, <4>2 DEF Intact
            <3> QED
                BY <3>4 DEF Intact, a
        <2> QED
            BY <2>1, <2>2
    <1>4. ASSUME NEW f \in DOMAIN sent, sent[f].type = "R", d'.next <= f
          PROVE  sent[f].ref \in Avail' \/ d'.waitIdr
        <2>1. f \in Nat /\ d.next <= f /\ sent[f].ref \in Nat /\ sent[f].ref < d.start
            BY <1>1, <1>4 DEF RangesKnown
        <2>2. sent[f].ref \in Avail \/ d.waitIdr
            BY <1>4, <2>1 DEF RangesFit
        <2>3. ASSUME NEW g \in DOMAIN sent, sent[g].type = "I", g <= d'.next
              PROVE  ~(sent[f].ref < g)
            <3>1. g <= f
                BY <1>1, <1>4, <2>3
            <3> QED
                BY <1>4, <2>3, <3>1, NoIdrBetween
        <2>4. \A g \in DOMAIN sent : d.start <= g => sent[f].ref < g
            BY <1>1, <2>1
        <2> QED
            BY <2>2, <2>3, <2>4
    <1> QED
        BY <1>3, <1>4 DEF RangesFit

(* A step of the receive thread that leaves the decoder's frames alone.    *)
LEMMA StepKeeps ==
    ASSUME IInv, Reception', UNCHANGED <<mode, lbq, dec, held, taken, sent, host, shown, raced>>,
           Froms(requests') \subseteq Froms(requests) \cup {d.start}, d'.start = d.start, d.next <= d'.next,
           mode.direct => rx' \notin {"offer", "flush"}, ~mode.direct => rx' # "submit",
           rx' = "submit" => ~d'.dropPending, rx' = "flush" => d'.waitIdr,
           d.waitIdr => \/ d'.waitIdr
                        \/ \E g \in DOMAIN sent : sent[g].type = "I" /\ d.start <= g /\ g <= d'.next
    PROVE  /\ FramesRefer' /\ PipeInOrder' /\ RangesKnown' /\ Pipe' = Pipe /\ Avail' = Avail
           /\ ~raced => RangesFit' /\ \A f \in Pipe' : Refers(f)'
    <1>1. Reception /\ FramesRefer /\ PipeInOrder /\ RangesKnown /\ (~raced => Good)
        BY DEF IInv
    <1>2. FramesRefer'
        BY <1>1 DEF FramesRefer
    <1>3. PipeInOrder' /\ Pipe' = Pipe /\ Avail' = Avail
        BY <1>1, PipeStays
    <1>4. Reporting
        BY DEF Reporting, Reported
    <1>5. d.start <= d'.start
        BY <1>1, Numbers
    <1>6. RangesKnown'
        BY <1>1, <1>4, <1>5, KnownStays
    <1>7. ASSUME ~raced
          PROVE  RangesFit' /\ \A f \in Pipe' : Refers(f)'
        <2>1. RangesFit /\ References
            BY <1>1, <1>7 DEF Good
        <2>2. RangesFit'
            BY <1>1, <1>3, <1>4, <1>5, <2>1, RangesMove
        <2>3. \A f \in Pipe' : Refers(f)'
            BY <1>3, <2>1 DEF References, Refers
        <2> QED
            BY <2>2, <2>3
    <1> QED
        BY <1>2, <1>3, <1>6, <1>7

(* A packet that arrives.                                                  *)
LEMMA ReceiveSafe ==
    ASSUME IInv, NEW p \in Arriving, NEW bad \in 0 .. DataShards, Receive(p, bad)
    PROVE  IInv'
    <1>1. Reception /\ (~raced => Good)
        BY DEF IInv
    <1>2. /\ Reception' /\ rx = "recv" /\ rx' \in {"recv", "lost", "frame"}
          /\ UNCHANGED <<mode, d, lbq, dec, held, requests, taken, sent, host, shown, raced>>
        BY <1>1, ReceiveReception
    <1>3. d.next <= d'.next
        BY <1>1, <1>2, Numbers
    <1>4. /\ FramesRefer' /\ PipeInOrder' /\ RangesKnown' /\ Pipe' = Pipe /\ Avail' = Avail
          /\ ~raced => RangesFit' /\ \A f \in Pipe' : Refers(f)'
        BY <1>2, <1>3, StepKeeps
    <1>5. ASSUME ~raced
          PROVE  References' /\ FlushIsSafe'
        <2>1. References /\ FlushIsSafe
            BY <1>1, <1>5 DEF Good
        <2>2. References'
            BY <1>2, <1>4, <1>5, <2>1 DEF References, AtFrame, MustWait
        <2>3. FlushIsSafe'
            BY <1>2, <2>1 DEF FlushIsSafe
        <2> QED
            BY <2>2, <2>3
    <1> QED
        BY <1>2, <1>4, <1>5 DEF IInv, Good

(* A call that ends with no frame.                                         *)
LEMMA ReturnsSafe ==
    ASSUME IInv, NotifyFrameLost \/ OldFrame \/ RejectFrame \/ DropUndecodable \/ DropPendingFrame
    PROVE  IInv'
    <1>1. Reception /\ (~raced => Good)
        BY DEF IInv
    <1>2. /\ Reception'
          /\ UNCHANGED <<mode, queue, lbq, dec, held, taken, sent, host, shown, raced>>
          /\ rx # "recv" /\ Return
          /\ \/ d' = d /\ requests' = requests /\ rx = "frame" /\ Current < d.next
             \/ /\ Dropped(d', d) /\ Froms(requests') \subseteq Froms(requests) \cup {d.start}
                /\ d'.next \in {d.next, Current + 1} /\ (rx # "lost" => d'.next = Current + 1)
                /\ ~d'.waitIdr => d'.next = Current + 1
        BY <1>1, ReturnsReception
    <1>3. rx' \in {"recv", "lost", "frame"}
        BY <1>1, <1>2, ReturnsTo
    <1>4. Current \in Nat /\ d.next \in Nat /\ d.next <= Current + 1
        BY <1>1, <1>2, Numbers
    <1>5. /\ d.next <= d'.next /\ d'.start = d.start /\ (d.waitIdr => d'.waitIdr)
          /\ Froms(requests') \subseteq Froms(requests) \cup {d.start}
        BY <1>2, <1>4 DEF Dropped, SamePlace
    <1>6. /\ FramesRefer' /\ PipeInOrder' /\ RangesKnown' /\ Pipe' = Pipe /\ Avail' = Avail
          /\ ~raced => RangesFit' /\ \A f \in Pipe' : Refers(f)'
        BY <1>2, <1>3, <1>5, StepKeeps
    <1>7. ASSUME ~raced
          PROVE  References' /\ FlushIsSafe'
        <2>1. References /\ FlushIsSafe
            BY <1>1, <1>7 DEF Good
        <2>2. MustWait(d') \/ (d'.next = d'.start /\ d'.start - 1 \in Avail')
            <3>1. CASE d' = d /\ requests' = requests /\ rx = "frame" /\ Current < d.next
                BY <1>6, <2>1, <3>1 DEF References, AtFrame
            <3>2. CASE Dropped(d', d)
                BY <3>2 DEF Dropped
            <3> QED
                BY <1>2, <3>1, <3>2
        <2>3. References'
            BY <1>3, <1>6, <1>7, <2>2 DEF References, AtFrame
        <2>4. FlushIsSafe'
            <3> SUFFICES ASSUME dec' = "flush", ~d'.waitIdr
                         PROVE  \E g \in DOMAIN sent : sent[g].type = "I" /\ d.start <= g /\ g < d'.next
                BY <1>2, <1>5 DEF FlushIsSafe
            <3>1. PICK g \in DOMAIN sent :
                      sent[g].type = "I" /\ d.start <= g /\ (g < d.next \/ (rx = "last" /\ g = Current))
                BY <1>2, <1>5, <2>1 DEF FlushIsSafe
            <3>2. g \in Nat /\ d'.next \in Nat
                BY <1>1, <1>2, <1>4, Numbers
            <3>3. g < d'.next
                BY <1>2, <1>4, <1>5, <3>1, <3>2
            <3> QED
                BY <3>1, <3>3
        <2> QED
            BY <2>3, <2>4
    <1> QED
        BY <1>2, <1>6, <1>7 DEF IInv, Good

(* A frame begins: an IDR frame ends the wait for one.                     *)
LEMMA StartSafe ==
    ASSUME IInv, StartFrame
    PROVE  IInv'
    <1>1. Reception /\ FramesRefer /\ (~raced => Good)
        BY DEF IInv
    <1>2. /\ Reception' /\ ~Old(d, Current)
          /\ d' = FirstPacket(d, Current, sent[Current].type)
          /\ UNCHANGED <<mode, queue, calls, lbq, dec, held, taken, sent, host, shown, raced>>
          /\ rx = "frame" /\ rx' = "last" /\ Froms(requests') \subseteq Froms(requests)
        BY <1>1, StartReception
    <1>3. /\ d \in Depacketizers /\ Current \in DOMAIN sent /\ Current \in Nat /\ d.start \in Nat /\ d.next \in Nat
          /\ d.start <= Current /\ sent[Current].type \in {"I", "P", "R"} /\ d.next <= Current
        BY <1>1, <1>2, Numbers DEF Old
    <1>4. /\ SamePlace(d', d) /\ d'.next = Current
          /\ sent[Current].type = "P" => (MustWait(d) \/ d.next < Current => MustWait(d'))
          /\ sent[Current].type # "I" => (d.waitIdr => d'.waitIdr)
        BY <1>2, <1>3, FirstPacketFields
    <1>5. /\ d.next <= d'.next /\ d'.start = d.start /\ Froms(requests') \subseteq Froms(requests) \cup {d.start}
          /\ d.waitIdr => \/ d'.waitIdr
                          \/ \E g \in DOMAIN sent : sent[g].type = "I" /\ d.start <= g /\ g <= d'.next
        BY <1>2, <1>3, <1>4 DEF SamePlace
    <1>6. /\ FramesRefer' /\ PipeInOrder' /\ RangesKnown' /\ Pipe' = Pipe /\ Avail' = Avail
          /\ ~raced => RangesFit' /\ \A f \in Pipe' : Refers(f)'
        BY <1>2, <1>5, StepKeeps
    <1>7. Current' = Current
        BY <1>2 DEF Current
    <1>8. ASSUME ~raced
          PROVE  References' /\ FlushIsSafe'
        <2>1. References /\ FlushIsSafe
            BY <1>1, <1>8 DEF Good
        <2>2. ASSUME sent[Current].type = "P", ~MustWait(d')
              PROVE  sent[Current].ref \in Avail
            <3>1. ~MustWait(d) /\ ~(d.next < Current)
                BY <1>4, <2>2
            <3>2. d.next = d.start /\ d.start - 1 \in Avail
                BY <1>2, <2>1, <3>1 DEF References, AtFrame
            <3>3. d.start = Current
                BY <1>3, <3>1, <3>2
            <3>4. sent[Current].ref = Current - 1
                BY <1>1, <1>3, <2>2, RefIsEarlier
            <3> QED
                BY <3>2, <3>3, <3>4
        <2>3. References'
            BY <1>2, <1>6, <1>7, <1>8, <2>2 DEF References, AtFrame
        <2>4. FlushIsSafe'
            <3> SUFFICES ASSUME dec' = "flush", ~d'.waitIdr
                         PROVE  \E g \in DOMAIN sent :
                                   sent[g].type = "I" /\ d.start <= g /\ (g < d'.next \/ g = Current)
                BY <1>2, <1>5, <1>7 DEF FlushIsSafe
            <3>1. CASE sent[Current].type = "I"
                BY <1>3, <3>1
            <3>2. CASE sent[Current].type # "I"
                <4>1. PICK g \in DOMAIN sent : sent[g].type = "I" /\ d.start <= g /\ g < d.next
                    BY <1>2, <1>4, <2>1, <3>2 DEF FlushIsSafe
                <4>2. g \in Nat
                    BY <1>1, Numbers
                <4> QED
                    BY <1>3, <1>4, <4>1, <4>2
            <3> QED
                BY <3>1, <3>2
        <2> QED
            BY <2>3, <2>4
    <1> QED
        BY <1>2, <1>6, <1>8 DEF IInv, Good

(* A frame is whole, and not one of those that cannot be decoded.          *)
LEMMA CompleteSafe ==
    ASSUME IInv, CompleteFrame
    PROVE  IInv'
    <1>1. Reception /\ FramesRefer /\ (~raced => Good)
        BY DEF IInv
    <1>2. /\ Reception' /\ ~MustWait(d) /\ d' = EndFrame(d, Current)
          /\ UNCHANGED <<mode, queue, calls, lbq, dec, held, requests, taken, sent, host, shown, raced>>
          /\ rx = "last" /\ rx' = "pending"
        BY <1>1, CompleteReception
    <1>3. /\ d \in Depacketizers /\ Current \in DOMAIN sent /\ Current \in Nat /\ d.start \in Nat /\ d.next \in Nat
          /\ sent[Current].type \in {"I", "P", "R"}
        BY <1>1, <1>2, Numbers
    <1>9. d.next = Current
        BY <1>1, <1>2 DEF Reception, Place, Following
    <1>4. /\ d'.next = Current + 1 /\ d'.start = d.start /\ d'.waitIdr = d.waitIdr
        BY <1>2, <1>3, EndFrameFields
    <1>5. d.next <= d'.next
        BY <1>3, <1>4, <1>9
    <1>6. /\ FramesRefer' /\ PipeInOrder' /\ RangesKnown' /\ Pipe' = Pipe /\ Avail' = Avail
          /\ ~raced => RangesFit' /\ \A f \in Pipe' : Refers(f)'
        BY <1>2, <1>4, <1>5, StepKeeps
    <1>7. Current' = Current
        BY <1>2 DEF Current
    <1>8. ASSUME ~raced
          PROVE  References' /\ FlushIsSafe'
        <2>1. References /\ FlushIsSafe /\ RangesFit
            BY <1>1, <1>8 DEF Good
        <2>2. Refers(Current)
            <3>1. CASE sent[Current].type = "I"
                BY <3>1 DEF Refers
            <3>2. CASE sent[Current].type = "P"
                BY <1>2, <2>1, <3>2 DEF References, Refers
            <3>3. CASE sent[Current].type = "R"
                <4>1. d.next <= Current
                    BY <1>3, <1>9
                <4>2. ~d.waitIdr
                    BY <1>2 DEF MustWait
                <4> QED
                    BY <1>3, <2>1, <3>3, <4>1, <4>2 DEF RangesFit, Refers
            <3> QED
                BY <1>3, <3>1, <3>2, <3>3
        <2>5. Refers(Current)'
            BY <1>2, <1>6, <1>7, <2>2 DEF Refers
        <2>3. References'
            BY <1>2, <1>6, <1>7, <1>8, <2>5 DEF References, AtFrame
        <2>4. FlushIsSafe'
            <3> SUFFICES ASSUME dec' = "flush", ~d'.waitIdr
                         PROVE  \E g \in DOMAIN sent : sent[g].type = "I" /\ d.start <= g /\ g < d'.next
                BY <1>2, <1>4 DEF FlushIsSafe
            <3>1. PICK g \in DOMAIN sent : sent[g].type = "I" /\ d.start <= g /\ (g < d.next \/ g = Current)
                BY <1>2, <1>4, <2>1 DEF FlushIsSafe
            <3>2. g \in Nat
                BY <1>1, Numbers
            <3> QED
                BY <1>3, <1>4, <1>9, <3>1, <3>2
        <2> QED
            BY <2>3, <2>4
    <1> QED
        BY <1>2, <1>6, <1>8 DEF IInv, Good

(* The frame is kept: it can be decoded, or a refresh is on its way.       *)
LEMMA KeepSafe ==
    ASSUME IInv, KeepFrame
    PROVE  IInv'
    <1>1. Reception /\ FramesRefer /\ (~raced => Good)
        BY DEF IInv
    <1>2. /\ Reception' /\ (d.dropPending => sent[Current].type = "I")
          /\ UNCHANGED <<mode, queue, calls, lbq, dec, held, requests, taken, sent, host, shown, raced>>
          /\ d' = [d EXCEPT !.dropPending = FALSE]
          /\ rx = "pending" /\ rx' = IF mode.direct THEN "submit" ELSE "offer"
        BY <1>1, KeepReception
    <1>3. /\ d \in Depacketizers /\ Current \in DOMAIN sent /\ Current \in Nat /\ d.next \in Nat
        BY <1>1, <1>2, Numbers
    <1>4. /\ d'.next = d.next /\ d'.start = d.start /\ d'.waitIdr = d.waitIdr /\ ~d'.dropPending
        BY <1>2, <1>3 DEF Depacketizers
    <1>5. d.next <= d'.next
        BY <1>3, <1>4
    <1>6. /\ FramesRefer' /\ PipeInOrder' /\ RangesKnown' /\ Pipe' = Pipe /\ Avail' = Avail
          /\ ~raced => RangesFit' /\ \A f \in Pipe' : Refers(f)'
        BY <1>2, <1>4, <1>5, StepKeeps
    <1>7. Current' = Current
        BY <1>2 DEF Current
    <1>8. ASSUME ~raced
          PROVE  References' /\ FlushIsSafe'
        <2>1. References /\ FlushIsSafe
            BY <1>1, <1>8 DEF Good
        <2>2. Refers(Current) \/ dec = "pending"
            BY <1>2, <2>1 DEF References, Refers
        <2>5. Refers(Current)' \/ dec' = "pending"
            BY <1>2, <1>6, <1>7, <2>2 DEF Refers
        <2>3. References'
            BY <1>2, <1>6, <1>7, <1>8, <2>5 DEF References, AtFrame
        <2>4. FlushIsSafe'
            BY <1>2, <1>4, <2>1 DEF FlushIsSafe
        <2> QED
            BY <2>3, <2>4
    <1> QED
        BY <1>2, <1>6, <1>8 DEF IInv, Good

(* The queue is full, and is emptied.                                      *)
LEMMA OverflowSafe ==
    ASSUME IInv, Overflow
    PROVE  IInv'
    <1>1. Reception /\ PipeInOrder /\ (~raced => Good)
        BY DEF IInv
    <1>2. /\ Reception' /\ rx = "offer" /\ rx' = "flush" /\ Dropped(d', d) /\ d'.waitIdr /\ d'.next = d.next
          /\ UNCHANGED <<mode, queue, calls, lbq, dec, held, taken, sent, host, shown, raced>>
          /\ Froms(requests') \subseteq Froms(requests)
        BY <1>1, OverflowReception
    <1>3. ~mode.direct
        BY <1>1, <1>2 DEF PipeInOrder
    <1>4. d'.start = d.start /\ d.next <= d'.next /\ Froms(requests') \subseteq Froms(requests) \cup {d.start}
        BY <1>1, <1>2, Numbers DEF Dropped, SamePlace
    <1>6. /\ FramesRefer' /\ PipeInOrder' /\ RangesKnown' /\ Pipe' = Pipe /\ Avail' = Avail
          /\ ~raced => RangesFit' /\ \A f \in Pipe' : Refers(f)'
        BY <1>2, <1>3, <1>4, StepKeeps
    <1>7. ~raced => References'
        BY <1>2, <1>6 DEF References, AtFrame, Dropped
    <1>8. FlushIsSafe'
        BY <1>2 DEF FlushIsSafe
    <1> QED
        BY <1>2, <1>6, <1>7, <1>8 DEF IInv, Good

(* The full queue is emptied: the decoder waits for an IDR frame.          *)
LEMMA FlushSafe ==
    ASSUME IInv, FlushQueue
    PROVE  IInv'
    <1>1. Reception /\ FramesRefer /\ PipeInOrder /\ RangesKnown /\ (~raced => Good)
        BY DEF IInv
    <1>2. /\ Reception' /\ Return /\ rx = "flush" /\ lbq'.items = <<>> /\ Froms(requests') = {}
          /\ UNCHANGED <<mode, queue, d, dec, held, taken, sent, host, shown, raced>>
        BY <1>1, FlushReception
    <1>3. rx' \in {"recv", "lost", "frame"}
        BY <1>1, <1>2, ReturnsTo
    <1>4. d.waitIdr
        BY <1>1, <1>2 DEF PipeInOrder
    <1>5. PipeInOrder' /\ Pipe' \subseteq Pipe
        BY <1>1, <1>2, <1>3, PipeStays
    <1>6. Reporting
        BY <1>2 DEF Reporting, Reported
    <1>7. d.start <= d'.start /\ d.next <= d'.next
        BY <1>1, <1>2, Numbers
    <1>8. RangesKnown' /\ FramesRefer'
        BY <1>1, <1>2, <1>6, <1>7, KnownStays DEF FramesRefer
    <1>9. ASSUME ~raced
          PROVE  Good'
        <2>1. References /\ FlushIsSafe /\ RangesFit
            BY <1>1, <1>9 DEF Good
        <2>2. RangesFit'
            BY <1>1, <1>2, <1>4, <1>6, <1>7, <2>1, RangesMove
        <2>3. FlushIsSafe'
            BY <1>2, <1>4 DEF FlushIsSafe
        <2>4. ASSUME NEW f \in Pipe'
              PROVE  Refers(f)'
            <3>1. f = held /\ dec = "decode"
                <4>1. DOMAIN lbq'.items = {}
                    BY <1>2
                <4> QED
                    BY <1>2, <4>1 DEF Pipe
            <3>2. f \in Pipe /\ f \in DOMAIN sent
                BY <1>1, <1>5 DEF PipeInOrder, Avail
            <3>3. CASE sent[f].type # "I"
                <4>1. sent[f].ref \in Avail /\ sent[f].ref < f /\ sent[f].ref \in Nat /\ f \in Nat
                    BY <1>1, <2>1, <3>2, <3>3, RefIsEarlier DEF References, Refers
                <4>2. \A i \in DOMAIN lbq.items : f < lbq.items[i] /\ lbq.items[i] \in Nat
                    BY <1>1, <3>1, Numbers DEF PipeInOrder
                <4>3. sent[f].ref \in shown
                    BY <3>1, <4>1, <4>2 DEF Avail, Pipe
                <4> QED
                    BY <1>2, <4>3 DEF Refers, Avail
            <3> QED
                BY <1>2, <3>3 DEF Refers
        <2>5. References'
            BY <1>2, <1>3, <1>4, <2>4 DEF References, AtFrame, MustWait
        <2> QED
            BY <2>2, <2>3, <2>5 DEF Good
    <1> QED
        BY <1>2, <1>5, <1>8, <1>9 DEF IInv

(* The frame is the decoder's.                                             *)
LEMMA OfferSafe ==
    ASSUME IInv, OfferFrame
    PROVE  IInv'
    <1>1. Reception /\ FramesRefer /\ PipeInOrder /\ RangesKnown /\ (~raced => Good)
        BY DEF IInv
    <1>2. /\ Reception' /\ Return /\ rx = "offer"
          /\ UNCHANGED <<mode, queue, dec, held, requests, taken, sent, host, shown>>
          /\ d' = Submitted(d) /\ d.next = Current + 1
          /\ raced' = (raced \/ IF sent[Current].type = "I" THEN dec = "flush"
                                ELSE d.dropPending \/ dec = "pending")
        BY <1>1, OfferReception
    <1>3. /\ d \in Depacketizers /\ Current \in DOMAIN sent /\ Current \in Nat /\ d.start \in Nat /\ d.next \in Nat
          /\ d.start <= Current
        BY <1>1, <1>2, Numbers
    <1>4. /\ PipeInOrder' /\ Pipe' = Pipe \cup {Current} /\ Avail' = Avail \cup {Current}
          /\ d'.start = Current + 1 /\ d'.next = Current + 1
        BY <1>1, OfferPipe
    <1>5. d'.waitIdr = d.waitIdr
        BY <1>2, <1>3, SubmittedFields
    <1>6. rx' \in {"recv", "lost", "frame"}
        BY <1>1, <1>2, ReturnsTo
    <1>7. Reporting
        BY <1>2 DEF Reporting, Reported
    <1>8. d.start <= d'.start /\ d.next <= d'.next /\ d'.start - 1 \in Avail'
        BY <1>2, <1>3, <1>4
    <1>9. RangesKnown' /\ FramesRefer'
        BY <1>1, <1>2, <1>7, <1>8, KnownStays DEF FramesRefer
    <1>10. ASSUME ~raced'
           PROVE  Good'
        <2>1. ~raced /\ References /\ FlushIsSafe /\ RangesFit
            BY <1>1, <1>2, <1>10 DEF Good
        <2>2. RangesFit'
            BY <1>1, <1>2, <1>4, <1>5, <1>7, <1>8, <2>1, RangesMove
        <2>3. Refers(Current) /\ (sent[Current].type # "I" => sent[Current].ref \in Avail)
            BY <1>2, <1>10, <2>1 DEF References, Refers
        <2>4. FlushIsSafe'
            <3> SUFFICES ASSUME dec = "flush" PROVE d.waitIdr
                BY <1>2, <1>5 DEF FlushIsSafe
            <3>1. sent[Current].type # "I"
                BY <1>2, <1>10
            <3>2. sent[Current].ref < d.start /\ sent[Current].ref \in Nat
                BY <1>1, <1>3, <2>3, <3>1, Numbers DEF PipeInOrder
            <3>3. ASSUME NEW g \in DOMAIN sent, sent[g].type = "I", d.start <= g, g < d.next
                  PROVE  FALSE
                <4>1. g \in Nat
                    BY <1>1, Numbers
                <4>2. sent[Current].ref < g /\ g <= Current
                    BY <1>2, <1>3, <3>2, <3>3, <4>1
                <4> QED
                    BY <1>1, <1>3, <3>1, <3>3, <4>2, NoIdrBetween
            <3> QED
                BY <1>2, <2>1, <3>3 DEF FlushIsSafe
        <2>5. \A f \in Pipe' : Refers(f)'
            BY <1>2, <1>4, <2>1, <2>3 DEF References, Refers
        <2>6. d'.next = d'.start /\ d'.start - 1 \in Avail'
            BY <1>4, <1>8
        <2>7. References'
            BY <1>6, <2>5, <2>6 DEF References, AtFrame
        <2> QED
            BY <2>2, <2>4, <2>7 DEF Good
    <1> QED
        BY <1>2, <1>4, <1>9, <1>10 DEF IInv

(* The receive thread decodes the frame itself, and may ask for a refresh. *)
LEMMA SubmitSafe ==
    ASSUME IInv, SubmitDirect
    PROVE  IInv'
    <1>1. Reception /\ FramesRefer /\ PipeInOrder /\ RangesKnown /\ (~raced => Good)
        BY DEF IInv
    <1>2. /\ Reception' /\ Return /\ rx = "submit" /\ d.next = Current + 1
          /\ UNCHANGED <<mode, queue, lbq, dec, held, taken, sent, host, raced>>
          /\ Froms(requests') \subseteq Froms(requests)
          /\ d.waitIdr => d'.waitIdr
        BY <1>1, SubmitReception
    <1>3. /\ d \in Depacketizers /\ Current \in DOMAIN sent /\ Current \in Nat /\ d.start \in Nat /\ d.next \in Nat
          /\ d.start <= Current
        BY <1>1, <1>2, Numbers
    <1>4. /\ PipeInOrder' /\ Pipe' = {} /\ Current \in Avail' /\ dec' = "wait"
          /\ \A a \in Avail : a \in Avail' \/ sent[Current].type = "I"
          /\ d'.start = Current + 1 /\ d'.next = Current + 1
        BY <1>1, SubmitPipe
    <1>6. rx' \in {"recv", "lost", "frame"}
        BY <1>1, <1>2, ReturnsTo
    <1>7. Reporting
        BY <1>2 DEF Reporting, Reported
    <1>8. d.start <= d'.start /\ d.next <= d'.next /\ d'.start - 1 \in Avail'
        BY <1>2, <1>3, <1>4
    <1>9. RangesKnown' /\ FramesRefer'
        BY <1>1, <1>2, <1>7, <1>8, KnownStays DEF FramesRefer
    <1>10. ASSUME ~raced
           PROVE  Good'
        <2>1. RangesFit
            BY <1>1, <1>10 DEF Good
        <2>2. ASSUME NEW a \in Avail, a \notin Avail'
              PROVE  \E g \in DOMAIN sent : sent[g].type = "I" /\ a < g /\ g <= d'.next
            <3>1. a < d.start /\ a \in Nat
                BY <1>1, Numbers DEF PipeInOrder
            <3>2. a < Current /\ Current <= d'.next
                BY <1>3, <1>4, <3>1
            <3> QED
                BY <1>3, <1>4, <2>2, <3>2
        <2>3. RangesFit'
            BY <1>1, <1>2, <1>7, <1>8, <2>1, <2>2, RangesMove
        <2>4. FlushIsSafe'
            BY <1>4 DEF FlushIsSafe
        <2>5. d'.next = d'.start /\ d'.start - 1 \in Avail'
            BY <1>4, <1>8
        <2>6. References'
            BY <1>4, <1>6, <2>5 DEF References, AtFrame
        <2> QED
            BY <2>3, <2>4, <2>6 DEF Good
    <1> QED
        BY <1>2, <1>4, <1>9, <1>10 DEF IInv

(* The decoder thread: what it takes from the pipe is shown, or replaced   *)
(* by the IDR frame it shows; a refresh throws the rest away.              *)
LEMMA DecoderSafe ==
    ASSUME IInv, Decoder
    PROVE  IInv'
    <1>1. Reception /\ FramesRefer /\ PipeInOrder /\ RangesKnown /\ (~raced => Good)
        BY DEF IInv
    <1>2. /\ Reception' /\ UNCHANGED <<mode, queue, rx, calls, sent, raced>>
          /\ d'.start = d.start /\ d'.next = d.next
          /\ (d.waitIdr => d'.waitIdr) /\ (MustWait(d) => MustWait(d'))
          /\ Froms(requests') \subseteq Froms(requests) /\ taken' = taken /\ host' = host
        BY <1>1, DecoderReception
    <1>3. /\ PipeInOrder' /\ rx # "submit" /\ Pipe' \subseteq Pipe
          /\ \/ dec = "flush" /\ dec' = "pending" /\ shown' = shown /\ d' = d
             \/ /\ dec = "decode" /\ held \in Pipe /\ (dec' = "flush" => d'.waitIdr)
                /\ dec' \in {"wait", "flush"} /\ d'.dropPending = d.dropPending
                /\ \A a \in Avail : a \in Avail' \/ (a < held /\ sent[held].type = "I")
             \/ /\ dec \notin {"decode", "flush"} /\ Avail' = Avail /\ dec' \notin {"pending", "flush"}
                /\ (dec = "pending" => d'.dropPending) /\ (d.dropPending => d'.dropPending)
        BY <1>1, DecoderPipe
    <1>4. /\ d.start \in Nat /\ d.next \in Nat /\ d.start <= d.next /\ DOMAIN sent \subseteq Nat
          /\ (rx # "recv" => Current \in DOMAIN sent /\ Current \in Nat /\ d.start <= Current)
        BY <1>1, Numbers
    <1>5. Reporting
        BY <1>2 DEF Reporting, Reported
    <1>6. d.start <= d'.start /\ d.next <= d'.next
        BY <1>2, <1>4
    <1>7. RangesKnown' /\ FramesRefer'
        BY <1>1, <1>2, <1>5, <1>6, KnownStays DEF FramesRefer
    <1>8. \A a \in Avail : a < d.start /\ a \in DOMAIN sent /\ a \in Nat
        BY <1>1, <1>4 DEF PipeInOrder
    <1>9. Pipe \subseteq Avail /\ Pipe' \subseteq Avail'
        BY DEF Avail
    <1>10. Current' = Current
        BY <1>2 DEF Current
    <1>11. rx = "last" => d.next = Current
        BY <1>1 DEF Reception, Place, Following
    \* The flush: all that is in the queue is gone.
    <1>12. CASE dec = "flush" /\ dec' = "pending" /\ shown' = shown /\ d' = d
        <2>1. ASSUME ~raced
              PROVE  Good'
            <3>1. References /\ FlushIsSafe /\ RangesFit
                BY <1>1, <2>1 DEF Good
            <3>2. d.waitIdr \/ \E g \in DOMAIN sent :
                        sent[g].type = "I" /\ d.start <= g /\ (g < d.next \/ (rx = "last" /\ g = Current))
                BY <1>12, <3>1 DEF FlushIsSafe
            <3>3. \A a \in Avail : \/ a \in Avail' \/ d'.waitIdr
                                   \/ \E g \in DOMAIN sent : sent[g].type = "I" /\ a < g /\ g <= d'.next
                <4> SUFFICES ASSUME NEW a \in Avail, ~d.waitIdr
                             PROVE  \E g \in DOMAIN sent : sent[g].type = "I" /\ a < g /\ g <= d.next
                    BY <1>2, <1>12
                <4>1. PICK g \in DOMAIN sent :
                        sent[g].type = "I" /\ d.start <= g /\ (g < d.next \/ (rx = "last" /\ g = Current))
                    BY <3>2
                <4>2. a < g /\ g <= d.next
                    BY <1>4, <1>8, <1>11, <4>1
                <4> QED
                    BY <4>1, <4>2
            <3>4. RangesFit'
                BY <1>1, <1>2, <1>5, <1>6, <3>1, <3>3, RangesMove
            <3>5. FlushIsSafe'
                BY <1>12 DEF FlushIsSafe
            <3>6. ASSUME rx = "last", sent[Current].type = "P"
                  PROVE  MustWait(d)
                <4> SUFFICES ASSUME ~MustWait(d) PROVE FALSE
                    OBVIOUS
                <4>1. sent[Current].ref \in Avail
                    BY <3>1, <3>6 DEF References
                <4>2. PICK g \in DOMAIN sent :
                        sent[g].type = "I" /\ d.start <= g /\ (g < d.next \/ (rx = "last" /\ g = Current))
                    BY <3>2 DEF MustWait
                <4>3. sent[Current].ref < g /\ g <= Current
                    BY <1>4, <1>8, <1>11, <3>6, <4>1, <4>2
                <4> QED
                    BY <1>1, <1>4, <3>6, <4>2, <4>3, NoIdrBetween
            <3>7. ASSUME rx \notin AtFrame \ {"flush"}
                  PROVE  MustWait(d)
                <4> SUFFICES ASSUME ~MustWait(d) PROVE FALSE
                    OBVIOUS
                <4>1. d.next = d.start
                    BY <3>1, <3>7 DEF References
                <4>2. PICK g \in DOMAIN sent : sent[g].type = "I" /\ d.start <= g /\ g < d.next
                    BY <3>2, <3>7 DEF MustWait, AtFrame
                <4> QED
                    BY <1>4, <4>1, <4>2
            <3>8. \A f \in Pipe' : Refers(f)'
                <4>1. Pipe' = {}
                    <5>1. lbq'.items = <<>>
                        BY <1>1, <1>12, DecoderReception
                    <5>2. DOMAIN lbq'.items = {}
                        BY <5>1
                    <5> QED
                        BY <1>12, <5>2 DEF Pipe
                <4> QED
                    BY <4>1
            <3>9. References'
                BY <1>2, <1>10, <1>12, <3>6, <3>7, <3>8 DEF References
            <3> QED
                BY <3>4, <3>5, <3>9 DEF Good
        <2> QED
            BY <1>2, <1>3, <1>7, <2>1 DEF IInv
    \* A frame is shown: if it is an IDR frame, nothing refers to those before it.
    <1>13. CASE /\ dec = "decode" /\ held \in Pipe /\ (dec' = "flush" => d'.waitIdr)
                /\ dec' \in {"wait", "flush"} /\ d'.dropPending = d.dropPending
                /\ \A a \in Avail : a \in Avail' \/ (a < held /\ sent[held].type = "I")
        <2>1. ASSUME ~raced
              PROVE  Good'
            <3>1. References /\ FlushIsSafe /\ RangesFit
                BY <1>1, <2>1 DEF Good
            <3>2. held \in DOMAIN sent /\ held \in Nat /\ held < d.start
                BY <1>8, <1>9, <1>13
            <3>3. \A a \in Avail : \/ a \in Avail' \/ d'.waitIdr
                                   \/ \E g \in DOMAIN sent : sent[g].type = "I" /\ a < g /\ g <= d'.next
                <4>1. held <= d'.next
                    BY <1>2, <1>4, <3>2
                <4> QED
                    BY <1>13, <3>2, <4>1
            <3>4. RangesFit'
                BY <1>1, <1>2, <1>5, <1>6, <3>1, <3>3, RangesMove
            <3>5. FlushIsSafe'
                BY <1>13 DEF FlushIsSafe
            <3>6. ASSUME NEW f \in DOMAIN sent, held <= f, sent[f].ref \in Avail, sent[f].type # "I"
                  PROVE  sent[f].ref \in Avail'
                <4>1. CASE sent[f].ref < held /\ sent[held].type = "I"
                    BY <1>1, <3>2, <3>6, <4>1, NoIdrBetween
                <4> QED
                    BY <1>13, <3>6, <4>1
            <3>7. \A f \in Pipe' : Refers(f)'
                <4> SUFFICES ASSUME NEW f \in Pipe' PROVE Refers(f)'
                    OBVIOUS
                <4>1. f \in Pipe /\ f \in DOMAIN sent /\ f \in Nat
                    BY <1>3, <1>8, <1>9
                <4>2. held <= f
                    <5>1. f = held \/ \E i \in DOMAIN lbq.items : f = lbq.items[i]
                        BY <1>13, <4>1 DEF Pipe
                    <5> QED
                        BY <1>1, <1>13, <3>2, <4>1, <5>1 DEF PipeInOrder
                <4>3. Refers(f)
                    BY <3>1, <4>1 DEF References
                <4> QED
                    BY <1>2, <3>6, <4>1, <4>2, <4>3 DEF Refers
            <3>8. rx # "recv" => held <= Current
                BY <1>4, <3>2
            <3>9. ASSUME rx \in {"pending", "offer", "submit"}
                  PROVE  Refers(Current)' \/ d'.dropPending
                <4>1. Refers(Current) \/ d.dropPending
                    BY <1>13, <3>1, <3>9 DEF References
                <4>2. sent[Current].ref \in Avail /\ sent[Current].type # "I" => sent[Current].ref \in Avail'
                    BY <1>4, <3>6, <3>8, <3>9
                <4> QED
                    BY <1>2, <1>10, <1>13, <4>1, <4>2 DEF Refers
            <3>10. ASSUME rx = "last", sent[Current].type = "P"
                   PROVE  MustWait(d') \/ sent[Current].ref \in Avail'
                <4>1. MustWait(d) \/ sent[Current].ref \in Avail
                    BY <3>1, <3>10 DEF References
                <4> QED
                    BY <1>2, <1>4, <3>6, <3>8, <3>10, <4>1
            <3>11. ASSUME rx \notin AtFrame \ {"flush"}
                   PROVE  MustWait(d') \/ (d'.next = d'.start /\ d'.start - 1 \in Avail')
                <4>1. MustWait(d) \/ (d.next = d.start /\ d.start - 1 \in Avail)
                    BY <3>1, <3>11 DEF References
                <4>2. ~(d.start - 1 < held)
                    BY <1>4, <3>2
                <4> QED
                    BY <1>2, <1>13, <4>1, <4>2
            <3>12. References'
                BY <1>2, <1>10, <3>7, <3>9, <3>10, <3>11 DEF References
            <3> QED
                BY <3>4, <3>5, <3>12 DEF Good
        <2> QED
            BY <1>2, <1>3, <1>7, <2>1 DEF IInv
    <1>14. CASE /\ dec \notin {"decode", "flush"} /\ Avail' = Avail /\ dec' \notin {"pending", "flush"}
                /\ (dec = "pending" => d'.dropPending) /\ (d.dropPending => d'.dropPending)
        <2>1. ASSUME ~raced
              PROVE  Good'
            <3>1. References /\ FlushIsSafe /\ RangesFit
                BY <1>1, <2>1 DEF Good
            <3>4. RangesFit'
                BY <1>1, <1>2, <1>5, <1>6, <1>14, <3>1, RangesMove
            <3>5. FlushIsSafe'
                BY <1>14 DEF FlushIsSafe
            <3>6. \A f \in Pipe' : Refers(f)'
                BY <1>2, <1>3, <1>14, <3>1 DEF References, Refers
            <3>7. rx \in {"pending", "offer", "submit"} => Refers(Current)' \/ d'.dropPending
                BY <1>2, <1>10, <1>14, <3>1 DEF References, Refers
            <3>8. References'
                BY <1>2, <1>10, <1>14, <3>1, <3>6, <3>7 DEF References
            <3> QED
                BY <3>4, <3>5, <3>8 DEF Good
        <2> QED
            BY <1>2, <1>3, <1>7, <2>1 DEF IInv
    <1> QED
        BY <1>3, <1>12, <1>13, <1>14

(* The threads of the control stream move the ranges on.                   *)
LEMMA ControlSafe ==
    ASSUME IInv, Control
    PROVE  IInv'
    <1>1. Reception /\ FramesRefer /\ PipeInOrder /\ RangesKnown /\ (~raced => Good)
        BY DEF IInv
    <1>2. /\ Reception' /\ UNCHANGED <<mode, queue, rx, calls, d, lbq, dec, held, sent, shown, raced>>
          /\ Froms(requests') \cup {taken', host'.rfi} \subseteq Froms(requests) \cup {taken, host.rfi, 0}
        BY <1>1, ControlReception
    <1>3. Reporting
        BY <1>2 DEF Reporting, Reported
    <1>4. FramesRefer'
        BY <1>1, <1>2 DEF FramesRefer
    <1>5. /\ d.start <= d'.start /\ d.next <= d'.next
        BY <1>1, <1>2, Numbers
    <1>6. Pipe' = Pipe /\ Avail' = Avail /\ Current' = Current
        BY <1>2 DEF Pipe, Avail, Current
    <1>7. PipeInOrder'
        BY <1>1, <1>2, <1>6 DEF PipeInOrder
    <1>8. RangesKnown'
        BY <1>1, <1>2, <1>3, <1>5, KnownStays
    <1>9. ASSUME ~raced
          PROVE  Good'
        <2>1. References /\ RangesFit /\ FlushIsSafe
            BY <1>1, <1>9 DEF Good
        <2>2. RangesFit'
            BY <1>1, <1>2, <1>3, <1>5, <1>6, <2>1, RangesMove
        <2>3. References'
            BY <1>2, <1>6, <2>1 DEF References, Refers
        <2>4. FlushIsSafe'
            BY <1>2, <1>6, <2>1 DEF FlushIsSafe
        <2> QED
            BY <2>2, <2>3, <2>4 DEF Good
    <1> QED
        BY <1>2, <1>4, <1>7, <1>8, <1>9 DEF IInv

(* The host: its next frame refers to the one before, or, as it was asked, *)
(* to the one before those that were reported lost.                        *)
LEMMA EncodeSafe ==
    ASSUME IInv, Encode
    PROVE  IInv'
    <1>1. Reception /\ FramesRefer /\ PipeInOrder /\ RangesKnown /\ (~raced => Good)
        BY DEF IInv
    <1>2. /\ Reception' /\ UNCHANGED <<mode, queue, rx, calls, d, lbq, dec, held, requests, taken, shown, raced>>
          /\ host'.rfi = 0
        BY <1>1, EncodeReception
    <1>3. PICK e \in Encoded :
                 /\ sent' = Append(sent, e)
                 /\ \/ e.type = "I"
                    \/ e.type = "P" /\ e.ref = Len(sent) /\ sent # <<>>
                    \/ /\ e.type = "R" /\ host.rfi > 1 /\ e.ref = host.rfi - 1
                       /\ \A g \in host.rfi .. Len(sent) : sent[g].type # "I"
        BY <1>1, EncodeReception
    <1>4. /\ sent \in Seq(Encoded) /\ Len(sent) \in Nat /\ DOMAIN sent = 1 .. Len(sent)
          /\ d.start \in Nat /\ d.next \in Nat /\ d.start <= d.next /\ d.next <= Len(sent) + 1
          /\ (rx # "recv" => Current \in DOMAIN sent /\ Current \in Nat)
        BY <1>1, Numbers
    <1> DEFINE n == Len(sent) + 1
    <1>5. /\ DOMAIN sent' = DOMAIN sent \cup {n} /\ n \notin DOMAIN sent /\ n \in Nat /\ sent'[n] = e
          /\ \A f \in DOMAIN sent : sent'[f] = sent[f] /\ f \in Nat /\ f < n
          /\ DOMAIN sent' = 1 .. n /\ DOMAIN sent = 1 .. n - 1
          /\ d.next <= n
        BY <1>3, <1>4
    <1>6. host.rfi \in Nat /\ host.rfi \in Reported /\ host.rfi <= d.start
        BY <1>1, ReportedNumbers DEF Reported, RangesKnown
    <1>7. e.type = "R" => host.rfi > 1 /\ e.ref = host.rfi - 1 /\ e.ref < d.start /\ e.ref \in 1 .. n - 1
        BY <1>3, <1>4, <1>6
    <1>8. e.type = "R" => \A g \in host.rfi .. n - 1 : sent[g].type # "I"
        BY <1>3, <1>4
    <1>9. e.type = "P" => e.ref = n - 1 /\ e.ref \in 1 .. n - 1
        <2>1. sent # <<>> => Len(sent) # 0
            BY <1>4
        <2> QED
            BY <1>3, <1>4, <2>1
    <1>10. e.type \in {"I", "P", "R"}
        BY <1>3
    <1> HIDE DEF n
    <1>11. FramesRefer'
        <2> SUFFICES ASSUME NEW f \in DOMAIN sent', sent'[f].type # "I"
                     PROVE  /\ sent'[f].ref \in 1 .. f - 1
                            /\ \A g \in sent'[f].ref + 1 .. f - 1 : sent'[g].type # "I"
                            /\ sent'[f].type = "P" => sent'[f].ref = f - 1
            BY DEF FramesRefer
        <2>1. CASE f \in DOMAIN sent
            <3>1. /\ sent[f].ref \in 1 .. f - 1
                  /\ \A g \in sent[f].ref + 1 .. f - 1 : sent[g].type # "I"
                  /\ sent[f].type = "P" => sent[f].ref = f - 1
                BY <1>1, <1>5, <2>1 DEF FramesRefer
            <3>2. sent'[f] = sent[f] /\ \A g \in sent[f].ref + 1 .. f - 1 : g \in DOMAIN sent /\ sent'[g] = sent[g]
                BY <1>5, <2>1, <3>1
            <3> QED
                BY <3>1, <3>2
        <2>2. CASE f = n
            <3>1. sent'[f] = e /\ \A g \in 1 .. f - 1 : sent'[g] = sent[g]
                BY <1>5, <2>2
            <3>2. CASE e.type = "P"
                BY <1>5, <1>9, <2>2, <3>1, <3>2
            <3>3. CASE e.type = "R"
                <4>1. \A g \in e.ref + 1 .. f - 1 : g \in 1 .. f - 1 /\ g \in host.rfi .. n - 1
                    BY <1>5, <1>6, <1>7, <2>2, <3>3
                <4> QED
                    BY <1>7, <1>8, <2>2, <3>1, <3>3, <4>1
            <3> QED
                BY <1>10, <3>1, <3>2, <3>3
        <2> QED
            BY <1>5, <2>1, <2>2
    <1>12. Pipe' = Pipe /\ Avail' = Avail /\ Current' = Current /\ Avail \subseteq DOMAIN sent /\ Pipe \subseteq Avail
        BY <1>1, <1>2 DEF Pipe, Avail, Current, PipeInOrder
    <1>13. PipeInOrder'
        BY <1>1, <1>2, <1>5, <1>12 DEF PipeInOrder
    <1>14. Reported' \subseteq Reported \cup {0} /\ \A r \in Reported : r \in Nat
        BY <1>1, <1>2, ReportedNumbers DEF Reported
    <1>15. RangesKnown'
        <2>1. \A r \in Reported' : r <= d'.start
            BY <1>1, <1>2, <1>4, <1>14 DEF RangesKnown
        <2>2. \A f \in DOMAIN sent' : sent'[f].type = "R" => sent'[f].ref < d'.start
            BY <1>1, <1>2, <1>5, <1>7 DEF RangesKnown
        <2> QED
            BY <2>1, <2>2 DEF RangesKnown
    <1>16. ASSUME ~raced
           PROVE  Good'
        <2>1. References /\ RangesFit /\ FlushIsSafe
            BY <1>1, <1>16 DEF Good
        <2>2. \A f \in Pipe : Refers(f) => Refers(f)'
            BY <1>5, <1>12 DEF Refers
        <2>3. rx # "recv" => (Refers(Current) => Refers(Current)') /\ sent'[Current] = sent[Current]
            BY <1>4, <1>5, <1>12 DEF Refers
        <2>4. References'
            BY <1>2, <1>12, <2>1, <2>2, <2>3 DEF References
        <2>5. FlushIsSafe'
            BY <1>2, <1>5, <1>12, <2>1 DEF FlushIsSafe
        <2>6. \A a \in Int : Intact(a) => Intact(a)'
            BY <1>2, <1>5, <1>12 DEF Intact
        <2>7. \A r \in Reported' \cup {d'.start} : r > 1 => Intact(r - 1)'
            <3> SUFFICES ASSUME NEW r \in Reported' \cup {d'.start}, r > 1
                         PROVE  Intact(r - 1)'
                OBVIOUS
            <3>1. r \in Reported \cup {d.start} /\ r \in Nat
                BY <1>2, <1>4, <1>14
            <3>2. Intact(r - 1) /\ r - 1 \in Int
                BY <2>1, <3>1 DEF RangesFit
            <3> QED
                BY <2>6, <3>2
        <2>8. e.type = "R" => e.ref \in Avail \/ d.waitIdr
            <3> SUFFICES ASSUME e.type = "R" PROVE e.ref \in Avail \/ d.waitIdr
                OBVIOUS
            <3>1. Intact(e.ref)
                BY <1>6, <1>7, <2>1 DEF RangesFit
            <3>2. ASSUME NEW g \in DOMAIN sent, sent[g].type = "I", e.ref < g
                  PROVE  FALSE
                <4>1. g \in host.rfi .. n - 1
                    BY <1>5, <1>6, <1>7, <3>2
                <4> QED
                    BY <1>8, <3>2, <4>1
            <3> QED
                BY <3>1, <3>2 DEF Intact
        <2>9. \A f \in DOMAIN sent' : sent'[f].type = "R" /\ d'.next <= f => sent'[f].ref \in Avail' \/ d'.waitIdr
            BY <1>2, <1>5, <1>12, <2>1, <2>8 DEF RangesFit
        <2>10. RangesFit'
            BY <2>7, <2>9 DEF RangesFit
        <2> QED
            BY <2>4, <2>5, <2>10 DEF Good
    <1> QED
        BY <1>2, <1>11, <1>13, <1>15, <1>16 DEF IInv

(* At first there is no frame, and the decoder waits for an IDR frame.     *)
LEMMA InitSafe == Init => IInv
    <1> SUFFICES ASSUME Init PROVE IInv
        OBVIOUS
    <1>1. Reception /\ sent = <<>> /\ lbq.items = <<>> /\ Froms(requests) = {}
        BY InitReception
    <1>2. /\ rx = "recv" /\ dec = "wait" /\ shown = {} /\ taken = 0 /\ host.rfi = 0
          /\ d = EmptyDepacketizer(mode.strict)
        BY DEF Init, None
    <1>3. d.start = 0 /\ d.waitIdr
        BY <1>2 DEF EmptyDepacketizer
    <1>4. DOMAIN sent = {} /\ DOMAIN lbq.items = {}
        BY <1>1
    <1>5. Pipe = {} /\ Avail = {}
        BY <1>2, <1>4 DEF Pipe, Avail
    <1>6. Reported = {0}
        BY <1>1, <1>2 DEF Reported
    <1>7. FramesRefer /\ RangesKnown /\ RangesFit
        BY <1>3, <1>4, <1>6 DEF FramesRefer, RangesKnown, RangesFit
    <1>8. PipeInOrder
        BY <1>1, <1>2, <1>4, <1>5 DEF PipeInOrder
    <1>9. References /\ FlushIsSafe
        BY <1>2, <1>3, <1>5 DEF References, FlushIsSafe, MustWait
    <1> QED
        BY <1>1, <1>7, <1>8, <1>9 DEF IInv, Good

(* All of it is inductive.                                                 *)
LEMMA SafeStep == IInv /\ [Next]_vars => IInv'
    <1> SUFFICES ASSUME IInv, [Next]_vars PROVE IInv'
        OBVIOUS
    <1>1. CASE UNCHANGED vars
        <2>1. Reception'
            BY <1>1, ReceptionStep DEF IInv
        <2>2. /\ Pipe' = Pipe /\ Avail' = Avail /\ Current' = Current /\ Reported' = Reported
            BY <1>1 DEF vars, Pipe, Avail, Current, Reported
        <2>3. FramesRefer' /\ PipeInOrder' /\ RangesKnown'
            BY <1>1, <2>2 DEF vars, IInv, FramesRefer, PipeInOrder, RangesKnown
        <2>4. Good => Good'
            BY <1>1, <2>2 DEF vars, Good, References, Refers, RangesFit, Intact, FlushIsSafe
        <2> QED
            BY <1>1, <2>1, <2>3, <2>4 DEF IInv, vars
    <1>2. CASE Encode
        BY <1>2, EncodeSafe
    <1>3. CASE Decoder
        BY <1>3, DecoderSafe
    <1>4. CASE Control
        BY <1>4, ControlSafe
    <1>5. CASE Receiver
        <2>1. CASE \E p \in Arriving, bad \in 0 .. DataShards : Receive(p, bad)
            BY <2>1, ReceiveSafe
        <2>2. CASE NotifyFrameLost \/ OldFrame \/ RejectFrame \/ DropUndecodable \/ DropPendingFrame
            BY <2>2, ReturnsSafe
        <2>3. CASE StartFrame
            BY <2>3, StartSafe
        <2>4. CASE CompleteFrame
            BY <2>4, CompleteSafe
        <2>5. CASE KeepFrame
            BY <2>5, KeepSafe
        <2>6. CASE OfferFrame
            BY <2>6, OfferSafe
        <2>7. CASE Overflow
            BY <2>7, OverflowSafe
        <2>8. CASE FlushQueue
            BY <2>8, FlushSafe
        <2>9. CASE SubmitDirect
            BY <2>9, SubmitSafe
        <2> QED
            BY <1>5, <2>1, <2>2, <2>3, <2>4, <2>5, <2>6, <2>7, <2>8, <2>9 DEF Receiver
    <1> QED
        BY <1>1, <1>2, <1>3, <1>4, <1>5 DEF Next, Idle

(* VideoDepacketizer.c, reassembleFrame, and VideoStream.c: whatever is    *)
(* lost, late, repeated, dropped or refreshed on the way, the decoder gets *)
(* no frame without the frame it refers to, but through a race of the      *)
(* receive thread with a refresh.                                          *)
THEOREM DecoderSafety == Spec => []DecoderHasReferences
    <1>1. IInv => DecoderHasReferences
        <2> SUFFICES ASSUME IInv, AtDecoder # 0, ~raced
                     PROVE  HasReference(AtDecoder)
            BY DEF DecoderHasReferences, None
        <2>1. Reception /\ FramesRefer /\ PipeInOrder /\ References
            BY DEF IInv, Good
        <2>2. Avail = shown \cup Pipe
            BY DEF Avail
        <2>3. CASE dec = "decode"
            <3>1. AtDecoder = held /\ held \in Pipe /\ held \in DOMAIN sent
                BY <2>1, <2>2, <2>3 DEF AtDecoder, Pipe, PipeInOrder
            <3>2. Refers(held)
                BY <2>1, <3>1 DEF References
            <3>3. CASE sent[held].type = "I"
                BY <3>1, <3>3 DEF HasReference
            <3>4. CASE sent[held].type # "I"
                <4>1. sent[held].ref < held /\ sent[held].ref \in Nat /\ held \in Nat
                    BY <2>1, <3>1, <3>4, RefIsEarlier
                <4>2. \A i \in DOMAIN lbq.items : held < lbq.items[i] /\ lbq.items[i] \in Nat
                    <5>1. lbq.items \in Seq(Nat)
                        BY <2>1, Numbers
                    <5> QED
                        BY <2>1, <2>3, <5>1 DEF PipeInOrder
                <4>3. sent[held].ref \notin Pipe
                    BY <4>1, <4>2 DEF Pipe
                <4> QED
                    BY <2>2, <3>1, <3>2, <3>4, <4>3 DEF Refers, HasReference
            <3> QED
                BY <3>3, <3>4
        <2>4. CASE dec # "decode" /\ rx = "submit"
            <3>1. AtDecoder = Current
                BY <2>4 DEF AtDecoder
            <3>2. mode.direct /\ ~d.dropPending /\ dec = "wait" /\ lbq.items = <<>>
                BY <2>1, <2>4 DEF PipeInOrder
            <3>3. DOMAIN lbq.items = {}
                BY <3>2
            <3>4. Pipe = {}
                BY <2>4, <3>3 DEF Pipe
            <3>5. Refers(Current)
                BY <2>1, <2>4, <3>2 DEF References
            <3> QED
                BY <2>2, <3>1, <3>4, <3>5 DEF Refers, HasReference
        <2> QED
            BY <2>3, <2>4 DEF AtDecoder, None
    <1> QED
        BY <1>1, InitSafe, SafeStep, PTL DEF Spec

(***************************************************************************)
(* What the queue is done with.                                            *)
(***************************************************************************)
(* One call: a frame that is handed over (submitCompletedFrame) is still   *)
(* to get, a loss (notifyFrameLost) leaves the queue's.                    *)
LEMMA OneCallPasses ==
    ASSUME NEW q, NEW l \in Calls
    PROVE  /\ FrameIsLast(<<l>>) /\ NextOut(q, <<l>>) = IF l.call = "frame" THEN l.frame ELSE q.frame
           /\ \A i \in DOMAIN <<l>> : <<l>>[i] = l
    <1> DEFINE o == <<l>>
    <1>1. Len(o) = 1 /\ DOMAIN o = {1} /\ o[1] = l /\ o # <<>>
        OBVIOUS
    <1> HIDE DEF o
    <1>2. FrameIsLast(o) /\ NextOut(q, o) = IF l.call = "frame" THEN l.frame ELSE q.frame
        BY <1>1 DEF FrameIsLast, NextOut
    <1>3. \A i \in DOMAIN o : o[i] = l
        BY <1>1
    <1> QED
        BY <1>2, <1>3 DEF o

(* Two calls: a loss, and what is reported after it decides.               *)
LEMMA TwoCallsPass ==
    ASSUME NEW q, NEW j \in Calls, NEW l \in Calls, j.call = "lost",
           NEW t, Len(t) = 2, DOMAIN t = {1, 2}, t[1] = j, t[2] = l
    PROVE  /\ FrameIsLast(t)
           /\ l.call = "frame" => NextOut(q, t) = l.frame
           /\ l.call # "frame" => NextOut(q, t) = q.frame
           /\ \A i \in DOMAIN t : t[i] \in {j, l}
    <1>1. t # <<>> /\ t[Len(t)] = l
        OBVIOUS
    <1>2. j.call # "frame"
        OBVIOUS
    <1> QED
        BY <1>1, <1>2 DEF FrameIsLast, NextOut

(* RtpvAddPacket: what is reported lost is behind the queue or being held  *)
(* by it, and a frame it holds so stays passed, unless it comes after all. *)
LEMMA PacketPasses ==
    ASSUME NEW q \in Queues, NEW p \in Packets, CountsFollow(q), NEW bad \in 0 .. DataShards
    PROVE  LET a == AddVideoPacket(q, p, bad)
           IN  /\ FrameIsLast(a.calls) /\ q.frame <= NextOut(a.q, a.calls) /\ NextOut(a.q, a.calls) \in Nat
               /\ \A i \in DOMAIN a.calls : a.calls[i].call = "lost" =>
                     /\ Passed(a.q, a.calls, a.calls[i].frame)
                     /\ HoldsLost(q) => q.frame < a.calls[i].frame
               /\ HoldsLost(q) => \/ Passed(a.q, a.calls, q.frame)
                                  \/ a.q.pending = {} /\ p.frame = q.frame /\ p.block = q.block
    <1> DEFINE a == AddVideoPacket(q, p, bad)
               Goal(m, c) ==
                  /\ FrameIsLast(c) /\ q.frame <= NextOut(m, c) /\ NextOut(m, c) \in Nat
                  /\ \A i \in DOMAIN c : c[i].call = "lost" =>
                        /\ Passed(m, c, c[i].frame)
                        /\ HoldsLost(q) => q.frame < c[i].frame
                  /\ HoldsLost(q) => \/ Passed(m, c, q.frame)
                                     \/ m.pending = {} /\ p.frame = q.frame /\ p.block = q.block
    <1> SUFFICES Goal(a.q, a.calls)
        OBVIOUS
    <1>1. /\ p.frame \in Nat \ {0} /\ p.block \in Nat /\ p.index \in Nat /\ p.n \in Nat
          /\ p.n = FirstOf(p.frame, p.block) + p.index /\ FirstOf(p.frame, p.block) \in Nat
          /\ q.frame \in Nat \ {0} /\ q.block \in Nat /\ q.lost \in BOOLEAN
        <2>1. /\ p.frame \in Nat \ {0} /\ p.block \in Nat /\ p.index \in Nat /\ p.n \in Nat
              /\ p.n = FirstOf(p.frame, p.block) + p.index
            BY Sizes DEF Packets, Indices
        <2>2. FirstOf(p.frame, p.block) \in Nat
            BY <2>1, FirstNumbers
        <2>3. q.frame \in Nat \ {0} /\ q.block \in Nat /\ q.lost \in BOOLEAN
            BY DEF Queues
        <2> QED
            BY <2>1, <2>2, <2>3
    <1>2. ASSUME NEW m \in Queues, NEW f \in Nat, m.frame = f, q.frame <= f,
                 HoldsLost(q) => \/ q.frame < f
                                 \/ q.frame = f /\ HoldsLost(m)
                                 \/ m.pending = {} /\ p.frame = q.frame /\ p.block = q.block
          PROVE  Goal(m, <<>>)
        <2>1. FrameIsLast(<<>>) /\ NextOut(m, <<>>) = f
            BY <1>2 DEF FrameIsLast, NextOut
        <2>2. Passed(m, <<>>, q.frame) <=> q.frame < f \/ (HoldsLost(m) /\ q.frame = f)
            BY <1>2, <2>1 DEF Passed
        <2> QED
            BY <1>1, <1>2, <2>1, <2>2
    <1>3. ASSUME NEW m \in Queues, NEW l \in Calls, q.frame <= m.frame, l.call = "lost",
                 l.frame < m.frame \/ (HoldsLost(m) /\ l.frame = m.frame),
                 HoldsLost(q) => q.frame < l.frame
          PROVE  Goal(m, <<l>>)
        <2>5. m.frame \in Nat
            BY DEF Queues
        <2>1. /\ FrameIsLast(<<l>>) /\ NextOut(m, <<l>>) = m.frame
              /\ \A i \in DOMAIN <<l>> : <<l>>[i] = l
            BY <1>3, OneCallPasses
        <2>2. Passed(m, <<l>>, l.frame) /\ l.frame \in Nat
            BY <1>3, <2>1, <2>5 DEF Passed, Calls
        <2>3. HoldsLost(q) => Passed(m, <<l>>, q.frame)
            BY <1>1, <1>3, <2>1, <2>2, <2>5 DEF Passed
        <2> DEFINE c == <<l>>
        <2> HIDE DEF c
        <2>4. Goal(m, c)
            BY <1>3, <2>1, <2>2, <2>3, <2>5 DEF c
        <2> QED
            BY <2>4 DEF c
    <1> HIDE DEF a
    <1>4. CASE Behind16(q, p)
        <2>1. a = Result(q, <<>>)
            BY <1>4 DEF AddVideoPacket, a
        <2>2. a.q = q /\ a.calls = <<>>
            BY <2>1, ResultFields
        <2>3. Goal(q, <<>>)
            BY <1>1, <1>2
        <2> QED
            BY <2>2, <2>3
    <1>5. CASE ~Behind16(q, p) /\ StartsBlock(q, p) /\ MissedBlock(q, p)
        <2>1. a = SkipFrame(q, p)
            BY <1>5 DEF AddVideoPacket, a
        <2>2. q.frame <= p.frame
            BY <1>1, <1>5 DEF Behind16
        <2> DEFINE l == [q EXCEPT !.pending = {}, !.staged = 0, !.lost = TRUE, !.frame = p.frame + 1, !.block = 0]
                   k == LostCall(q.frame, FALSE)
                   c == IF q.lost THEN <<>> ELSE <<k>>
        <2>3. l \in Queues
            <3>1. {} \in SUBSET Indices /\ p.frame + 1 \in Nat \ {0} /\ 0 \in Nat /\ TRUE \in BOOLEAN
                BY <1>1
            <3> QED
                BY <3>1, FrameIsLeft
        <2>4. l.frame = p.frame + 1 /\ p.frame + 1 \in Nat
            BY <1>1 DEF Queues
        <2>5. k \in Calls /\ k.frame = q.frame /\ k.call = "lost"
            BY <1>1, CallFields
        <2>6. a = Result(l, c)
            BY <2>1 DEF SkipFrame
        <2> HIDE DEF l, k
        <2>7. a.q = l /\ a.calls = c
            <3> HIDE DEF c
            <3> QED
                BY <2>6, ResultFields
        <2>8. q.frame < l.frame
            BY <1>1, <2>2, <2>4
        <2>9. Goal(l, <<>>)
            BY <1>2, <2>3, <2>4, <2>8, <1>1
        <2>10. ~q.lost => Goal(l, <<k>>)
            <3> SUFFICES ASSUME ~q.lost PROVE Goal(l, <<k>>)
                OBVIOUS
            <3>1. ~HoldsLost(q)
                BY DEF HoldsLost
            <3>2. q.frame <= l.frame /\ k.frame < l.frame
                BY <1>1, <2>4, <2>5, <2>8
            <3> HIDE DEF Goal
            <3> QED
                BY <1>3, <2>3, <2>5, <3>1, <3>2
        <2> HIDE DEF Goal
        <2> QED
            BY <2>7, <2>9, <2>10
    <1>6. CASE ~Behind16(q, p) /\ ~(StartsBlock(q, p) /\ MissedBlock(q, p))
        <2> DEFINE fresh == StartsBlock(q, p)
                   s == IF fresh THEN StartBlock(q, p) ELSE q
                   g == IF fresh THEN GapCalls(q, p) ELSE <<>>
                   k == Reconstruct(CountPacket(QueuePacket(s, p), p), bad)
                   r == Collected(s, p, bad)
        <2>7. q.frame <= p.frame /\ (q.frame # p.frame => q.frame < p.frame)
            BY <1>1, <1>6 DEF Behind16
        <2>1. /\ s \in Queues /\ Ready(s, p) /\ CountsFollow(s)
              /\ HoldsLost(q) => q.frame < p.frame \/ (s = q /\ q.frame = p.frame /\ q.block = p.block)
            <3>1. CASE fresh
                <4>1. ASSUME HoldsLost(q), q.frame = p.frame
                      PROVE  FALSE
                    <5>1. q.pending # {} /\ q.block # p.block
                        BY <3>1, <4>1 DEF HoldsLost, StartsBlock
                    <5> QED
                        BY <1>6, <3>1, <4>1, <5>1 DEF MissedBlock, Expected
                <4> QED
                    BY <2>7, <3>1, <4>1, BlockIsStarted DEF CountsFollow
            <3>2. CASE ~fresh
                <4>1. q.pending # {} /\ q.frame = p.frame /\ q.block = p.block
                    BY <3>2 DEF StartsBlock
                <4>2. Tallied(q)
                    BY <4>1 DEF CountsFollow
                <4>3. Ready(q, p)
                    BY <1>1, <4>1, <4>2 DEF Ready, For, Tallied
                <4> QED
                    BY <3>2, <4>1, <4>3
            <3> QED
                BY <3>1, <3>2
        <2> HIDE DEF s
        <2>2. /\ r.q \in Queues /\ CountsFollow(r.q)
              /\ \/ r.calls = <<>> /\ r.q.frame = p.frame /\ (s.lost => r.q.lost \/ r.q.pending = {})
                 \/ r.calls = <<LostCall(p.frame, TRUE)>> /\ r.q.frame = p.frame /\ HoldsLost(r.q) /\ ~s.lost
                 \/ r.calls = <<FrameCall(p.frame)>> /\ r.q.frame = p.frame + 1 /\ r.q.pending = {}
            BY <2>1, BlockCollects
        <2>3. a = [k EXCEPT !.q = IF IsDuplicate(s, p) THEN s ELSE @,
                            !.calls = g \o (IF IsDuplicate(s, p) THEN <<>> ELSE @),
                            !.saw = IF fresh THEN p.frame ELSE 0]
            BY <1>6 DEF AddVideoPacket, s, a
        <2>4. \E m, c : k = Result(m, c)
            BY DEF Reconstruct, Incomplete, Stage
        <2> HIDE DEF k, g
        <2>5. r = IF IsDuplicate(s, p) THEN Result(s, <<>>) ELSE k
            BY DEF Collected, k
        <2> HIDE DEF r
        <2>6. a.q = r.q /\ a.calls = g \o r.calls
            BY <2>3, <2>4, <2>5 DEF Result
        <2> DEFINE j == LostCall(p.frame - 1, FALSE)
        <2>8. \/ g = <<>>
              \/ g = <<j>> /\ q.frame < p.frame /\ (HoldsLost(q) => q.frame < p.frame - 1)
            <3>1. CASE fresh /\ q.frame # p.frame /\ (q.frame + 1 # p.frame \/ ~q.lost)
                <4>1. g = <<j>>
                    BY <3>1 DEF g, GapCalls
                <4>2. HoldsLost(q) => q.frame < p.frame - 1
                    BY <1>1, <2>7, <3>1 DEF HoldsLost
                <4> QED
                    BY <2>7, <3>1, <4>1, <4>2
            <3>2. CASE ~(fresh /\ q.frame # p.frame /\ (q.frame + 1 # p.frame \/ ~q.lost))
                BY <3>2 DEF g, GapCalls
            <3> QED
                BY <3>1, <3>2
        <2>14. p.frame - 1 \in Nat
            BY <1>1
        <2>9. j \in Calls /\ j.frame = p.frame - 1 /\ j.call = "lost"
            BY <2>14, CallFields
        <2>10. /\ \A x \in BOOLEAN : LostCall(p.frame, x) \in Calls /\ LostCall(p.frame, x).frame = p.frame
                                     /\ LostCall(p.frame, x).call = "lost"
               /\ FrameCall(p.frame) \in Calls /\ FrameCall(p.frame).frame = p.frame
               /\ FrameCall(p.frame).call = "frame"
            BY <1>1, CallFields
        <2> DEFINE l == LostCall(p.frame, TRUE)
                   f == FrameCall(p.frame)
        <2>11. \/ r.calls = <<>> /\ r.q.frame = p.frame /\ (s.lost => r.q.lost \/ r.q.pending = {})
               \/ r.calls = <<l>> /\ r.q.frame = p.frame /\ HoldsLost(r.q) /\ ~s.lost
               \/ r.calls = <<f>> /\ r.q.frame = p.frame + 1 /\ r.q.pending = {}
            BY <2>2
        <2>12. /\ l \in Calls /\ l.frame = p.frame /\ l.call = "lost"
               /\ f \in Calls /\ f.frame = p.frame /\ f.call = "frame"
            BY <2>10
        <2> DEFINE m == r.q
        <2>13. m \in Queues /\ m.frame \in Nat /\ (HoldsLost(q) => q.lost)
            BY <2>2 DEF Queues, HoldsLost
        <2> HIDE DEF j, l, f, a, m
        <2>15. a.q = m
            BY <2>6 DEF m
        <2>16. CASE g = <<>>
            <3>1. a.calls = r.calls
                <4>1. <<>> \o <<>> = <<>> /\ \A x \in Calls : <<>> \o <<x>> = <<x>>
                    OBVIOUS
                <4> QED
                    BY <2>6, <2>11, <2>12, <2>16, <4>1
            <3>2. CASE r.calls = <<>> /\ r.q.frame = p.frame /\ (s.lost => r.q.lost \/ r.q.pending = {})
                <4>1. m.frame = p.frame /\ (s.lost => m.lost \/ m.pending = {})
                    BY <3>2 DEF m
                <4>2. HoldsLost(q) => \/ q.frame < p.frame
                                      \/ q.frame = p.frame /\ HoldsLost(m)
                                      \/ m.pending = {} /\ p.frame = q.frame /\ p.block = q.block
                    BY <2>1, <2>13, <4>1 DEF HoldsLost
                <4>3. Goal(m, <<>>)
                    <5> HIDE DEF Goal
                    <5> QED
                        BY <1>1, <1>2, <2>7, <2>13, <4>1, <4>2
                <4> HIDE DEF Goal
                <4> QED
                    BY <2>15, <3>1, <3>2, <4>3
            <3>3. CASE r.calls = <<l>> /\ r.q.frame = p.frame /\ HoldsLost(r.q) /\ ~s.lost
                <4>1. m.frame = p.frame /\ HoldsLost(m)
                    BY <3>3 DEF m
                <4>2. HoldsLost(q) => q.frame < p.frame
                    BY <2>1, <2>13, <3>3
                <4>3. Goal(m, <<l>>)
                    <5> HIDE DEF Goal
                    <5> QED
                        BY <1>3, <2>7, <2>12, <2>13, <4>1, <4>2
                <4> HIDE DEF Goal
                <4> QED
                    BY <2>15, <3>1, <3>3, <4>3
            <3>4. CASE r.calls = <<f>> /\ r.q.frame = p.frame + 1 /\ r.q.pending = {}
                <4>1. m.pending = {} /\ m.frame = p.frame + 1
                    BY <3>4 DEF m
                <4>2. FrameIsLast(<<f>>) /\ NextOut(m, <<f>>) = p.frame /\ \A i \in DOMAIN <<f>> : <<f>>[i] = f
                    <5>1. /\ FrameIsLast(<<f>>) /\ NextOut(m, <<f>>) = IF f.call = "frame" THEN f.frame ELSE m.frame
                          /\ \A i \in DOMAIN <<f>> : <<f>>[i] = f
                        BY <2>12, OneCallPasses
                    <5> QED
                        BY <2>12, <5>1
                <4>3. HoldsLost(q) => \/ Passed(m, <<f>>, q.frame)
                                      \/ m.pending = {} /\ p.frame = q.frame /\ p.block = q.block
                    BY <2>1, <4>1, <4>2 DEF Passed
                <4> DEFINE c == <<f>>
                <4> HIDE DEF c
                <4>4. Goal(m, c)
                    BY <1>1, <2>7, <2>12, <4>2, <4>3 DEF c
                <4> HIDE DEF Goal
                <4> QED
                    BY <2>15, <3>1, <3>4, <4>4 DEF c
            <3> QED
                BY <2>11, <3>2, <3>3, <3>4
        <2>17. CASE g = <<j>> /\ q.frame < p.frame /\ (HoldsLost(q) => q.frame < p.frame - 1)
            <3>1. a.calls = <<j>> \o r.calls
                BY <2>6, <2>17
            <3>2. CASE r.calls = <<>> /\ r.q.frame = p.frame
                <4>1. m.frame = p.frame
                    BY <3>2 DEF m
                <4>2. a.calls = <<j>>
                    BY <3>1, <3>2
                <4>3. j.frame < m.frame /\ q.frame <= m.frame /\ (HoldsLost(q) => q.frame < j.frame)
                    BY <1>1, <2>9, <2>17, <4>1
                <4>4. Goal(m, <<j>>)
                    <5> HIDE DEF Goal
                    <5> QED
                        BY <1>3, <2>9, <2>13, <4>3
                <4> HIDE DEF Goal
                <4> QED
                    BY <2>15, <4>2, <4>4
            <3>3. ASSUME NEW x \in Calls, r.calls = <<x>>, x.frame = p.frame,
                         \/ x.call = "lost" /\ m.frame = p.frame /\ HoldsLost(m)
                         \/ x.call = "frame" /\ m.frame = p.frame + 1
                  PROVE  Goal(a.q, a.calls)
                <4> DEFINE c == <<j>> \o <<x>>
                <4>1. /\ FrameIsLast(c) /\ NextOut(m, c) = p.frame
                      /\ \A i \in DOMAIN c : c[i] \in {j, x}
                    <5>2. Len(c) = 2 /\ DOMAIN c = {1, 2} /\ c[1] = j /\ c[2] = x
                        OBVIOUS
                    <5> HIDE DEF c, Goal
                    <5>1. j \in Calls /\ j.call = "lost"
                        BY <2>9
                    <5>3. /\ FrameIsLast(c)
                          /\ x.call = "frame" => NextOut(m, c) = x.frame
                          /\ x.call # "frame" => NextOut(m, c) = m.frame
                          /\ \A i \in DOMAIN c : c[i] \in {j, x}
                        BY <5>1, <5>2, TwoCallsPass
                    <5> QED
                        BY <3>3, <5>3
                <4>2. a.calls = c
                    BY <3>1, <3>3
                <4> HIDE DEF c
                <4>3. Passed(m, c, j.frame) /\ Passed(m, c, q.frame)
                    BY <1>1, <2>9, <2>17, <4>1 DEF Passed
                <4>4. x.call = "lost" => Passed(m, c, x.frame)
                    BY <1>1, <3>3, <4>1 DEF Passed
                <4>5. HoldsLost(q) => q.frame < j.frame /\ q.frame < x.frame
                    BY <1>1, <2>9, <2>17, <3>3
                <4>6. Goal(m, c)
                    BY <1>1, <2>17, <4>1, <4>3, <4>4, <4>5
                <4> HIDE DEF Goal
                <4> QED
                    BY <2>15, <4>2, <4>6
            <3>4. CASE r.calls = <<l>> /\ r.q.frame = p.frame /\ HoldsLost(r.q)
                <4> HIDE DEF Goal
                <4> QED
                    BY <2>12, <3>3, <3>4 DEF m
            <3>5. CASE r.calls = <<f>> /\ r.q.frame = p.frame + 1
                <4> HIDE DEF Goal
                <4> QED
                    BY <2>12, <3>3, <3>5 DEF m
            <3> HIDE DEF Goal
            <3> QED
                BY <2>11, <3>2, <3>4, <3>5
        <2> HIDE DEF Goal
        <2> QED
            BY <2>8, <2>16, <2>17
    <1> QED
        BY <1>4, <1>5, <1>6

(***************************************************************************)
(* What the depacketizer asks for.                                         *)
(***************************************************************************)
Asks(c) == c.idr \/ c.tuples.items # <<>>
\* e has become g and c has become x: help that was asked for still is, and an IDR
\* frame is waited for that is asked for, or only by who cannot do without.
Helped(g, x, e, c) ==
    /\ c.idr => x.idr
    /\ Asks(c) => Asks(x)
    /\ g.waitRfi => e.waitRfi \/ ~NeedsIdr(e)
    /\ g.waitIdr => x.idr \/ NeedsIdr(e)
    /\ Froms(x) \subseteq Froms(c) \cup {e.start} /\ (NeedsIdr(e) => Froms(x) \subseteq Froms(c))

(* What was asked of the control stream stays asked: LiRequestIdrFrame and *)
(* connectionDetectedFrameLoss drop a request only for an IDR request.     *)
LEMMA RequestsStay ==
    ASSUME NEW c \in SoundRequests, NEW e, NEW s \in BOOLEAN, NEW f \in Nat, NEW g \in Nat
    PROVE  /\ RequestIdr(c).idr
           /\ AtDropLimit(e) \/ c.idr => DropRequests(e, c).idr
           /\ Asks(c) => Asks(DropRequests(e, c))
           /\ c.idr => DetectedLoss(c, s, f, g).idr
           /\ Asks(DetectedLoss(c, s, f, g))
    <1>1. RequestIdr(c).idr
        <2>1. RequestIdr(c) = [c EXCEPT !.tuples = LbqFlush(@), !.idr = TRUE]
            BY DEF RequestIdr
        <2> QED
            BY <2>1, RequestsAreDropped
    <1>2. /\ AtDropLimit(e) \/ c.idr => DropRequests(e, c).idr
          /\ Asks(c) => Asks(DropRequests(e, c))
        BY <1>1 DEF DropRequests, Asks
    <1>3. CASE s \/ LbqOfferAnswer(c.tuples) = "bound"
        <2>1. DetectedLoss(c, s, f, g).idr
            BY <1>1, <1>3 DEF DetectedLoss
        <2> QED
            BY <1>1, <1>2, <2>1 DEF Asks
    <1>4. CASE ~(s \/ LbqOfferAnswer(c.tuples) = "bound")
        <2> DEFINE x == [from |-> f, to |-> g]
                   t == LbqOffer(c.tuples, x)
                   r == [c EXCEPT !.tuples = t]
        <2>1. TupleBound \in Nat /\ c \in Requests /\ c.tuples \in LbqOf(Ranges, TupleBound) /\ Opened(c.tuples)
            BY DepacketizerAssumption DEF DepacketizerAssumption, SoundRequests, Requests
        <2>2. x \in Ranges
            BY DEF Ranges
        <2>3. DetectedLoss(c, s, f, g) = r
            BY <1>4 DEF DetectedLoss
        <2> HIDE DEF x
        <2>4. LbqOfferAnswer(c.tuples) = "success"
            BY <1>4, <2>1, QueuesHold
        <2>5. t.items = Append(c.tuples.items, x)
            BY <2>1, <2>2, <2>4, QueuesHold
        <2>6. c.tuples.items \in Seq(Ranges)
            BY <2>1 DEF LbqOf
        <2>7. t.items # <<>>
            <3> HIDE DEF t
            <3> QED
                BY <2>2, <2>5, <2>6
        <2> HIDE DEF t
        <2>8. r.tuples = t /\ r.idr = c.idr
            BY <2>1 DEF Requests
        <2> HIDE DEF r
        <2>9. (c.idr => DetectedLoss(c, s, f, g).idr) /\ Asks(DetectedLoss(c, s, f, g))
            BY <2>3, <2>7, <2>8 DEF Asks
        <2> QED
            BY <1>1, <1>2, <2>9
    <1> QED
        BY <1>3, <1>4

(* dropFrameState: an IDR frame is waited for when the decoder can do with *)
(* nothing else or at the limit of drops, an R frame in the other cases.   *)
LEMMA DropFrameFields ==
    ASSUME NEW e \in Depacketizers
    PROVE  LET g == DropFrame(e)
           IN  /\ g \in Depacketizers /\ ~g.dropPending /\ g.waitNext = e.waitNext /\ g.next = e.next
               /\ g.start = e.start /\ g.strict = e.strict /\ g.idrDone = e.idrDone
               /\ g.waitIdr <=> NeedsIdr(e) \/ AtDropLimit(e)
               /\ g.waitRfi <=> e.waitRfi \/ ~NeedsIdr(e)
    <1> DEFINE x == NeedsIdr(e) \/ AtDropLimit(e)
               y == e.waitRfi \/ ~NeedsIdr(e)
               z == IF AtDropLimit(e) THEN 0 ELSE e.drops + 1
               g == [e EXCEPT !.dropPending = FALSE, !.waitIdr = x, !.waitRfi = y, !.drops = z]
    <1>1. DropFrame(e) = g
        BY DEF DropFrame, Depacketizers
    <1>2. x \in BOOLEAN /\ y \in BOOLEAN /\ z \in Nat
        BY DEF NeedsIdr, AtDropLimit, Depacketizers
    <1>3. (x <=> NeedsIdr(e) \/ AtDropLimit(e)) /\ (y <=> e.waitRfi \/ ~NeedsIdr(e))
        OBVIOUS
    <1> HIDE DEF x, y, z
    <1>4. /\ g \in Depacketizers /\ ~g.dropPending /\ g.waitNext = e.waitNext /\ g.next = e.next
          /\ g.start = e.start /\ g.strict = e.strict /\ g.idrDone = e.idrDone
          /\ g.waitIdr = x /\ g.waitRfi = y
        BY <1>2 DEF Depacketizers
    <1> HIDE DEF g
    <1> QED
        BY <1>1, <1>3, <1>4

(* notifyFrameLost: what was asked for stays asked, and who waits for no   *)
(* IDR frame has asked for the range.                                      *)
LEMMA LossIsHelped ==
    ASSUME NEW e \in Depacketizers, NEW c \in SoundRequests, NEW f \in Nat
    PROVE  LET l == FrameLost(e, c, f)
           IN  /\ Helped(l.d, l.c, e, c) /\ ~l.d.dropPending /\ l.d.waitNext = e.waitNext
               /\ ~l.d.waitIdr => Asks(l.c)
    <1> DEFINE g == DropFrame(e)
               x == DropRequests(e, c)
               l == FrameLost(e, c, f)
    <1>1. /\ g \in Depacketizers /\ ~g.dropPending /\ g.waitNext = e.waitNext /\ g.next = e.next
          /\ g.start = e.start /\ g.strict = e.strict /\ g.idrDone = e.idrDone
          /\ g.waitIdr <=> NeedsIdr(e) \/ AtDropLimit(e)
          /\ g.waitRfi <=> e.waitRfi \/ ~NeedsIdr(e)
        BY DropFrameFields
    <1>2. /\ x \in SoundRequests /\ Froms(x) \subseteq Froms(c)
          /\ AtDropLimit(e) \/ c.idr => x.idr
          /\ Asks(c) => Asks(x)
        BY DropRequestsKeeps, RequestsStay
    <1>3. l = IF g.waitIdr THEN [d |-> g, c |-> x]
              ELSE [d |-> [g EXCEPT !.next = f + 1], c |-> DetectedLoss(x, g.strict, g.start, f)]
        BY DEF FrameLost
    <1> HIDE DEF g, x, l
    <1>4. CASE g.waitIdr
        <2>1. l.d = g /\ l.c = x
            BY <1>3, <1>4
        <2>2. /\ Helped(l.d, l.c, e, c) /\ ~l.d.dropPending /\ l.d.waitNext = e.waitNext
              /\ ~l.d.waitIdr => Asks(l.c)
            BY <1>1, <1>2, <1>4, <2>1 DEF Helped
        <2> QED
            BY <2>2 DEF l
    <1>5. CASE ~g.waitIdr
        <2> DEFINE h == [g EXCEPT !.next = f + 1]
                   y == DetectedLoss(x, g.strict, g.start, f)
        <2>1. l.d = h /\ l.c = y
            BY <1>3, <1>5
        <2>2. h.waitIdr = g.waitIdr /\ h.waitRfi = g.waitRfi /\ h.dropPending = g.dropPending /\ h.waitNext = g.waitNext
            BY <1>1 DEF Depacketizers
        <2>3. g.strict \in BOOLEAN /\ g.start \in Nat
            BY <1>1 DEF Depacketizers
        <2>4. (x.idr => y.idr) /\ Asks(y) /\ Froms(y) \subseteq Froms(x) \cup {g.start}
            BY <1>2, <2>3, RequestsStay, LossIsDetected
        <2> HIDE DEF h, y
        <2>5. /\ Helped(l.d, l.c, e, c) /\ ~l.d.dropPending /\ l.d.waitNext = e.waitNext
              /\ ~l.d.waitIdr => Asks(l.c)
            BY <1>1, <1>2, <1>5, <2>1, <2>2, <2>4 DEF Helped
        <2> QED
            BY <2>5 DEF l
    <1> QED
        BY <1>4, <1>5

(* A damaged frame is given up (processRtpPayload): an IDR frame or the    *)
(* range has been asked for.                                               *)
LEMMA DamageIsHelped ==
    ASSUME NEW e \in Depacketizers, NEW c \in SoundRequests, NEW f \in Nat
    PROVE  LET l == CorruptFrame(e, c, f)
           IN  /\ Helped(l.d, l.c, e, c) /\ ~l.d.dropPending
               /\ IF l.d.waitIdr THEN l.c.idr ELSE Asks(l.c)
    <1> DEFINE k == [e EXCEPT !.decoding = FALSE, !.next = f + 1]
               g == DropFrame(k)
               x == DropRequests(k, c)
               y == IF g.waitIdr THEN RequestIdr(x) ELSE DetectedLoss(x, g.strict, g.start, f)
               l == CorruptFrame(e, c, f)
    <1>0. f + 1 \in Nat
        OBVIOUS
    <1>1. /\ k \in Depacketizers /\ k.start = e.start /\ k.waitRfi = e.waitRfi /\ k.drops = e.drops
          /\ k.strict = e.strict /\ k.idrDone = e.idrDone /\ k.waitIdr = e.waitIdr
        BY <1>0 DEF Depacketizers
    <1>2. l.d = g /\ l.c = y
        BY DEF CorruptFrame
    <1> HIDE DEF k, l
    <1>3. (NeedsIdr(k) <=> NeedsIdr(e)) /\ (AtDropLimit(k) <=> AtDropLimit(e))
        BY <1>1 DEF NeedsIdr, AtDropLimit
    <1>4. /\ g \in Depacketizers /\ ~g.dropPending
          /\ g.start = e.start
          /\ g.waitIdr <=> NeedsIdr(e) \/ AtDropLimit(e)
          /\ g.waitRfi <=> e.waitRfi \/ ~NeedsIdr(e)
        BY <1>1, <1>3, DropFrameFields
    <1>5. /\ x \in SoundRequests /\ Froms(x) \subseteq Froms(c)
          /\ AtDropLimit(k) \/ c.idr => x.idr
          /\ Asks(c) => Asks(x)
        BY DropRequestsKeeps, RequestsStay
    <1>6. g.strict \in BOOLEAN /\ g.start \in Nat
        BY <1>4 DEF Depacketizers
    <1> HIDE DEF g, x
    <1>7. /\ (IF g.waitIdr THEN y.idr ELSE Asks(y)) /\ (x.idr => y.idr) /\ Asks(y)
          /\ Froms(y) \subseteq Froms(x) \cup {g.start}
          /\ g.waitIdr => Froms(y) \subseteq Froms(x)
        <2>1. CASE g.waitIdr
            BY <1>5, <2>1, RequestsStay, RequestIdrDrops DEF Asks
        <2>2. CASE ~g.waitIdr
            BY <1>5, <1>6, <2>2, RequestsStay, LossIsDetected
        <2> QED
            BY <2>1, <2>2
    <1> HIDE DEF y
    <1>8. Helped(g, y, e, c)
        BY <1>4, <1>5, <1>7 DEF Helped
    <1>9. /\ Helped(l.d, l.c, e, c) /\ ~l.d.dropPending
          /\ IF l.d.waitIdr THEN l.c.idr ELSE Asks(l.c)
        BY <1>2, <1>4, <1>7, <1>8
    <1> QED
        BY <1>9 DEF l

(* A frame that cannot be decoded is given up: the first one after a loss  *)
(* (waitNext) asks for an IDR frame, and for the range if it may help.     *)
LEMMA GiveUpIsHelped ==
    ASSUME NEW e \in Depacketizers, NEW c \in SoundRequests, NEW f \in Nat,
           MustWait(e), e.waitRfi => ~e.strict /\ e.idrDone
    PROVE  LET l == GiveUp(e, c, f)
           IN  /\ Helped(l.d, l.c, e, c) /\ ~l.d.dropPending
               /\ e.waitIdr /\ e.waitNext => l.c.idr
               /\ ~e.waitIdr => Asks(l.c)
    <1> DEFINE k == EndFrame(e, f)
               j == DropFrame(k)
               g == [j EXCEPT !.waitNext = FALSE]
               x == CASE k.waitIdr /\ k.waitNext  -> RequestIdr(c)
                      [] k.waitIdr /\ ~k.waitNext -> c
                      [] OTHER                    -> DetectedLoss(c, k.strict, k.start, f)
               y == DropRequests(k, x)
               l == GiveUp(e, c, f)
    <1>0. f + 1 \in Nat
        OBVIOUS
    <1>1. /\ k \in Depacketizers /\ k.start = e.start /\ k.waitRfi = e.waitRfi /\ k.drops = e.drops
          /\ k.strict = e.strict /\ k.idrDone = e.idrDone /\ k.waitIdr = e.waitIdr /\ k.waitNext = e.waitNext
        BY <1>0 DEF Depacketizers, EndFrame
    <1>2. l.d = g /\ l.c = y
        BY DEF GiveUp
    <1> HIDE DEF k, l
    <1>3. (NeedsIdr(k) <=> e.waitIdr) /\ (NeedsIdr(e) <=> e.waitIdr)
        BY <1>1 DEF NeedsIdr, MustWait
    <1>4. /\ j \in Depacketizers /\ ~j.dropPending
          /\ j.waitIdr <=> e.waitIdr \/ AtDropLimit(k)
          /\ j.waitRfi <=> e.waitRfi \/ ~e.waitIdr
        BY <1>1, <1>3, DropFrameFields
    <1> HIDE DEF j
    <1>5. g.dropPending = j.dropPending /\ g.waitIdr = j.waitIdr /\ g.waitRfi = j.waitRfi
        BY <1>4 DEF Depacketizers
    <1> HIDE DEF g
    <1>6. k.strict \in BOOLEAN /\ k.start \in Nat
        BY <1>1 DEF Depacketizers
    <1>7. /\ x \in SoundRequests /\ (c.idr => x.idr) /\ (Asks(c) => Asks(x))
          /\ e.waitIdr /\ e.waitNext => x.idr
          /\ ~e.waitIdr => Asks(x)
          /\ Froms(x) \subseteq Froms(c) \cup {e.start} /\ (e.waitIdr => Froms(x) \subseteq Froms(c))
        <2>1. CASE k.waitIdr /\ k.waitNext
            <3>1. x = RequestIdr(c)
                BY <2>1
            <3> HIDE DEF x
            <3> QED
                BY <1>1, <2>1, <3>1, RequestsStay, RequestIdrDrops DEF Asks
        <2>2. CASE k.waitIdr /\ ~k.waitNext
            <3>1. x = c
                BY <2>2
            <3> HIDE DEF x
            <3> QED
                BY <1>1, <2>2, <3>1
        <2>3. CASE ~k.waitIdr
            <3>1. x = DetectedLoss(c, k.strict, k.start, f)
                BY <2>3
            <3> HIDE DEF x
            <3> QED
                BY <1>1, <1>6, <2>3, <3>1, RequestsStay, LossIsDetected
        <2> QED
            BY <2>1, <2>2, <2>3
    <1> HIDE DEF x
    <1>8. /\ y \in SoundRequests /\ Froms(y) \subseteq Froms(x)
          /\ AtDropLimit(k) \/ x.idr => y.idr
          /\ Asks(x) => Asks(y)
        BY <1>7, DropRequestsKeeps, RequestsStay
    <1> HIDE DEF y
    <1>9. Helped(g, y, e, c)
        BY <1>3, <1>4, <1>5, <1>7, <1>8 DEF Helped
    <1>10. /\ Helped(l.d, l.c, e, c) /\ ~l.d.dropPending
           /\ e.waitIdr /\ e.waitNext => l.c.idr
           /\ ~e.waitIdr => Asks(l.c)
        BY <1>2, <1>4, <1>5, <1>7, <1>8, <1>9
    <1> QED
        BY <1>10 DEF l

(* The first packet of a frame: a gap is noticed, unless an R frame or an  *)
(* IDR frame comes behind it.                                              *)
LEMMA FirstPacketHelps ==
    ASSUME NEW e \in Depacketizers, NEW c \in SoundRequests, NEW f \in Nat, NEW t, ~Old(e, f)
    PROVE  LET g == FirstPacket(e, f, t)
               x == FirstPacketRequests(e, f, c)
           IN  /\ c.idr => x.idr
               /\ Asks(c) => Asks(x)
               /\ t = "I" => ~g.waitIdr /\ ~g.waitRfi
               /\ g.waitIdr => e.waitIdr \/ x.idr \/ (e.next < f /\ NeedsIdr(e))
               /\ g.waitRfi => e.waitRfi \/ (e.next < f /\ ~NeedsIdr(e))
               /\ t # "I" /\ (e.next < f \/ e.waitNext) =>
                     g.waitNext \/ (t = "R" /\ (e.waitRfi \/ (e.next < f /\ ~NeedsIdr(e))))
               /\ g.dropPending => e.dropPending /\ e.next = f
    <1> DEFINE g0 == IF e.next < f THEN [DropFrame(e) EXCEPT !.next = f, !.waitNext = TRUE] ELSE e
               h  == [g0 EXCEPT !.decoding = TRUE]
               g  == FirstPacket(e, f, t)
               x  == FirstPacketRequests(e, f, c)
    <1>1. g0 \in Depacketizers
          /\ (g0.waitIdr => e.waitIdr \/ x.idr \/ (e.next < f /\ NeedsIdr(e)))
          /\ (g0.waitRfi => e.waitRfi \/ (e.next < f /\ ~NeedsIdr(e)))
          /\ (e.next < f \/ e.waitNext => g0.waitNext)
          /\ (g0.dropPending => e.dropPending /\ e.next = f)
          /\ (c.idr => x.idr) /\ (Asks(c) => Asks(x))
        <2>1. CASE e.next < f
            <3> DEFINE k == DropFrame(e)
            <3>1. /\ k \in Depacketizers /\ ~k.dropPending
                  /\ k.waitIdr <=> NeedsIdr(e) \/ AtDropLimit(e)
                  /\ k.waitRfi <=> e.waitRfi \/ ~NeedsIdr(e)
                BY DropFrameFields
            <3> HIDE DEF k
            <3>2. g0 = [k EXCEPT !.next = f, !.waitNext = TRUE]
                BY <2>1 DEF k
            <3> HIDE DEF g0
            <3>3. /\ g0 \in Depacketizers /\ g0.dropPending = k.dropPending
                  /\ g0.waitIdr = k.waitIdr /\ g0.waitRfi = k.waitRfi /\ g0.waitNext
                BY <3>1, <3>2 DEF Depacketizers
            <3>4. x = DropRequests(e, c)
                BY <2>1 DEF FirstPacketRequests
            <3>5. (AtDropLimit(e) \/ c.idr => x.idr) /\ (Asks(c) => Asks(x))
                BY <3>4, RequestsStay
            <3> QED
                BY <2>1, <3>1, <3>3, <3>5
        <2>2. CASE ~(e.next < f)
            <3>1. e.next = f /\ g0 = e
                BY <2>2 DEF Old, Depacketizers
            <3>2. x = c
                BY <2>2 DEF FirstPacketRequests
            <3> HIDE DEF g0, x
            <3> QED
                BY <2>2, <3>1, <3>2
        <2> QED
            BY <2>1, <2>2
    <1>3. g = CASE t = "I" -> IdrBegins(h)
                [] t = "R" /\ h.waitRfi -> [h EXCEPT !.waitRfi = FALSE, !.waitNext = FALSE]
                [] OTHER -> h
        BY DEF FirstPacket
    <1> HIDE DEF g, g0, x
    <1>4. /\ h \in Depacketizers /\ h.dropPending = g0.dropPending
          /\ h.waitIdr = g0.waitIdr /\ h.waitRfi = g0.waitRfi /\ h.waitNext = g0.waitNext
        BY <1>1 DEF Depacketizers
    <1> HIDE DEF h
    <1>5. /\ g.dropPending = h.dropPending
          /\ (t = "I" => ~g.waitIdr /\ ~g.waitRfi)
          /\ (g.waitIdr => h.waitIdr) /\ (g.waitRfi => h.waitRfi)
          /\ (t # "I" /\ h.waitNext => g.waitNext \/ (t = "R" /\ h.waitRfi))
        <2>1. CASE t = "I"
            <3>1. g = [h EXCEPT !.waitIdr = FALSE, !.waitRfi = FALSE, !.waitNext = FALSE]
                BY <1>3, <2>1 DEF IdrBegins
            <3> QED
                BY <1>4, <2>1, <3>1 DEF Depacketizers
        <2>2. CASE t = "R" /\ h.waitRfi
            <3>1. g = [h EXCEPT !.waitRfi = FALSE, !.waitNext = FALSE]
                BY <1>3, <2>2
            <3> QED
                BY <1>4, <2>2, <3>1 DEF Depacketizers
        <2>3. CASE t # "I" /\ ~(t = "R" /\ h.waitRfi)
            <3>1. g = h
                BY <1>3, <2>3
            <3> QED
                BY <1>4, <2>3, <3>1
        <2> QED
            BY <2>1, <2>2, <2>3
    <1>6. /\ c.idr => x.idr
          /\ Asks(c) => Asks(x)
          /\ t = "I" => ~g.waitIdr /\ ~g.waitRfi
          /\ g.waitIdr => e.waitIdr \/ x.idr \/ (e.next < f /\ NeedsIdr(e))
          /\ g.waitRfi => e.waitRfi \/ (e.next < f /\ ~NeedsIdr(e))
          /\ t # "I" /\ (e.next < f \/ e.waitNext) =>
                g.waitNext \/ (t = "R" /\ (e.waitRfi \/ (e.next < f /\ ~NeedsIdr(e))))
          /\ g.dropPending => e.dropPending /\ e.next = f
        BY <1>1, <1>4, <1>5
    <1> QED
        BY <1>6 DEF g, x

(***************************************************************************)
(* The steps and the waits.                                                *)
(***************************************************************************)
(* While the frame of a packet is handed over, it is the last call, and    *)
(* the first frame the depacketizer has yet to get.                        *)
LEMMA AtFrameOut ==
    ASSUME Reception, FrameIsLast(calls), rx \in {"frame"} \cup AtFrame
    PROVE  /\ Len(calls) = 1 /\ NextOut(queue, calls) = Current /\ Current \in Nat /\ Current < queue.frame
           /\ queue.frame \in Nat /\ Current \in DOMAIN sent
           /\ \A i \in DOMAIN calls : calls[i].call = "frame"
    <1>1. Place /\ WorldOK /\ calls \in Seq(Calls) /\ RxOK /\ queue \in Queues
        BY DEF Reception, Place, QueueOK
    <1>2. rx # "recv" /\ rx # "lost"
        BY DEF AtFrame
    <1>3. calls # <<>> /\ Current \in DOMAIN sent /\ Current < queue.frame /\ Head(calls).call = "frame"
        BY <1>1, <1>2, CurrentFrame DEF RxOK
    <1>4. Len(calls) \in Nat /\ 1 \in DOMAIN calls /\ Head(calls) = calls[1] /\ DOMAIN calls = 1 .. Len(calls)
        BY <1>1, <1>3
    <1>5. Len(calls) = 1
        BY <1>3, <1>4 DEF FrameIsLast
    <1>6. NextOut(queue, calls) = Current
        BY <1>3, <1>4, <1>5 DEF NextOut, Current
    <1>7. Current \in Nat
        BY <1>1, <1>3 DEF WorldOK
    <1>8. queue.frame \in Nat
        BY <1>1 DEF Queues
    <1> QED
        BY <1>3, <1>4, <1>5, <1>6, <1>7, <1>8

(* After notifyFrameLost the next call is about a later frame, and what    *)
(* the depacketizer has yet to get is the same.                            *)
LEMMA LossReturns ==
    ASSUME Reception, FrameIsLast(calls), rx = "lost", Return, queue' = queue
    PROVE  /\ FrameIsLast(calls') /\ rx' \in Between /\ NextOut(queue', calls') = NextOut(queue, calls)
           /\ \A i \in DOMAIN calls' : \E j \in DOMAIN calls : calls'[i] = calls[j]
           /\ \E j \in DOMAIN calls : calls[j].call = "lost" /\ calls[j].frame = Current
           /\ rx' = "lost" => Current < Current' /\ Current' \in Nat
    <1>1. Place /\ WorldOK /\ calls \in Seq(Calls) /\ RxOK /\ CallsGrow
        BY DEF Reception, Place, QueueOK
    <1>2. calls # <<>> /\ Head(calls).call = "lost"
        BY <1>1, CurrentFrame DEF RxOK
    <1> DEFINE n == Len(calls)
               t == Tail(calls)
    <1>3. /\ n \in Nat /\ DOMAIN calls = 1 .. n /\ n # 0 /\ Head(calls) = calls[1] /\ n <= 2
          /\ t \in Seq(Calls) /\ Len(t) = n - 1 /\ DOMAIN t = 1 .. n - 1
          /\ \A i \in 1 .. n - 1 : t[i] = calls[i + 1]
        BY <1>1, <1>2 DEF CallsGrow
    <1>4. calls' = t /\ rx' = IF t = <<>> THEN "recv" ELSE Head(t).call
        BY DEF Return
    <1> HIDE DEF n, t
    <1>5. FrameIsLast(t)
        <2> SUFFICES ASSUME NEW i \in 1 .. n - 1, t[i].call = "frame"
                     PROVE  i = n - 1
            BY <1>3 DEF FrameIsLast
        <2>1. i + 1 \in 1 .. n /\ calls[i + 1].call = "frame"
            BY <1>3
        <2>2. i + 1 = n
            BY <1>3, <2>1 DEF FrameIsLast, n
        <2> QED
            BY <1>3, <2>2
    <1>6. NextOut(queue, t) = NextOut(queue, calls)
        <2>1. CASE t = <<>>
            <3>1. n = 1
                BY <1>3, <2>1
            <3>2. calls[Len(calls)].call # "frame"
                BY <1>2, <1>3, <3>1 DEF n
            <3> QED
                BY <2>1, <3>2 DEF NextOut
        <2>2. CASE t # <<>>
            <3>1. Len(t) # 0
                BY <1>3, <2>2
            <3>2. t[Len(t)] = calls[Len(calls)]
                BY <1>3, <3>1 DEF n
            <3> QED
                BY <1>2, <2>2, <3>2 DEF NextOut
        <2> QED
            BY <2>1, <2>2
    <1>7. \A i \in DOMAIN t : \E j \in DOMAIN calls : t[i] = calls[j]
        <2> SUFFICES ASSUME NEW i \in 1 .. n - 1 PROVE \E j \in DOMAIN calls : t[i] = calls[j]
            BY <1>3
        <2>1. i + 1 \in DOMAIN calls /\ t[i] = calls[i + 1]
            BY <1>3
        <2> QED
            BY <2>1
    <1>8. \E j \in DOMAIN calls : calls[j].call = "lost" /\ calls[j].frame = Current
        <2>1. 1 \in DOMAIN calls
            BY <1>3
        <2> QED
            BY <1>2, <1>3, <2>1 DEF Current
    <1>9. rx' \in Between
        <2>1. t # <<>> => Head(t) \in Calls
            BY <1>3
        <2> QED
            BY <1>4, <2>1 DEF Calls, Between
    <1>10. rx' = "lost" => Current < Current' /\ Current' \in Nat
        <2> SUFFICES ASSUME rx' = "lost" PROVE Current < Current' /\ Current' \in Nat
            OBVIOUS
        <2>1. t # <<>>
            BY <1>4
        <2>2. n = 2 /\ Head(t) = calls[2] /\ 2 \in DOMAIN calls
            BY <1>3, <2>1
        <2>3. Current' = calls[2].frame /\ Current = calls[1].frame
            BY <1>3, <1>4, <2>2 DEF Current
        <2>4. calls[1].frame < calls[2].frame
            BY <1>1, <2>2 DEF CallsGrow
        <2>5. calls[2] \in Calls
            BY <1>1, <2>2
        <2> QED
            BY <2>3, <2>4, <2>5 DEF Calls
    <1> QED
        BY <1>4, <1>5, <1>6, <1>7, <1>8, <1>9, <1>10

(* The call about a frame is the last one about its packet.                *)
LEMMA FrameReturns ==
    ASSUME Reception, FrameIsLast(calls), rx \in {"frame"} \cup AtFrame, Return
    PROVE  calls' = <<>> /\ rx' = "recv" /\ FrameIsLast(calls')
    <1>1. Len(calls) = 1 /\ calls \in Seq(Calls)
        BY AtFrameOut DEF Reception, Place, QueueOK
    <1>2. Tail(calls) = <<>>
        <2>1. calls # <<>>
            BY <1>1
        <2> DEFINE t == Tail(calls)
        <2>2. t \in Seq(Calls) /\ Len(t) = 0
            BY <1>1, <2>1
        <2> HIDE DEF t
        <2>3. t = <<>>
            BY <2>2, EmptySeq
        <2> QED
            BY <2>3 DEF t
    <1> QED
        BY <1>2 DEF Return, FrameIsLast

(* The queue passes frames in order: with one, all before it.              *)
LEMMA PassedBefore ==
    ASSUME NEW q \in Queues, NEW cs, NextOut(q, cs) \in Nat, NEW f \in Int, NEW g \in Int, Passed(q, cs, f), g <= f
    PROVE  Passed(q, cs, g)
    <1>1. q.frame \in Nat
        BY DEF Queues
    <1> QED
        BY <1>1 DEF Passed

(* Once the frame is the decoder's or dropped, all before the              *)
(* depacketizer's next one are passed.                                     *)
LEMMA FrameFollows ==
    ASSUME Reception, FrameIsLast(calls), rx \in {"frame"} \cup AtFrame, Return, queue' = queue,
           d'.next \in Nat, d'.next <= Current + 1
    PROVE  Follows'
    <1>1. calls' = <<>> /\ rx' = "recv"
        BY FrameReturns
    <1>2. Current \in Nat /\ Current < queue.frame /\ queue.frame \in Nat
        BY AtFrameOut
    <1>3. NextOut(queue, <<>>) = queue.frame
        BY DEF NextOut
    <1>4. Passed(queue, <<>>, d'.next - 1)
        BY <1>2, <1>3 DEF Passed
    <1>5. DOMAIN calls' = {}
        BY <1>1
    <1> QED
        BY <1>1, <1>4, <1>5 DEF Follows

(* Ranges still start at a frame the decoder has, behind the first.        *)
LEMMA HelpedCanAsk ==
    ASSUME CanAsk, d \in Depacketizers, SamePlace(d', d), Helped(d', requests', d, requests)
    PROVE  CanAsk'
    <1>1. /\ d'.start = d.start /\ d'.strict = d.strict /\ d'.idrDone = d.idrDone
          /\ (d.waitRfi => ~d.strict /\ d.idrDone) /\ (d.idrDone => d.start > 0)
          /\ \A r \in Froms(requests) : r > 0
        BY DEF SamePlace, CanAsk
    <1>2. /\ d'.waitRfi => d.waitRfi \/ ~NeedsIdr(d)
          /\ Froms(requests') \subseteq Froms(requests) \cup {d.start} /\ (NeedsIdr(d) => Froms(requests') \subseteq Froms(requests))
        BY DEF Helped
    <1>3. ~NeedsIdr(d) => ~d.strict /\ d.idrDone
        BY DEF NeedsIdr
    <1>4. d'.waitRfi => ~d'.strict /\ d'.idrDone
        BY <1>1, <1>2, <1>3
    <1>5. \A r \in Froms(requests') : r > 0
        BY <1>1, <1>2, <1>3
    <1> QED
        BY <1>1, <1>4, <1>5 DEF CanAsk

(* An IDR frame or a range that is due stays due when requests stay and no *)
(* frame that is to come is skipped.                                       *)
LEMMA DueStays ==
    ASSUME sent' = sent, host' = host, taken' = taken, dec' = dec, requests.idr => requests'.idr,
           Asks(requests) => Asks(requests'), rx = "flush" => requests'.idr,
           \A f \in DOMAIN sent : ToCome(f) => ToCome(f)'
    PROVE  /\ IdrIsDue => IdrIsDue'
           /\ IdrIsDue \/ RangeIsDue => IdrIsDue' \/ RangeIsDue'
    BY DEF IdrIsDue, RangeIsDue, Asks

(* notifyFrameLost keeps the waits.                                        *)
LEMMA LostWaits ==
    ASSUME Reception, Waits, NotifyFrameLost
    PROVE  Waits'
    <1> DEFINE l == FrameLost(d, requests, Current)
    <1>1. /\ rx = "lost" /\ d' = l.d /\ requests' = l.c /\ Return
          /\ UNCHANGED <<queue, dec, taken, sent, host, revived>>
        BY DEF NotifyFrameLost, decoding, world
    <1>2. d \in Depacketizers /\ requests \in SoundRequests /\ queue \in Queues /\ Current \in Nat /\ d.next \in Nat
        <2>1. Current \in Nat
            BY <1>1, Numbers
        <2> QED
            BY <2>1 DEF Reception, Place, DepacketizerOK, RequestsOK, QueueOK, Depacketizers
    <1>3. /\ Helped(l.d, l.c, d, requests) /\ ~l.d.dropPending /\ l.d.waitNext = d.waitNext
          /\ ~l.d.waitIdr => Asks(l.c)
        BY <1>2, LossIsHelped
    <1>4. Dropped(l.d, d) /\ (l.d.waitIdr => l.d.next = d.next) /\ (~l.d.waitIdr => l.d.next = Current + 1)
        BY <1>2, FrameLostFields
    <1> HIDE DEF l
    <1>5. FrameIsLast(calls) /\ CanAsk /\ RangeIsAsked /\ DropIsRefreshed /\ (~revived => Follows /\ IdrIsComing)
        BY DEF Waits
    <1>6. /\ FrameIsLast(calls') /\ rx' \in Between /\ NextOut(queue', calls') = NextOut(queue, calls)
          /\ \A i \in DOMAIN calls' : \E j \in DOMAIN calls : calls'[i] = calls[j]
          /\ \E j \in DOMAIN calls : calls[j].call = "lost" /\ calls[j].frame = Current
          /\ rx' = "lost" => Current < Current' /\ Current' \in Nat
        BY <1>1, <1>5, LossReturns
    <1>7. CanAsk'
        BY <1>1, <1>2, <1>3, <1>4, <1>5, HelpedCanAsk DEF Dropped
    <1>8. d'.waitIdr => /\ IdrIsDue => IdrIsDue'
                        /\ IdrIsDue \/ RangeIsDue => IdrIsDue' \/ RangeIsDue'
        <2> SUFFICES ASSUME d'.waitIdr
                     PROVE  /\ IdrIsDue => IdrIsDue'
                            /\ IdrIsDue \/ RangeIsDue => IdrIsDue' \/ RangeIsDue'
            OBVIOUS
        <2>1. \A f \in DOMAIN sent : ToCome(f) => ToCome(f)'
            BY <1>1, <1>4, <1>6 DEF ToCome, Between
        <2>2. (requests.idr => requests'.idr) /\ (Asks(requests) => Asks(requests'))
            BY <1>1, <1>3 DEF Helped
        <2> QED
            BY <1>1, <2>1, <2>2, DueStays
    <1>9. d'.waitIdr => requests'.idr \/ NeedsIdr(d)
        BY <1>1, <1>3 DEF Helped
    <1>10. d'.waitRfi => d.waitRfi \/ ~NeedsIdr(d)
        BY <1>1, <1>3 DEF Helped
    <1>11. (requests'.idr => IdrIsDue') /\ (Asks(requests') => IdrIsDue' \/ RangeIsDue')
        BY DEF IdrIsDue, RangeIsDue, Asks
    <1>12. RangeIsAsked'
        <2>1. ASSUME d'.waitRfi, d'.waitIdr, ~requests'.idr
              PROVE  IdrIsDue'
            <3>1. d.waitRfi /\ NeedsIdr(d)
                BY <1>9, <1>10, <2>1
            <3>2. d.waitIdr
                BY <1>5, <3>1 DEF CanAsk, NeedsIdr
            <3> QED
                BY <1>1, <1>5, <1>8, <2>1, <3>1, <3>2 DEF RangeIsAsked
        <2>2. d'.waitRfi /\ d'.waitIdr => IdrIsDue'
            BY <1>11, <2>1
        <2>3. ~d'.waitIdr => IdrIsDue' \/ RangeIsDue'
            BY <1>1, <1>3, <1>11
        <2> QED
            BY <2>2, <2>3 DEF RangeIsAsked
    <1>13. DropIsRefreshed'
        BY <1>1, <1>3 DEF DropIsRefreshed
    <1>14. ASSUME ~revived'
           PROVE  Follows' /\ IdrIsComing'
        <2>1. Follows /\ IdrIsComing
            BY <1>1, <1>5, <1>14
        <2>2. Passed(queue, calls, Current) /\ d.next <= Current
            BY <1>1, <1>6, <2>1 DEF Follows
        <2>3. \A f : Passed(queue', calls', f) <=> Passed(queue, calls, f)
            BY <1>1, <1>6 DEF Passed
        <2>4. Passed(queue, calls, d.next - 1)
            BY <1>1, <2>1 DEF Follows, Between
        <2>5. Passed(queue', calls', d'.next - 1)
            <3>1. d'.next = d.next \/ d'.next - 1 = Current
                BY <1>1, <1>2, <1>4
            <3> QED
                BY <2>2, <2>3, <2>4, <3>1
        <2>6. rx' = "lost" => d'.next <= Current'
            BY <1>1, <1>2, <1>4, <1>6, <2>2
        <2>7. \A i \in DOMAIN calls' : calls'[i].call = "lost" => Passed(queue', calls', calls'[i].frame)
            BY <1>6, <2>1, <2>3 DEF Follows
        <2>8. Follows'
            BY <2>5, <2>6, <2>7 DEF Follows
        <2>9. d'.waitIdr => Passed(queue', calls', d'.next)
            <3> SUFFICES ASSUME d'.waitIdr PROVE Passed(queue, calls, d.next)
                BY <1>1, <1>4, <2>3
            <3>1. NextOut(queue, calls) \in Nat
                <4>1. queue.frame \in Nat /\ calls \in Seq(Calls)
                    BY <1>2 DEF Queues, Reception, Place, QueueOK
                <4>2. calls # <<>> => calls[Len(calls)] \in Calls
                    BY <4>1
                <4> QED
                    BY <4>1, <4>2 DEF NextOut, Calls
            <3> QED
                BY <1>2, <2>2, <3>1, PassedBefore
        <2>10. IdrIsComing'
            BY <1>6, <2>9 DEF IdrIsComing
        <2> QED
            BY <2>8, <2>10
    <1> QED
        BY <1>6, <1>7, <1>12, <1>13, <1>14 DEF Waits

(* A frame before the next one is dropped: only one that was reported lost *)
(* and came after all is.                                                  *)
LEMMA OldWaits ==
    ASSUME Reception, Waits, OldFrame
    PROVE  Waits'
    <1>1. /\ rx = "frame" /\ Current < d.next /\ Return
          /\ UNCHANGED <<queue, d, dec, requests, taken, sent, host, revived>>
        BY DEF OldFrame, Old, decoding, asking, world
    <1>2. FrameIsLast(calls) /\ CanAsk /\ RangeIsAsked /\ DropIsRefreshed /\ (~revived => Follows /\ IdrIsComing)
        BY DEF Waits
    <1>3. rx' = "recv" /\ FrameIsLast(calls')
        BY <1>1, <1>2, FrameReturns
    <1>4. /\ NextOut(queue, calls) = Current /\ Current \in Nat /\ Current < queue.frame /\ queue.frame \in Nat /\ d.next \in Nat
        BY <1>1, <1>2, AtFrameOut, Numbers
    <1>5. CanAsk'
        BY <1>1, <1>2 DEF CanAsk
    <1>6. \A f \in DOMAIN sent : ToCome(f) => ToCome(f)'
        BY <1>1, <1>3 DEF ToCome
    <1>7. /\ IdrIsDue => IdrIsDue'
          /\ IdrIsDue \/ RangeIsDue => IdrIsDue' \/ RangeIsDue'
        <2>1. (requests.idr => requests'.idr) /\ (Asks(requests) => Asks(requests'))
            BY <1>1
        <2> QED
            BY <1>1, <1>6, <2>1, DueStays
    <1>8. RangeIsAsked'
        BY <1>1, <1>2, <1>3, <1>7 DEF RangeIsAsked
    <1>9. DropIsRefreshed'
        BY <1>1, <1>2, <1>3, <1>7 DEF DropIsRefreshed
    <1>10. revived
        <2> SUFFICES ASSUME ~revived PROVE FALSE
            OBVIOUS
        <2>1. Passed(queue, calls, d.next - 1)
            BY <1>1, <1>2 DEF Follows, Between
        <2> QED
            BY <1>1, <1>4, <2>1 DEF Passed
    <1> QED
        BY <1>1, <1>3, <1>5, <1>8, <1>9, <1>10 DEF Waits

(* The first packet of a frame keeps the waits: a frame that helps ends    *)
(* them, one behind a gap leads to a request when it is given up.          *)
LEMMA StartWaits ==
    ASSUME Reception, FramesRefer, RangesKnown, Waits, StartFrame
    PROVE  Waits'
    <1> DEFINE t == sent[Current].type
    <1>1. /\ rx = "frame" /\ rx' = "last" /\ ~Old(d, Current)
          /\ d' = FirstPacket(d, Current, t) /\ requests' = FirstPacketRequests(d, Current, requests)
          /\ UNCHANGED <<queue, calls, dec, taken, sent, host, revived>>
        BY DEF StartFrame, decoding, world
    <1>2. FrameIsLast(calls) /\ CanAsk /\ RangeIsAsked /\ DropIsRefreshed /\ (~revived => Follows /\ IdrIsComing)
        BY DEF Waits
    <1>3. /\ NextOut(queue, calls) = Current /\ Current \in Nat /\ Current < queue.frame /\ queue.frame \in Nat
          /\ Current \in DOMAIN sent /\ \A i \in DOMAIN calls : calls[i].call = "frame"
        BY <1>1, <1>2, AtFrameOut
    <1>4. d \in Depacketizers /\ requests \in SoundRequests /\ d.next \in Nat /\ d.start \in Nat /\ d.start <= d.next
          /\ DOMAIN sent \subseteq Nat
        BY Numbers DEF Reception, RequestsOK
    <1>5. d.next <= Current
        BY <1>1, <1>3, <1>4 DEF Old
    <1>6. /\ requests.idr => requests'.idr
          /\ Asks(requests) => Asks(requests')
          /\ t = "I" => ~d'.waitIdr /\ ~d'.waitRfi
          /\ d'.waitIdr => d.waitIdr \/ requests'.idr \/ (d.next < Current /\ NeedsIdr(d))
          /\ d'.waitRfi => d.waitRfi \/ (d.next < Current /\ ~NeedsIdr(d))
          /\ t # "I" /\ (d.next < Current \/ d.waitNext) =>
                d'.waitNext \/ (t = "R" /\ (d.waitRfi \/ (d.next < Current /\ ~NeedsIdr(d))))
          /\ d'.dropPending => d.dropPending /\ d.next = Current
        BY <1>1, <1>3, <1>4, FirstPacketHelps
    <1>7. SamePlace(d', d) /\ d'.next = Current
        BY <1>1, <1>3, <1>4, FirstPacketFields
    <1>8. Froms(requests') \subseteq Froms(requests)
        BY <1>1, <1>3, <1>4, CallsForHelp
    <1>9. Current' = Current
        BY <1>1 DEF Current
    <1>10. \A f \in DOMAIN sent : ToCome(f) => ToCome(f)' \/ f <= Current
        BY <1>1, <1>3, <1>4, <1>7, <1>9 DEF ToCome
    <1> HIDE DEF t
    <1>11. ASSUME t # "I", IdrIsDue, ~IdrIsDue'
           PROVE  d.next < Current /\ t # "R"
        <2>1. PICK f \in DOMAIN sent : ToCome(f) /\ sent[f].type = "I"
            BY <1>1, <1>6, <1>11 DEF IdrIsDue
        <2>2. f <= Current /\ d.next <= f /\ f \in Nat
            BY <1>1, <1>4, <1>10, <1>11, <2>1 DEF IdrIsDue, ToCome
        <2>3. f # Current
            BY <1>11, <2>1 DEF t
        <2>4. ASSUME t = "R"
              PROVE  FALSE
            <3>1. sent[Current].ref < d.start /\ sent[Current].ref \in Nat
                BY <1>3, <1>11, <2>4, RefIsEarlier DEF RangesKnown, t
            <3>2. ~(sent[Current].ref < f /\ f <= Current)
                BY <1>3, <1>11, <2>1, NoIdrBetween DEF t
            <3> QED
                BY <1>4, <2>2, <3>1, <3>2
        <2> QED
            BY <1>3, <1>4, <2>2, <2>3, <2>4
    <1>12. CanAsk'
        <2>1. /\ d'.start = d.start /\ d'.strict = d.strict /\ d'.idrDone = d.idrDone
            BY <1>7 DEF SamePlace
        <2>2. ~NeedsIdr(d) => ~d.strict /\ d.idrDone
            BY DEF NeedsIdr
        <2>3. d'.waitRfi => ~d'.strict /\ d'.idrDone
            BY <1>2, <1>6, <2>1, <2>2 DEF CanAsk
        <2> QED
            BY <1>2, <1>8, <2>1, <2>3 DEF CanAsk
    <1>13. d.waitRfi /\ d.waitIdr => IdrIsDue
        BY <1>1, <1>2 DEF RangeIsAsked
    <1>14. ASSUME d'.waitIdr, ~IdrIsDue', ~d'.waitNext
           PROVE  d.waitIdr /\ ~d.waitRfi /\ d.next = Current /\ ~d.waitNext /\ ~IdrIsDue
        <2>1. t # "I"
            BY <1>6, <1>14
        <2>2. ~requests'.idr
            BY <1>14 DEF IdrIsDue
        <2>3. d.waitRfi /\ NeedsIdr(d) => d.waitIdr
            BY <1>2 DEF CanAsk, NeedsIdr
        <2>4. d.waitIdr => NeedsIdr(d)
            BY DEF NeedsIdr
        <2>5. d.waitIdr \/ (d.next < Current /\ NeedsIdr(d))
            BY <1>6, <1>14, <2>2
        <2>6. NeedsIdr(d)
            BY <2>4, <2>5
        <2>7. d.next < Current \/ d.waitNext => t = "R" /\ d.waitRfi
            BY <1>6, <1>14, <2>1, <2>6
        <2>8. ~d.waitRfi
            <3> SUFFICES ASSUME d.waitRfi PROVE FALSE
                OBVIOUS
            <3>1. IdrIsDue
                BY <1>13, <2>3, <2>6
            <3>2. d.next < Current /\ t # "R"
                BY <1>11, <1>14, <2>1, <3>1
            <3> QED
                BY <2>7, <3>2
        <2>9. d.next = Current /\ ~d.waitNext
            BY <1>3, <1>4, <1>5, <2>7, <2>8
        <2>10. d.waitIdr
            BY <1>3, <2>5, <2>9
        <2>11. ~IdrIsDue
            BY <1>3, <1>11, <1>14, <2>1, <2>9
        <2> QED
            BY <2>8, <2>9, <2>10, <2>11
    <1>15. RangeIsAsked'
        <2>1. ASSUME d'.waitRfi, d'.waitIdr, ~IdrIsDue', ~d'.waitNext
              PROVE  FALSE
            <3>1. d.waitIdr /\ ~d.waitRfi /\ d.next = Current
                BY <1>14, <2>1
            <3> QED
                BY <1>3, <1>6, <2>1, <3>1
        <2> QED
            BY <1>1, <2>1 DEF RangeIsAsked
    <1>16. DropIsRefreshed'
        <2> SUFFICES ASSUME d'.dropPending, sent[Current].type # "I"
                     PROVE  IdrIsDue'
            BY <1>1, <1>9 DEF DropIsRefreshed
        <2>1. d.dropPending /\ d.next = Current
            BY <1>6
        <2>2. IdrIsDue
            BY <1>1, <1>2, <2>1 DEF DropIsRefreshed
        <2> QED
            BY <1>3, <1>11, <2>1, <2>2 DEF t
    <1>17. Follows'
        BY <1>1, <1>3 DEF Follows, Between
    <1>18. ASSUME ~revived'
           PROVE  IdrIsComing'
        <2> SUFFICES ASSUME d'.waitIdr, ~IdrIsDue', ~d'.waitNext
                     PROVE  FALSE
            BY DEF IdrIsComing
        <2>1. d.waitIdr /\ d.next = Current /\ ~d.waitNext /\ ~IdrIsDue
            BY <1>14
        <2>2. sent # <<>>
            BY <1>3
        <2>3. Passed(queue, calls, Current)
            BY <1>1, <1>2, <1>18, <2>1, <2>2 DEF IdrIsComing
        <2> QED
            BY <1>3, <2>3 DEF Passed
    <1> QED
        BY <1>1, <1>2, <1>12, <1>15, <1>16, <1>17, <1>18 DEF Waits

(* A frame that was begun is given up: the waits are kept.                 *)
LEMMA GivenUpWaits ==
    ASSUME Reception, Waits, RejectFrame \/ DropUndecodable
    PROVE  Waits'
    <1>1. /\ rx = "last" /\ Return
          /\ UNCHANGED <<queue, dec, taken, sent, host, revived>>
        BY DEF RejectFrame, DropUndecodable, decoding, world
    <1>2. FrameIsLast(calls) /\ CanAsk /\ RangeIsAsked /\ DropIsRefreshed /\ (~revived => Follows /\ IdrIsComing)
        BY DEF Waits
    <1>3. rx' = "recv" /\ FrameIsLast(calls') /\ rx \in {"frame"} \cup AtFrame
        BY <1>1, <1>2, FrameReturns DEF AtFrame
    <1>4. d \in Depacketizers /\ requests \in SoundRequests /\ d.next \in Nat /\ Current \in Nat /\ Current \in DOMAIN sent
          /\ DOMAIN sent \subseteq Nat
        BY <1>1, Numbers DEF Reception, RequestsOK
    <1>5. /\ Helped(d', requests', d, requests) /\ ~d'.dropPending /\ Dropped(d', d) /\ d'.next = Current + 1
          /\ ~d'.waitIdr => Asks(requests')
          /\ \/ d'.waitIdr => requests'.idr
             \/ /\ MustWait(d) /\ (d.waitIdr /\ d.waitNext => requests'.idr)
                /\ ~d.waitIdr => Asks(requests')
        <2>1. CASE RejectFrame
            <3> DEFINE l == CorruptFrame(d, requests, Current)
            <3>1. d' = l.d /\ requests' = l.c
                BY <2>1 DEF RejectFrame
            <3>2. /\ Helped(l.d, l.c, d, requests) /\ ~l.d.dropPending
                  /\ IF l.d.waitIdr THEN l.c.idr ELSE Asks(l.c)
                BY <1>4, DamageIsHelped
            <3>3. Dropped(l.d, d) /\ l.d.next = Current + 1
                BY <1>4, CorruptFrameFields
            <3> HIDE DEF l
            <3> QED
                BY <3>1, <3>2, <3>3
        <2>2. CASE DropUndecodable
            <3> DEFINE l == GiveUp(d, requests, Current)
            <3>1. d' = l.d /\ requests' = l.c /\ MustWait(d)
                BY <2>2 DEF DropUndecodable
            <3>2. /\ Helped(l.d, l.c, d, requests) /\ ~l.d.dropPending
                  /\ d.waitIdr /\ d.waitNext => l.c.idr
                  /\ ~d.waitIdr => Asks(l.c)
                BY <1>2, <1>4, <3>1, GiveUpIsHelped DEF CanAsk
            <3>3. Dropped(l.d, d) /\ l.d.next = Current + 1
                BY <1>4, GiveUpFields
            <3> HIDE DEF l
            <3>4. ~d'.waitIdr => ~d.waitIdr
                BY <3>1, <3>3 DEF Dropped
            <3> QED
                BY <3>1, <3>2, <3>3, <3>4
        <2> QED
            BY <2>1, <2>2
    <1>6. CanAsk'
        BY <1>2, <1>4, <1>5, HelpedCanAsk DEF Dropped
    <1>7. IdrIsDue => IdrIsDue'
        <2>1. \A f \in DOMAIN sent : ToCome(f) => ToCome(f)'
            BY <1>1, <1>3, <1>4, <1>5 DEF ToCome
        <2>2. (requests.idr => requests'.idr) /\ (Asks(requests) => Asks(requests'))
            BY <1>5 DEF Helped
        <2> QED
            BY <1>1, <2>1, <2>2, DueStays
    <1>8. /\ d'.waitIdr => requests'.idr \/ NeedsIdr(d)
          /\ d'.waitRfi => d.waitRfi \/ ~NeedsIdr(d)
        BY <1>5 DEF Helped
    <1>9. (requests'.idr => IdrIsDue') /\ (Asks(requests') => IdrIsDue' \/ RangeIsDue')
        BY DEF IdrIsDue, RangeIsDue, Asks
    <1>10. ASSUME d'.waitIdr, ~IdrIsDue'
           PROVE  d.waitIdr /\ ~d.waitNext /\ (d'.waitRfi => d.waitRfi)
        <2>1. ~requests'.idr
            BY <1>9, <1>10
        <2>2. NeedsIdr(d) /\ MustWait(d) /\ (d.waitIdr /\ d.waitNext => requests'.idr)
            BY <1>5, <1>8, <1>10, <2>1
        <2>3. d.waitIdr
            BY <1>2, <2>2 DEF CanAsk, NeedsIdr, MustWait
        <2> QED
            BY <1>8, <2>1, <2>2, <2>3
    <1>11. RangeIsAsked'
        <2>1. ASSUME d'.waitRfi, d'.waitIdr, ~IdrIsDue'
              PROVE  FALSE
            <3>1. d.waitIdr /\ ~d.waitNext /\ d.waitRfi
                BY <1>10, <2>1
            <3> QED
                BY <1>2, <1>7, <2>1, <3>1 DEF RangeIsAsked
        <2> QED
            BY <1>5, <1>9, <2>1 DEF RangeIsAsked
    <1>12. DropIsRefreshed'
        BY <1>5 DEF DropIsRefreshed
    <1>13. Follows'
        <2>1. d'.next \in Nat /\ d'.next <= Current + 1
            BY <1>4, <1>5
        <2> QED
            BY <1>1, <1>2, <1>3, <2>1, FrameFollows
    <1>14. ASSUME ~revived'
           PROVE  IdrIsComing'
        <2>1. ASSUME d'.waitIdr, ~IdrIsDue'
              PROVE  FALSE
            <3>1. d.waitIdr /\ ~d.waitNext
                BY <1>10, <2>1
            <3>2. sent # <<>>
                BY <1>4
            <3>3. IdrIsDue
                BY <1>1, <1>2, <1>14, <3>1, <3>2 DEF IdrIsComing, Between
            <3> QED
                BY <1>7, <2>1, <3>3
        <2> QED
            BY <2>1 DEF IdrIsComing
    <1> QED
        BY <1>3, <1>6, <1>11, <1>12, <1>13, <1>14 DEF Waits

(* A frame is dropped for the sake of a refresh, which is due.             *)
LEMMA DropWaits ==
    ASSUME Reception, Waits, DropPendingFrame
    PROVE  Waits'
    <1>1. /\ rx = "pending" /\ Return /\ d.dropPending /\ sent[Current].type # "I"
          /\ d' = DropFrame(d) /\ requests' = DropRequests(d, requests)
          /\ UNCHANGED <<queue, dec, taken, sent, host, revived>>
        BY DEF DropPendingFrame, decoding, world
    <1>2. FrameIsLast(calls) /\ CanAsk /\ RangeIsAsked /\ DropIsRefreshed /\ (~revived => Follows /\ IdrIsComing)
        BY DEF Waits
    <1>3. rx' = "recv" /\ FrameIsLast(calls') /\ rx \in {"frame"} \cup AtFrame
        BY <1>1, <1>2, FrameReturns DEF AtFrame
    <1>4. d \in Depacketizers /\ requests \in SoundRequests /\ d.next \in Nat /\ Current \in Nat /\ d.next <= Current + 1
        BY <1>1, Numbers DEF Reception, RequestsOK
    <1>5. /\ ~d'.dropPending /\ d'.next = d.next
          /\ d'.start = d.start /\ d'.strict = d.strict /\ d'.idrDone = d.idrDone
          /\ d'.waitRfi <=> d.waitRfi \/ ~NeedsIdr(d)
        BY <1>1, <1>4, DropFrameFields
    <1>6. Froms(requests') \subseteq Froms(requests) /\ (requests.idr => requests'.idr)
          /\ (Asks(requests) => Asks(requests'))
        BY <1>1, <1>4, DropRequestsKeeps, RequestsStay
    <1>7. IdrIsDue'
        <2>1. IdrIsDue
            BY <1>1, <1>2 DEF DropIsRefreshed
        <2>2. \A f \in DOMAIN sent : ToCome(f) => ToCome(f)'
            BY <1>1, <1>3, <1>5 DEF ToCome
        <2> QED
            BY <1>1, <1>6, <2>1, <2>2, DueStays
    <1>8. CanAsk'
        <2>1. ~NeedsIdr(d) => ~d.strict /\ d.idrDone
            BY DEF NeedsIdr
        <2>2. d'.waitRfi => ~d'.strict /\ d'.idrDone
            BY <1>2, <1>5, <2>1 DEF CanAsk
        <2> QED
            BY <1>2, <1>5, <1>6, <2>2 DEF CanAsk
    <1>9. Follows'
        BY <1>1, <1>2, <1>3, <1>4, <1>5, FrameFollows
    <1> QED
        BY <1>3, <1>5, <1>7, <1>8, <1>9 DEF Waits, RangeIsAsked, DropIsRefreshed, IdrIsComing

(* A frame the decoder can use has ended: nothing is waited for.           *)
LEMMA CompleteWaits ==
    ASSUME Reception, Waits, CompleteFrame
    PROVE  Waits'
    <1>1. /\ rx = "last" /\ rx' = "pending" /\ ~MustWait(d) /\ d' = EndFrame(d, Current)
          /\ UNCHANGED <<queue, calls, dec, requests, taken, sent, host, revived>>
        BY DEF CompleteFrame, decoding, world, asking
    <1>2. FrameIsLast(calls) /\ CanAsk /\ RangeIsAsked /\ DropIsRefreshed /\ (~revived => Follows /\ IdrIsComing)
        BY DEF Waits
    <1>3. d \in Depacketizers /\ d.next \in Nat /\ Current \in Nat /\ DOMAIN sent \subseteq Nat
        BY <1>1, Numbers
    <1>4. /\ d'.next = Current + 1 /\ d'.start = d.start
          /\ d'.strict = d.strict /\ d'.idrDone = d.idrDone /\ d'.dropPending = d.dropPending
          /\ d'.waitIdr = d.waitIdr /\ d'.waitRfi = d.waitRfi
        BY <1>1, <1>3, EndFrameFields
    <1>5. Current' = Current
        BY <1>1 DEF Current
    <1>6. IdrIsDue => IdrIsDue'
        <2>1. \A f \in DOMAIN sent : ToCome(f) => ToCome(f)'
            BY <1>1, <1>3, <1>4 DEF ToCome
        <2>2. (requests.idr => requests'.idr) /\ (Asks(requests) => Asks(requests'))
            BY <1>1
        <2> QED
            BY <1>1, <2>1, <2>2, DueStays
    <1>7. CanAsk'
        BY <1>1, <1>2, <1>4 DEF CanAsk
    <1>8. ~d'.waitIdr /\ ~d'.waitRfi
        BY <1>1, <1>4 DEF MustWait
    <1>9. DropIsRefreshed'
        BY <1>1, <1>2, <1>4, <1>5, <1>6 DEF DropIsRefreshed
    <1>10. Follows'
        <2>1. \A i \in DOMAIN calls : calls[i].call = "frame"
            BY <1>1, <1>2, AtFrameOut DEF AtFrame
        <2> QED
            BY <1>1, <2>1 DEF Follows, Between
    <1> QED
        BY <1>1, <1>2, <1>7, <1>8, <1>9, <1>10 DEF Waits, RangeIsAsked, IdrIsComing

(* A frame is kept: an IDR frame ends the refresh.                         *)
LEMMA KeepWaits ==
    ASSUME Reception, Waits, KeepFrame
    PROVE  Waits'
    <1>1. /\ rx = "pending" /\ rx' \in {"submit", "offer"} /\ d' = [d EXCEPT !.dropPending = FALSE]
          /\ UNCHANGED <<queue, calls, dec, requests, taken, sent, host, revived>>
        BY DEF KeepFrame, decoding, world, asking
    <1>2. FrameIsLast(calls) /\ CanAsk /\ RangeIsAsked /\ DropIsRefreshed /\ (~revived => Follows /\ IdrIsComing)
        BY DEF Waits
    <1>3. d \in Depacketizers
        BY Numbers
    <1>4. /\ d'.next = d.next /\ d'.start = d.start /\ d'.waitNext = d.waitNext
          /\ d'.strict = d.strict /\ d'.idrDone = d.idrDone /\ ~d'.dropPending
          /\ d'.waitIdr = d.waitIdr /\ d'.waitRfi = d.waitRfi
        BY <1>1, <1>3 DEF Depacketizers
    <1>6. /\ IdrIsDue => IdrIsDue'
          /\ IdrIsDue \/ RangeIsDue => IdrIsDue' \/ RangeIsDue'
        <2>1. \A f \in DOMAIN sent : ToCome(f) => ToCome(f)'
            BY <1>1, <1>4 DEF ToCome
        <2>2. (requests.idr => requests'.idr) /\ (Asks(requests) => Asks(requests'))
            BY <1>1
        <2> QED
            BY <1>1, <2>1, <2>2, DueStays
    <1>7. CanAsk'
        BY <1>1, <1>2, <1>4 DEF CanAsk
    <1>8. RangeIsAsked'
        BY <1>1, <1>2, <1>4, <1>6 DEF RangeIsAsked
    <1>9. DropIsRefreshed'
        BY <1>4 DEF DropIsRefreshed
    <1>10. Follows'
        <2>1. \A i \in DOMAIN calls : calls[i].call = "frame"
            BY <1>1, <1>2, AtFrameOut DEF AtFrame
        <2> QED
            BY <1>1, <2>1 DEF Follows, Between
    <1>11. ~revived' => IdrIsComing'
        BY <1>1, <1>2, <1>4, <1>6 DEF IdrIsComing, Between
    <1> QED
        BY <1>1, <1>2, <1>7, <1>8, <1>9, <1>10, <1>11 DEF Waits

(* reassembleFrame queues the frame.                                       *)
LEMMA OfferWaits ==
    ASSUME Reception, Waits, OfferFrame
    PROVE  Waits'
    <1>1. /\ rx = "offer" /\ Return /\ d' = Submitted(d)
          /\ UNCHANGED <<queue, dec, requests, taken, sent, host, revived>>
        BY DEF OfferFrame, decoding, world, asking
    <1>2. FrameIsLast(calls) /\ CanAsk /\ RangeIsAsked /\ DropIsRefreshed /\ (~revived => Follows /\ IdrIsComing)
        BY DEF Waits
    <1>3. d \in Depacketizers /\ d.next = Current + 1 /\ Current \in Nat
        BY <1>1, Numbers DEF Reception, Place, Following
    <1>4. /\ d'.next = d.next /\ d'.start = d.next /\ d'.waitNext = d.waitNext
          /\ d'.strict = d.strict /\ d'.idrDone = d.idrDone /\ d'.dropPending = d.dropPending
          /\ d'.waitIdr = d.waitIdr /\ d'.waitRfi = d.waitRfi
        BY <1>1, <1>3 DEF Depacketizers, Submitted
    <1>5. rx' = "recv" /\ FrameIsLast(calls') /\ rx \in {"frame"} \cup AtFrame
        BY <1>1, <1>2, FrameReturns DEF AtFrame
    <1>6. /\ IdrIsDue => IdrIsDue'
          /\ IdrIsDue \/ RangeIsDue => IdrIsDue' \/ RangeIsDue'
        <2>1. \A f \in DOMAIN sent : ToCome(f) => ToCome(f)'
            BY <1>1, <1>4, <1>5 DEF ToCome
        <2>2. (requests.idr => requests'.idr) /\ (Asks(requests) => Asks(requests'))
            BY <1>1
        <2> QED
            BY <1>1, <2>1, <2>2, DueStays
    <1>7. CanAsk'
        BY <1>1, <1>2, <1>3, <1>4 DEF CanAsk
    <1>8. RangeIsAsked'
        BY <1>1, <1>2, <1>4, <1>6 DEF RangeIsAsked
    <1>9. DropIsRefreshed'
        BY <1>1, <1>2, <1>4, <1>6 DEF DropIsRefreshed
    <1>10. Follows'
        <2>1. d'.next \in Nat /\ d'.next <= Current + 1
            BY <1>3, <1>4
        <2> QED
            BY <1>1, <1>2, <1>5, <2>1, FrameFollows
    <1>11. ~revived' => IdrIsComing'
        BY <1>1, <1>2, <1>4, <1>6 DEF IdrIsComing, Between
    <1> QED
        BY <1>5, <1>7, <1>8, <1>9, <1>10, <1>11 DEF Waits

(* decodeUnitQueue is full: an IDR frame will be asked for.                *)
LEMMA OverflowWaits ==
    ASSUME Reception, Waits, Overflow
    PROVE  Waits'
    <1> DEFINE e == [d EXCEPT !.waitIdr = TRUE]
    <1>1. /\ rx = "offer" /\ rx' = "flush" /\ d' = DropFrame(e) /\ requests' = DropRequests(d, requests)
          /\ UNCHANGED <<queue, calls, dec, taken, sent, host, revived>>
        BY DEF Overflow, decoding, world
    <1>2. FrameIsLast(calls) /\ CanAsk /\ RangeIsAsked /\ DropIsRefreshed /\ (~revived => Follows /\ IdrIsComing)
        BY DEF Waits
    <1>3. d \in Depacketizers /\ requests \in SoundRequests
        BY Numbers DEF Reception, RequestsOK
    <1>4. /\ e \in Depacketizers /\ e.waitIdr /\ e.waitRfi = d.waitRfi
          /\ e.start = d.start /\ e.strict = d.strict /\ e.idrDone = d.idrDone
        BY <1>3 DEF Depacketizers
    <1> HIDE DEF e
    <1>5. NeedsIdr(e)
        BY <1>4 DEF NeedsIdr
    <1>6. /\ ~d'.dropPending
          /\ d'.start = d.start /\ d'.strict = d.strict /\ d'.idrDone = d.idrDone
          /\ d'.waitRfi => d.waitRfi
        BY <1>1, <1>4, <1>5, DropFrameFields
    <1>7. Froms(requests') \subseteq Froms(requests)
        BY <1>1, <1>3, DropRequestsKeeps
    <1>8. IdrIsDue'
        BY <1>1 DEF IdrIsDue
    <1>9. CanAsk'
        BY <1>2, <1>6, <1>7 DEF CanAsk
    <1>10. Follows'
        <2>1. \A i \in DOMAIN calls : calls[i].call = "frame"
            BY <1>1, <1>2, AtFrameOut DEF AtFrame
        <2> QED
            BY <1>1, <2>1 DEF Follows, Between
    <1> QED
        BY <1>1, <1>2, <1>6, <1>8, <1>9, <1>10 DEF Waits, RangeIsAsked, DropIsRefreshed, IdrIsComing

(* The IDR frame is asked for with the flush.                              *)
LEMMA FlushWaits ==
    ASSUME Reception, Waits, FlushQueue
    PROVE  Waits'
    <1>1. /\ rx = "flush" /\ Return /\ requests' = RequestIdr(requests)
          /\ UNCHANGED <<queue, d, dec, taken, sent, host, revived>>
        BY DEF FlushQueue, decoding, world
    <1>2. FrameIsLast(calls) /\ CanAsk /\ RangeIsAsked /\ DropIsRefreshed /\ (~revived => Follows /\ IdrIsComing)
        BY DEF Waits
    <1>3. d \in Depacketizers /\ requests \in SoundRequests /\ d.next \in Nat /\ d.next <= Current + 1
        BY <1>1, Numbers DEF Reception, RequestsOK
    <1>4. FrameIsLast(calls') /\ rx \in {"frame"} \cup AtFrame
        BY <1>1, <1>2, FrameReturns DEF AtFrame
    <1>5. requests'.idr /\ Froms(requests') = {}
        <2>1. RequestIdr(requests) = [requests EXCEPT !.tuples = LbqFlush(@), !.idr = TRUE]
            BY DEF RequestIdr
        <2> QED
            BY <1>1, <1>3, <2>1, RequestsAreDropped
    <1>6. IdrIsDue'
        BY <1>5 DEF IdrIsDue
    <1>7. CanAsk'
        BY <1>1, <1>2, <1>5 DEF CanAsk
    <1>8. Follows'
        BY <1>1, <1>2, <1>3, <1>4, FrameFollows
    <1> QED
        BY <1>4, <1>6, <1>7, <1>8 DEF Waits, RangeIsAsked, DropIsRefreshed, IdrIsComing

(* Direct submission: a decoder that needs an IDR frame asks for one.      *)
LEMMA SubmitWaits ==
    ASSUME Reception, Waits, SubmitDirect
    PROVE  Waits'
    <1>1. /\ rx = "submit" /\ Return
          /\ UNCHANGED <<queue, dec, taken, sent, host, revived>>
          /\ \/ /\ d' = Submitted([d EXCEPT !.idrDone = @ \/ sent[Current].type = "I"]) /\ requests' = requests
             \/ /\ d' = Submitted([d EXCEPT !.waitIdr = TRUE, !.dropPending = TRUE])
                /\ requests' = RequestIdr(requests)
        BY DEF SubmitDirect, decoding, world
    <1>2. FrameIsLast(calls) /\ CanAsk /\ RangeIsAsked /\ DropIsRefreshed /\ (~revived => Follows /\ IdrIsComing)
        BY DEF Waits
    <1>3. d \in Depacketizers /\ requests \in SoundRequests /\ d.next = Current + 1 /\ Current \in Nat
        BY <1>1, Numbers DEF Reception, Place, Following, RequestsOK
    <1>4. rx' = "recv" /\ FrameIsLast(calls') /\ rx \in {"frame"} \cup AtFrame
        BY <1>1, <1>2, FrameReturns DEF AtFrame
    <1>5. /\ d'.next = d.next /\ d'.start = d.next /\ d'.waitNext = d.waitNext
          /\ d'.strict = d.strict /\ (d.idrDone => d'.idrDone) /\ d'.waitRfi = d.waitRfi
        BY <1>1, <1>3 DEF Depacketizers, Submitted
    <1>6. Follows'
        <2>1. d'.next \in Nat /\ d'.next <= Current + 1
            BY <1>3, <1>5
        <2> QED
            BY <1>1, <1>2, <1>4, <2>1, FrameFollows
    <1>7. CASE d' = Submitted([d EXCEPT !.idrDone = @ \/ sent[Current].type = "I"]) /\ requests' = requests
        <2>1. d'.waitIdr = d.waitIdr /\ d'.dropPending = d.dropPending
            BY <1>3, <1>7 DEF Depacketizers, Submitted
        <2>2. /\ IdrIsDue => IdrIsDue'
              /\ IdrIsDue \/ RangeIsDue => IdrIsDue' \/ RangeIsDue'
            <3>1. \A f \in DOMAIN sent : ToCome(f) => ToCome(f)'
                BY <1>1, <1>4, <1>5 DEF ToCome
            <3>2. (requests.idr => requests'.idr) /\ (Asks(requests) => Asks(requests'))
                BY <1>7
            <3> QED
                BY <1>1, <3>1, <3>2, DueStays
        <2>3. CanAsk'
            BY <1>2, <1>3, <1>5, <1>7 DEF CanAsk
        <2>4. RangeIsAsked' /\ DropIsRefreshed'
            BY <1>1, <1>2, <1>5, <2>1, <2>2 DEF RangeIsAsked, DropIsRefreshed
        <2>5. ~revived' => IdrIsComing'
            BY <1>1, <1>2, <1>5, <2>1, <2>2 DEF IdrIsComing, Between
        <2> QED
            BY <1>4, <1>6, <2>3, <2>4, <2>5 DEF Waits
    <1>8. CASE requests' = RequestIdr(requests)
        <2>1. requests'.idr /\ Froms(requests') = {}
            <3>1. RequestIdr(requests) = [requests EXCEPT !.tuples = LbqFlush(@), !.idr = TRUE]
                BY DEF RequestIdr
            <3> QED
                BY <1>3, <1>8, <3>1, RequestsAreDropped
        <2>2. IdrIsDue'
            BY <2>1 DEF IdrIsDue
        <2>3. CanAsk'
            BY <1>2, <1>3, <1>5, <2>1 DEF CanAsk
        <2> QED
            BY <1>4, <1>6, <2>2, <2>3 DEF Waits, RangeIsAsked, DropIsRefreshed, IdrIsComing
    <1> QED
        BY <1>1, <1>7, <1>8

(* A packet that arrives: the queue passes no frame it had not, but for    *)
(* one that comes after all.                                               *)
LEMMA ReceiveWaits ==
    ASSUME Reception, Waits, NEW p \in Arriving, NEW bad \in 0 .. DataShards, Receive(p, bad)
    PROVE  Waits'
    <1> DEFINE a == AddVideoPacket(queue, p, bad)
    <1>1. /\ Reception' /\ rx = "recv" /\ rx' \in Between
          /\ UNCHANGED <<d, dec, requests, taken, sent, host>>
        BY ReceiveReception DEF Between
    <1>2. FrameIsLast(calls) /\ CanAsk /\ RangeIsAsked /\ DropIsRefreshed /\ (~revived => Follows /\ IdrIsComing)
        BY DEF Waits
    <1>3. queue \in Queues /\ CountsFollow(queue) /\ calls = <<>> /\ d.next \in Nat
        BY <1>1, Numbers DEF Reception, Place, QueueOK, BlockIsCounted, RxOK
    <1>4. p \in Packets
        <2>1. PICK f \in 1 .. Len(sent) : p \in PacketsOf(f)
            BY DEF Arriving
        <2>2. f \in Nat \ {0}
            BY Numbers
        <2> QED
            BY <2>1, <2>2, PacketsArePackets
    <1>5. /\ FrameIsLast(a.calls) /\ queue.frame <= NextOut(a.q, a.calls) /\ NextOut(a.q, a.calls) \in Nat
          /\ \A i \in DOMAIN a.calls : a.calls[i].call = "lost" =>
                /\ Passed(a.q, a.calls, a.calls[i].frame)
                /\ HoldsLost(queue) => queue.frame < a.calls[i].frame
          /\ HoldsLost(queue) => \/ Passed(a.q, a.calls, queue.frame)
                                 \/ a.q.pending = {} /\ p.frame = queue.frame /\ p.block = queue.block
        BY <1>3, <1>4, PacketPasses
    <1>6. CallsFit(a.calls, queue.frame, a.q.frame, p.frame) /\ a.q \in Queues
        BY <1>3, <1>4, PacketIsAdded
    <1> HIDE DEF a
    <1>7. /\ queue' = a.q /\ calls' = a.calls
          /\ rx' = IF a.calls = <<>> THEN "recv" ELSE Head(a.calls).call
          /\ revived' = (revived \/ (queue.lost /\ queue'.pending = {} /\ (p.frame = queue.frame /\ p.block = queue.block)))
        BY DEF Receive, a
    <1>8. queue.frame \in Nat /\ p.frame \in Nat
        BY <1>3, <1>4 DEF Queues, Packets
    <1>9. \A f \in DOMAIN sent : ToCome(f) => ToCome(f)'
        BY <1>1 DEF ToCome, Between
    <1>10. /\ IdrIsDue => IdrIsDue'
           /\ IdrIsDue \/ RangeIsDue => IdrIsDue' \/ RangeIsDue'
        <2>1. (requests.idr => requests'.idr) /\ (Asks(requests) => Asks(requests'))
            BY <1>1
        <2> QED
            BY <1>1, <1>9, <2>1, DueStays
    <1>11. CanAsk'
        BY <1>1, <1>2 DEF CanAsk
    <1>12. RangeIsAsked' /\ DropIsRefreshed'
        BY <1>1, <1>2, <1>10 DEF RangeIsAsked, DropIsRefreshed
    <1>13. ASSUME ~revived'
           PROVE  Follows' /\ IdrIsComing'
        <2>1. Follows /\ IdrIsComing
            BY <1>2, <1>7, <1>13
        <2>2. NextOut(queue, calls) = queue.frame
            BY <1>3 DEF NextOut
        <2>3. HoldsLost(queue) => Passed(queue', calls', queue.frame)
            BY <1>5, <1>7, <1>13 DEF HoldsLost
        <2>4. ASSUME NEW f \in Int, Passed(queue, calls, f)
              PROVE  Passed(queue', calls', f)
            <3>1. CASE f < queue.frame
                BY <1>5, <1>7, <1>8, <3>1 DEF Passed
            <3>2. CASE HoldsLost(queue) /\ f = queue.frame
                BY <2>3, <3>2
            <3> QED
                BY <2>2, <2>4, <3>1, <3>2 DEF Passed
        <2>5. Passed(queue, calls, d.next - 1)
            BY <1>1, <2>1 DEF Follows, Between
        <2>6. Passed(queue', calls', d'.next - 1)
            BY <1>1, <1>3, <2>4, <2>5
        <2>7. ASSUME rx' = "lost"
              PROVE  d'.next <= Current'
            <3>1. a.calls # <<>> /\ Head(a.calls).call = "lost"
                BY <1>7, <2>7
            <3>2. a.calls \in Seq(Calls) /\ 1 \in DOMAIN a.calls /\ Head(a.calls) = a.calls[1]
                BY <1>6, <3>1 DEF CallsFit
            <3>3. a.calls[1].frame \in queue.frame .. p.frame /\ Current' = a.calls[1].frame
                BY <1>6, <1>7, <3>2 DEF CallsFit, Current
            <3>4. HoldsLost(queue) => queue.frame < a.calls[1].frame
                BY <1>5, <3>1, <3>2
            <3>5. d.next - 1 < queue.frame \/ (HoldsLost(queue) /\ d.next - 1 = queue.frame)
                BY <2>2, <2>5 DEF Passed
            <3>6. a.calls[1].frame \in Nat
                BY <1>8, <3>3
            <3> QED
                BY <1>1, <1>3, <1>8, <3>3, <3>4, <3>5, <3>6
        <2>8. Follows'
            BY <1>5, <1>7, <2>6, <2>7 DEF Follows
        <2>9. Passed(queue, calls, d.next) => Passed(queue', calls', d'.next)
            BY <1>1, <1>3, <2>4
        <2>10. IdrIsComing'
            BY <1>1, <1>10, <2>1, <2>9 DEF IdrIsComing
        <2> QED
            BY <2>8, <2>10
    <1> QED
        BY <1>5, <1>7, <1>11, <1>12, <1>13 DEF Waits

(* The decoder thread: what a refresh has not asked for yet, it will.      *)
LEMMA DecoderWaits ==
    ASSUME Reception, PipeInOrder, Waits, Decoder
    PROVE  Waits'
    <1>1. /\ Reception' /\ UNCHANGED <<mode, queue, rx, calls, sent, taken, host>>
          /\ d'.start = d.start /\ d'.next = d.next /\ Froms(requests') \subseteq Froms(requests)
        BY DecoderReception
    <1>2. /\ revived' = revived /\ d'.strict = d.strict
        BY <1>1 DEF Decoder, TakeFrame, Decoded, NeedIdr, FlushDecodeUnits, SetDropPending, RequestRefresh,
                    Reception, Place, DepacketizerOK
    <1>3. d \in Depacketizers /\ requests \in SoundRequests /\ d.start \in Nat /\ held \in Nat /\ DOMAIN sent \subseteq Nat
          /\ DOMAIN sent = 1 .. Len(sent) /\ Len(sent) \in Nat
        BY Numbers DEF Reception, RequestsOK
    <1>4. d'.waitRfi = d.waitRfi /\ d'.waitNext = d.waitNext
        BY <1>3 DEF Decoder, TakeFrame, Decoded, NeedIdr, FlushDecodeUnits, SetDropPending, RequestRefresh, Depacketizers
    <1>5. FrameIsLast(calls) /\ CanAsk /\ RangeIsAsked /\ DropIsRefreshed /\ (~revived => Follows /\ IdrIsComing)
        BY DEF Waits
    <1>6. Current' = Current /\ \A f : ToCome(f)' <=> ToCome(f)
        BY <1>1 DEF Current, ToCome
    <1>7. d'.idrDone => d.idrDone \/ d.start > 0
        <2>1. CASE Decoded
            <3>1. held \in Avail
                BY <2>1 DEF Decoded, Avail, Pipe
            <3>2. held \in DOMAIN sent /\ held < d.start
                BY <3>1 DEF PipeInOrder
            <3> QED
                BY <1>3, <3>2
        <2>2. CASE TakeFrame \/ NeedIdr \/ FlushDecodeUnits \/ SetDropPending \/ RequestRefresh
            BY <1>3, <2>2 DEF TakeFrame, NeedIdr, FlushDecodeUnits, SetDropPending, RequestRefresh, Depacketizers
        <2> QED
            BY <2>1, <2>2 DEF Decoder
    <1>8. d.idrDone => d'.idrDone
        BY <1>3 DEF Decoder, TakeFrame, Decoded, NeedIdr, FlushDecodeUnits, SetDropPending, RequestRefresh, Depacketizers
    <1>9. CanAsk'
        BY <1>1, <1>2, <1>4, <1>5, <1>7, <1>8 DEF CanAsk
    <1>10. Follows => Follows'
        BY <1>1, <1>6 DEF Follows
    <1>11. CASE TakeFrame \/ Decoded
        <2>1. /\ d'.waitIdr = d.waitIdr /\ d'.dropPending = d.dropPending /\ requests' = requests
              /\ dec \notin {"flush", "pending", "request"}
            BY <1>3, <1>11 DEF TakeFrame, Decoded, Depacketizers, asking
        <2>2. (IdrIsDue => IdrIsDue') /\ (RangeIsDue => RangeIsDue')
            BY <1>1, <1>6, <2>1 DEF IdrIsDue, RangeIsDue
        <2>3. RangeIsAsked' /\ DropIsRefreshed'
            BY <1>1, <1>4, <1>5, <1>6, <2>1, <2>2 DEF RangeIsAsked, DropIsRefreshed
        <2>4. IdrIsComing => IdrIsComing'
            BY <1>1, <1>4, <2>1, <2>2 DEF IdrIsComing
        <2> QED
            BY <1>1, <1>2, <1>5, <1>9, <1>10, <2>3, <2>4 DEF Waits
    <1>12. CASE NeedIdr \/ FlushDecodeUnits \/ SetDropPending \/ RequestRefresh
        <2>1. dec' \in {"flush", "pending", "request"} \/ requests'.idr
            BY <1>3, <1>12, RequestsStay DEF NeedIdr, FlushDecodeUnits, SetDropPending, RequestRefresh, Depacketizers
        <2>2. IdrIsDue'
            BY <2>1 DEF IdrIsDue
        <2> QED
            BY <1>1, <1>2, <1>5, <1>9, <1>10, <2>2 DEF Waits, RangeIsAsked, DropIsRefreshed, IdrIsComing
    <1> QED
        BY <1>11, <1>12 DEF Decoder

(* The threads of the control stream: what they take, they send.           *)
LEMMA ControlWaits ==
    ASSUME Reception, Waits, Control
    PROVE  Waits'
    <1>1. UNCHANGED <<queue, rx, calls, d, dec, sent, revived>>
        BY DEF Control, TakeRanges, SendRange, SendIdrRequest, decoding, world
    <1>2. requests \in SoundRequests /\ taken \in Nat /\ host \in [idr: BOOLEAN, rfi: Nat]
        BY DEF Reception, RequestsOK, WorldOK
    <1>3. FrameIsLast(calls) /\ CanAsk /\ RangeIsAsked /\ DropIsRefreshed /\ (~revived => Follows /\ IdrIsComing)
        BY DEF Waits
    <1>4. Current' = Current /\ \A f : ToCome(f)' <=> ToCome(f)
        BY <1>1 DEF Current, ToCome
    <1>5. ASSUME Froms(requests') \subseteq Froms(requests), IdrIsDue => IdrIsDue',
                 IdrIsDue \/ RangeIsDue => IdrIsDue' \/ RangeIsDue'
          PROVE  Waits'
        <2>1. CanAsk'
            BY <1>1, <1>3, <1>5 DEF CanAsk
        <2>2. RangeIsAsked' /\ DropIsRefreshed'
            BY <1>1, <1>3, <1>4, <1>5 DEF RangeIsAsked, DropIsRefreshed
        <2>3. (Follows => Follows') /\ (IdrIsComing => IdrIsComing')
            BY <1>1, <1>4, <1>5 DEF Follows, IdrIsComing
        <2> QED
            BY <1>1, <1>3, <2>1, <2>2, <2>3 DEF Waits
    <1>6. CASE TakeRanges
        <2>1. /\ requests.tuples.items # <<>> /\ taken' = Head(requests.tuples.items).from
              /\ requests' = [requests EXCEPT !.tuples = LbqFlush(@)] /\ host' = host
            BY <1>6 DEF TakeRanges, world
        <2>2. requests' = [requests EXCEPT !.tuples = LbqFlush(@), !.idr = requests.idr] /\ requests.idr \in BOOLEAN
            BY <1>2, <2>1 DEF SoundRequests, Requests
        <2>3. Froms(requests') = {} /\ requests'.idr = requests.idr
            BY <1>2, <2>2, RequestsAreDropped
        <2>4. requests.tuples.items \in Seq(Ranges)
            BY <1>2 DEF SoundRequests, Requests, LbqOf
        <2>5. Head(requests.tuples.items) = requests.tuples.items[1] /\ 1 \in DOMAIN requests.tuples.items
            BY <2>1, <2>4
        <2>6. taken' \in Froms(requests)
            BY <2>1, <2>5 DEF Froms
        <2>7. taken' > 0
            BY <1>3, <2>6 DEF CanAsk
        <2>8. RangeIsDue'
            BY <2>7 DEF RangeIsDue, None
        <2>9. IdrIsDue => IdrIsDue'
            BY <1>1, <1>4, <2>1, <2>3 DEF IdrIsDue
        <2> QED
            BY <1>5, <2>3, <2>8, <2>9
    <1>7. CASE SendRange
        <2>1. /\ host' = [host EXCEPT !.rfi = IF @ # None /\ @ < taken THEN @ ELSE taken] /\ taken # None
              /\ requests' = requests
            BY <1>7 DEF SendRange
        <2>2. host'.rfi # None /\ host'.idr = host.idr
            BY <1>2, <2>1
        <2>3. RangeIsDue' /\ (IdrIsDue => IdrIsDue')
            BY <1>1, <1>4, <2>1, <2>2 DEF IdrIsDue, RangeIsDue
        <2> QED
            BY <1>5, <2>1, <2>3
    <1>8. CASE SendIdrRequest
        <2>1. /\ requests' = [requests EXCEPT !.tuples = LbqFlush(@), !.idr = FALSE] /\ host' = [host EXCEPT !.idr = TRUE]
            BY <1>2, <1>8 DEF SendIdrRequest, SoundRequests, Requests
        <2>2. Froms(requests') = {}
            BY <1>2, <2>1, RequestsAreDropped
        <2>3. IdrIsDue'
            BY <1>2, <2>1 DEF IdrIsDue
        <2> QED
            BY <1>5, <2>2, <2>3
    <1> QED
        BY <1>6, <1>7, <1>8 DEF Control

(* The host encodes what it was asked for.                                 *)
LEMMA EncodeWaits ==
    ASSUME Reception, Waits, Encode
    PROVE  Waits'
    <1>1. /\ UNCHANGED <<queue, rx, calls, d, dec, requests, taken, revived>>
          /\ host' = [idr |-> FALSE, rfi |-> None]
        BY DEF Encode, decoding, asking
    <1>2. /\ sent \in Seq(Encoded) /\ Len(sent) \in Nat /\ DOMAIN sent = 1 .. Len(sent) /\ d.next \in Nat
          /\ d.next <= Len(sent) + 1 /\ host \in [idr: BOOLEAN, rfi: Nat]
          /\ rx # "recv" => Current \in DOMAIN sent /\ Current \in Nat
        BY Numbers DEF Reception, WorldOK
    <1>3. FrameIsLast(calls) /\ CanAsk /\ RangeIsAsked /\ DropIsRefreshed /\ (~revived => Follows /\ IdrIsComing)
        BY DEF Waits
    <1>0. PICK new : new = Len(sent) + 1
        OBVIOUS
    <1>4. PICK e : /\ e \in Encoded /\ sent' = Append(sent, e)
                   /\ sent = <<>> \/ host.idr => e.type = "I"
                   /\ host.rfi # None => e.type \in {"I", "R"}
        <2>2. CASE sent = <<>> \/ host.idr
            BY <2>2 DEF Encode, IFrame, Encoded, None
        <2>3. CASE sent # <<>> /\ ~host.idr /\ host.rfi # None
            BY <1>2, <2>3 DEF Encode, RFrame, IFrame, Encoded, None
        <2>4. CASE sent # <<>> /\ ~host.idr /\ host.rfi = None
            BY <1>2, <2>4 DEF Encode, PFrame, Encoded
        <2> QED
            BY <2>2, <2>3, <2>4
    <1>5. /\ DOMAIN sent' = 1 .. new /\ sent'[new] = e /\ new \in DOMAIN sent'
          /\ \A f \in DOMAIN sent : f \in DOMAIN sent' /\ sent'[f] = sent[f]
        BY <1>0, <1>2, <1>4
    <1>6. Current' = Current
        BY <1>1 DEF Current
    <1>7. ToCome(new)' /\ \A f \in DOMAIN sent : ToCome(f) => ToCome(f)'
        <2>1. rx = "last" => Current < new
            BY <1>0, <1>2
        <2> QED
            BY <1>0, <1>1, <1>2, <1>5, <1>6, <2>1 DEF ToCome
    <1>8. IdrIsDue \/ sent = <<>> => IdrIsDue'
        <2>1. e.type = "I" => IdrIsDue'
            BY <1>5, <1>7 DEF IdrIsDue
        <2>2. host.idr \/ sent = <<>> => IdrIsDue'
            BY <1>4, <2>1
        <2>3. IdrIsDue /\ ~host.idr => IdrIsDue'
            BY <1>1, <1>5, <1>7 DEF IdrIsDue
        <2> QED
            BY <2>2, <2>3
    <1>9. RangeIsDue => IdrIsDue' \/ RangeIsDue'
        <2>1. e.type \in {"I", "R"} => IdrIsDue' \/ RangeIsDue'
            BY <1>5, <1>7 DEF IdrIsDue, RangeIsDue
        <2>2. RangeIsDue /\ host.rfi = None => RangeIsDue'
            BY <1>1, <1>5, <1>7 DEF RangeIsDue
        <2> QED
            BY <1>4, <2>1, <2>2
    <1>10. CanAsk'
        BY <1>1, <1>3 DEF CanAsk, Froms
    <1>11. RangeIsAsked'
        BY <1>1, <1>3, <1>8, <1>9 DEF RangeIsAsked
    <1>12. DropIsRefreshed'
        BY <1>1, <1>2, <1>3, <1>5, <1>6, <1>8 DEF DropIsRefreshed
    <1>13. Follows => Follows'
        BY <1>1, <1>6 DEF Follows
    <1>14. IdrIsComing => IdrIsComing'
        BY <1>1, <1>8 DEF IdrIsComing
    <1> QED
        BY <1>1, <1>3, <1>10, <1>11, <1>12, <1>13, <1>14 DEF Waits

(* Nothing has been sent when the stream starts.                           *)
LEMMA InitWaits == Init => Waits
    <1> SUFFICES ASSUME Init PROVE Waits
        OBVIOUS
    <1>1. sent = <<>> /\ Froms(requests) = {}
        BY InitReception
    <1>2. calls = <<>> /\ DOMAIN calls = {} /\ rx = "recv" /\ queue.frame = 1
        BY DEF Init, EmptyVideoQueue
    <1>3. d.next = 1 /\ ~d.waitRfi /\ ~d.idrDone /\ ~d.dropPending
        BY DEF Init, EmptyDepacketizer
    <1>4. Passed(queue, calls, d.next - 1)
        BY <1>2, <1>3 DEF Passed, NextOut
    <1> QED
        BY <1>1, <1>2, <1>3, <1>4
           DEF Waits, FrameIsLast, CanAsk, RangeIsAsked, DropIsRefreshed, Follows, IdrIsComing

(* The waits hold in every state the others do.                            *)
LEMMA WaitsStep == IInv /\ Waits /\ [Next]_vars => Waits'
    <1> SUFFICES ASSUME IInv, Waits, [Next]_vars PROVE Waits'
        OBVIOUS
    <1>0. Reception /\ FramesRefer /\ PipeInOrder /\ RangesKnown
        BY DEF IInv
    <1>1. CASE UNCHANGED vars
        BY <1>1 DEF vars, Waits, FrameIsLast, CanAsk, Froms, RangeIsAsked, DropIsRefreshed, Follows, IdrIsComing,
                    IdrIsDue, RangeIsDue, ToCome, Current, Passed, NextOut, HoldsLost
    <1>2. CASE Encode
        BY <1>0, <1>2, EncodeWaits
    <1>3. CASE Decoder
        BY <1>0, <1>3, DecoderWaits
    <1>4. CASE Control
        BY <1>0, <1>4, ControlWaits
    <1>5. CASE Receiver
        <2>1. CASE \E p \in Arriving, bad \in 0 .. DataShards : Receive(p, bad)
            BY <1>0, <2>1, ReceiveWaits
        <2>2. CASE NotifyFrameLost
            BY <1>0, <2>2, LostWaits
        <2>3. CASE OldFrame
            BY <1>0, <2>3, OldWaits
        <2>4. CASE StartFrame
            BY <1>0, <2>4, StartWaits
        <2>5. CASE RejectFrame \/ DropUndecodable
            BY <1>0, <2>5, GivenUpWaits
        <2>6. CASE DropPendingFrame
            BY <1>0, <2>6, DropWaits
        <2>7. CASE CompleteFrame
            BY <1>0, <2>7, CompleteWaits
        <2>8. CASE KeepFrame
            BY <1>0, <2>8, KeepWaits
        <2>9. CASE OfferFrame
            BY <1>0, <2>9, OfferWaits
        <2>10. CASE Overflow
            BY <1>0, <2>10, OverflowWaits
        <2>11. CASE FlushQueue
            BY <1>0, <2>11, FlushWaits
        <2>12. CASE SubmitDirect
            BY <1>0, <2>12, SubmitWaits
        <2> QED
            BY <1>5, <2>1, <2>2, <2>3, <2>4, <2>5, <2>6, <2>7, <2>8, <2>9, <2>10, <2>11, <2>12 DEF Receiver
    <1> QED
        BY <1>1, <1>2, <1>3, <1>4, <1>5 DEF Next, Idle

(* While the receive thread drops frames for want of one the decoder can   *)
(* use, help was asked for, is on its way, or will be asked for with the   *)
(* next frame; but for a frame that was reported lost and came after all.  *)
THEOREM WaitsEnd == Spec => []NoSilentWait
    <1>1. Init => IInv /\ Waits
        BY InitSafe, InitWaits
    <1>2. IInv /\ Waits /\ [Next]_vars => (IInv /\ Waits)'
        BY SafeStep, WaitsStep
    <1>3. IInv /\ Waits => NoSilentWait
        <2> SUFFICES ASSUME IInv, Waits, rx = "recv", dec = "wait", MustWait(d), ~revived
                     PROVE  \/ Asked
                            \/ sent = <<>> \/ \E f \in d.next .. Len(sent) : Helps(f)
                            \/ d.waitNext
                            \/ queue.frame # d.next \/ queue.lost
            BY DEF NoSilentWait
        <2>1. /\ calls = <<>> /\ queue \in Queues /\ d.next \in Nat /\ Len(sent) \in Nat /\ DOMAIN sent = 1 .. Len(sent)
            BY Numbers DEF IInv, Reception, Place, RxOK, QueueOK
        <2>2. \A f : ToCome(f) => f \in d.next .. Len(sent)
            BY <2>1 DEF ToCome
        <2>3. IdrIsDue => Asked \/ \E f \in d.next .. Len(sent) : Helps(f)
            BY <2>2 DEF IdrIsDue, Asked, Helps
        <2>4. CASE d.waitIdr
            <3>1. Passed(queue, calls, d.next) => queue.frame # d.next \/ queue.lost
                BY <2>1 DEF Passed, NextOut, HoldsLost, Queues
            <3> QED
                BY <2>3, <2>4, <3>1 DEF Waits, IdrIsComing
        <2>5. CASE ~d.waitIdr
            <3>1. IdrIsDue \/ RangeIsDue
                BY <2>5 DEF MustWait, Waits, RangeIsAsked
            <3>2. RangeIsDue => Asked \/ \E f \in d.next .. Len(sent) : Helps(f)
                BY <2>2, <2>5 DEF RangeIsDue, Asked, Helps
            <3> QED
                BY <2>3, <3>1, <3>2
        <2> QED
            BY <2>4, <2>5
    <1> QED
        BY <1>1, <1>2, <1>3, PTL DEF Spec
================================================================================
