----------------------------- MODULE RtpAudioQueue -----------------------------
(***************************************************************************)
(* RtpAudioQueue.c: puts the audio packets of the host in order, rebuilds  *)
(* lost ones from their FEC block and gives up on what cannot be rebuilt.  *)
(* The receive thread alone uses it, so each call is an operator on the    *)
(* queue's record.                                                         *)
(*                                                                         *)
(* A packet carries the number n the host gave it before the wrap to 16    *)
(* bits; the code only ever looks at n % SeqSpace.  A shard is its presence, *)
(* and a rebuilt shard is the packet that was lost (reed_solomon_          *)
(* reconstruct needs any DataShards shards of a block).  Buffers, the      *)
(* cache of free blocks and the RTP fields a block repeats are left out.   *)
(***************************************************************************)
EXTENDS Integers, Sequences, FiniteSets
LOCAL INSTANCE SequencesExt

CONSTANTS DataShards,  \* RTPA_DATA_SHARDS
          FecShards,   \* RTPA_FEC_SHARDS
          SeqSpace       \* sequence numbers are counted modulo this (2^16 in the code)

ASSUME AudioQueueAssumption ==
    /\ {DataShards, FecShards, SeqSpace} \subseteq Nat \ {0}
    /\ SeqSpace % (4 * DataShards) = 0

\* isBefore16
IsBefore16(x, y) == (x - y) % SeqSpace > (SeqSpace - 1) \div 2

Wrap(n) == n % SeqSpace
BaseOf(n) == (n \div DataShards) * DataShards

\* RtpaInitializeQueue, on a host recent enough to send the FEC this code understands.
\* resync, which no code reads: a queue that held blocks was synchronized once more.
EmptyAudioQueue ==
    [next |-> 0, oldest |-> 0, lastOos |-> 0, oos |-> FALSE,
     sync |-> TRUE, incompatible |-> FALSE, blocks |-> <<>>, resync |-> FALSE]

\* A block: marks of the shards that are there, the next shard to hand out.
\* real is the host's number of its first packet, which no code reads.
NewBlock(n, size) ==
    [base |-> Wrap(BaseOf(n)), real |-> BaseOf(n), size |-> size,
     data |-> {}, fec |-> {}, full |-> FALSE, idx |-> 0, allow |-> FALSE]

Complete(b) == Cardinality(b.data) + Cardinality(b.fec) >= DataShards

(***************************************************************************)
(* getFecBlockForRtpPacket.                                                *)
(***************************************************************************)
\* Remember packets that come behind the oldest block, for a while.
NoteOos(q, seq) ==
    CASE ~q.sync /\ IsBefore16(seq, q.oldest) -> [q EXCEPT !.lastOos = seq, !.oos = TRUE]
      [] ~(~q.sync /\ IsBefore16(seq, q.oldest)) /\ q.oos /\ IsBefore16(q.oldest, q.lastOos)
            -> [q EXCEPT !.oos = FALSE]
      [] OTHER -> q

\* Mutant: a new block goes to the tail.
SlotOfTail(q, base) ==
    LET same == {i \in DOMAIN q.blocks : q.blocks[i].base = base}
    IN IF same = {} THEN Len(q.blocks) + 1 ELSE CHOOSE i \in same : TRUE

\* Where the block that starts at base is, or belongs.
SlotOf(q, base) ==
    LET stop == {i \in DOMAIN q.blocks :
                    q.blocks[i].base = base \/ IsBefore16(base, q.blocks[i].base)}
    IN IF stop = {} THEN Len(q.blocks) + 1 ELSE CHOOSE i \in stop : \A j \in stop : i <= j
Known(q, base) == LET i == SlotOf(q, base) IN i <= Len(q.blocks) /\ q.blocks[i].base = base

\* The queue after the search, and the index of the packet's block, 0 for a rejected packet.
Rejected(q) == [q |-> q, at |-> 0]
FindBlock(q0, p) ==
    LET q    == IF p.kind = "data" THEN NoteOos(q0, Wrap(p.n)) ELSE q0
        base == Wrap(BaseOf(p.n))
        i    == SlotOf(q, base)
    IN CASE p.kind \notin {"data", "fec", "misaligned"} -> Rejected(q)
         [] p.kind = "misaligned" -> Rejected([q EXCEPT !.incompatible = TRUE])
         [] q.sync /\ q.oldest = 0 /\ p.kind \in {"data", "fec"} ->
                Rejected([q EXCEPT !.next = Wrap(base + DataShards),
                                   !.oldest = Wrap(base + DataShards),
                                   !.resync = @ \/ q.blocks # <<>>])
         [] OTHER ->
                IF IsBefore16(base, q.oldest) THEN Rejected(q)
                ELSE IF ~Known(q, base)
                THEN [q |-> [q EXCEPT !.blocks = InsertAt(@, i, NewBlock(p.n, p.size))], at |-> i]
                ELSE IF q.blocks[i].size # p.size
                THEN Rejected([q EXCEPT !.incompatible = TRUE])
                ELSE [q |-> q, at |-> IF q.blocks[i].full THEN 0 ELSE i]

(***************************************************************************)
(* The head of the queue.                                                  *)
(***************************************************************************)
\* queueHasPacketReady
Ready(q) ==
    /\ q.blocks # <<>>
    /\ LET h == Head(q.blocks)
       IN (h.idx \in h.data /\ h.base + h.idx = q.next) \/ h.allow

\* Mutant: the blocks that are done are not remembered.
FreeHeadForgets(q) == [q EXCEPT !.sync = FALSE, !.blocks = Tail(@)]

\* freeFecBlockHead
FreeHead(q) ==
    [q EXCEPT !.oldest = Wrap(Head(q.blocks).base + DataShards),
              !.sync = FALSE,
              !.blocks = Tail(@)]
FreeIfRead(q) == IF Head(q.blocks).idx = DataShards THEN FreeHead(q) ELSE q

StepHead(q) == [q EXCEPT !.next = Wrap(@ + 1), !.blocks[1].idx = @ + 1]

\* handleMissingPackets; late: the head has waited for longer than a block and RTPQ_OOS_WAIT_TIME_MS
HandleMissing(q, late) ==
    CASE q.blocks = <<>> -> q
      [] q.blocks # <<>> /\ IsBefore16(q.next, Head(q.blocks).base) ->
            [q EXCEPT !.next = Head(q.blocks).base, !.oldest = Head(q.blocks).base]
      [] OTHER ->
            IF Len(q.blocks) > 1 /\ (~q.oos \/ late)
            THEN [q EXCEPT !.blocks[1].allow = TRUE] ELSE q

(***************************************************************************)
(* RtpaAddPacket: the answer and the queue after it.                       *)
(***************************************************************************)
Answer(q, answer) == [q |-> q, answer |-> answer]

\* The packet's shard is new: mark it.
Marked(q, i, p) == IF p.kind = "data" THEN [q EXCEPT !.blocks[i].data = @ \cup {p.n % DataShards}]
                                      ELSE [q EXCEPT !.blocks[i].fec = @ \cup {p.shard}]
IsDuplicate(b, p) == IF p.kind = "data" THEN p.n % DataShards \in b.data ELSE p.shard \in b.fec

\* The next packet of the stream goes straight to the caller.
HandNow(q, i) ==
    LET s == [q EXCEPT !.next = Wrap(@ + 1), !.blocks[i].idx = @ + 1]
    IN IF s.next = Wrap(s.blocks[i].base + DataShards) THEN FreeHead(s) ELSE s

\* completeFecBlock rebuilds the shards that are missing.
Completed(q, i) ==
    IF Complete(q.blocks[i])
    THEN [q EXCEPT !.blocks[i].full = TRUE, !.blocks[i].data = 0 .. DataShards - 1] ELSE q

AddPacket(q0, p, late) ==
    IF q0.incompatible THEN Answer(q0, IF p.kind = "data" THEN "now" ELSE "none")
    ELSE LET f == FindBlock(q0, p)
         IN IF f.at = 0 \/ IsDuplicate(f.q.blocks[f.at], p) THEN Answer(f.q, "none")
            ELSE LET m == Marked(f.q, f.at, p)
                 IN IF p.kind = "data" /\ Wrap(p.n) = m.next THEN Answer(HandNow(m, f.at), "now")
                    ELSE LET c == Completed(m, f.at)
                             s == IF Ready(c) THEN c ELSE HandleMissing(c, late)
                         IN Answer(s, IF Ready(s) THEN "ready" ELSE "none")

(***************************************************************************)
(* RtpaGetQueuedPacket: what it hands out, "nothing" when it is NULL, and  *)
(* the queue after it.  A lost packet is a placeholder of length 0.        *)
(***************************************************************************)
GetQueued(q) ==
    IF ~Ready(q) THEN [q |-> q, out |-> "nothing", n |-> 0]
    ELSE LET h == Head(q.blocks)
         IN [q |-> FreeIfRead(StepHead(q)), n |-> h.real + h.idx,
             out |-> IF h.idx \in h.data THEN "packet" ELSE "lost"]

\* RtpaCleanupQueue frees the blocks and leaves the numbers.
CleanedUp(q) == [q EXCEPT !.blocks = <<>>]

\* validateFecBlockState: blocks are sorted, the first one is not behind the
\* oldest one that is awaited, the next packet is in the first block or
\* before it, and never behind the oldest block once one was finished.
ValidFecBlockState(q) ==
    LET b == q.blocks
    IN /\ q.sync \/ ~IsBefore16(q.next, q.oldest)
       /\ \A i \in 1 .. Len(b) - 1 : IsBefore16(b[i].base, b[i + 1].base)
       /\ b # <<>> => /\ IsBefore16(q.next, Wrap(b[1].base + DataShards))
                      /\ ~IsBefore16(b[1].base, q.oldest)
================================================================================
