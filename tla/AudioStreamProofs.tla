--------------------------- MODULE AudioStreamProofs ---------------------------
(***************************************************************************)
(* Proofs about the audio stream, for blocks, spaces of numbers and queues *)
(* of any size: the types, that no sample reaches a renderer that was      *)
(* cleaned up, and, while the backlog is short for the numbers there are,  *)
(* the assertions of the RTP queue and the order the decoder is given the  *)
(* packets in.                                                             *)
(*                                                                         *)
(* The code knows a packet by its number modulo SeqSpace.  The proof       *)
(* follows the number of the host behind it: there is an n, the number of  *)
(* the next packet, such that every block lies where n and its own number  *)
(* put it (Lined), none is too far from it (Spans), a block that was begun *)
(* is the first one (Open), and the newest packet is no further from the   *)
(* last block than the network delays (Reach).                             *)
(***************************************************************************)
EXTENDS AudioStream, SequenceTheorems, FiniteSetTheorems, TLAPS
LOCAL INSTANCE SequencesExt

(***************************************************************************)
(* Types.                                                                  *)
(***************************************************************************)
\* What the blocks of the queue are, the queue, and what is on its way to the decoder.
Blocks == [base: Nat, real: Nat, size: Sizes, data: SUBSET (0 .. DataShards - 1), fec: SUBSET (0 .. FecShards - 1),
           full: BOOLEAN, idx: Nat, allow: BOOLEAN]
AudioQueues == [next: Nat, oldest: Nat, lastOos: Nat, oos: BOOLEAN, sync: BOOLEAN, incompatible: BOOLEAN,
                blocks: Seq(Blocks), resync: BOOLEAN]
Items == [n: Nat, lost: BOOLEAN]

\* The constants are numbers ...
LEMMA Sizable ==
    /\ DataShards \in Nat \ {0} /\ FecShards \in Nat \ {0} /\ SeqSpace \in Nat \ {0}
    /\ LastPacket \in Nat /\ Behind \in Nat /\ Ahead \in Nat /\ LateAfter \in Nat /\ DropFirst \in Nat
    /\ Bound \in Nat /\ Bound > 0 /\ First \subseteq Nat
    BY AudioQueueAssumption, AudioStreamAssumption DEF AudioQueueAssumption, AudioStreamAssumption
\* ... and the space is made of whole blocks.
LEMMA WholeBlocks == SeqSpace % (4 * DataShards) = 0
    BY AudioQueueAssumption DEF AudioQueueAssumption

(***************************************************************************)
(* Numbers and their wraps.                                                *)
(***************************************************************************)
\* n is the first number of a block.
Starts(n) == BaseOf(n) = n

\* Division leaves a remainder that is smaller than the divisor.
LEMMA Divides ==
    ASSUME NEW m \in Nat \ {0}, NEW n \in Nat
    PROVE  /\ n \div m \in Nat /\ (n \div m) * m <= n /\ n < (n \div m) * m + m /\ (n \div m) * m \in Nat
           /\ n % m \in 0 .. m - 1 /\ n = (n \div m) * m + (n % m)
    OBVIOUS

\* A number is taken apart the way it was put together.
LEMMA Quotient ==
    ASSUME NEW m \in Nat \ {0}, NEW k \in Int, NEW r \in 0 .. m - 1
    PROVE  (k * m + r) % m = r /\ (k * m + r) \div m = k
    OBVIOUS

\* Half of a number, rounded down.
LEMMA Halve ==
    ASSUME NEW n \in Nat
    PROVE  n \div 2 \in Nat /\ 2 * (n \div 2) <= n /\ n < 2 * (n \div 2) + 2
    OBVIOUS

\* Multiplication keeps sums and the order.
LEMMA Times ==
    ASSUME NEW m \in Nat \ {0}, NEW k \in Int, NEW l \in Int
    PROVE  /\ k * m \in Int /\ (k + 1) * m = k * m + m /\ (k + l) * m = k * m + l * m /\ (k - l) * m = k * m - l * m
           /\ k < l <=> k * m < l * m
           /\ k <= l <=> k * m <= l * m
    OBVIOUS

(* The block of a number starts at or before it, less than a block away.   *)
LEMMA BlockOf ==
    ASSUME NEW n \in Nat
    PROVE  /\ BaseOf(n) \in Nat /\ BaseOf(n) <= n /\ n < BaseOf(n) + DataShards /\ Starts(BaseOf(n))
           /\ n % DataShards = n - BaseOf(n)
    <1>1. /\ n \div DataShards \in Nat /\ (n \div DataShards) * DataShards <= n /\ (n \div DataShards) * DataShards \in Nat
          /\ n < (n \div DataShards) * DataShards + DataShards
          /\ n = (n \div DataShards) * DataShards + (n % DataShards) /\ n % DataShards \in 0 .. DataShards - 1
        BY Sizable, Divides
    <1> DEFINE k == n \div DataShards
    <1>2. BaseOf(n) = k * DataShards /\ BaseOf(n) \in Nat
        BY <1>1, Sizable DEF BaseOf
    <1>3. (k * DataShards + 0) \div DataShards = k
        BY <1>1, Sizable, Quotient
    <1>4. Starts(BaseOf(n))
        BY <1>1, <1>2, <1>3, Sizable DEF Starts, BaseOf
    <1> QED
        BY <1>1, <1>2, <1>4, Sizable

(* The start of a block is known by its numbers; the next one is a block later. *)
LEMMA StartOf ==
    ASSUME NEW a \in Nat, Starts(a), NEW n \in Nat, a <= n, n < a + DataShards
    PROVE  BaseOf(n) = a
    <1>1. PICK k \in Nat : a = k * DataShards
        <2>1. a \div DataShards \in Nat
            BY Sizable, Divides
        <2> QED
            BY <2>1 DEF Starts, BaseOf
    <1>2. n - a \in 0 .. DataShards - 1 /\ n = k * DataShards + (n - a)
        BY <1>1, Sizable
    <1>3. n \div DataShards = k
        <2>1. (k * DataShards + (n - a)) \div DataShards = k
            BY <1>2, Sizable, Quotient
        <2> QED
            BY <1>2, <2>1
    <1> QED
        BY <1>1, <1>3 DEF BaseOf

\* After the start of a block, the next one is a block later.
LEMMA NextStart ==
    ASSUME NEW a \in Nat, Starts(a)
    PROVE  Starts(a + DataShards) /\ a + DataShards \in Nat
    <1>1. PICK k \in Nat : a = k * DataShards
        <2>1. a \div DataShards \in Nat
            BY Sizable, Divides
        <2> QED
            BY <2>1 DEF Starts, BaseOf
    <1>2. a + DataShards = (k + 1) * DataShards
        BY <1>1, Sizable, Times
    <1>3. ((k + 1) * DataShards + 0) \div DataShards = k + 1
        <2> DEFINE j == k + 1
        <2>1. j \in Int /\ 0 \in 0 .. DataShards - 1
            BY Sizable
        <2> HIDE DEF j
        <2>2. (j * DataShards + 0) \div DataShards = j
            BY <2>1, Sizable, Quotient
        <2> QED
            BY <2>2 DEF j
    <1>4. (a + DataShards) \div DataShards = k + 1
        <2>1. (k + 1) * DataShards \in Int
            BY Sizable
        <2> QED
            BY <1>2, <1>3, <2>1
    <1> QED
        BY <1>2, <1>4, Sizable DEF Starts, BaseOf

\* Two blocks are at least a block apart.
LEMMA LaterStart ==
    ASSUME NEW a \in Nat, Starts(a), NEW b \in Nat, Starts(b), a < b
    PROVE  a + DataShards <= b
    <1> SUFFICES ASSUME b < a + DataShards PROVE FALSE
        BY Sizable
    <1>1. BaseOf(b) = a
        BY StartOf, Sizable
    <1> QED
        BY <1>1 DEF Starts

(* A wrap keeps differences.                                               *)
LEMMA WrapIs ==
    ASSUME NEW n \in Nat
    PROVE  Wrap(n) \in 0 .. SeqSpace - 1 /\ Wrap(n) \in Nat /\ \E k \in Nat : n = k * SeqSpace + Wrap(n)
    <1>1. n % SeqSpace \in 0 .. SeqSpace - 1 /\ n \div SeqSpace \in Nat /\ n = (n \div SeqSpace) * SeqSpace + (n % SeqSpace)
        BY Sizable, Divides
    <1>2. SeqSpace \in Nat
        BY Sizable
    <1>3. Wrap(n) \in 0 .. SeqSpace - 1
        BY <1>1 DEF Wrap
    <1>4. Wrap(n) \in Nat
        BY <1>2, <1>3
    <1>5. \E k \in Nat : n = k * SeqSpace + Wrap(n)
        BY <1>1 DEF Wrap
    <1> QED
        BY <1>3, <1>4, <1>5

\* A number below the space is its own wrap, whatever was added in whole spaces.
LEMMA WrapOf ==
    ASSUME NEW k \in Int, NEW r \in 0 .. SeqSpace - 1
    PROVE  Wrap(k * SeqSpace + r) = r
    BY Sizable, Quotient DEF Wrap

\* To add before a wrap is to add after it.
LEMMA WrapAdds ==
    ASSUME NEW n \in Nat, NEW i \in Nat
    PROVE  Wrap(Wrap(n) + i) = Wrap(n + i)
    <1>1. PICK k \in Nat : n = k * SeqSpace + Wrap(n)
        BY WrapIs
    <1>2. Wrap(n) \in Nat
        BY WrapIs
    <1>3. PICK l \in Nat : Wrap(n) + i = l * SeqSpace + Wrap(Wrap(n) + i)
        BY <1>2, WrapIs
    <1>4. Wrap(Wrap(n) + i) \in 0 .. SeqSpace - 1
        BY <1>2, WrapIs
    <1>5. n + i = (k + l) * SeqSpace + Wrap(Wrap(n) + i)
        <2>1. (k + l) * SeqSpace = k * SeqSpace + l * SeqSpace /\ k * SeqSpace \in Int /\ l * SeqSpace \in Int
            BY Sizable, Times
        <2> QED
            BY <1>1, <1>2, <1>3, <1>4, <2>1
    <1>6. Wrap((k + l) * SeqSpace + Wrap(Wrap(n) + i)) = Wrap(Wrap(n) + i)
        BY <1>4, WrapOf
    <1> QED
        BY <1>5, <1>6

\* Numbers less than a space apart have the same wrap only if they are the same.
LEMMA WrapSame ==
    ASSUME NEW x \in Nat, NEW y \in Nat, x < y + SeqSpace, y < x + SeqSpace
    PROVE  Wrap(x) = Wrap(y) <=> x = y
    <1> SUFFICES ASSUME Wrap(x) = Wrap(y) PROVE x = y
        OBVIOUS
    <1>1. PICK k \in Nat : x = k * SeqSpace + Wrap(x)
        BY WrapIs
    <1>2. PICK l \in Nat : y = l * SeqSpace + Wrap(y)
        BY WrapIs
    <1>3. k * SeqSpace \in Int /\ l * SeqSpace \in Int /\ Wrap(x) \in Nat
        BY Sizable, WrapIs
    <1>4. k * SeqSpace < l * SeqSpace + SeqSpace /\ l * SeqSpace < k * SeqSpace + SeqSpace
        BY <1>1, <1>2, <1>3, Sizable
    <1>5. k < l + 1 /\ l < k + 1
        <2>1. (l + 1) * SeqSpace = l * SeqSpace + SeqSpace /\ (k + 1) * SeqSpace = k * SeqSpace + SeqSpace
            BY Sizable, Times
        <2>2. \A i, j \in Int : i < j <=> i * SeqSpace < j * SeqSpace
            BY Sizable, Times
        <2>3. l + 1 \in Int /\ k + 1 \in Int
            OBVIOUS
        <2> QED
            BY <1>4, <2>1, <2>2, <2>3
    <1> QED
        BY <1>1, <1>2, <1>5

(* isBefore16 orders numbers that are less than half the space apart.      *)
LEMMA WrapDiffers ==
    ASSUME NEW x \in Nat, NEW y \in Nat, NEW e \in 0 .. SeqSpace - 1, x = y + e
    PROVE  (Wrap(x) - Wrap(y)) % SeqSpace = e
    <1>1. PICK k \in Nat : x = k * SeqSpace + Wrap(x)
        BY WrapIs
    <1>2. PICK l \in Nat : y = l * SeqSpace + Wrap(y)
        BY WrapIs
    <1>3. k * SeqSpace \in Int /\ l * SeqSpace \in Int /\ Wrap(x) \in Nat /\ Wrap(y) \in Nat
        BY Sizable, WrapIs
    <1>4. Wrap(x) - Wrap(y) = (l * SeqSpace - k * SeqSpace) + e
        BY <1>1, <1>2, <1>3
    <1>5. (l - k) * SeqSpace = l * SeqSpace - k * SeqSpace /\ l - k \in Int
        BY Sizable, Times
    <1>6. ((l - k) * SeqSpace + e) % SeqSpace = e
        BY <1>5, Sizable, Quotient
    <1> QED
        BY <1>4, <1>5, <1>6

\* While numbers of the host are at most half the space apart, it is their order.
LEMMA Before ==
    ASSUME NEW x \in Nat, NEW y \in Nat, 2 * (x - y) < SeqSpace, 2 * (y - x) <= SeqSpace
    PROVE  IsBefore16(Wrap(x), Wrap(y)) <=> x < y
    <1> DEFINE half == (SeqSpace - 1) \div 2
    <1>1. half \in Nat /\ 2 * half <= SeqSpace - 1 /\ SeqSpace - 1 < 2 * half + 2
        <2>1. SeqSpace - 1 \in Nat
            BY Sizable
        <2> QED
            BY <2>1, Halve
    <1>0. half = (SeqSpace - 1) \div 2
        OBVIOUS
    <1> HIDE DEF half
    <1>2. CASE y <= x
        <2>1. x - y \in 0 .. SeqSpace - 1 /\ x = y + (x - y) /\ x - y <= half
            BY <1>1, <1>2, Sizable
        <2>2. (Wrap(x) - Wrap(y)) % SeqSpace = x - y
            BY <2>1, WrapDiffers
        <2> QED
            BY <1>1, <1>2, <2>1, <2>2, <1>0 DEF IsBefore16
    <1>3. CASE x < y
        <2>1. x - y + SeqSpace \in 0 .. SeqSpace - 1 /\ x + SeqSpace = y + (x - y + SeqSpace) /\ x - y + SeqSpace > half
            BY <1>1, <1>3, Sizable
        <2>2. x + SeqSpace \in Nat
            BY Sizable
        <2>3. (Wrap(x + SeqSpace) - Wrap(y)) % SeqSpace = x - y + SeqSpace
            BY <2>1, <2>2, WrapDiffers
        <2>4. Wrap(x + SeqSpace) = Wrap(x)
            <3>1. PICK k \in Nat : x = k * SeqSpace + Wrap(x)
                BY WrapIs
            <3>2. (k + 1) * SeqSpace = k * SeqSpace + SeqSpace /\ k * SeqSpace \in Int /\ Wrap(x) \in 0 .. SeqSpace - 1
                BY Sizable, Times, WrapIs
            <3>3. x + SeqSpace = (k + 1) * SeqSpace + Wrap(x)
                BY <3>1, <3>2, Sizable
            <3> QED
                BY <3>2, <3>3, WrapOf
        <2> QED
            BY <1>1, <1>3, <2>1, <2>3, <2>4, <1>0 DEF IsBefore16
    <1> QED
        BY <1>2, <1>3

(* A block does not wrap: the space is made of whole blocks.               *)
LEMMA BlockWraps ==
    ASSUME NEW a \in Nat, Starts(a), NEW i \in Nat, i < DataShards
    PROVE  Wrap(a) + i = Wrap(a + i)
    <1>1. PICK c \in Nat : SeqSpace = c * DataShards
        <2>1. 4 * DataShards \in Nat \ {0}
            BY Sizable
        <2> DEFINE m == 4 * DataShards
        <2>5. m \in Nat \ {0} /\ SeqSpace \in Nat /\ SeqSpace % m = 0
            BY <2>1, Sizable, WholeBlocks
        <2> HIDE DEF m
        <2>4. SeqSpace = (SeqSpace \div m) * m + (SeqSpace % m) /\ SeqSpace \div m \in Nat /\ (SeqSpace \div m) * m \in Nat
            BY <2>5, Divides
        <2>6. SeqSpace = (SeqSpace \div m) * m /\ SeqSpace \div m \in Nat
            BY <2>4, <2>5
        <2>2. SeqSpace = (SeqSpace \div (4 * DataShards)) * (4 * DataShards) /\ SeqSpace \div (4 * DataShards) \in Nat
            BY <2>6 DEF m
        <2>3. \A k \in Nat : k * (4 * DataShards) = (4 * k) * DataShards
            BY Sizable
        <2> QED
            BY <2>2, <2>3
    <1>2. PICK k \in Nat : a = k * DataShards
        <2>1. a \div DataShards \in Nat
            BY Sizable, Divides
        <2> QED
            BY <2>1 DEF Starts, BaseOf
    <1>3. PICK l \in Nat : a = l * SeqSpace + Wrap(a)
        BY WrapIs
    <1>4. Wrap(a) = (k - l * c) * DataShards
        <2>1. l * SeqSpace = (l * c) * DataShards
            BY <1>1, Sizable
        <2>2. l * c \in Int /\ (k - l * c) * DataShards = k * DataShards - (l * c) * DataShards
            BY Sizable, Times
        <2>3. Wrap(a) \in Nat
            BY WrapIs
        <2>4. k * DataShards \in Int /\ (l * c) * DataShards \in Int
            BY <2>2, Sizable
        <2> QED
            BY <1>2, <1>3, <2>1, <2>2, <2>3, <2>4
    <1>5. Wrap(a) + DataShards <= SeqSpace
        <2>1. l * c \in Int
            OBVIOUS
        <2> DEFINE j == k - l * c
        <2>2. j \in Int
            BY <2>1
        <2>3. Wrap(a) = j * DataShards
            BY <1>4
        <2>8. Wrap(a) < SeqSpace
            BY WrapIs, Sizable
        <2> HIDE DEF j
        <2>4. j * DataShards < c * DataShards
            BY <1>1, <2>3, <2>8
        <2>5. j < c
            BY <2>2, <2>4, Sizable, Times
        <2>6. j + 1 <= c
            BY <2>2, <2>5
        <2>7. (j + 1) * DataShards <= c * DataShards
            <3>1. j + 1 \in Int
                BY <2>2
            <3> QED
                BY <2>6, <3>1, Sizable, Times
        <2>9. (j + 1) * DataShards = j * DataShards + DataShards
            BY <2>2, Sizable, Times
        <2> QED
            BY <1>1, <2>3, <2>7, <2>9
    <1>6. Wrap(a) + i \in 0 .. SeqSpace - 1
        <2>1. Wrap(a) \in Nat
            BY WrapIs
        <2>2. DataShards \in Nat /\ SeqSpace \in Nat
            BY Sizable
        <2> QED
            BY <1>5, <2>1, <2>2
    <1>7. Wrap(l * SeqSpace + (Wrap(a) + i)) = Wrap(a) + i
        BY <1>6, WrapOf
    <1>8. a + i = l * SeqSpace + (Wrap(a) + i)
        <2>1. l * SeqSpace \in Int /\ Wrap(a) \in Nat
            BY Sizable, WrapIs
        <2> QED
            BY <1>3, <2>1
    <1> QED
        BY <1>7, <1>8

\* There is a least one in every set of numbers that is not empty.
LEMMA LeastOf ==
    ASSUME NEW T, T \subseteq Nat, T # {}
    PROVE  \E x \in T : \A y \in T : x <= y
    <1> DEFINE D == {x \in Nat : \A y \in T : x <= y}
               k == Cardinality(D)
    <1>1. PICK t \in T : t \in Nat
        OBVIOUS
    <1>2. D \subseteq 0 .. t
        BY <1>1
    <1>3. IsFiniteSet(D) /\ k \in Nat
        <2>1. 0 \in Int /\ t \in Int
            BY <1>1
        <2>2. IsFiniteSet(0 .. t)
            BY <2>1, FS_Interval
        <2>3. IsFiniteSet(D)
            BY <1>2, <2>2, FS_Subset
        <2> QED
            BY <2>3, FS_CardinalityType
    <1>4. 0 \in D /\ \A x \in D : \A y \in 0 .. x : y \in D
        <2>1. \A x \in Nat : x >= 0
            OBVIOUS
        <2>2. ASSUME NEW x \in D, NEW y \in 0 .. x, NEW z \in T PROVE y <= z
            <3>1. x <= z /\ z \in Nat /\ x \in Nat
                OBVIOUS
            <3> QED
                BY <3>1
        <2> QED
            BY <2>1, <2>2
    <1> HIDE DEF D
    <1>5. k \notin D
        <2> SUFFICES ASSUME k \in D PROVE FALSE
            OBVIOUS
        <2>1. 0 .. k \subseteq D
            BY <1>4
        <2>2. Cardinality(0 .. k) = k + 1
            BY <1>3, FS_Interval
        <2>3. Cardinality(0 .. k) <= k
            BY <1>3, <2>1, FS_Subset
        <2> QED
            BY <1>3, <2>2, <2>3
    <1>6. k > 0 /\ k - 1 \in D
        <2> SUFFICES ASSUME ~(k > 0 /\ k - 1 \in D) PROVE FALSE
            OBVIOUS
        <2>1. CASE k = 0
            BY <1>3, <1>4, <2>1, FS_EmptySet
        <2>2. CASE k > 0
            <3>1. D \subseteq 0 .. k - 2
                <4> SUFFICES ASSUME NEW x \in D, ~(x \in 0 .. k - 2) PROVE FALSE
                    OBVIOUS
                <4>1. x \in Nat /\ k - 1 \in 0 .. x
                    BY <1>1, <1>2, <1>3, <2>2
                <4> QED
                    BY <1>4, <2>2, <4>1
            <3>2. Cardinality(0 .. k - 2) = k - 1 /\ IsFiniteSet(0 .. k - 2)
                <4>1. 0 \in Int /\ k - 2 \in Int
                    BY <1>3
                <4>2. Cardinality(0 .. k - 2) = IF 0 > k - 2 THEN 0 ELSE k - 2 - 0 + 1
                    BY <4>1, FS_Interval
                <4>3. IsFiniteSet(0 .. k - 2)
                    BY <4>1, FS_Interval
                <4> QED
                    BY <1>3, <2>2, <4>2, <4>3
            <3>3. k <= k - 1
                BY <3>1, <3>2, FS_Subset
            <3> QED
                BY <1>3, <3>3
        <2> QED
            BY <1>3, <2>1, <2>2
    <1>7. PICK y \in T : ~(k <= y)
        BY <1>3, <1>5 DEF D
    <1>8. \A z \in T : k - 1 <= z /\ z \in Nat
        BY <1>6 DEF D
    <1> QED
        BY <1>3, <1>7, <1>8

(***************************************************************************)
(* The blocks of the queue, by the numbers of the host.                    *)
(***************************************************************************)
\* n is the number of the next packet: the blocks are in order, none is before
\* the one that n is in, and of that one what comes before n was handed out.
BlockFits(q, n, i) ==
    LET b == q.blocks[i]
    IN /\ Starts(b.real) /\ b.base = Wrap(b.real) /\ BaseOf(n) <= b.real
       /\ \A j \in 1 .. i - 1 : q.blocks[j].real < b.real
       /\ IF b.real = BaseOf(n) THEN b.idx = n - b.real ELSE b.idx = 0 /\ ~b.allow
Lined(q, n) ==
    /\ q.next = Wrap(n) /\ q.oldest = Wrap(BaseOf(n))
    /\ \A i \in DOMAIN q.blocks : BlockFits(q, n, i)
Open(q, n) == BaseOf(n) < n => q.blocks # <<>> /\ q.blocks[1].real = BaseOf(n)

\* What the blocks span, and what may arrive, is less than half of the numbers.
Slack == Behind + Ahead + 2 * DataShards
Spans(q, n) == \A i \in DOMAIN q.blocks : 2 * (q.blocks[i].real - BaseOf(n) + Slack) <= SeqSpace
Short(q) == \A i \in DOMAIN q.blocks : 2 * (q.blocks[i].real - q.blocks[1].real + Slack) <= SeqSpace

\* Nothing came for longer than a block and what may be repeated; h is the newest packet.
Top(q, n) == IF q.blocks = <<>> THEN BaseOf(n) ELSE q.blocks[Len(q.blocks)].real
Reach(q, n, h) ==
    /\ n <= h + DataShards
    /\ \A i \in DOMAIN q.blocks : q.blocks[i].real <= h
    /\ h < Top(q, n) + DataShards + Behind
Waiting(q) == q.sync /\ q.oldest = 0 /\ q.blocks = <<>>

\* Two queues differ in nothing these speak of.
Alike(r, q) ==
    /\ r.next = q.next /\ r.oldest = q.oldest /\ r.sync = q.sync /\ r.resync = q.resync
    /\ Len(r.blocks) = Len(q.blocks) /\ (r.blocks = <<>> <=> q.blocks = <<>>) /\ DOMAIN r.blocks = DOMAIN q.blocks
    /\ \A i \in DOMAIN q.blocks :
          /\ r.blocks[i].real = q.blocks[i].real /\ r.blocks[i].base = q.blocks[i].base
          /\ r.blocks[i].idx = q.blocks[i].idx /\ r.blocks[i].allow = q.blocks[i].allow

\* What holds of the numbers of a queue holds of one that is alike.
LEMMA AlikeFits ==
    ASSUME NEW q \in AudioQueues, NEW r \in AudioQueues, Alike(r, q), NEW n \in Nat
    PROVE  /\ Lined(q, n) => Lined(r, n)
           /\ Open(q, n) => Open(r, n)
           /\ Spans(q, n) => Spans(r, n)
           /\ Short(q) <=> Short(r)
           /\ Top(r, n) = Top(q, n)
           /\ \A h : Reach(q, n, h) => Reach(r, n, h)
           /\ r.blocks # <<>> => 1 \in DOMAIN r.blocks /\ Len(r.blocks) \in DOMAIN r.blocks
    <1>1. /\ q.blocks \in Seq(Blocks) /\ r.blocks \in Seq(Blocks)
        BY DEF AudioQueues
    <1>2. /\ DOMAIN r.blocks = DOMAIN q.blocks /\ DOMAIN q.blocks = 1 .. Len(q.blocks) /\ Len(q.blocks) \in Nat
          /\ Len(r.blocks) = Len(q.blocks)
        BY <1>1 DEF Alike
    <1>3. q.blocks # <<>> => 1 \in DOMAIN q.blocks /\ Len(q.blocks) \in DOMAIN q.blocks
        BY <1>1, <1>2
    <1>4. Lined(q, n) => Lined(r, n)
        <2> SUFFICES ASSUME Lined(q, n) PROVE Lined(r, n)
            OBVIOUS
        <2>1. ASSUME NEW i \in DOMAIN r.blocks PROVE BlockFits(r, n, i)
            <3>1. i \in DOMAIN q.blocks /\ BlockFits(q, n, i) /\ \A j \in 1 .. i - 1 : j \in DOMAIN q.blocks
                BY <1>2, <2>1 DEF Lined
            <3> QED
                BY <3>1 DEF BlockFits, Alike
        <2> QED
            BY <2>1 DEF Lined, Alike
    <1>5. Open(q, n) => Open(r, n)
        BY <1>2, <1>3 DEF Open, Alike
    <1>6. (Spans(q, n) => Spans(r, n)) /\ (Short(q) <=> Short(r))
        BY <1>2, <1>3 DEF Spans, Short, Alike
    <1>7. Top(r, n) = Top(q, n)
        BY <1>2, <1>3 DEF Top, Alike
    <1>8. \A h : Reach(q, n, h) => Reach(r, n, h)
        BY <1>2, <1>7 DEF Reach, Alike
    <1>9. r.blocks # <<>> => 1 \in DOMAIN r.blocks /\ Len(r.blocks) \in DOMAIN r.blocks
        BY <1>2, <1>3 DEF Alike
    <1> QED
        BY <1>4, <1>5, <1>6, <1>7, <1>8, <1>9

(* The marks of packets, and a block that is whole.                        *)
LEMMA BlockIsSet ==
    ASSUME NEW q \in AudioQueues, NEW i \in DOMAIN q.blocks, NEW b \in Blocks
    PROVE  LET r == [q EXCEPT !.blocks = [@ EXCEPT ![i] = b]]
           IN  /\ r \in AudioQueues /\ Len(r.blocks) = Len(q.blocks) /\ DOMAIN r.blocks = DOMAIN q.blocks
               /\ (r.blocks = <<>> <=> q.blocks = <<>>)
               /\ r.blocks[i] = b /\ \A j \in DOMAIN q.blocks : j # i => r.blocks[j] = q.blocks[j]
               /\ r.next = q.next /\ r.oldest = q.oldest /\ r.sync = q.sync /\ r.resync = q.resync
               /\ r.incompatible = q.incompatible /\ r.lastOos = q.lastOos /\ r.oos = q.oos
    <1> DEFINE s == [q.blocks EXCEPT ![i] = b]
    <1>1. q.blocks \in Seq(Blocks)
        BY DEF AudioQueues
    <1>2. s \in Seq(Blocks) /\ Len(s) = Len(q.blocks) /\ DOMAIN s = DOMAIN q.blocks /\ s[i] = b
          /\ \A j \in DOMAIN q.blocks : j # i => s[j] = q.blocks[j]
        BY <1>1
    <1>3. s = <<>> <=> q.blocks = <<>>
        BY <1>1, <1>2
    <1> HIDE DEF s
    <1>4. [q EXCEPT !.blocks = s] \in AudioQueues
        BY <1>2 DEF AudioQueues
    <1>5. /\ [q EXCEPT !.blocks = s].blocks = s
          /\ [q EXCEPT !.blocks = s].next = q.next /\ [q EXCEPT !.blocks = s].oldest = q.oldest
          /\ [q EXCEPT !.blocks = s].sync = q.sync /\ [q EXCEPT !.blocks = s].resync = q.resync
          /\ [q EXCEPT !.blocks = s].incompatible = q.incompatible /\ [q EXCEPT !.blocks = s].lastOos = q.lastOos
          /\ [q EXCEPT !.blocks = s].oos = q.oos
        BY DEF AudioQueues
    <1> QED
        BY <1>2, <1>3, <1>4, <1>5 DEF s

\* A packet of the host: data of any number, FEC of a block that starts there.
Shard(p) ==
    /\ p.kind \in {"data", "fec"} /\ p.n \in Nat /\ p.size \in Sizes /\ p.shard \in 0 .. FecShards - 1
    /\ p.kind = "fec" => Starts(p.n)

\* To mark a shard changes no number.
LEMMA MarkedIsAlike ==
    ASSUME NEW q \in AudioQueues, NEW i \in DOMAIN q.blocks, NEW p, Shard(p)
    PROVE  LET r == Marked(q, i, p) IN r \in AudioQueues /\ Alike(r, q) /\ r.incompatible = q.incompatible
    <1>1. q.blocks[i] \in Blocks
        BY DEF AudioQueues
    <1>2. CASE p.kind = "data"
        <2> DEFINE b == [q.blocks[i] EXCEPT !.data = @ \cup {p.n % DataShards}]
        <2>1. p.n % DataShards \in 0 .. DataShards - 1
            BY Sizable, Divides DEF Shard
        <2>2. b \in Blocks /\ b.real = q.blocks[i].real /\ b.base = q.blocks[i].base /\ b.idx = q.blocks[i].idx
              /\ b.allow = q.blocks[i].allow
            BY <1>1, <2>1 DEF Blocks
        <2>3. Marked(q, i, p) = [q EXCEPT !.blocks = [@ EXCEPT ![i] = b]]
            BY <1>2 DEF Marked
        <2> HIDE DEF b
        <2> QED
            BY <2>2, <2>3, BlockIsSet DEF Alike
    <1>3. CASE p.kind # "data"
        <2> DEFINE b == [q.blocks[i] EXCEPT !.fec = @ \cup {p.shard}]
        <2>2. b \in Blocks /\ b.real = q.blocks[i].real /\ b.base = q.blocks[i].base /\ b.idx = q.blocks[i].idx
              /\ b.allow = q.blocks[i].allow
            BY <1>1 DEF Blocks, Shard
        <2>3. Marked(q, i, p) = [q EXCEPT !.blocks = [@ EXCEPT ![i] = b]]
            BY <1>3 DEF Marked
        <2> HIDE DEF b
        <2> QED
            BY <2>2, <2>3, BlockIsSet DEF Alike
    <1> QED
        BY <1>2, <1>3

\* To rebuild a block changes no number.
LEMMA CompletedIsAlike ==
    ASSUME NEW q \in AudioQueues, NEW i \in DOMAIN q.blocks
    PROVE  LET r == Completed(q, i) IN r \in AudioQueues /\ Alike(r, q) /\ r.incompatible = q.incompatible
    <1>1. q.blocks[i] \in Blocks
        BY DEF AudioQueues
    <1>2. CASE Complete(q.blocks[i])
        <2> DEFINE b == [q.blocks[i] EXCEPT !.full = TRUE, !.data = 0 .. DataShards - 1]
        <2>2. b \in Blocks /\ b.real = q.blocks[i].real /\ b.base = q.blocks[i].base /\ b.idx = q.blocks[i].idx
              /\ b.allow = q.blocks[i].allow
            BY <1>1 DEF Blocks
        <2>3. Completed(q, i) = [q EXCEPT !.blocks = [@ EXCEPT ![i] = b]]
            BY <1>2 DEF Completed
        <2> HIDE DEF b
        <2> QED
            BY <2>2, <2>3, BlockIsSet DEF Alike
    <1>3. CASE ~Complete(q.blocks[i])
        BY <1>3 DEF Completed, Alike
    <1> QED
        BY <1>2, <1>3

\* To note a packet that is out of order changes no number.
LEMMA NoteIsAlike ==
    ASSUME NEW q \in AudioQueues, NEW s \in Nat
    PROVE  LET r == NoteOos(q, s)
           IN  r \in AudioQueues /\ Alike(r, q) /\ r.incompatible = q.incompatible /\ r.blocks = q.blocks
    BY DEF NoteOos, AudioQueues, Alike

(* SlotOf finds the block's place by its number.                           *)
LEMMA SlotIsFound ==
    ASSUME NEW q \in AudioQueues, NEW n \in Nat, Lined(q, n), NEW a \in Nat,
           \A i \in DOMAIN q.blocks : 2 * (a - q.blocks[i].real) < SeqSpace /\ 2 * (q.blocks[i].real - a) <= SeqSpace
    PROVE  LET s == SlotOf(q, Wrap(a))
           IN  /\ s \in 1 .. Len(q.blocks) + 1
               /\ \A j \in 1 .. s - 1 : q.blocks[j].real < a
               /\ \A j \in s .. Len(q.blocks) : a <= q.blocks[j].real
               /\ Known(q, Wrap(a)) <=> s <= Len(q.blocks) /\ q.blocks[s].real = a
    <1>1. /\ q.blocks \in Seq(Blocks) /\ DOMAIN q.blocks = 1 .. Len(q.blocks) /\ Len(q.blocks) \in Nat
          /\ \A i \in DOMAIN q.blocks : q.blocks[i].real \in Nat
        <2>1. q.blocks \in Seq(Blocks)
            BY DEF AudioQueues
        <2>2. \A b \in Blocks : b.real \in Nat
            BY DEF Blocks
        <2> QED
            BY <2>1, <2>2
    <1> DEFINE stop == {i \in DOMAIN q.blocks : q.blocks[i].base = Wrap(a) \/ IsBefore16(Wrap(a), q.blocks[i].base)}
    <1>2. ASSUME NEW i \in DOMAIN q.blocks
          PROVE  /\ q.blocks[i].base = Wrap(a) <=> q.blocks[i].real = a
                 /\ IsBefore16(Wrap(a), q.blocks[i].base) <=> a < q.blocks[i].real
        <2>1. q.blocks[i].base = Wrap(q.blocks[i].real) /\ q.blocks[i].real \in Nat
            BY <1>1 DEF Lined, BlockFits
        <2>2. 2 * (a - q.blocks[i].real) < SeqSpace /\ 2 * (q.blocks[i].real - a) <= SeqSpace
            OBVIOUS
        <2>3. a < q.blocks[i].real + SeqSpace /\ q.blocks[i].real < a + SeqSpace
            BY <2>1, <2>2, Sizable
        <2> QED
            BY <2>1, <2>2, <2>3, WrapSame, Before
    <1>3. stop = {i \in DOMAIN q.blocks : a <= q.blocks[i].real}
        BY <1>1, <1>2
    <1>4. SlotOf(q, Wrap(a)) = IF stop = {} THEN Len(q.blocks) + 1 ELSE CHOOSE i \in stop : \A j \in stop : i <= j
        BY DEF SlotOf
    <1> HIDE DEF stop
    <1>5. CASE stop = {}
        <2>1. SlotOf(q, Wrap(a)) = Len(q.blocks) + 1
            BY <1>4, <1>5
        <2>2. \A j \in 1 .. Len(q.blocks) : q.blocks[j].real < a
            BY <1>1, <1>3, <1>5
        <2>3. ~Known(q, Wrap(a))
            BY <1>1, <2>1 DEF Known
        <2> QED
            BY <1>1, <2>1, <2>2, <2>3
    <1>6. CASE stop # {}
        <2> DEFINE s == CHOOSE i \in stop : \A j \in stop : i <= j
        <2>1. stop \subseteq Nat
            BY <1>1, <1>3
        <2>2. s \in stop /\ \A j \in stop : s <= j
            BY <1>6, <2>1, LeastOf
        <2>3. SlotOf(q, Wrap(a)) = s
            BY <1>4, <1>6
        <2> HIDE DEF s
        <2>4. s \in 1 .. Len(q.blocks) /\ a <= q.blocks[s].real
            BY <1>1, <1>3, <2>2
        <2>5. \A j \in 1 .. s - 1 : q.blocks[j].real < a
            <3>1. ASSUME NEW j \in 1 .. s - 1 PROVE q.blocks[j].real < a
                <4>1. j \in DOMAIN q.blocks /\ q.blocks[j].real \in Nat /\ j \notin stop
                    BY <1>1, <2>2, <2>4
                <4> QED
                    BY <1>3, <4>1
            <3> QED
                BY <3>1
        <2>6. \A j \in s .. Len(q.blocks) : a <= q.blocks[j].real
            <3> SUFFICES ASSUME NEW j \in s .. Len(q.blocks) PROVE a <= q.blocks[j].real
                OBVIOUS
            <3>1. j \in DOMAIN q.blocks /\ (s < j => s \in 1 .. j - 1)
                BY <1>1, <2>4
            <3>2. s < j => q.blocks[s].real < q.blocks[j].real
                BY <3>1 DEF Lined, BlockFits
            <3>3. q.blocks[s].real \in Nat /\ q.blocks[j].real \in Nat /\ s \in Nat /\ j \in Nat /\ s <= j
                <4>1. s \in DOMAIN q.blocks /\ j \in Nat /\ s <= j /\ s \in Nat
                    BY <1>1, <2>4
                <4> QED
                    BY <1>1, <3>1, <4>1
            <3>4. CASE s = j
                BY <2>4, <3>4
            <3>5. CASE s # j
                <4>1. s < j
                    BY <3>3, <3>5
                <4>2. q.blocks[s].real < q.blocks[j].real /\ a <= q.blocks[s].real
                    BY <2>4, <3>2, <4>1
                <4> QED
                    BY <3>3, <4>2
            <3> QED
                BY <3>4, <3>5
        <2>7. Known(q, Wrap(a)) <=> q.blocks[s].real = a
            BY <1>1, <1>2, <2>3, <2>4 DEF Known
        <2> QED
            BY <1>1, <2>3, <2>4, <2>5, <2>6, <2>7
    <1> QED
        BY <1>5, <1>6

\* What InsertAt leaves where.
LEMMA Inserted ==
    ASSUME NEW S, NEW s \in Seq(S), NEW i \in 1 .. Len(s) + 1, NEW e \in S, NEW t, t = InsertAt(s, i, e)
    PROVE      /\ t \in Seq(S) /\ Len(t) = Len(s) + 1 /\ DOMAIN t = 1 .. Len(s) + 1 /\ t[i] = e
               /\ \A k \in DOMAIN t : k < i => k \in DOMAIN s /\ t[k] = s[k]
               /\ \A k \in DOMAIN t : i < k => k - 1 \in DOMAIN s /\ t[k] = s[k - 1]
    <1> DEFINE a == SubSeq(s, 1, i - 1)
               c == SubSeq(s, i, Len(s))
    <1>1. Len(s) \in Nat /\ i \in Nat /\ DOMAIN s = 1 .. Len(s) /\ \A k \in DOMAIN s : s[k] \in S
        OBVIOUS
    <1>2. a \in Seq(S) /\ Len(a) = i - 1 /\ \A k \in 1 .. i - 1 : a[k] = s[k]
        <2>1. i - 1 \in 0 .. Len(s)
            BY <1>1
        <2>2. a = [k \in 1 .. i - 1 |-> s[k]]
            BY <1>1, <2>1
        <2> QED
            BY <1>1, <2>1, <2>2
    <1>3. c \in Seq(S) /\ Len(c) = Len(s) - i + 1 /\ \A k \in 1 .. Len(s) - i + 1 : c[k] = s[i + k - 1]
        <2>1. Len(s) - i + 1 \in Nat
            BY <1>1
        <2>2. c = [k \in 1 .. Len(s) - i + 1 |-> s[i + k - 1]]
            BY <1>1, <2>1
        <2>3. \A k \in 1 .. Len(s) - i + 1 : s[i + k - 1] \in S
            BY <1>1
        <2> QED
            BY <1>1, <2>1, <2>2, <2>3
    <1>4. t = (a \o <<e>>) \o c
        BY DEF InsertAt
    <1> HIDE DEF a, c
    <1>5. (a \o <<e>>) \in Seq(S) /\ Len(a \o <<e>>) = i /\ (a \o <<e>>)[i] = e
          /\ \A k \in 1 .. i - 1 : (a \o <<e>>)[k] = s[k]
        BY <1>1, <1>2
    <1>6. t \in Seq(S) /\ Len(t) = Len(s) + 1 /\ DOMAIN t = 1 .. Len(s) + 1
        <2> DEFINE u == a \o <<e>>
        <2>1. u \in Seq(S) /\ Len(u) = i /\ t = u \o c
            BY <1>4, <1>5
        <2> HIDE DEF u
        <2>2. t \in Seq(S) /\ Len(t) = Len(u) + Len(c)
            BY <1>3, <2>1
        <2> QED
            BY <1>1, <1>3, <2>1, <2>2
    <1>7. t[i] = e /\ \A k \in 1 .. i - 1 : t[k] = s[k]
        BY <1>1, <1>3, <1>4, <1>5
    <1>8. ASSUME NEW k \in DOMAIN t, i < k PROVE k - 1 \in DOMAIN s /\ t[k] = s[k - 1]
        <2>1. k \in Nat /\ k - i \in 1 .. Len(s) - i + 1 /\ k \in Len(a \o <<e>>) + 1 .. Len(a \o <<e>>) + Len(c)
            BY <1>1, <1>3, <1>5, <1>6, <1>8
        <2>2. t[k] = c[k - i]
            <3> DEFINE u == a \o <<e>>
            <3>1. u \in Seq(S) /\ Len(u) = i /\ t = u \o c
                BY <1>4, <1>5
            <3> HIDE DEF u
            <3>2. t[k] = IF k <= Len(u) THEN u[k] ELSE c[k - Len(u)]
                BY <1>1, <1>3, <2>1, <3>1
            <3> QED
                BY <1>8, <2>1, <3>1, <3>2
        <2>3. c[k - i] = s[i + (k - i) - 1]
            BY <1>3, <2>1
        <2>4. i + (k - i) - 1 = k - 1
            BY <1>1, <2>1
        <2> QED
            BY <1>1, <1>6, <1>8, <2>1, <2>2, <2>3, <2>4
    <1>9. \A k \in DOMAIN t : k < i => k \in DOMAIN s /\ t[k] = s[k]
        BY <1>1, <1>6, <1>7
    <1> QED
        BY <1>6, <1>7, <1>8, <1>9

(***************************************************************************)
(* What may arrive.                                                        *)
(***************************************************************************)
\* A packet of the host that is near the newest one, and the newest one after it.
Near(p, h) == Shard(p) /\ p.n <= h + Ahead /\ h <= p.n + Behind
Newest(h, x) == IF x > h THEN x ELSE h

(* Where the blocks are, and where the packet may be.                      *)
LEMMA BlocksLie ==
    ASSUME NEW q \in AudioQueues, NEW n \in Nat, Lined(q, n)
    PROVE  /\ q.blocks \in Seq(Blocks) /\ DOMAIN q.blocks = 1 .. Len(q.blocks) /\ Len(q.blocks) \in Nat
           /\ \A i \in DOMAIN q.blocks : q.blocks[i].real \in Nat /\ BaseOf(n) <= q.blocks[i].real
           /\ \A i \in DOMAIN q.blocks : \A j \in DOMAIN q.blocks : j < i => q.blocks[j].real < q.blocks[i].real
           /\ Top(q, n) \in Nat /\ BaseOf(n) <= Top(q, n) /\ \A i \in DOMAIN q.blocks : q.blocks[i].real <= Top(q, n)
           /\ Spans(q, n) => 2 * (Top(q, n) - BaseOf(n) + Slack) <= SeqSpace \/ q.blocks = <<>>
           /\ q.blocks # <<>> => 1 \in DOMAIN q.blocks /\ Len(q.blocks) \in DOMAIN q.blocks
           /\ q.blocks # <<>> => Top(q, n) = q.blocks[Len(q.blocks)].real
           /\ q.blocks = <<>> => Top(q, n) = BaseOf(n)
    <1>1. q.blocks \in Seq(Blocks) /\ DOMAIN q.blocks = 1 .. Len(q.blocks) /\ Len(q.blocks) \in Nat
        BY DEF AudioQueues
    <1>2. \A b \in Blocks : b.real \in Nat
        BY DEF Blocks
    <1>3. \A i \in DOMAIN q.blocks : q.blocks[i].real \in Nat /\ BaseOf(n) <= q.blocks[i].real
        BY <1>1, <1>2 DEF Lined, BlockFits
    <1>4. \A i \in DOMAIN q.blocks : \A j \in DOMAIN q.blocks : j < i => q.blocks[j].real < q.blocks[i].real
        <2> SUFFICES ASSUME NEW i \in DOMAIN q.blocks, NEW j \in DOMAIN q.blocks, j < i
                     PROVE  q.blocks[j].real < q.blocks[i].real
            OBVIOUS
        <2>1. j \in 1 .. i - 1
            BY <1>1
        <2> QED
            BY <2>1 DEF Lined, BlockFits
    <1>5. q.blocks # <<>> => 1 \in DOMAIN q.blocks /\ Len(q.blocks) \in DOMAIN q.blocks
        BY <1>1
    <1>6. BaseOf(n) \in Nat
        BY BlockOf
    <1>7. Top(q, n) \in Nat /\ BaseOf(n) <= Top(q, n)
        BY <1>3, <1>5, <1>6 DEF Top
    <1>8. ASSUME NEW i \in DOMAIN q.blocks PROVE q.blocks[i].real <= Top(q, n)
        <2>1. q.blocks # <<>> /\ Top(q, n) = q.blocks[Len(q.blocks)].real
            BY <1>1 DEF Top
        <2>2. CASE i = Len(q.blocks)
            BY <1>3, <2>1, <2>2
        <2>3. CASE i # Len(q.blocks)
            <3>1. i < Len(q.blocks) /\ Len(q.blocks) \in DOMAIN q.blocks
                BY <1>1, <2>3
            <3> QED
                BY <1>3, <1>4, <2>1, <3>1
        <2> QED
            BY <2>2, <2>3
    <1>9. Spans(q, n) => 2 * (Top(q, n) - BaseOf(n) + Slack) <= SeqSpace \/ q.blocks = <<>>
        BY <1>5 DEF Spans, Top
    <1> QED
        BY <1>1, <1>3, <1>4, <1>5, <1>7, <1>8, <1>9 DEF Top

\* What may arrive is less than half of the space from every block and from the next packet.
LEMMA PacketLies ==
    ASSUME NEW q \in AudioQueues, NEW n \in Nat, NEW h \in Nat, Lined(q, n), Spans(q, n), Reach(q, n, h),
           NEW p, Near(p, h)
    PROVE  /\ BaseOf(p.n) \in Nat /\ p.n \in Nat /\ BaseOf(p.n) <= p.n /\ p.n < BaseOf(p.n) + DataShards
           /\ 2 * (BaseOf(p.n) - BaseOf(n)) < SeqSpace /\ 2 * (BaseOf(n) - BaseOf(p.n)) <= SeqSpace
           /\ \A i \in DOMAIN q.blocks : /\ 2 * (BaseOf(p.n) - q.blocks[i].real) < SeqSpace
                                         /\ 2 * (q.blocks[i].real - BaseOf(p.n)) <= SeqSpace
           /\ p.n < n + SeqSpace /\ n < p.n + SeqSpace
    <1> DEFINE a == BaseOf(p.n)
               t == Top(q, n)
    <1>0. p.n \in Nat /\ p.n <= h + Ahead /\ h <= p.n + Behind
        BY DEF Near, Shard
    <1>1. a \in Nat /\ a <= p.n /\ p.n < a + DataShards
        BY <1>0, BlockOf
    <1>2. BaseOf(n) \in Nat /\ BaseOf(n) <= n /\ n < BaseOf(n) + DataShards
        BY BlockOf
    <1>3. t \in Nat /\ BaseOf(n) <= t /\ h < t + DataShards + Behind /\ n <= h + DataShards
        BY BlocksLie DEF Reach
    <1>4. 2 * (t - BaseOf(n) + (DataShards + Behind + Ahead)) <= SeqSpace
        <2>1. CASE q.blocks = <<>>
            <3>1. t = BaseOf(n)
                BY <2>1, BlocksLie
            <3> QED
                BY <1>2, <3>1, NumbersSuffice, Sizable
        <2>2. CASE q.blocks # <<>>
            <3>1. 2 * (t - BaseOf(n) + Slack) <= SeqSpace
                BY <2>2, BlocksLie
            <3> QED
                BY <1>2, <1>3, <3>1, Sizable DEF Slack
        <2> QED
            BY <2>1, <2>2
    <1> HIDE DEF a, t
    <1>5. a < t + DataShards + Behind + Ahead
        BY <1>0, <1>1, <1>3, Sizable
    <1>6. 2 * (a - BaseOf(n)) < SeqSpace
        BY <1>1, <1>2, <1>3, <1>4, <1>5, Sizable
    <1>7. 2 * (BaseOf(n) - a) <= SeqSpace
        BY <1>0, <1>1, <1>2, <1>3, NumbersSuffice, Sizable
    <1>8. ASSUME NEW i \in DOMAIN q.blocks
          PROVE  2 * (a - q.blocks[i].real) < SeqSpace /\ 2 * (q.blocks[i].real - a) <= SeqSpace
        <2>1. q.blocks[i].real \in Nat /\ BaseOf(n) <= q.blocks[i].real /\ q.blocks[i].real <= h
            BY BlocksLie DEF Reach
        <2>2. 2 * (a - q.blocks[i].real) < SeqSpace
            BY <1>1, <1>2, <1>6, <2>1, Sizable
        <2>3. 2 * (q.blocks[i].real - a) <= SeqSpace
            BY <1>0, <1>1, <2>1, NumbersSuffice, Sizable
        <2> QED
            BY <2>2, <2>3
    <1>9. p.n < n + SeqSpace /\ n < p.n + SeqSpace
        <2>1. n - p.n <= Behind + DataShards
            BY <1>0, <1>3, Sizable
        <2>2. p.n - n < DataShards + 2 * DataShards + (a - BaseOf(n))
            BY <1>0, <1>1, <1>2, Sizable
        <2> QED
            BY <1>0, <1>1, <1>2, <1>6, <2>1, NumbersSuffice, Sizable
    <1> QED
        BY <1>0, <1>1, <1>6, <1>7, <1>8, <1>9 DEF a

(* A block that is new goes where its number belongs.                      *)
LEMMA BlockIsAdded ==
    ASSUME NEW q \in AudioQueues, NEW n \in Nat, NEW h \in Nat, Lined(q, n), Open(q, n), Spans(q, n), Reach(q, n, h),
           NEW p, Near(p, h), ~Known(q, Wrap(BaseOf(p.n))), BaseOf(n) <= BaseOf(p.n)
    PROVE  LET i == SlotOf(q, Wrap(BaseOf(p.n)))
               r == [q EXCEPT !.blocks = InsertAt(@, i, NewBlock(p.n, p.size))]
           IN  /\ r \in AudioQueues /\ Lined(r, n) /\ Open(r, n) /\ Reach(r, n, Newest(h, p.n))
               /\ i \in DOMAIN r.blocks /\ r.blocks[i] = NewBlock(p.n, p.size)
               /\ \A k \in DOMAIN r.blocks : 2 * (r.blocks[k].real - BaseOf(n)) <= SeqSpace
               /\ BaseOf(p.n) = BaseOf(n) => Spans(r, n)
               /\ r.resync = q.resync /\ r.incompatible = q.incompatible /\ r.sync = q.sync /\ r.blocks # <<>>
    <1> DEFINE a == BaseOf(p.n)
               s == q.blocks
               i == SlotOf(q, Wrap(a))
               b == NewBlock(p.n, p.size)
               t == InsertAt(s, i, b)
               r == [q EXCEPT !.blocks = t]
    <1>1. /\ a \in Nat /\ p.n \in Nat /\ a <= p.n /\ p.n < a + DataShards
          /\ 2 * (a - BaseOf(n)) < SeqSpace
          /\ \A k \in DOMAIN s : 2 * (a - s[k].real) < SeqSpace /\ 2 * (s[k].real - a) <= SeqSpace
          /\ Starts(a)
        BY PacketLies, BlockOf
    <1>2. /\ i \in 1 .. Len(s) + 1
          /\ \A j \in 1 .. i - 1 : s[j].real < a
          /\ \A j \in i .. Len(s) : a <= s[j].real
          /\ ~(i <= Len(s) /\ s[i].real = a)
        BY <1>1, SlotIsFound
    <1>3. /\ s \in Seq(Blocks) /\ DOMAIN s = 1 .. Len(s) /\ Len(s) \in Nat
          /\ \A k \in DOMAIN s : s[k].real \in Nat /\ BaseOf(n) <= s[k].real
          /\ \A k \in DOMAIN s : \A j \in DOMAIN s : j < k => s[j].real < s[k].real
        BY BlocksLie
    <1>4. b \in Blocks /\ b.base = Wrap(a) /\ b.real = a /\ b.idx = 0 /\ b.allow = FALSE
        BY <1>1, WrapIs, Sizable DEF NewBlock, Blocks, Near, Shard
    <1> HIDE DEF i, b
    <1>5. /\ t \in Seq(Blocks) /\ Len(t) = Len(s) + 1 /\ DOMAIN t = 1 .. Len(s) + 1 /\ t[i] = b
          /\ \A k \in DOMAIN t : k < i => k \in DOMAIN s /\ t[k] = s[k]
          /\ \A k \in DOMAIN t : i < k => k - 1 \in DOMAIN s /\ t[k] = s[k - 1]
        <2>1. b \in Blocks /\ i \in 1 .. Len(s) + 1 /\ s \in Seq(Blocks) /\ t = InsertAt(s, i, b)
            BY <1>2, <1>3, <1>4
        <2> HIDE DEF t, s
        <2> QED
            BY <2>1, Inserted
    <1>6. q.next = Wrap(n) /\ q.oldest = Wrap(BaseOf(n)) /\ \A k \in DOMAIN s : BlockFits(q, n, k)
        BY DEF Lined
    <1> HIDE DEF a, t
    <1>7. /\ r \in AudioQueues /\ r.blocks = t /\ r.next = q.next /\ r.oldest = q.oldest
          /\ r.resync = q.resync /\ r.incompatible = q.incompatible /\ r.sync = q.sync
        BY <1>5 DEF AudioQueues
    <1>8. \A j \in i .. Len(s) : a < s[j].real
        <2> SUFFICES ASSUME NEW j \in i .. Len(s) PROVE a < s[j].real
            OBVIOUS
        <2>1. j \in DOMAIN s /\ i \in DOMAIN s /\ a <= s[j].real /\ a <= s[i].real /\ s[i].real # a
            BY <1>2, <1>3
        <2>2. CASE i = j
            BY <1>1, <1>3, <2>1, <2>2
        <2>3. CASE i # j
            <3>1. s[i].real < s[j].real
                BY <1>2, <1>3, <2>1, <2>3
            <3>2. s[i].real \in Nat /\ s[j].real \in Nat /\ a \in Nat
                BY <1>1, <1>3, <2>1
            <3>3. a < s[i].real
                BY <2>1, <3>2
            <3> QED
                BY <3>1, <3>2, <3>3
        <2> QED
            BY <2>2, <2>3
    <1> HIDE DEF r
    <1>9. a = BaseOf(n) => BaseOf(n) = n /\ i = 1
        <2> SUFFICES ASSUME a = BaseOf(n) PROVE BaseOf(n) = n /\ i = 1
            OBVIOUS
        <2>1. i = 1
            <3> SUFFICES ASSUME i # 1 PROVE FALSE
                OBVIOUS
            <3>1. 1 \in 1 .. i - 1 /\ 1 \in DOMAIN s
                BY <1>2, <1>3
            <3>2. s[1].real < a /\ BaseOf(n) <= s[1].real /\ s[1].real \in Nat
                BY <1>2, <1>3, <3>1
            <3> QED
                BY <1>1, <3>2
        <2>2. CASE BaseOf(n) < n
            <3>1. s # <<>> /\ s[1].real = a
                BY <2>2 DEF Open
            <3>2. 1 <= Len(s)
                BY <1>3, <3>1
            <3> QED
                BY <1>2, <2>1, <3>1, <3>2
        <2>3. BaseOf(n) \in Nat /\ BaseOf(n) <= n
            BY BlockOf
        <2> QED
            BY <2>1, <2>2, <2>3
    <1>10. Lined(r, n)
        <2>1. ASSUME NEW k \in DOMAIN t PROVE BlockFits(r, n, k)
            <3>1. CASE k = i
                <4>1. \A j \in 1 .. k - 1 : t[j].real < a
                    BY <1>2, <1>3, <1>5, <3>1
                <4>2. IF a = BaseOf(n) THEN b.idx = n - a ELSE b.idx = 0 /\ ~b.allow
                    BY <1>1, <1>4, <1>9
                <4> QED
                    BY <1>1, <1>4, <1>5, <1>7, <3>1, <4>1, <4>2 DEF BlockFits, a
            <3>2. CASE k < i
                <4>1. k \in DOMAIN s /\ t[k] = s[k] /\ \A j \in 1 .. k - 1 : j \in DOMAIN t /\ j < i
                    BY <1>2, <1>3, <1>5, <3>2
                <4>2. \A j \in 1 .. k - 1 : t[j] = s[j]
                    BY <1>5, <4>1
                <4> QED
                    BY <1>6, <1>7, <4>1, <4>2 DEF BlockFits
            <3>3. CASE i < k
                <4>1. k - 1 \in DOMAIN s /\ t[k] = s[k - 1] /\ k - 1 \in i .. Len(s)
                    BY <1>2, <1>3, <1>5, <3>3
                <4>2. BlockFits(q, n, k - 1) /\ a < s[k - 1].real
                    BY <1>6, <1>8, <4>1
                <4>3. ASSUME NEW j \in 1 .. k - 1 PROVE t[j].real < t[k].real
                    <5>1. j \in DOMAIN t /\ j \in Nat
                        BY <1>5, <4>1
                    <5>2. CASE j < i
                        <6>1. j \in DOMAIN s /\ t[j] = s[j] /\ j < k - 1
                            BY <1>5, <3>3, <5>1, <5>2, <1>2, <4>1
                        <6> QED
                            BY <1>3, <4>1, <6>1
                    <5>3. CASE j = i
                        BY <1>4, <1>5, <4>1, <4>2, <5>3
                    <5>4. CASE i < j
                        <6>1. j - 1 \in DOMAIN s /\ t[j] = s[j - 1] /\ j - 1 < k - 1
                            BY <1>5, <5>1, <5>4, <4>1, <4>3
                        <6> QED
                            BY <1>3, <4>1, <6>1
                    <5> QED
                        BY <1>2, <5>1, <5>2, <5>3, <5>4
                <4> QED
                    BY <1>7, <4>1, <4>2, <4>3 DEF BlockFits
            <3> QED
                BY <1>2, <1>5, <3>1, <3>2, <3>3
        <2> QED
            BY <1>6, <1>7, <2>1 DEF Lined
    <1>11. 1 \in DOMAIN t /\ t # <<>> /\ Len(t) \in DOMAIN t /\ i \in DOMAIN t
        BY <1>2, <1>3, <1>5
    <1>12. Open(r, n)
        <2> SUFFICES ASSUME BaseOf(n) < n PROVE t[1].real = BaseOf(n)
            BY <1>7, <1>11 DEF Open
        <2>1. s # <<>> /\ s[1].real = BaseOf(n)
            BY DEF Open
        <2>2. i # 1
            <3> SUFFICES ASSUME i = 1 PROVE FALSE
                OBVIOUS
            <3>1. 1 \in i .. Len(s) /\ 1 \in DOMAIN s
                BY <1>3, <2>1
            <3>2. a < s[1].real
                BY <1>8, <3>1
            <3>3. BaseOf(n) <= a /\ BaseOf(n) \in Nat
                BY BlockOf DEF a
            <3> QED
                BY <1>1, <2>1, <3>2, <3>3
        <2>3. 1 < i
            BY <1>2, <2>2
        <2> QED
            BY <1>5, <1>11, <2>1, <2>3
    <1>13. \A k \in DOMAIN t : (t[k].real = a \/ \E j \in DOMAIN s : t[k].real = s[j].real)
        <2> SUFFICES ASSUME NEW k \in DOMAIN t PROVE t[k].real = a \/ \E j \in DOMAIN s : t[k].real = s[j].real
            OBVIOUS
        <2>1. k < i \/ k = i \/ i < k
            BY <1>2, <1>5
        <2> QED
            BY <1>4, <1>5, <2>1
    <1>14. Reach(r, n, Newest(h, p.n))
        <2>1. n <= Newest(h, p.n) + DataShards /\ h <= Newest(h, p.n) /\ p.n <= Newest(h, p.n) /\ Newest(h, p.n) \in Nat
            BY <1>1, Sizable DEF Newest, Reach
        <2>2. \A k \in DOMAIN t : t[k].real <= Newest(h, p.n)
            <3>1. \A j \in DOMAIN s : s[j].real <= Newest(h, p.n)
                BY <1>3, <2>1 DEF Reach
            <3> QED
                BY <1>1, <1>13, <2>1, <3>1
        <2>3. Newest(h, p.n) < Top(r, n) + DataShards + Behind
            <3>1. Top(r, n) = t[Len(t)].real
                BY <1>7, <1>11 DEF Top
            <3>2. CASE i = Len(s) + 1
                <4>1. Top(r, n) = a
                    BY <1>4, <1>5, <3>1, <3>2
                <4>2. h <= p.n + Behind
                    BY DEF Near
                <4> QED
                    BY <1>1, <4>1, <4>2, Sizable DEF Newest
            <3>3. CASE i # Len(s) + 1
                <4>1. i <= Len(s) /\ i < Len(t) /\ Len(t) - 1 = Len(s) /\ Len(s) \in DOMAIN s /\ Len(s) \in i .. Len(s)
                    BY <1>2, <1>3, <1>5, <3>3
                <4>2. t[Len(t)] = s[Len(s)]
                    BY <1>5, <1>11, <4>1
                <4>3. a < s[Len(s)].real /\ s[Len(s)].real \in Nat
                    BY <1>3, <1>8, <4>1
                <4>4. h < s[Len(s)].real + DataShards + Behind
                    <5>1. s # <<>>
                        BY <1>3, <4>1
                    <5> QED
                        BY <5>1 DEF Reach, Top
                <4>5. Top(r, n) = s[Len(s)].real
                    BY <3>1, <4>2
                <4>6. p.n < s[Len(s)].real + DataShards + Behind
                    <5>1. p.n \in Nat /\ a \in Nat /\ p.n < a + DataShards
                        BY <1>1
                    <5>2. Behind \in Nat /\ DataShards \in Nat
                        BY Sizable
                    <5> QED
                        BY <4>3, <5>1, <5>2
                <4> QED
                    BY <4>4, <4>5, <4>6 DEF Newest
            <3> QED
                BY <3>2, <3>3
        <2> QED
            BY <1>7, <2>1, <2>2, <2>3 DEF Reach
    <1>15. \A k \in DOMAIN t : 2 * (t[k].real - BaseOf(n)) <= SeqSpace
        <2>1. \A j \in DOMAIN s : 2 * (s[j].real - BaseOf(n)) <= SeqSpace
            <3> SUFFICES ASSUME NEW j \in DOMAIN s PROVE 2 * (s[j].real - BaseOf(n)) <= SeqSpace
                OBVIOUS
            <3>0. 2 * (s[j].real - BaseOf(n) + Slack) <= SeqSpace
                BY DEF Spans
            <3>1. s[j].real \in Nat /\ BaseOf(n) \in Nat /\ Slack \in Nat
                <4>1. s[j].real \in Nat
                    BY <1>3
                <4>2. Slack \in Nat
                    BY Sizable DEF Slack
                <4> QED
                    BY <4>1, <4>2, BlockOf
            <3> QED
                BY <3>0, <3>1, Sizable
        <2>2. BaseOf(n) \in Nat
            BY BlockOf
        <2> QED
            BY <1>1, <1>13, <2>1, <2>2, Sizable
    <1>16. a = BaseOf(n) => Spans(r, n)
        <2> SUFFICES ASSUME a = BaseOf(n), NEW k \in DOMAIN t PROVE 2 * (t[k].real - BaseOf(n) + Slack) <= SeqSpace
            BY <1>7 DEF Spans
        <2>1. CASE t[k].real = a
            <3>1. t[k].real - BaseOf(n) = 0 /\ Slack \in Nat /\ 2 * Slack < SeqSpace
                BY <1>1, <2>1, NumbersSuffice, Sizable DEF Slack
            <3> QED
                BY <3>1, Sizable
        <2>2. CASE t[k].real # a
            BY <1>13, <2>2 DEF Spans
        <2> QED
            BY <2>1, <2>2
    <1> QED
        BY <1>5, <1>7, <1>10, <1>11, <1>12, <1>14, <1>15, <1>16 DEF a, b, i, t, r

(* What the search leaves: every block in its place, and the packet's, if it *)
(* has one; where a block was put in, it is the only one that may be far.  *)
LEMMA PacketIsPlaced ==
    ASSUME NEW q \in AudioQueues, NEW n \in Nat, NEW h \in Nat, Lined(q, n), Open(q, n), Spans(q, n), Reach(q, n, h),
           NEW p, Near(p, h), ~(q.sync /\ q.oldest = 0)
    PROVE  LET f == FindBlock(q, p)
           IN  /\ f.q \in AudioQueues /\ Lined(f.q, n) /\ Open(f.q, n) /\ Reach(f.q, n, Newest(h, p.n))
               /\ \A k \in DOMAIN f.q.blocks : 2 * (f.q.blocks[k].real - BaseOf(n)) <= SeqSpace
               /\ f.q.resync = q.resync /\ f.q.sync = q.sync /\ (f.q.blocks = <<>> => q.blocks = <<>>)
               /\ f.at = 0 => Spans(f.q, n)
               /\ f.at # 0 => /\ f.at \in DOMAIN f.q.blocks /\ f.q.blocks[f.at].real = BaseOf(p.n)
                              /\ f.q.incompatible = q.incompatible
               /\ \/ Spans(f.q, n)
                  \/ /\ f.at # 0 /\ f.q.blocks[f.at].data = {} /\ f.q.blocks[f.at].fec = {}
                     /\ BaseOf(p.n) # BaseOf(n)
    <1> DEFINE g == Newest(h, p.n)
               r == IF p.kind = "data" THEN NoteOos(q, Wrap(p.n)) ELSE q
               a == BaseOf(p.n)
               i == SlotOf(r, Wrap(a))
               f == FindBlock(q, p)
    <1>1. p.kind \in {"data", "fec"} /\ p.n \in Nat
        BY DEF Near, Shard
    <1>2. r \in AudioQueues /\ Alike(r, q) /\ r.incompatible = q.incompatible
        <2>1. Wrap(p.n) \in Nat
            BY <1>1, WrapIs
        <2> QED
            BY <2>1, NoteIsAlike DEF Alike
    <1>3. Lined(r, n) /\ Open(r, n) /\ Spans(r, n) /\ Reach(r, n, h)
        BY <1>2, AlikeFits
    <1>4. ~(r.sync /\ r.oldest = 0) /\ r.sync = q.sync /\ r.resync = q.resync /\ (r.blocks = <<>> => q.blocks = <<>>)
        BY <1>2 DEF Alike
    <1> HIDE DEF r
    <1>5. f = IF IsBefore16(Wrap(a), r.oldest) THEN Rejected(r)
              ELSE IF ~Known(r, Wrap(a))
              THEN [q |-> [r EXCEPT !.blocks = InsertAt(@, i, NewBlock(p.n, p.size))], at |-> i]
              ELSE IF r.blocks[i].size # p.size
              THEN Rejected([r EXCEPT !.incompatible = TRUE])
              ELSE [q |-> r, at |-> IF r.blocks[i].full THEN 0 ELSE i]
        BY <1>1, <1>4 DEF FindBlock, r
    <1>6. /\ a \in Nat /\ p.n \in Nat /\ a <= p.n /\ p.n < a + DataShards
          /\ 2 * (a - BaseOf(n)) < SeqSpace /\ 2 * (BaseOf(n) - a) <= SeqSpace
          /\ \A k \in DOMAIN r.blocks : 2 * (a - r.blocks[k].real) < SeqSpace /\ 2 * (r.blocks[k].real - a) <= SeqSpace
        BY <1>2, <1>3, PacketLies
    <1>7. IsBefore16(Wrap(a), r.oldest) <=> a < BaseOf(n)
        <2>1. r.oldest = Wrap(BaseOf(n)) /\ BaseOf(n) \in Nat
            BY <1>3, BlockOf DEF Lined
        <2> QED
            BY <1>6, <2>1, Before
    <1>8. /\ i \in 1 .. Len(r.blocks) + 1
          /\ Known(r, Wrap(a)) <=> i <= Len(r.blocks) /\ r.blocks[i].real = a
        BY <1>2, <1>3, <1>6, SlotIsFound
    <1>9. /\ Top(r, n) \in Nat /\ BaseOf(n) <= Top(r, n) /\ BaseOf(n) \in Nat
          /\ \A k \in DOMAIN r.blocks : r.blocks[k].real <= Top(r, n)
          /\ \A k \in DOMAIN r.blocks : r.blocks[k].real \in Nat
          /\ r.blocks \in Seq(Blocks) /\ DOMAIN r.blocks = 1 .. Len(r.blocks) /\ Len(r.blocks) \in Nat
        BY <1>2, <1>3, BlocksLie, BlockOf
    <1>10. \A k \in DOMAIN r.blocks : 2 * (r.blocks[k].real - BaseOf(n)) <= SeqSpace
        <2> SUFFICES ASSUME NEW k \in DOMAIN r.blocks PROVE 2 * (r.blocks[k].real - BaseOf(n)) <= SeqSpace
            OBVIOUS
        <2>1. 2 * (r.blocks[k].real - BaseOf(n) + Slack) <= SeqSpace
            BY <1>3 DEF Spans
        <2>2. r.blocks[k].real \in Nat /\ BaseOf(n) \in Nat
            BY <1>9
        <2>3. Slack \in Nat
            BY Sizable DEF Slack
        <2> QED
            BY <2>1, <2>2, <2>3, Sizable
    <1>11. a <= Top(r, n) => Reach(r, n, g)
        <2> SUFFICES ASSUME a <= Top(r, n) PROVE Reach(r, n, g)
            OBVIOUS
        <2>1. h <= g /\ g \in Nat /\ (g = h \/ g = p.n)
            BY <1>6 DEF Newest
        <2>2. n <= h + DataShards /\ h < Top(r, n) + DataShards + Behind /\ \A k \in DOMAIN r.blocks : r.blocks[k].real <= h
            BY <1>3 DEF Reach
        <2>3. p.n < Top(r, n) + DataShards + Behind
            <3>1. p.n \in Nat /\ a \in Nat /\ p.n < a + DataShards /\ Top(r, n) \in Nat
                BY <1>6, <1>9
            <3>2. DataShards \in Nat /\ Behind \in Nat
                BY Sizable
            <3> QED
                BY <3>1, <3>2
        <2>4. n <= g + DataShards
            BY <2>1, <2>2, Sizable
        <2>5. \A k \in DOMAIN r.blocks : r.blocks[k].real <= g
            BY <1>9, <2>1, <2>2
        <2>6. g < Top(r, n) + DataShards + Behind
            BY <2>1, <2>2, <2>3
        <2> QED
            BY <2>4, <2>5, <2>6 DEF Reach
    <1> HIDE DEF f, g, a
    <1>12. CASE a < BaseOf(n)
        <2>1. f = Rejected(r)
            BY <1>5, <1>7, <1>12
        <2>2. f.q = r /\ f.at = 0
            BY <2>1 DEF Rejected
        <2>3. a <= Top(r, n)
            BY <1>6, <1>9, <1>12
        <2> QED
            BY <1>2, <1>3, <1>4, <1>10, <1>11, <2>2, <2>3 DEF f, g
    <1>13. CASE ~(a < BaseOf(n)) /\ ~Known(r, Wrap(a))
        <2> DEFINE t == [r EXCEPT !.blocks = InsertAt(@, i, NewBlock(p.n, p.size))]
        <2>1. f = [q |-> t, at |-> i]
            BY <1>5, <1>7, <1>13
        <2>2. f.q = t /\ f.at = i /\ i # 0
            BY <2>1, <1>8, <1>9
        <2>3. BaseOf(n) <= a
            BY <1>6, <1>9, <1>13
        <2>4. /\ t \in AudioQueues /\ Lined(t, n) /\ Open(t, n) /\ Reach(t, n, g)
              /\ i \in DOMAIN t.blocks /\ t.blocks[i] = NewBlock(p.n, p.size)
              /\ \A k \in DOMAIN t.blocks : 2 * (t.blocks[k].real - BaseOf(n)) <= SeqSpace
              /\ a = BaseOf(n) => Spans(t, n)
              /\ t.resync = r.resync /\ t.incompatible = r.incompatible /\ t.sync = r.sync /\ t.blocks # <<>>
            BY <1>2, <1>3, <1>13, <2>3, BlockIsAdded DEF a, g
        <2> HIDE DEF t, i
        <2>5. t.blocks[i].real = a /\ t.blocks[i].data = {} /\ t.blocks[i].fec = {}
            <3> DEFINE b == NewBlock(p.n, p.size)
            <3>1. b.real = a /\ b.data = {} /\ b.fec = {}
                BY DEF NewBlock, a
            <3> HIDE DEF b
            <3>2. t.blocks[i] = b
                BY <2>4 DEF b
            <3> QED
                BY <3>1, <3>2
        <2> QED
            BY <1>2, <1>4, <2>2, <2>4, <2>5 DEF f, g, a
    <1>14. CASE ~(a < BaseOf(n)) /\ Known(r, Wrap(a))
        <2>1. i \in DOMAIN r.blocks /\ r.blocks[i].real = a /\ i # 0
            BY <1>8, <1>9, <1>14
        <2>2. Reach(r, n, g)
            BY <1>9, <1>11, <2>1
        <2>3. CASE r.blocks[i].size # p.size
            <3> DEFINE t == [r EXCEPT !.incompatible = TRUE]
            <3>1. f.q = t /\ f.at = 0
                BY <1>5, <1>7, <1>14, <2>3 DEF Rejected
            <3>2. t \in AudioQueues /\ Alike(t, r) /\ t.blocks = r.blocks
                BY <1>2 DEF AudioQueues, Alike
            <3> HIDE DEF t
            <3>3. Lined(t, n) /\ Open(t, n) /\ Spans(t, n) /\ Reach(t, n, g)
                BY <1>2, <1>3, <2>2, <3>2, AlikeFits
            <3> QED
                BY <1>4, <1>10, <3>1, <3>2, <3>3 DEF f, g, Alike
        <2>4. CASE r.blocks[i].size = p.size
            <3>1. f.q = r /\ f.at = (IF r.blocks[i].full THEN 0 ELSE i)
                BY <1>5, <1>7, <1>14, <2>4
            <3> HIDE DEF i
            <3> QED
                BY <1>2, <1>3, <1>4, <1>10, <2>1, <2>2, <3>1 DEF f, g, a
        <2> QED
            BY <2>3, <2>4
    <1> QED
        BY <1>12, <1>13, <1>14

(* The head of the queue that is ready is the block of the next packet.    *)
LEMMA ReadyIsNext ==
    ASSUME NEW q \in AudioQueues, NEW n \in Nat, Lined(q, n), Ready(q),
           \A k \in DOMAIN q.blocks : 2 * (q.blocks[k].real - BaseOf(n)) <= SeqSpace
    PROVE  /\ 1 \in DOMAIN q.blocks /\ Head(q.blocks) = q.blocks[1] /\ q.blocks[1] \in Blocks
           /\ q.blocks[1].real = BaseOf(n) /\ q.blocks[1].idx = n - BaseOf(n)
    <1>1. 1 \in DOMAIN q.blocks /\ Head(q.blocks) = q.blocks[1] /\ q.blocks[1] \in Blocks
        BY DEF Ready, AudioQueues
    <1> DEFINE b == q.blocks[1]
    <1>2. /\ Starts(b.real) /\ b.base = Wrap(b.real) /\ BaseOf(n) <= b.real /\ b.real \in Nat /\ b.idx \in Nat
          /\ IF b.real = BaseOf(n) THEN b.idx = n - b.real ELSE b.idx = 0 /\ ~b.allow
          /\ 2 * (b.real - BaseOf(n)) <= SeqSpace /\ b.data \subseteq 0 .. DataShards - 1 /\ q.next = Wrap(n)
        BY <1>1 DEF Lined, BlockFits, Blocks
    <1>3. (b.idx \in b.data /\ b.base + b.idx = Wrap(n)) \/ b.allow
        BY <1>1, <1>2 DEF Ready
    <1> HIDE DEF b
    <1>4. b.real = BaseOf(n)
        <2> SUFFICES ASSUME b.real # BaseOf(n) PROVE FALSE
            OBVIOUS
        <2>1. b.idx = 0 /\ Wrap(b.real) = Wrap(n)
            BY <1>2, <1>3, WrapIs
        <2>2. BaseOf(n) \in Nat /\ BaseOf(n) <= n /\ n < BaseOf(n) + DataShards
            BY BlockOf
        <2>3. b.real < n + SeqSpace /\ n < b.real + SeqSpace
            BY <1>2, <2>2, NumbersSuffice, Sizable
        <2>4. b.real = n
            BY <1>2, <2>1, <2>3, WrapSame
        <2> QED
            BY <1>2, <2>4 DEF Starts
    <1> QED
        BY <1>1, <1>2, <1>4 DEF b

(* The first block is gone: its last packet was handed out.                *)
LEMMA HeadIsFreed ==
    ASSUME NEW q \in AudioQueues, NEW n \in Nat, q.next = Wrap(n + 1), 1 \in DOMAIN q.blocks,
           q.blocks[1].real = BaseOf(n), q.blocks[1].base = Wrap(BaseOf(n)), n + 1 = BaseOf(n) + DataShards,
           \A k \in DOMAIN q.blocks : k # 1 => BlockFits(q, n, k),
           Spans(q, n)
    PROVE  LET r == FreeHead(q)
           IN  /\ r \in AudioQueues /\ Lined(r, n + 1) /\ Open(r, n + 1) /\ Spans(r, n + 1)
               /\ r.resync = q.resync /\ r.incompatible = q.incompatible /\ ~r.sync
               /\ \A h \in Nat : Reach(q, n, h) => Reach(r, n + 1, h)
    <1> DEFINE s == q.blocks
               t == Tail(s)
               a == BaseOf(n)
               m == n + 1
               r == FreeHead(q)
    <1>1. s \in Seq(Blocks) /\ DOMAIN s = 1 .. Len(s) /\ Len(s) \in Nat /\ s # <<>> /\ Head(s) = s[1]
        BY DEF AudioQueues
    <1>2. t \in Seq(Blocks) /\ Len(t) = Len(s) - 1 /\ DOMAIN t = 1 .. Len(s) - 1
          /\ \A k \in DOMAIN t : t[k] = s[k + 1] /\ k + 1 \in DOMAIN s
        BY <1>1
    <1>3. /\ a \in Nat /\ Starts(a) /\ m \in Nat /\ m = a + DataShards /\ Starts(m)
        BY BlockOf, NextStart
    <1>4. BaseOf(m) = m
        BY <1>3 DEF Starts
    <1>5. Wrap(s[1].base + DataShards) = Wrap(m)
        BY <1>3, WrapAdds, Sizable
    <1>6. r = [q EXCEPT !.oldest = Wrap(m), !.sync = FALSE, !.blocks = t]
        BY <1>1, <1>5 DEF FreeHead
    <1> HIDE DEF t, m, r
    <1>7. Wrap(m) \in Nat
        BY <1>3, WrapIs
    <1>8. /\ r \in AudioQueues /\ r.blocks = t /\ r.oldest = Wrap(m) /\ r.next = Wrap(m)
          /\ r.resync = q.resync /\ r.incompatible = q.incompatible /\ r.sync = FALSE
        BY <1>2, <1>6, <1>7 DEF AudioQueues, m
    <1>9. \A b \in Blocks : b.real \in Nat
        BY DEF Blocks
    <1>10. ASSUME NEW k \in DOMAIN t PROVE BlockFits(r, m, k) /\ t[k].real \in Nat /\ m <= t[k].real
        <2>1. k + 1 \in DOMAIN s /\ k + 1 # 1 /\ t[k] = s[k + 1] /\ k \in Nat /\ 1 \in 1 .. (k + 1) - 1
            BY <1>2
        <2>2. BlockFits(q, n, k + 1) /\ t[k].real \in Nat
            BY <1>1, <1>9, <2>1
        <2>3. a < t[k].real /\ Starts(t[k].real)
            BY <2>1, <2>2 DEF BlockFits
        <2>4. m <= t[k].real
            BY <1>3, <2>2, <2>3, LaterStart
        <2>5. \A j \in 1 .. k - 1 : t[j].real < t[k].real
            <3> SUFFICES ASSUME NEW j \in 1 .. k - 1 PROVE t[j].real < t[k].real
                OBVIOUS
            <3>1. j \in DOMAIN t /\ j + 1 \in 1 .. (k + 1) - 1
                BY <1>2, <2>1
            <3>2. t[j] = s[j + 1]
                BY <1>2, <3>1
            <3> QED
                BY <2>1, <2>2, <3>1, <3>2 DEF BlockFits
        <2>6. t[k].base = Wrap(t[k].real) /\ t[k].idx = 0 /\ ~t[k].allow
            <3>1. s[k + 1].real # a
                BY <1>3, <2>1, <2>2, <2>3
            <3> QED
                BY <2>1, <2>2, <3>1 DEF BlockFits
        <2>7. t[k].real = m => t[k].idx = m - t[k].real
            BY <1>3, <2>6
        <2> QED
            BY <1>4, <1>8, <2>2, <2>3, <2>4, <2>5, <2>6, <2>7 DEF BlockFits
    <1>11. Lined(r, m) /\ Open(r, m)
        <2>1. \A k \in DOMAIN r.blocks : BlockFits(r, m, k)
            BY <1>8, <1>10
        <2> QED
            BY <1>3, <1>4, <1>8, <2>1 DEF Lined, Open
    <1>12. Spans(r, m)
        <2> SUFFICES ASSUME NEW k \in DOMAIN t PROVE 2 * (t[k].real - m + Slack) <= SeqSpace
            BY <1>4, <1>8 DEF Spans
        <2>1. 2 * (s[k + 1].real - a + Slack) <= SeqSpace
            BY <1>2 DEF Spans
        <2>2. t[k].real \in Nat /\ t[k] = s[k + 1] /\ Slack \in Nat
            <3>1. Slack \in Nat
                BY Sizable DEF Slack
            <3> QED
                BY <1>2, <1>10, <3>1
        <2> QED
            BY <1>3, <2>1, <2>2, Sizable
    <1>13. ASSUME NEW h \in Nat, Reach(q, n, h) PROVE Reach(r, m, h)
        <2>1. m <= h + DataShards
            <3>1. a <= h
                BY <1>13 DEF Reach
            <3> QED
                BY <1>3, <3>1, Sizable
        <2>2. \A k \in DOMAIN t : t[k].real <= h
            BY <1>2, <1>13 DEF Reach
        <2>3. h < s[Len(s)].real + DataShards + Behind
            BY <1>1, <1>13 DEF Reach, Top
        <2>4. CASE t = <<>>
            <3>1. Len(s) = 1
                BY <1>1, <1>2, <2>4
            <3>2. h < a + DataShards + Behind
                BY <2>3, <3>1
            <3>3. h < m + DataShards + Behind
                BY <1>3, <3>2, Sizable
            <3> QED
                BY <1>4, <1>8, <2>1, <2>2, <2>4, <3>3 DEF Reach, Top
        <2>5. CASE t # <<>>
            <3>1. Len(t) \in DOMAIN t /\ t[Len(t)] = s[Len(s)]
                <4>1. Len(t) \in DOMAIN t /\ Len(t) + 1 = Len(s)
                    BY <1>1, <1>2, <2>5
                <4> QED
                    BY <1>2, <4>1
            <3>2. Top(r, m) = s[Len(s)].real
                BY <1>8, <2>5, <3>1 DEF Top
            <3> QED
                BY <1>8, <2>1, <2>2, <2>3, <3>2 DEF Reach
        <2> QED
            BY <2>4, <2>5
    <1> QED
        BY <1>8, <1>11, <1>12, <1>13 DEF m, r

(* One packet of the first block is handed out.                            *)
LEMMA HeadIsStepped ==
    ASSUME NEW q \in AudioQueues, NEW n \in Nat, Lined(q, n), Spans(q, n), 1 \in DOMAIN q.blocks,
           q.blocks[1].real = BaseOf(n),
           NEW s, s = StepHead(q),
           NEW r, r = IF n + 1 = BaseOf(n) + DataShards THEN FreeHead(s) ELSE s
    PROVE  /\ s \in AudioQueues /\ s.next = Wrap(n + 1) /\ s.blocks # <<>> /\ Head(s.blocks) = s.blocks[1]
           /\ s.blocks[1].base = Wrap(BaseOf(n)) /\ s.blocks[1].real = BaseOf(n)
           /\ s.blocks[1].idx = n + 1 - BaseOf(n)
           /\ s.resync = q.resync /\ s.incompatible = q.incompatible /\ s.sync = q.sync
           /\ r \in AudioQueues /\ Lined(r, n + 1) /\ Open(r, n + 1) /\ Spans(r, n + 1)
           /\ r.resync = q.resync /\ r.incompatible = q.incompatible /\ (r.blocks = <<>> => ~r.sync)
           /\ \A h \in Nat : Reach(q, n, h) => Reach(r, n + 1, h)
    <1> DEFINE b == [q.blocks[1] EXCEPT !.idx = @ + 1]
               a == BaseOf(n)
               t == [q EXCEPT !.blocks = [@ EXCEPT ![1] = b]]
    <1>1. q.blocks[1] \in Blocks /\ q.blocks \in Seq(Blocks) /\ DOMAIN q.blocks = 1 .. Len(q.blocks) /\ Len(q.blocks) \in Nat
        BY DEF AudioQueues
    <1>2. q.next = Wrap(n) /\ q.oldest = Wrap(a) /\ \A k \in DOMAIN q.blocks : BlockFits(q, n, k)
        BY DEF Lined
    <1>3. q.blocks[1].idx = n - a /\ q.blocks[1].base = Wrap(a)
        BY <1>2 DEF BlockFits
    <1>4. a \in Nat /\ a <= n /\ n < a + DataShards /\ Starts(a)
        BY BlockOf
    <1>5. b \in Blocks /\ b.idx = n + 1 - a /\ b.base = Wrap(a) /\ b.real = a
        <2>1. /\ q.blocks[1].idx + 1 \in Nat /\ q.blocks[1].idx + 1 = n + 1 - a
            BY <1>3, <1>4
        <2>2. b = [q.blocks[1] EXCEPT !.idx = q.blocks[1].idx + 1]
            OBVIOUS
        <2> HIDE DEF b
        <2>3. b \in Blocks /\ b.idx = q.blocks[1].idx + 1 /\ b.base = q.blocks[1].base /\ b.real = q.blocks[1].real
            BY <1>1, <2>1, <2>2 DEF Blocks
        <2> QED
            BY <1>3, <2>1, <2>3
    <1> HIDE DEF b, a
    <1>6. /\ t \in AudioQueues /\ Len(t.blocks) = Len(q.blocks) /\ DOMAIN t.blocks = DOMAIN q.blocks
          /\ (t.blocks = <<>> <=> q.blocks = <<>>)
          /\ t.blocks[1] = b /\ \A j \in DOMAIN q.blocks : j # 1 => t.blocks[j] = q.blocks[j]
          /\ t.next = q.next /\ t.oldest = q.oldest /\ t.sync = q.sync /\ t.resync = q.resync
          /\ t.incompatible = q.incompatible
        BY <1>5, BlockIsSet
    <1>7. s = [t EXCEPT !.next = Wrap(q.next + 1)]
        BY <1>1 DEF b, AudioQueues, StepHead
    <1> HIDE DEF t
    <1>8. Wrap(q.next + 1) = Wrap(n + 1) /\ Wrap(n + 1) \in Nat
        <2>1. Wrap(Wrap(n) + 1) = Wrap(n + 1)
            BY WrapAdds
        <2>2. n + 1 \in Nat
            OBVIOUS
        <2> QED
            BY <1>2, <2>1, <2>2, WrapIs
    <1>9. /\ s \in AudioQueues /\ s.blocks = t.blocks /\ s.next = Wrap(n + 1)
          /\ s.oldest = q.oldest /\ s.sync = q.sync /\ s.resync = q.resync /\ s.incompatible = q.incompatible
        <2> DEFINE w == Wrap(q.next + 1)
        <2>1. w \in Nat /\ w = Wrap(n + 1) /\ s = [t EXCEPT !.next = w]
            BY <1>7, <1>8
        <2> HIDE DEF w
        <2> QED
            BY <1>6, <2>1 DEF AudioQueues
    <1>10. s.blocks # <<>> /\ Head(s.blocks) = s.blocks[1] /\ s.blocks[1] = b /\ DOMAIN s.blocks = DOMAIN q.blocks
           /\ Len(s.blocks) = Len(q.blocks)
        BY <1>1, <1>6, <1>9
    <1>11. \A k \in DOMAIN q.blocks : s.blocks[k].real = q.blocks[k].real
        BY <1>5, <1>6, <1>9 DEF a
    <1>12. Spans(s, n) /\ \A h \in Nat : Reach(q, n, h) => Reach(s, n, h)
        <2>1. Spans(s, n)
            BY <1>10, <1>11 DEF Spans
        <2>2. q.blocks # <<>> /\ Len(q.blocks) \in DOMAIN q.blocks
            BY <1>1
        <2>3. Top(s, n) = Top(q, n)
            BY <1>10, <1>11, <2>2 DEF Top
        <2> QED
            BY <1>10, <1>11, <2>1, <2>3 DEF Reach
    <1>13. ASSUME NEW k \in DOMAIN q.blocks, k # 1 PROVE BlockFits(s, n, k)
        <2>1. BlockFits(q, n, k) /\ s.blocks[k] = q.blocks[k] /\ \A j \in 1 .. k - 1 : j \in DOMAIN q.blocks
            BY <1>1, <1>2, <1>6, <1>9, <1>13
        <2> QED
            BY <1>11, <2>1 DEF BlockFits
    <1>14. CASE n + 1 = a + DataShards
        <2>0. r = FreeHead(s)
            BY <1>14 DEF a
        <2>1. /\ r \in AudioQueues /\ Lined(r, n + 1) /\ Open(r, n + 1) /\ Spans(r, n + 1)
              /\ r.resync = s.resync /\ r.incompatible = s.incompatible /\ ~r.sync
              /\ \A h \in Nat : Reach(s, n, h) => Reach(r, n + 1, h)
            BY <1>5, <1>9, <1>10, <1>12, <1>13, <1>14, <2>0, HeadIsFreed DEF a
        <2> QED
            BY <1>5, <1>9, <1>10, <1>12, <1>14, <2>1 DEF a
    <1>15. CASE n + 1 # a + DataShards
        <2>1. BaseOf(n + 1) = a
            <3>1. n + 1 \in Nat /\ a <= n + 1 /\ n + 1 < a + DataShards
                BY <1>4, <1>15, Sizable
            <3> QED
                BY <1>4, <3>1, StartOf
        <2>2. ASSUME NEW k \in DOMAIN q.blocks PROVE BlockFits(s, n + 1, k)
            <3>1. CASE k = 1
                <4>1. s.blocks[1].real = a /\ s.blocks[1].base = Wrap(a) /\ s.blocks[1].idx = n + 1 - a
                    BY <1>5, <1>10
                <4>2. 1 .. k - 1 = {} /\ a <= a
                    BY <1>4, <3>1
                <4> QED
                    BY <1>4, <2>1, <3>1, <4>1, <4>2 DEF BlockFits
            <3>2. CASE k # 1
                <4>1. BlockFits(s, n, k) /\ BlockFits(q, n, k) /\ 1 \in 1 .. k - 1 /\ q.blocks[k].real \in Nat
                    <5>1. \A x \in Blocks : x.real \in Nat
                        BY DEF Blocks
                    <5> QED
                        BY <1>1, <1>2, <1>13, <3>2, <5>1
                <4>2. s.blocks[k].real # a
                    BY <1>4, <1>5, <1>11, <4>1 DEF BlockFits, a
                <4> QED
                    BY <2>1, <4>1, <4>2 DEF BlockFits, a
            <3> QED
                BY <3>1, <3>2
        <2>3. Lined(s, n + 1) /\ Open(s, n + 1) /\ Spans(s, n + 1)
            BY <1>2, <1>5, <1>9, <1>10, <1>12, <2>1, <2>2 DEF Lined, Open, Spans, a
        <2>4. \A h \in Nat : Reach(q, n, h) => Reach(s, n + 1, h)
            <3>1. Top(s, n + 1) = Top(s, n)
                BY <2>1 DEF Top, a
            <3>2. \A h \in Nat : Reach(q, n, h) => n + 1 <= h + DataShards
                <4>1. \A h \in Nat : Reach(q, n, h) => a <= h
                    BY DEF Reach, a
                <4> QED
                    BY <1>4, <4>1, Sizable
            <3> QED
                BY <1>12, <3>1, <3>2 DEF Reach
        <2>5. r = s
            BY <1>15 DEF a
        <2> QED
            BY <1>5, <1>9, <1>10, <2>3, <2>4, <2>5 DEF a
    <1> QED
        BY <1>14, <1>15

(* RtpaGetQueuedPacket hands out the next packet or its placeholder.       *)
LEMMA PacketIsHanded ==
    ASSUME NEW q \in AudioQueues, NEW n \in Nat, Lined(q, n), Open(q, n), Spans(q, n), Ready(q)
    PROVE  LET g == GetQueued(q)
           IN  /\ g.q \in AudioQueues /\ g.n = n /\ g.out # "nothing"
               /\ Lined(g.q, n + 1) /\ Open(g.q, n + 1) /\ Spans(g.q, n + 1)
               /\ g.q.resync = q.resync /\ g.q.incompatible = q.incompatible /\ (g.q.blocks = <<>> => ~g.q.sync)
               /\ \A h \in Nat : Reach(q, n, h) => Reach(g.q, n + 1, h)
    <1> DEFINE a == BaseOf(n)
               s == StepHead(q)
               r == IF n + 1 = a + DataShards THEN FreeHead(s) ELSE s
               g == GetQueued(q)
    <1>1. \A k \in DOMAIN q.blocks : 2 * (q.blocks[k].real - a) <= SeqSpace
        <2> SUFFICES ASSUME NEW k \in DOMAIN q.blocks PROVE 2 * (q.blocks[k].real - a) <= SeqSpace
            OBVIOUS
        <2>1. 2 * (q.blocks[k].real - a + Slack) <= SeqSpace
            BY DEF Spans
        <2>2. q.blocks[k].real \in Nat
            BY BlocksLie
        <2>3. Slack \in Nat /\ a \in Nat
            BY BlockOf, Sizable DEF Slack
        <2> HIDE DEF a
        <2> QED
            BY <2>1, <2>2, <2>3, Sizable
    <1>2. /\ 1 \in DOMAIN q.blocks /\ Head(q.blocks) = q.blocks[1] /\ q.blocks[1] \in Blocks
          /\ q.blocks[1].real = a /\ q.blocks[1].idx = n - a
        BY <1>1, ReadyIsNext
    <1>3. /\ s.blocks # <<>> /\ Head(s.blocks) = s.blocks[1] /\ s.blocks[1].idx = n + 1 - a
          /\ r \in AudioQueues /\ Lined(r, n + 1) /\ Open(r, n + 1) /\ Spans(r, n + 1)
          /\ r.resync = q.resync /\ r.incompatible = q.incompatible /\ (r.blocks = <<>> => ~r.sync)
          /\ \A h \in Nat : Reach(q, n, h) => Reach(r, n + 1, h)
        <2>1. s = StepHead(q)
            OBVIOUS
        <2>2. r = IF n + 1 = BaseOf(n) + DataShards THEN FreeHead(s) ELSE s
            OBVIOUS
        <2> HIDE DEF s, r
        <2> QED
            BY <1>2, <2>1, <2>2, HeadIsStepped
    <1> HIDE DEF s
    <1>4. FreeIfRead(s) = r
        <2>1. Head(s.blocks).idx = DataShards <=> n + 1 = a + DataShards
            <3>1. Head(s.blocks).idx = n + 1 - a /\ a \in Nat
                BY <1>3, BlockOf
            <3> HIDE DEF a
            <3> QED
                BY <3>1, Sizable
        <2> QED
            BY <2>1 DEF FreeIfRead
    <1>5. g.q = r /\ g.n = n /\ g.out # "nothing"
        <2>1. q.blocks[1].real + q.blocks[1].idx = n
            BY <1>2, BlockOf
        <2> QED
            BY <1>2, <1>4, <2>1 DEF GetQueued, s
    <1> HIDE DEF g, r
    <1> QED
        BY <1>3, <1>5 DEF g

(* The next packet of the stream goes straight to the caller.              *)
LEMMA PacketIsHandedNow ==
    ASSUME NEW q \in AudioQueues, NEW n \in Nat, Lined(q, n), Spans(q, n),
           NEW i \in DOMAIN q.blocks, q.blocks[i].real = BaseOf(n)
    PROVE  LET r == HandNow(q, i)
           IN  /\ r \in AudioQueues /\ Lined(r, n + 1) /\ Open(r, n + 1) /\ Spans(r, n + 1)
               /\ r.resync = q.resync /\ r.incompatible = q.incompatible /\ (r.blocks = <<>> => ~r.sync)
               /\ \A h \in Nat : Reach(q, n, h) => Reach(r, n + 1, h)
    <1> DEFINE a == BaseOf(n)
               s == [q EXCEPT !.next = Wrap(@ + 1), !.blocks[1].idx = @ + 1]
               r == IF n + 1 = a + DataShards THEN FreeHead(s) ELSE s
    <1>1. i = 1
        <2> SUFFICES ASSUME i # 1 PROVE FALSE
            OBVIOUS
        <2>1. 1 \in DOMAIN q.blocks /\ 1 < i
            BY BlocksLie
        <2>2. q.blocks[1].real < q.blocks[i].real /\ BaseOf(n) <= q.blocks[1].real /\ q.blocks[1].real \in Nat
            BY <2>1, BlocksLie
        <2> QED
            BY <2>2, BlockOf
    <1>2. /\ s.next = Wrap(n + 1) /\ s.blocks[1].base = Wrap(a)
          /\ r \in AudioQueues /\ Lined(r, n + 1) /\ Open(r, n + 1) /\ Spans(r, n + 1)
          /\ r.resync = q.resync /\ r.incompatible = q.incompatible /\ (r.blocks = <<>> => ~r.sync)
          /\ \A h \in Nat : Reach(q, n, h) => Reach(r, n + 1, h)
        <2>1. s = StepHead(q)
            BY DEF StepHead
        <2>2. r = IF n + 1 = BaseOf(n) + DataShards THEN FreeHead(s) ELSE s
            OBVIOUS
        <2>3. 1 \in DOMAIN q.blocks /\ q.blocks[1].real = BaseOf(n)
            BY <1>1
        <2> HIDE DEF s, r
        <2> QED
            BY <2>1, <2>2, <2>3, HeadIsStepped
    <1>3. HandNow(q, i) = IF s.next = Wrap(s.blocks[1].base + DataShards) THEN FreeHead(s) ELSE s
        BY <1>1 DEF HandNow
    <1> HIDE DEF s
    <1>4. s.next = Wrap(s.blocks[1].base + DataShards) <=> n + 1 = a + DataShards
        <2>1. a \in Nat /\ a <= n /\ n < a + DataShards
            BY BlockOf
        <2>2. Wrap(Wrap(a) + DataShards) = Wrap(a + DataShards)
            BY <2>1, WrapAdds, Sizable
        <2> HIDE DEF a
        <2>3. n + 1 \in Nat /\ a + DataShards \in Nat /\ n + 1 < a + DataShards + SeqSpace /\ a + DataShards < n + 1 + SeqSpace
            BY <2>1, NumbersSuffice, Sizable
        <2>4. Wrap(n + 1) = Wrap(a + DataShards) <=> n + 1 = a + DataShards
            BY <2>3, WrapSame
        <2> QED
            BY <1>2, <2>2, <2>4
    <1>5. HandNow(q, i) = r
        BY <1>3, <1>4
    <1> HIDE DEF r
    <1> QED
        BY <1>2, <1>5

(* handleMissingPackets leaves no gap before the first block.              *)
LEMMA GapIsClosed ==
    ASSUME NEW q \in AudioQueues, NEW n \in Nat, NEW h \in Nat, Lined(q, n), Open(q, n), Reach(q, n, h),
           q.blocks # <<>>, NEW late \in BOOLEAN,
           \A k \in DOMAIN q.blocks : 2 * (q.blocks[k].real - BaseOf(n)) <= SeqSpace
    PROVE  LET r == HandleMissing(q, late)
           IN  /\ r \in AudioQueues /\ r.resync = q.resync /\ r.incompatible = q.incompatible /\ r.sync = q.sync
               /\ r.blocks # <<>>
               /\ \E m \in Nat : n <= m /\ Lined(r, m) /\ Open(r, m) /\ Reach(r, m, h) /\ r.blocks[1].real = BaseOf(m)
    <1> DEFINE a == q.blocks[1].real
               r == HandleMissing(q, late)
    <1>1. /\ 1 \in DOMAIN q.blocks /\ q.blocks \in Seq(Blocks) /\ DOMAIN q.blocks = 1 .. Len(q.blocks) /\ Len(q.blocks) \in Nat
          /\ a \in Nat /\ BaseOf(n) <= a /\ 2 * (a - BaseOf(n)) <= SeqSpace
          /\ \A k \in DOMAIN q.blocks : k # 1 => a < q.blocks[k].real
        <2>1. /\ 1 \in DOMAIN q.blocks /\ q.blocks \in Seq(Blocks) /\ DOMAIN q.blocks = 1 .. Len(q.blocks) /\ Len(q.blocks) \in Nat
            BY BlocksLie
        <2>2. a \in Nat /\ BaseOf(n) <= a /\ 2 * (a - BaseOf(n)) <= SeqSpace
            BY <2>1, BlocksLie
        <2>3. \A k \in DOMAIN q.blocks : k # 1 => 1 < k
            BY <2>1
        <2>4. \A k \in DOMAIN q.blocks : k # 1 => a < q.blocks[k].real
            BY <2>1, <2>3, BlocksLie
        <2> QED
            BY <2>1, <2>2, <2>4
    <1>2. /\ BaseOf(n) \in Nat /\ BaseOf(n) <= n /\ n < BaseOf(n) + DataShards
        BY BlockOf
    <1>3. q.blocks[1].base = Wrap(a) /\ Starts(a) /\ Head(q.blocks) = q.blocks[1] /\ q.next = Wrap(n)
          /\ q.blocks[1] \in Blocks
        BY <1>1 DEF Lined, BlockFits
    <1> HIDE DEF a
    <1>4. IsBefore16(q.next, Head(q.blocks).base) <=> n < a
        <2>1. 2 * (n - a) < SeqSpace /\ 2 * (a - n) <= SeqSpace
            <3>1. n - a < DataShards /\ a - n <= a - BaseOf(n)
                BY <1>1, <1>2, Sizable
            <3>2. 2 * DataShards < SeqSpace
                BY NumbersSuffice, Sizable
            <3>3. DataShards \in Nat /\ SeqSpace \in Nat
                BY Sizable
            <3> QED
                BY <1>1, <1>2, <3>1, <3>2, <3>3
        <2>2. IsBefore16(Wrap(n), Wrap(a)) <=> n < a
            BY <1>1, <2>1, Before
        <2> QED
            BY <1>3, <2>2
    <1>5. CASE n < a
        <2> DEFINE w == q.blocks[1].base
        <2>1. w = Wrap(a) /\ w \in Nat
            BY <1>1, <1>3, WrapIs
        <2>2. r = [q EXCEPT !.next = w, !.oldest = w]
            BY <1>3, <1>4, <1>5 DEF HandleMissing
        <2> HIDE DEF w, r
        <2>3. /\ r \in AudioQueues /\ r.blocks = q.blocks /\ r.next = Wrap(a) /\ r.oldest = Wrap(a)
              /\ r.resync = q.resync /\ r.incompatible = q.incompatible /\ r.sync = q.sync
            BY <2>1, <2>2 DEF AudioQueues
        <2>4. BaseOf(a) = a
            BY <1>3 DEF Starts
        <2>5. BaseOf(n) # a /\ BaseOf(n) < a
            BY <1>1, <1>2, <1>5
        <2>6. ASSUME NEW k \in DOMAIN q.blocks PROVE BlockFits(r, a, k)
            <3>1. BlockFits(q, n, k) /\ q.blocks[k].real \in Nat
                <4>1. \A b \in Blocks : b.real \in Nat
                    BY DEF Blocks
                <4> QED
                    BY <1>1, <4>1 DEF Lined
            <3>2. a <= q.blocks[k].real /\ q.blocks[k].real # BaseOf(n)
                <4>1. CASE k = 1
                    BY <1>1, <2>5, <4>1 DEF a
                <4>2. CASE k # 1
                    <5>1. a < q.blocks[k].real
                        BY <1>1, <4>2
                    <5> QED
                        BY <1>1, <1>2, <2>5, <3>1, <5>1
                <4> QED
                    BY <4>1, <4>2
            <3>3. q.blocks[k].idx = 0 /\ ~q.blocks[k].allow
                BY <3>1, <3>2 DEF BlockFits
            <3>4. q.blocks[k].real = a => q.blocks[k].idx = a - q.blocks[k].real
                BY <1>1, <3>3
            <3> QED
                BY <2>3, <2>4, <3>1, <3>2, <3>3, <3>4 DEF BlockFits
        <2>7. Lined(r, a)
            BY <2>3, <2>4, <2>6 DEF Lined
        <2>8. Open(r, a)
            BY <1>1, <2>4 DEF Open
        <2>9. Reach(r, a, h)
            <3>1. a <= h /\ Top(r, a) = Top(q, n)
                BY <1>1, <2>3 DEF Reach, Top, a
            <3>2. a <= h + DataShards
                BY <1>1, <3>1, Sizable
            <3> QED
                BY <2>3, <3>1, <3>2 DEF Reach
        <2>10. r.blocks[1].real = BaseOf(a) /\ n <= a
            BY <1>1, <1>5, <2>3, <2>4 DEF a
        <2> QED
            BY <1>1, <2>3, <2>7, <2>8, <2>9, <2>10 DEF r
    <1>6. CASE ~(n < a)
        <2>1. a = BaseOf(n)
            <3>1. BaseOf(n) = a
                <4>0. DataShards \in Nat
                    BY Sizable
                <4>1. a <= n /\ n < a + DataShards
                    BY <1>1, <1>2, <1>6, <4>0
                <4> QED
                    BY <1>1, <1>3, <4>1, StartOf
            <3> QED
                BY <3>1
        <2>2. r = IF Len(q.blocks) > 1 /\ (~q.oos \/ late) THEN [q EXCEPT !.blocks[1].allow = TRUE] ELSE q
            BY <1>3, <1>4, <1>6 DEF HandleMissing
        <2>3. CASE Len(q.blocks) > 1 /\ (~q.oos \/ late)
            <3> DEFINE b == [q.blocks[1] EXCEPT !.allow = TRUE]
                       t == [q EXCEPT !.blocks = [@ EXCEPT ![1] = b]]
            <3>1. b \in Blocks /\ b.real = q.blocks[1].real /\ b.base = q.blocks[1].base /\ b.idx = q.blocks[1].idx
                BY <1>3 DEF Blocks
            <3>2. r = t
                BY <2>2, <2>3
            <3> HIDE DEF b
            <3>3. /\ t \in AudioQueues /\ Len(t.blocks) = Len(q.blocks) /\ DOMAIN t.blocks = DOMAIN q.blocks
                  /\ (t.blocks = <<>> <=> q.blocks = <<>>)
                  /\ t.blocks[1] = b /\ \A j \in DOMAIN q.blocks : j # 1 => t.blocks[j] = q.blocks[j]
                  /\ t.next = q.next /\ t.oldest = q.oldest /\ t.sync = q.sync /\ t.resync = q.resync
                  /\ t.incompatible = q.incompatible
                BY <1>1, <3>1, BlockIsSet
            <3> HIDE DEF t
            <3>4. \A j \in DOMAIN q.blocks : t.blocks[j].real = q.blocks[j].real
                BY <3>1, <3>3
            <3>5. ASSUME NEW k \in DOMAIN q.blocks PROVE BlockFits(t, n, k)
                <4>1. BlockFits(q, n, k) /\ \A j \in 1 .. k - 1 : j \in DOMAIN q.blocks
                    BY <1>1 DEF Lined
                <4>2. CASE k = 1
                    BY <2>1, <3>1, <3>3, <3>4, <4>1, <4>2 DEF BlockFits, a
                <4>3. CASE k # 1
                    BY <3>3, <3>4, <4>1, <4>3 DEF BlockFits
                <4> QED
                    BY <4>2, <4>3
            <3>6. Lined(t, n)
                BY <3>3, <3>5 DEF Lined
            <3>7. Open(t, n)
                BY <1>1, <3>3, <3>4 DEF Open
            <3>8. Reach(t, n, h)
                <4>1. Len(q.blocks) \in DOMAIN q.blocks
                    BY <1>1
                <4>2. Top(t, n) = Top(q, n)
                    BY <3>3, <3>4, <4>1 DEF Top
                <4> QED
                    BY <3>3, <3>4, <4>2 DEF Reach
            <3>9. t.blocks[1].real = BaseOf(n)
                BY <1>1, <2>1, <3>4 DEF a
            <3> QED
                BY <3>2, <3>3, <3>6, <3>7, <3>8, <3>9
        <2>4. CASE ~(Len(q.blocks) > 1 /\ (~q.oos \/ late))
            <3>1. r = q
                BY <2>2, <2>4
            <3> QED
                BY <2>1, <3>1 DEF a
        <2> QED
            BY <2>3, <2>4
    <1> QED
        BY <1>1, <1>2, <1>5, <1>6

(* Without a gap before the first block, what the blocks span is what counts. *)
LEMMA ShortSpans ==
    ASSUME NEW q \in AudioQueues, NEW n \in Nat, q.blocks # <<>> => q.blocks[1].real = BaseOf(n), Short(q)
    PROVE  Spans(q, n)
    BY DEF Short, Spans, AudioQueues

(* RtpaAddPacket on a queue that follows the host's numbers.               *)
LEMMA PacketIsAdded ==
    ASSUME NEW q \in AudioQueues, NEW n \in Nat, NEW h \in Nat, Lined(q, n), Open(q, n), Spans(q, n), Reach(q, n, h),
           NEW p, Near(p, h), ~(q.sync /\ q.oldest = 0), ~q.incompatible, NEW late \in BOOLEAN,
           NEW r, r = AddPacket(q, p, late)
    PROVE  /\ r.q \in AudioQueues /\ r.q.resync = q.resync /\ r.answer \in {"now", "ready", "none"}
           /\ r.q.sync /\ r.q.blocks = <<>> => q.sync /\ q.blocks = <<>> /\ r.answer = "none"
           /\ r.answer = "ready" => r.q.blocks # <<>>
           /\ Short(r.q) =>
                 \E m \in Nat : /\ n <= m /\ Lined(r.q, m) /\ Open(r.q, m) /\ Spans(r.q, m)
                                /\ Reach(r.q, m, Newest(h, p.n))
                                /\ r.answer = "now" => p.n = n /\ m = n + 1
    <1> DEFINE g == Newest(h, p.n)
               f == FindBlock(q, p)
    <1>1. /\ f.q \in AudioQueues /\ Lined(f.q, n) /\ Open(f.q, n) /\ Reach(f.q, n, g)
          /\ \A k \in DOMAIN f.q.blocks : 2 * (f.q.blocks[k].real - BaseOf(n)) <= SeqSpace
          /\ f.q.resync = q.resync /\ f.q.sync = q.sync /\ (f.q.blocks = <<>> => q.blocks = <<>>)
          /\ f.at = 0 => Spans(f.q, n)
          /\ f.at # 0 => /\ f.at \in DOMAIN f.q.blocks /\ f.q.blocks[f.at].real = BaseOf(p.n)
                         /\ f.q.incompatible = q.incompatible
          /\ \/ Spans(f.q, n)
             \/ /\ f.at # 0 /\ f.q.blocks[f.at].data = {} /\ f.q.blocks[f.at].fec = {}
                /\ BaseOf(p.n) # BaseOf(n)
        BY PacketIsPlaced
    <1>2. g \in Nat /\ p.n \in Nat /\ Shard(p)
        BY DEF Newest, Near, Shard
    <1> HIDE DEF f, g
    <1>3. CASE f.at = 0 \/ IsDuplicate(f.q.blocks[f.at], p)
        <2>1. r = Answer(f.q, "none")
            BY <1>3 DEF AddPacket, f
        <2>2. r.q = f.q /\ r.answer = "none"
            BY <2>1 DEF Answer
        <2>3. Spans(f.q, n)
            BY <1>1, <1>3 DEF IsDuplicate
        <2> QED
            BY <1>1, <2>2, <2>3 DEF g
    <1>4. CASE ~(f.at = 0 \/ IsDuplicate(f.q.blocks[f.at], p))
        <2> DEFINE i == f.at
                   c == Marked(f.q, i, p)
        <2>1. i \in DOMAIN f.q.blocks
            BY <1>1, <1>4
        <2>2. c \in AudioQueues /\ Alike(c, f.q) /\ c.incompatible = f.q.incompatible
            BY <1>1, <1>2, <2>1, MarkedIsAlike
        <2>3. /\ Lined(c, n) /\ Open(c, n) /\ Reach(c, n, g) /\ (Spans(f.q, n) => Spans(c, n))
              /\ i \in DOMAIN c.blocks /\ c.blocks[i].real = BaseOf(p.n) /\ c.blocks # <<>>
              /\ \A k \in DOMAIN c.blocks : 2 * (c.blocks[k].real - BaseOf(n)) <= SeqSpace
              /\ c.resync = q.resync /\ c.sync = q.sync /\ c.next = Wrap(n)
            <3>1. /\ Lined(c, n) /\ Open(c, n) /\ Reach(c, n, g) /\ (Spans(f.q, n) => Spans(c, n))
                BY <1>1, <1>2, <2>2, AlikeFits
            <3>2. /\ i \in DOMAIN c.blocks /\ c.blocks[i].real = BaseOf(p.n)
                  /\ \A k \in DOMAIN c.blocks : 2 * (c.blocks[k].real - BaseOf(n)) <= SeqSpace
                  /\ c.resync = q.resync /\ c.sync = q.sync
                BY <1>1, <1>4, <2>1, <2>2 DEF Alike
            <3>3. c.next = Wrap(n)
                BY <3>1 DEF Lined
            <3>4. c.blocks # <<>>
                BY <2>2, <3>2 DEF AudioQueues
            <3> QED
                BY <3>1, <3>2, <3>3, <3>4
        <2> DEFINE d == Completed(c, i)
                   s == IF Ready(d) THEN d ELSE HandleMissing(d, late)
        <2>4. r = IF p.kind = "data" /\ Wrap(p.n) = c.next THEN Answer(HandNow(c, i), "now")
                  ELSE Answer(s, IF Ready(s) THEN "ready" ELSE "none")
            BY <1>4 DEF AddPacket, f
        <2> HIDE DEF c, i
        <2>5. CASE p.kind = "data" /\ Wrap(p.n) = c.next
            <3>1. p.n < n + SeqSpace /\ n < p.n + SeqSpace
                BY PacketLies
            <3>2. p.n = n
                BY <1>2, <2>3, <2>5, <3>1, WrapSame
            <3>3. Spans(c, n)
                BY <1>1, <2>3, <3>2
            <3> DEFINE x == HandNow(c, i)
            <3>4. /\ x \in AudioQueues /\ Lined(x, n + 1) /\ Open(x, n + 1) /\ Spans(x, n + 1)
                  /\ x.resync = c.resync /\ (x.blocks = <<>> => ~x.sync)
                  /\ \A e \in Nat : Reach(c, n, e) => Reach(x, n + 1, e)
                BY <2>2, <2>3, <3>2, <3>3, PacketIsHandedNow
            <3> HIDE DEF x
            <3>5. r.q = x /\ r.answer = "now"
                BY <2>4, <2>5 DEF Answer, x
            <3>6. Reach(x, n + 1, g)
                BY <1>2, <2>3, <3>4
            <3> QED
                BY <2>3, <3>2, <3>4, <3>5, <3>6 DEF g
        <2>6. CASE ~(p.kind = "data" /\ Wrap(p.n) = c.next)
            <3>1. d \in AudioQueues /\ Alike(d, c)
                BY <2>2, <2>3, CompletedIsAlike
            <3>2. /\ Lined(d, n) /\ Open(d, n) /\ Reach(d, n, g) /\ d.blocks # <<>>
                  /\ \A k \in DOMAIN d.blocks : 2 * (d.blocks[k].real - BaseOf(n)) <= SeqSpace
                  /\ d.resync = q.resync /\ d.sync = q.sync
                <4>1. Lined(d, n) /\ Open(d, n) /\ Reach(d, n, g)
                    BY <2>2, <2>3, <3>1, AlikeFits
                <4> QED
                    BY <2>3, <3>1, <4>1 DEF Alike
            <3>3. /\ s \in AudioQueues /\ s.resync = q.resync /\ s.sync = q.sync /\ s.blocks # <<>>
                  /\ \E m \in Nat : n <= m /\ Lined(s, m) /\ Open(s, m) /\ Reach(s, m, g) /\ s.blocks[1].real = BaseOf(m)
                <4> HIDE DEF d
                <4>1. CASE Ready(d)
                    <5>1. d.blocks[1].real = BaseOf(n)
                        BY <3>1, <3>2, <4>1, ReadyIsNext
                    <5> QED
                        BY <3>1, <3>2, <4>1, <5>1
                <4>2. CASE ~Ready(d)
                    <5> DEFINE x == HandleMissing(d, late)
                    <5>1. /\ x \in AudioQueues /\ x.resync = d.resync /\ x.sync = d.sync /\ x.blocks # <<>>
                          /\ \E m \in Nat : n <= m /\ Lined(x, m) /\ Open(x, m) /\ Reach(x, m, g) /\ x.blocks[1].real = BaseOf(m)
                        BY <1>2, <3>1, <3>2, GapIsClosed
                    <5> QED
                        BY <3>2, <4>2, <5>1
                <4> QED
                    BY <4>1, <4>2
            <3> HIDE DEF s, d
            <3>4. r.q = s /\ r.answer \in {"ready", "none"}
                BY <2>4, <2>6 DEF Answer
            <3>5. PICK m \in Nat : n <= m /\ Lined(s, m) /\ Open(s, m) /\ Reach(s, m, g) /\ s.blocks[1].real = BaseOf(m)
                BY <3>3
            <3>6. Short(s) => Spans(s, m)
                BY <3>3, <3>5, ShortSpans
            <3> QED
                BY <3>3, <3>4, <3>5, <3>6 DEF g
        <2> QED
            BY <2>5, <2>6
    <1> QED
        BY <1>3, <1>4

(* The first packets of the host only tell where its blocks are.           *)
LEMMA StreamIsJoined ==
    ASSUME NEW q \in AudioQueues, NEW h \in Nat, NEW p, Near(p, h), q.sync, q.oldest = 0, ~q.incompatible,
           NEW late \in BOOLEAN, NEW r, r = AddPacket(q, p, late)
    PROVE  /\ r.q \in AudioQueues /\ r.answer = "none" /\ r.q.sync = q.sync /\ r.q.blocks = q.blocks
           /\ r.q.incompatible = q.incompatible /\ (r.q.resync <=> q.resync \/ q.blocks # <<>>)
           /\ q.blocks = <<>> =>
                 \E m \in Nat : /\ 0 < m /\ Lined(r.q, m) /\ Open(r.q, m) /\ Spans(r.q, m)
                                /\ Reach(r.q, m, Newest(h, p.n))
    <1> DEFINE a == BaseOf(p.n)
               m == a + DataShards
               s == [q EXCEPT !.next = Wrap(Wrap(a) + DataShards), !.oldest = Wrap(Wrap(a) + DataShards),
                              !.resync = @ \/ q.blocks # <<>>]
    <1>1. p.kind \in {"data", "fec"} /\ p.n \in Nat /\ h <= p.n + Behind
        BY DEF Near, Shard
    <1>2. a \in Nat /\ Starts(a) /\ a <= p.n /\ p.n < a + DataShards /\ m \in Nat /\ Starts(m)
        BY <1>1, BlockOf, NextStart
    <1>3. Wrap(Wrap(a) + DataShards) = Wrap(m) /\ Wrap(m) \in Nat
        BY <1>2, WrapAdds, WrapIs, Sizable
    <1>5. \E u \in AudioQueues :
             /\ u.sync = q.sync /\ u.oldest = q.oldest /\ u.blocks = q.blocks /\ u.incompatible = q.incompatible
             /\ u.resync = q.resync
             /\ FindBlock(q, p) = Rejected([u EXCEPT !.next = Wrap(m), !.oldest = Wrap(m), !.resync = @ \/ u.blocks # <<>>])
        <2> DEFINE u == IF p.kind = "data" THEN NoteOos(q, Wrap(p.n)) ELSE q
        <2>1. Wrap(p.n) \in Nat
            BY <1>1, WrapIs
        <2>2. /\ u \in AudioQueues /\ u.sync = q.sync /\ u.oldest = q.oldest /\ u.blocks = q.blocks
              /\ u.incompatible = q.incompatible /\ u.resync = q.resync
            BY <2>1, NoteIsAlike DEF Alike
        <2> HIDE DEF u, m
        <2>3. FindBlock(q, p) = Rejected([u EXCEPT !.next = Wrap(m), !.oldest = Wrap(m), !.resync = @ \/ u.blocks # <<>>])
            BY <1>1, <1>3, <2>2 DEF FindBlock, u
        <2> QED
            BY <2>2, <2>3
    <1>6. PICK u \in AudioQueues :
             /\ u.sync = q.sync /\ u.oldest = q.oldest /\ u.blocks = q.blocks /\ u.incompatible = q.incompatible
             /\ u.resync = q.resync
             /\ FindBlock(q, p) = Rejected([u EXCEPT !.next = Wrap(m), !.oldest = Wrap(m), !.resync = @ \/ u.blocks # <<>>])
        BY <1>5
    <1> DEFINE t == [u EXCEPT !.next = Wrap(m), !.oldest = Wrap(m), !.resync = @ \/ u.blocks # <<>>]
    <1>7. r.q = t /\ r.answer = "none"
        <2>1. FindBlock(q, p).at = 0 /\ FindBlock(q, p).q = t
            BY <1>6 DEF Rejected
        <2> HIDE DEF t
        <2>2. r = Answer(t, "none")
            BY <2>1 DEF AddPacket
        <2> QED
            BY <2>2 DEF Answer
    <1> HIDE DEF m
    <1>8. /\ t \in AudioQueues /\ t.next = Wrap(m) /\ t.oldest = Wrap(m) /\ t.blocks = q.blocks /\ t.sync = q.sync
          /\ t.incompatible = q.incompatible /\ t.resync = (q.resync \/ q.blocks # <<>>)
        BY <1>3, <1>6 DEF AudioQueues
    <1> HIDE DEF t
    <1>9. ASSUME q.blocks = <<>>
          PROVE  0 < m /\ Lined(t, m) /\ Open(t, m) /\ Spans(t, m) /\ Reach(t, m, Newest(h, p.n))
        <2>1. BaseOf(m) = m /\ m = a + DataShards
            BY <1>2 DEF Starts, m
        <2>2. DOMAIN t.blocks = {}
            BY <1>8, <1>9
        <2>3. Lined(t, m) /\ Open(t, m) /\ Spans(t, m)
            BY <1>2, <1>8, <2>1, <2>2 DEF Lined, Open, Spans
        <2>4. DataShards \in Nat /\ DataShards > 0 /\ Behind \in Nat
            BY Sizable
        <2>5. m <= Newest(h, p.n) + DataShards /\ Newest(h, p.n) < m + DataShards + Behind /\ 0 < m
            BY <1>1, <1>2, <2>1, <2>4 DEF Newest
        <2>6. Top(t, m) = m
            BY <1>8, <1>9, <2>1 DEF Top
        <2> QED
            BY <2>2, <2>3, <2>5, <2>6 DEF Reach
    <1> QED
        BY <1>2, <1>7, <1>8, <1>9 DEF m

(* What is no audio of this host.                                          *)
LEMMA PacketIsRefused ==
    ASSUME NEW q \in AudioQueues, NEW p, p.kind \in {"misaligned", "invalid"}, ~q.incompatible,
           NEW late \in BOOLEAN, NEW r, r = AddPacket(q, p, late)
    PROVE  /\ r.q \in AudioQueues /\ r.answer = "none" /\ Alike(r.q, q) /\ r.q.blocks = q.blocks
           /\ r.q = q \/ r.q.incompatible
    <1> DEFINE t == IF p.kind = "misaligned" THEN [q EXCEPT !.incompatible = TRUE] ELSE q
    <1>1. t \in AudioQueues /\ Alike(t, q) /\ t.blocks = q.blocks /\ (t = q \/ t.incompatible)
        BY DEF AudioQueues, Alike
    <1>2. FindBlock(q, p).q = t /\ FindBlock(q, p).at = 0
        BY DEF FindBlock, Rejected
    <1> HIDE DEF t
    <1>3. r = Answer(t, "none")
        BY <1>2 DEF AddPacket
    <1> QED
        BY <1>1, <1>3 DEF Answer

(***************************************************************************)
(* Types.                                                                  *)
(***************************************************************************)
\* The life of the stream, the threads, and the queues.
LifeOK ==
    /\ stream \in {"init", "port", "starting", "started", "undo", "shutdown", "signal", "joinRx", "joinDec",
                   "stopped", "failed", "destroyed"}
    /\ socket \in {"invalid", "open", "closed"} /\ ping \in {"none", "runs"}
    /\ renderer \in {"none", "started", "stopped", "cleaned"} /\ direct \in BOOLEAN /\ stopping \subseteq {"rx", "dec"}
RunsOK ==
    /\ rx \in {"none", "turn", "recv", "hand", "drain", "flush", "signal", "ended"} /\ drains \in BOOLEAN /\ item \in Items
    /\ dec \in {"none", "loop", "wait", "blocked", "decode", "ended"} /\ held \in Items
    /\ heard \in BOOLEAN /\ toDrop \in Nat /\ high \in Nat /\ played \in Nat
QueuesOK == queue \in AudioQueues /\ lbq \in LbqOf(Items, Bound)
TypeOK == LifeOK /\ RunsOK /\ QueuesOK

\* Which threads there are, and what the renderer is to them.
ThreadsLive ==
    /\ stream \in {"init", "port"} => rx = "none" /\ dec = "none"
    /\ stream \in {"failed", "stopped", "destroyed"} => rx \in {"none", "ended"} /\ dec \in {"none", "ended"}
    /\ stream \in {"starting", "undo"} => dec = "none" /\ ~direct
    /\ stream = "joinDec" => rx = "ended"
    /\ stream \in {"starting", "started"} => renderer = "started"
    /\ stream \in {"undo", "shutdown", "signal", "joinRx", "joinDec"} => renderer = "stopped"
    /\ direct => dec = "none" /\ lbq.items = <<>>

(***************************************************************************)
(* The queues.                                                             *)
(***************************************************************************)
\* A packet, of whatever kind.
Sent(p) ==
    /\ p.kind \in {"data", "fec", "misaligned", "invalid"} /\ p.n \in Nat
    /\ p.kind \in {"data", "fec"} => p.size \in Sizes /\ p.shard \in 0 .. FecShards - 1

\* A packet's block is in the queue, or belongs somewhere in it.
LEMMA SlotIsThere ==
    ASSUME NEW q \in AudioQueues, NEW x
    PROVE  SlotOf(q, x) \in 1 .. Len(q.blocks) + 1
    <1> DEFINE stop == {i \in DOMAIN q.blocks : q.blocks[i].base = x \/ IsBefore16(x, q.blocks[i].base)}
    <1>1. DOMAIN q.blocks = 1 .. Len(q.blocks) /\ Len(q.blocks) \in Nat
        BY DEF AudioQueues
    <1>2. stop \subseteq 1 .. Len(q.blocks) /\ stop \subseteq Nat
        BY <1>1
    <1>3. SlotOf(q, x) = IF stop = {} THEN Len(q.blocks) + 1 ELSE CHOOSE i \in stop : \A j \in stop : i <= j
        BY DEF SlotOf
    <1> HIDE DEF stop
    <1>4. stop # {} => (CHOOSE i \in stop : \A j \in stop : i <= j) \in stop
        BY <1>2, LeastOf
    <1> DEFINE s == CHOOSE i \in stop : \A j \in stop : i <= j
    <1>5. stop # {} => s \in stop /\ SlotOf(q, x) = s
        BY <1>3, <1>4
    <1>6. stop = {} => SlotOf(q, x) = Len(q.blocks) + 1
        BY <1>3
    <1> HIDE DEF s
    <1>7. CASE stop = {}
        BY <1>1, <1>6, <1>7
    <1>8. CASE stop # {}
        <2>1. s \in 1 .. Len(q.blocks)
            BY <1>2, <1>5, <1>8
        <2> QED
            BY <1>1, <1>5, <1>8, <2>1
    <1> QED
        BY <1>7, <1>8

\* freeFecBlockHead leaves a queue.
LEMMA FreeKeepsTypes ==
    ASSUME NEW q \in AudioQueues, q.blocks # <<>>
    PROVE  FreeHead(q) \in AudioQueues /\ FreeHead(q).resync = q.resync
    <1>1. Head(q.blocks) \in Blocks /\ Tail(q.blocks) \in Seq(Blocks)
        BY DEF AudioQueues
    <1>2. Head(q.blocks).base + DataShards \in Nat
        <2>1. Head(q.blocks).base \in Nat /\ DataShards \in Nat
            BY <1>1, Sizable DEF Blocks
        <2> QED
            BY <2>1
    <1> DEFINE w == Wrap(Head(q.blocks).base + DataShards)
               t == Tail(q.blocks)
    <1>3. w \in Nat /\ t \in Seq(Blocks)
        BY <1>1, <1>2, WrapIs
    <1>4. FreeHead(q) = [q EXCEPT !.oldest = w, !.sync = FALSE, !.blocks = t]
        BY DEF FreeHead
    <1> HIDE DEF w, t
    <1> QED
        BY <1>3, <1>4 DEF AudioQueues

\* One more packet of block i is out.
Stepped(q, i) == [q EXCEPT !.next = Wrap(@ + 1), !.blocks[i].idx = @ + 1]

\* To hand out a packet leaves a queue.
LEMMA StepKeepsTypes ==
    ASSUME NEW q \in AudioQueues, NEW i \in DOMAIN q.blocks, NEW s, s = Stepped(q, i)
    PROVE  s \in AudioQueues /\ s.resync = q.resync /\ s.blocks # <<>> /\ DOMAIN s.blocks = DOMAIN q.blocks
    <1> DEFINE b == [q.blocks[i] EXCEPT !.idx = @ + 1]
               t == [q EXCEPT !.blocks = [@ EXCEPT ![i] = b]]
               w == Wrap(q.next + 1)
    <1>1. q.blocks[i] \in Blocks /\ q.next + 1 \in Nat /\ q.blocks # <<>>
        BY DEF AudioQueues
    <1>2. b \in Blocks
        BY <1>1 DEF Blocks
    <1>3. s = [t EXCEPT !.next = w]
        BY <1>1 DEF AudioQueues, Stepped
    <1> HIDE DEF b
    <1>4. t \in AudioQueues /\ DOMAIN t.blocks = DOMAIN q.blocks /\ (t.blocks = <<>> <=> q.blocks = <<>>)
          /\ t.resync = q.resync
        BY <1>2, BlockIsSet
    <1>5. w \in Nat
        BY <1>1, WrapIs
    <1> HIDE DEF t, w
    <1>6. s \in AudioQueues /\ s.blocks = t.blocks /\ s.resync = t.resync
        BY <1>3, <1>4, <1>5 DEF AudioQueues
    <1> QED
        BY <1>1, <1>4, <1>6

\* RtpaGetQueuedPacket leaves a queue, and the same one if nothing is ready.
LEMMA GetKeepsTypes ==
    ASSUME NEW q \in AudioQueues, NEW g, g = GetQueued(q)
    PROVE  /\ g.q \in AudioQueues /\ g.n \in Nat /\ g.q.resync = q.resync /\ (g.out = "nothing" => g.q = q)
           /\ g.out = "nothing" <=> ~Ready(q)
    <1>1. CASE ~Ready(q)
        BY <1>1 DEF GetQueued
    <1>2. CASE Ready(q)
        <2> DEFINE s == StepHead(q)
                   r == FreeIfRead(s)
        <2>1. 1 \in DOMAIN q.blocks /\ Head(q.blocks) \in Blocks
            BY <1>2 DEF Ready, AudioQueues
        <2>2. s = Stepped(q, 1)
            BY DEF StepHead, Stepped
        <2> HIDE DEF s
        <2>3. s \in AudioQueues /\ s.resync = q.resync /\ s.blocks # <<>>
            BY <2>1, <2>2, StepKeepsTypes
        <2>4. r \in AudioQueues /\ r.resync = q.resync
            BY <2>3, FreeKeepsTypes DEF FreeIfRead
        <2> HIDE DEF r
        <2>5. g.q = r /\ g.n = Head(q.blocks).real + Head(q.blocks).idx /\ g.out # "nothing"
            BY <1>2 DEF GetQueued, s, r
        <2> QED
            BY <1>2, <2>1, <2>4, <2>5 DEF Blocks
    <1> QED
        BY <1>1, <1>2

\* handleMissingPackets leaves a queue.
LEMMA HandleKeepsTypes ==
    ASSUME NEW q \in AudioQueues, NEW late \in BOOLEAN
    PROVE  HandleMissing(q, late) \in AudioQueues /\ HandleMissing(q, late).resync = q.resync
    <1>1. CASE q.blocks = <<>>
        BY <1>1 DEF HandleMissing
    <1>2. CASE q.blocks # <<>>
        <2>1. 1 \in DOMAIN q.blocks /\ Head(q.blocks) = q.blocks[1] /\ q.blocks[1] \in Blocks
            BY <1>2 DEF AudioQueues
        <2>2. CASE IsBefore16(q.next, Head(q.blocks).base)
            <3> DEFINE w == Head(q.blocks).base
            <3>1. w \in Nat /\ HandleMissing(q, late) = [q EXCEPT !.next = w, !.oldest = w]
                BY <1>2, <2>1, <2>2 DEF HandleMissing, Blocks
            <3> HIDE DEF w
            <3> QED
                BY <3>1 DEF AudioQueues
        <2>3. CASE ~IsBefore16(q.next, Head(q.blocks).base)
            <3> DEFINE b == [q.blocks[1] EXCEPT !.allow = TRUE]
            <3>1. b \in Blocks
                BY <2>1 DEF Blocks
            <3>2. HandleMissing(q, late) = IF Len(q.blocks) > 1 /\ (~q.oos \/ late)
                                           THEN [q EXCEPT !.blocks = [@ EXCEPT ![1] = b]] ELSE q
                BY <1>2, <2>3 DEF HandleMissing
            <3> HIDE DEF b
            <3> QED
                BY <2>1, <3>1, <3>2, BlockIsSet
        <2> QED
            BY <2>2, <2>3
    <1> QED
        BY <1>1, <1>2

\* getFecBlockForRtpPacket leaves a queue and finds a block of it.
LEMMA FindKeepsTypes ==
    ASSUME NEW q \in AudioQueues, NEW p, Sent(p), NEW f, f = FindBlock(q, p)
    PROVE  /\ f.q \in AudioQueues /\ (q.resync => f.q.resync)
           /\ f.at # 0 => f.at \in DOMAIN f.q.blocks /\ p.kind \in {"data", "fec"}
    <1> DEFINE r == IF p.kind = "data" THEN NoteOos(q, Wrap(p.n)) ELSE q
               a == Wrap(BaseOf(p.n))
               i == SlotOf(r, a)
               b == NewBlock(p.n, p.size)
               w == Wrap(a + DataShards)
               t == InsertAt(r.blocks, i, b)
    <1>1. p.n \in Nat /\ Wrap(p.n) \in Nat /\ BaseOf(p.n) \in Nat /\ a \in Nat /\ w \in Nat
        <2>1. p.n \in Nat
            BY DEF Sent
        <2>2. Wrap(p.n) \in Nat /\ BaseOf(p.n) \in Nat
            BY <2>1, WrapIs, BlockOf
        <2>3. a \in Nat
            BY <2>2, WrapIs
        <2>4. a + DataShards \in Nat
            BY <2>3, Sizable
        <2> HIDE DEF a
        <2> QED
            BY <2>1, <2>2, <2>3, <2>4, WrapIs
    <1>2. r \in AudioQueues /\ r.resync = q.resync
        BY <1>1, NoteIsAlike DEF Alike
    <1> HIDE DEF r
    <1>3. i \in 1 .. Len(r.blocks) + 1 /\ r.blocks \in Seq(Blocks) /\ Len(r.blocks) \in Nat
          /\ DOMAIN r.blocks = 1 .. Len(r.blocks)
        BY <1>2, SlotIsThere DEF AudioQueues
    <1>4. \/ f.at = 0 /\ \/ f.q = r
                         \/ f.q = [r EXCEPT !.incompatible = TRUE]
                         \/ f.q = [r EXCEPT !.next = w, !.oldest = w, !.resync = @ \/ r.blocks # <<>>]
          \/ f.at = i /\ f.q = [r EXCEPT !.blocks = t] /\ p.kind \in {"data", "fec"}
          \/ f.at = i /\ f.q = r /\ p.kind \in {"data", "fec"} /\ i <= Len(r.blocks)
        <2> HIDE DEF i, a, b
        <2> QED
            BY DEF FindBlock, Rejected, Sent, Known, r, i, a, b
    <1> HIDE DEF a
    <1>5. p.kind \in {"data", "fec"} => b \in Blocks
        BY <1>1, WrapIs, Sizable DEF NewBlock, Blocks, Sent, a
    <1> HIDE DEF i, b, w
    <1>6. p.kind \in {"data", "fec"} => t \in Seq(Blocks) /\ DOMAIN t = 1 .. Len(r.blocks) + 1
        <2> SUFFICES ASSUME p.kind \in {"data", "fec"}
                     PROVE  t \in Seq(Blocks) /\ DOMAIN t = 1 .. Len(r.blocks) + 1
            OBVIOUS
        <2> DEFINE s == r.blocks
        <2>1. t = InsertAt(s, i, b)
            OBVIOUS
        <2>2. b \in Blocks
            BY <1>5
        <2>3. s \in Seq(Blocks) /\ i \in 1 .. Len(s) + 1
            BY <1>3
        <2> HIDE DEF t, s
        <2>4. t \in Seq(Blocks) /\ DOMAIN t = 1 .. Len(s) + 1
            BY <2>1, <2>2, <2>3, Inserted
        <2> QED
            BY <2>4 DEF s
    <1> HIDE DEF t
    <1>7. CASE f.at = 0 /\ \/ f.q = r
                           \/ f.q = [r EXCEPT !.incompatible = TRUE]
                           \/ f.q = [r EXCEPT !.next = w, !.oldest = w, !.resync = @ \/ r.blocks # <<>>]
        BY <1>1, <1>2, <1>7 DEF AudioQueues
    <1>8. CASE f.at = i /\ f.q = [r EXCEPT !.blocks = t] /\ p.kind \in {"data", "fec"}
        <2>1. f.q \in AudioQueues /\ f.q.resync = r.resync /\ f.q.blocks = t
            BY <1>2, <1>6, <1>8 DEF AudioQueues
        <2> QED
            BY <1>2, <1>3, <1>6, <1>8, <2>1
    <1>9. CASE f.at = i /\ f.q = r /\ p.kind \in {"data", "fec"} /\ i <= Len(r.blocks)
        BY <1>2, <1>3, <1>9
    <1> QED
        BY <1>4, <1>7, <1>8, <1>9

\* RtpaAddPacket leaves a queue, and the same one once the host is known to be incompatible.
LEMMA AddKeepsTypes ==
    ASSUME NEW q \in AudioQueues, NEW p, Sent(p), NEW late \in BOOLEAN, NEW r, r = AddPacket(q, p, late)
    PROVE  /\ r.q \in AudioQueues /\ (q.resync => r.q.resync) /\ r.answer \in {"now", "ready", "none"}
           /\ q.incompatible => r.q = q /\ r.answer # "ready"
    <1> DEFINE f == FindBlock(q, p)
    <1>1. /\ f.q \in AudioQueues /\ (q.resync => f.q.resync)
          /\ f.at # 0 => f.at \in DOMAIN f.q.blocks /\ p.kind \in {"data", "fec"}
        BY FindKeepsTypes
    <1>2. CASE q.incompatible
        BY <1>2 DEF AddPacket, Answer
    <1>3. CASE ~q.incompatible
        <2> HIDE DEF f
        <2>1. CASE f.at = 0 \/ IsDuplicate(f.q.blocks[f.at], p)
            BY <1>1, <1>3, <2>1 DEF AddPacket, Answer, f
        <2>2. CASE ~(f.at = 0 \/ IsDuplicate(f.q.blocks[f.at], p))
            <3> DEFINE i == f.at
                       c == Marked(f.q, i, p)
                       d == Completed(c, i)
                       s == IF Ready(d) THEN d ELSE HandleMissing(d, late)
                       x == HandNow(c, i)
            <3>1. r = IF p.kind = "data" /\ Wrap(p.n) = c.next THEN Answer(x, "now")
                      ELSE Answer(s, IF Ready(s) THEN "ready" ELSE "none")
                BY <1>3, <2>2 DEF AddPacket, f
            <3>2. c \in AudioQueues /\ c.resync = f.q.resync /\ i \in DOMAIN c.blocks
                <4>1. i \in DOMAIN f.q.blocks /\ p.kind \in {"data", "fec"}
                    BY <1>1, <2>2
                <4>2. f.q.blocks[i] \in Blocks
                    BY <1>1, <4>1 DEF AudioQueues
                <4>3. CASE p.kind = "data"
                    <5> DEFINE b == [f.q.blocks[i] EXCEPT !.data = @ \cup {p.n % DataShards}]
                    <5>1. b \in Blocks
                        <6>1. p.n % DataShards \in 0 .. DataShards - 1
                            BY Sizable, Divides DEF Sent
                        <6> QED
                            BY <4>2, <6>1 DEF Blocks
                    <5>2. c = [f.q EXCEPT !.blocks = [@ EXCEPT ![i] = b]]
                        BY <4>3 DEF Marked
                    <5> HIDE DEF b, c, i
                    <5> QED
                        BY <1>1, <4>1, <5>1, <5>2, BlockIsSet
                <4>4. CASE p.kind # "data"
                    <5> DEFINE b == [f.q.blocks[i] EXCEPT !.fec = @ \cup {p.shard}]
                    <5>1. b \in Blocks
                        BY <4>1, <4>2 DEF Blocks, Sent
                    <5>2. c = [f.q EXCEPT !.blocks = [@ EXCEPT ![i] = b]]
                        BY <4>4 DEF Marked
                    <5> HIDE DEF b, c, i
                    <5> QED
                        BY <1>1, <4>1, <5>1, <5>2, BlockIsSet
                <4> QED
                    BY <4>3, <4>4
            <3> HIDE DEF c, i
            <3>3. d \in AudioQueues /\ d.resync = c.resync
                BY <3>2, CompletedIsAlike DEF Alike
            <3> HIDE DEF d
            <3>4. s \in AudioQueues /\ s.resync = c.resync
                BY <3>3, HandleKeepsTypes
            <3>5. x \in AudioQueues /\ x.resync = c.resync
                <4> DEFINE u == Stepped(c, i)
                <4>1. x = IF u.next = Wrap(u.blocks[i].base + DataShards) THEN FreeHead(u) ELSE u
                    BY DEF HandNow, Stepped
                <4>2. u = Stepped(c, i)
                    OBVIOUS
                <4> HIDE DEF u, x
                <4>3. u \in AudioQueues /\ u.resync = c.resync /\ u.blocks # <<>>
                    BY <3>2, <4>2, StepKeepsTypes
                <4> QED
                    BY <4>1, <4>3, FreeKeepsTypes
            <3> HIDE DEF s, x
            <3> QED
                BY <1>1, <1>3, <3>1, <3>2, <3>4, <3>5 DEF Answer
        <2> QED
            BY <2>1, <2>2
    <1> QED
        BY <1>2, <1>3

\* What the calls of the queue between the threads do to its items.
LEMMA LbqKeepsTypes ==
    ASSUME NEW q \in LbqOf(Items, Bound), NEW x \in Items
    PROVE  /\ LbqShutdown(q) \in LbqOf(Items, Bound) /\ LbqShutdown(q).items = q.items
           /\ LbqFlush(q) \in LbqOf(Items, Bound) /\ LbqFlush(q).items = <<>>
           /\ LbqOffer(q, x) \in LbqOf(Items, Bound)
           /\ LbqWait(q) \in LbqOf(Items, Bound)
           /\ LbqWaitAnswer(q) = "success" => Head(q.items) \in Items /\ q.items # <<>> /\ LbqWait(q).items = Tail(q.items)
           /\ LbqWaitAnswer(q) # "success" => LbqWait(q).items = q.items
           /\ LbqOfferAnswer(q) = "success" => LbqOffer(q, x).items = Append(q.items, x)
           /\ LbqOfferAnswer(q) # "success" => LbqOffer(q, x) = q
    <1>1. q.items \in Seq(Items)
        BY DEF LbqOf
    <1>2. LbqShutdown(q) \in LbqOf(Items, Bound) /\ LbqShutdown(q).items = q.items
        BY DEF LbqOf, LbqShutdown
    <1>3. LbqFlush(q) \in LbqOf(Items, Bound) /\ LbqFlush(q).items = <<>>
        <2> DEFINE e == <<>>
        <2>1. e \in Seq(Items) /\ LbqFlush(q) = [q EXCEPT !.items = e]
            BY DEF LbqFlush
        <2> HIDE DEF e
        <2>2. LbqFlush(q) \in LbqOf(Items, Bound) /\ LbqFlush(q).items = e
            BY <2>1 DEF LbqOf
        <2> QED
            BY <2>2 DEF e
    <1>4. /\ LbqOffer(q, x) \in LbqOf(Items, Bound)
          /\ LbqOfferAnswer(q) = "success" => LbqOffer(q, x).items = Append(q.items, x)
          /\ LbqOfferAnswer(q) # "success" => LbqOffer(q, x) = q
        <2> DEFINE t == Append(q.items, x)
        <2>1. t \in Seq(Items)
            BY <1>1
        <2>2. LbqOffer(q, x) = IF LbqOfferAnswer(q) = "success" THEN [q EXCEPT !.items = t] ELSE q
            BY DEF LbqOffer
        <2> HIDE DEF t
        <2>3. LbqOffer(q, x) \in LbqOf(Items, Bound) /\ (LbqOfferAnswer(q) = "success" => LbqOffer(q, x).items = t)
              /\ (LbqOfferAnswer(q) # "success" => LbqOffer(q, x) = q)
            BY <2>1, <2>2 DEF LbqOf
        <2> QED
            BY <2>3 DEF t
    <1>5. LbqWaitAnswer(q) = "success" => q.items # <<>> /\ Head(q.items) \in Items /\ Tail(q.items) \in Seq(Items)
        BY <1>1 DEF LbqWaitAnswer
    <1>6. /\ LbqWait(q) \in LbqOf(Items, Bound)
          /\ LbqWaitAnswer(q) = "success" => LbqWait(q).items = Tail(q.items)
          /\ LbqWaitAnswer(q) # "success" => LbqWait(q).items = q.items
        <2> DEFINE t == Tail(q.items)
        <2>1. LbqWait(q) = CASE LbqWaitAnswer(q) = "wake"    -> [q EXCEPT !.userWake = FALSE]
                             [] LbqWaitAnswer(q) = "success" -> [q EXCEPT !.items = t]
                             [] OTHER                        -> q
            BY DEF LbqWait
        <2>2. LbqWaitAnswer(q) = "success" => t \in Seq(Items)
            BY <1>5
        <2> HIDE DEF t
        <2>3. CASE LbqWaitAnswer(q) = "wake"
            BY <2>1, <2>3 DEF LbqOf
        <2>4. CASE LbqWaitAnswer(q) = "success"
            <3>1. LbqWait(q) = [q EXCEPT !.items = t]
                BY <2>1, <2>4
            <3> QED
                BY <2>2, <2>4, <3>1 DEF LbqOf, t
        <2>5. CASE LbqWaitAnswer(q) \notin {"wake", "success"}
            BY <2>1, <2>5
        <2> QED
            BY <2>3, <2>4, <2>5
    <1> QED
        BY <1>2, <1>3, <1>4, <1>5, <1>6

\* What arrives is near the newest packet, or no audio of this host.
LEMMA PacketsAreSent ==
    ASSUME high \in Nat, NEW p \in Packets
    PROVE  Sent(p) /\ (Near(p, high) \/ (p.kind \in {"misaligned", "invalid"} /\ p.n = high))
    <1> DEFINE window == {n \in 0 .. LastPacket : high - Behind <= n /\ n <= high + Ahead}
               starts == {n \in window : n % DataShards = 0 /\ n <= high}
    <1>1. LastPacket \in Nat /\ Behind \in Nat /\ Ahead \in Nat /\ FecShards \in Nat /\ FecShards # 0 /\ DataShards \in Nat \ {0}
        BY Sizable
    <1>2. \/ p \in [kind: {"data"}, n: window, size: Sizes, shard: {0}]
          \/ p \in [kind: {"fec"}, n: starts, size: Sizes, shard: 0 .. FecShards - 1]
          \/ p \in [kind: {"misaligned", "invalid"}, n: {high}, size: {0}, shard: {0}]
        BY DEF Packets
    <1>3. \A n \in window : n \in Nat /\ n <= high + Ahead /\ high <= n + Behind
        BY <1>1
    <1>4. \A n \in starts : n \in Nat /\ n <= high + Ahead /\ high <= n + Behind /\ Starts(n)
        <2> SUFFICES ASSUME NEW n \in starts PROVE n \in Nat /\ n <= high + Ahead /\ high <= n + Behind /\ Starts(n)
            OBVIOUS
        <2>1. n \in Nat /\ n <= high + Ahead /\ high <= n + Behind /\ n % DataShards = 0
            BY <1>3
        <2>2. n % DataShards = n - BaseOf(n) /\ BaseOf(n) \in Nat
            BY <2>1, BlockOf
        <2> QED
            BY <2>1, <2>2 DEF Starts
    <1> HIDE DEF window, starts
    <1>5. CASE p \in [kind: {"data"}, n: window, size: Sizes, shard: {0}]
        <2>1. p.kind = "data" /\ p.n \in window /\ p.size \in Sizes /\ p.shard = 0
            BY <1>5
        <2>2. p.shard \in 0 .. FecShards - 1
            BY <1>1, <2>1
        <2>3. p.n \in Nat /\ p.n <= high + Ahead /\ high <= p.n + Behind
            BY <1>3, <2>1
        <2>4. Sent(p)
            BY <2>1, <2>2, <2>3 DEF Sent
        <2>5. Near(p, high)
            BY <2>1, <2>2, <2>3 DEF Near, Shard
        <2> QED
            BY <2>4, <2>5
    <1>6. CASE p \in [kind: {"fec"}, n: starts, size: Sizes, shard: 0 .. FecShards - 1]
        <2>1. p.kind = "fec" /\ p.n \in starts /\ p.size \in Sizes /\ p.shard \in 0 .. FecShards - 1
            BY <1>6
        <2>2. p.n \in Nat /\ p.n <= high + Ahead /\ high <= p.n + Behind /\ Starts(p.n)
            BY <1>4, <2>1
        <2>4. Sent(p)
            BY <2>1, <2>2 DEF Sent
        <2>5. Near(p, high)
            BY <2>1, <2>2 DEF Near, Shard
        <2> QED
            BY <2>4, <2>5
    <1>7. CASE p \in [kind: {"misaligned", "invalid"}, n: {high}, size: {0}, shard: {0}]
        BY <1>7 DEF Sent
    <1> QED
        BY <1>2, <1>5, <1>6, <1>7

\* handleMissingPackets is told that the head is late, or that it is not.
LEMMA MayBeLateIsBoolean == MayBeLate \subseteq BOOLEAN
    BY DEF MayBeLate

(***************************************************************************)
(* The types, and the threads.                                             *)
(***************************************************************************)
\* The part of the invariant that needs no numbers.
Base == TypeOK /\ ThreadsLive

\* A stream starts with no threads and empty queues.
LEMMA InitBase == Init => Base
    <1> SUFFICES ASSUME Init PROVE Base
        OBVIOUS
    <1>1. EmptyAudioQueue \in AudioQueues
        BY DEF EmptyAudioQueue, AudioQueues
    <1>2. EmptyLbq(Bound) \in LbqOf(Items, Bound) /\ EmptyLbq(Bound).items = <<>>
        BY DEF EmptyLbq, LbqOf
    <1>3. Nothing \in Items
        BY DEF Nothing, Items
    <1> QED
        BY <1>1, <1>2, <1>3, Sizable DEF Init, Base, TypeOK, LifeOK, RunsOK, QueuesOK, ThreadsLive

\* Every step keeps the types, and what the threads and the renderer are to each other.
LEMMA BaseStep == Base /\ [Next]_vars => Base'
    <1> SUFFICES ASSUME Base, [Next]_vars PROVE Base'
        OBVIOUS
    <1>n. Nothing \in Items /\ Nothing.n = 0
        BY DEF Nothing, Items
    <1>q. queue \in AudioQueues /\ lbq \in LbqOf(Items, Bound)
        BY DEF Base, TypeOK, QueuesOK
    <1>l. /\ LbqShutdown(lbq) \in LbqOf(Items, Bound) /\ LbqShutdown(lbq).items = lbq.items
          /\ LbqFlush(lbq) \in LbqOf(Items, Bound) /\ LbqFlush(lbq).items = <<>>
          /\ LbqOffer(lbq, item) \in LbqOf(Items, Bound)
          /\ LbqWait(lbq) \in LbqOf(Items, Bound)
          /\ LbqWaitAnswer(lbq) = "success" => Head(lbq.items) \in Items
        BY <1>q, LbqKeepsTypes DEF Base, TypeOK, RunsOK
    <1>p. \A p \in Packets : p.n \in Nat /\ Sent(p)
        <2>1. high \in Nat
            BY DEF Base, TypeOK, RunsOK
        <2> QED
            BY <2>1, PacketsAreSent DEF Sent
    <1>a. \A p \in Packets, late \in MayBeLate :
             AddPacket(queue, p, late).q \in AudioQueues /\ AddPacket(queue, p, late).answer \in {"now", "ready", "none"}
        <2> SUFFICES ASSUME NEW p \in Packets, NEW late \in MayBeLate, NEW r, r = AddPacket(queue, p, late)
                     PROVE  r.q \in AudioQueues /\ r.answer \in {"now", "ready", "none"}
            OBVIOUS
        <2>1. late \in BOOLEAN
            BY MayBeLateIsBoolean
        <2> QED
            BY <1>p, <1>q, <2>1, AddKeepsTypes
    <1>g. GetQueued(queue).q \in AudioQueues /\ GetQueued(queue).n \in Nat
        <2> SUFFICES ASSUME NEW g, g = GetQueued(queue) PROVE g.q \in AudioQueues /\ g.n \in Nat
            OBVIOUS
        <2> QED
            BY <1>q, GetKeepsTypes
    <1> USE DEF Base, TypeOK, LifeOK, RunsOK, QueuesOK, ThreadsLive, vars, life, media
    <1>1. CASE NotifyPort
        BY <1>1 DEF NotifyPort
    <1>2. CASE StartReceiver
        BY <1>2 DEF StartReceiver
    <1>3. CASE StartDecoder
        BY <1>3 DEF StartDecoder
    <1>4. CASE UndoStart
        BY <1>4 DEF UndoStart
    <1>5. CASE Stop
        BY <1>5 DEF Stop
    <1>6. CASE ShutdownQueue
        BY <1>6, <1>l DEF ShutdownQueue
    <1>7. CASE SignalShutdown
        BY <1>7 DEF SignalShutdown
    <1>8. CASE JoinReceiver
        BY <1>8 DEF JoinReceiver
    <1>9. CASE JoinDecoder
        BY <1>9 DEF JoinDecoder
    <1>10. CASE Destroy
        <2> DEFINE e == <<>>
        <2>0. e \in Seq(Blocks) /\ CleanedUp(queue) = [queue EXCEPT !.blocks = e]
            BY DEF CleanedUp
        <2> HIDE DEF e
        <2>1. CleanedUp(queue) \in AudioQueues
            BY <1>q, <2>0 DEF AudioQueues
        <2>2. /\ stream \in {"stopped", "failed"} /\ stream' = "destroyed" /\ ping' = "none" /\ socket' = "invalid"
              /\ lbq' = LbqFlush(lbq) /\ queue' = CleanedUp(queue)
              /\ UNCHANGED <<renderer, direct, stopping, rx, drains, item, heard, toDrop, dec, held, high, played>>
            BY <1>10 DEF Destroy
        <2>3. lbq' \in LbqOf(Items, Bound) /\ lbq'.items = <<>> /\ queue' \in AudioQueues
            BY <1>l, <2>1, <2>2
        <2>4. LifeOK' /\ RunsOK'
            BY <2>2
        <2>5. ThreadsLive'
            BY <2>2, <2>3
        <2> QED
            BY <2>3, <2>4, <2>5
    <1>11. CASE ReceiverTurn \/ ReceiveFails
        <2>1. rx \in {"turn", "recv"} /\ rx' \in {"ended", "recv"}
              /\ UNCHANGED <<life, drains, item, heard, toDrop, queue, lbq, dec, held, high, played>>
            BY <1>11 DEF ReceiverTurn, ReceiveFails
        <2> QED
            BY <2>1
    <1>12. CASE ReceiveTimesOut
        BY <1>12 DEF ReceiveTimesOut
    <1>13. ASSUME NEW p \in Packets, DropInitial(p) PROVE Base'
        <2>1. p.n \in Nat
            BY <1>p
        <2> QED
            BY <1>13, <2>1 DEF DropInitial
    <1>14. ASSUME NEW p \in Packets, NEW late \in MayBeLate, Receive(p, late) PROVE Base'
        <2> DEFINE r == AddPacket(queue, p, late)
        <2>1. p.n \in Nat
            BY <1>p
        <2>2. r.q \in AudioQueues /\ r.answer \in {"now", "ready", "none"}
            BY <1>a
        <2>3. [n |-> p.n, lost |-> FALSE] \in Items
            BY <2>1 DEF Items
        <2>4. /\ rx = "recv" /\ toDrop = 0 /\ heard' = TRUE /\ high' = (IF p.n > high THEN p.n ELSE high)
              /\ queue' = r.q
              /\ CASE r.answer = "now"   -> rx' = "hand" /\ item' = [n |-> p.n, lost |-> FALSE] /\ drains' = FALSE
                   [] r.answer = "ready" -> rx' = "drain" /\ drains' = TRUE /\ UNCHANGED item
                   [] OTHER              -> rx' = "turn" /\ UNCHANGED <<item, drains>>
              /\ UNCHANGED <<life, toDrop, lbq, dec, held, played>>
            BY <1>14 DEF Receive
        <2> HIDE DEF r
        <2> QED
            BY <2>1, <2>2, <2>3, <2>4
    <1>15. CASE DrainOne
        <2> DEFINE g == GetQueued(queue)
        <2>1. g.q \in AudioQueues /\ g.n \in Nat
            BY <1>g
        <2>2. /\ rx = "drain" /\ queue' = g.q
              /\ IF g.out = "nothing"
                 THEN rx' = "turn" /\ drains' = FALSE /\ item' = Nothing
                 ELSE rx' = "hand" /\ item' = [n |-> g.n, lost |-> g.out = "lost"] /\ UNCHANGED drains
              /\ UNCHANGED <<life, heard, toDrop, lbq, dec, held, high, played>>
            BY <1>15 DEF DrainOne
        <2>3. [n |-> g.n, lost |-> g.out = "lost"] \in Items
            BY <2>1 DEF Items
        <2> HIDE DEF g
        <2> QED
            BY <1>n, <2>1, <2>2, <2>3
    <1>16. CASE HandDirect
        BY <1>16, <1>n DEF HandDirect, AfterHand, Items
    <1>17. CASE HandToQueue
        BY <1>17, <1>n, <1>l DEF HandToQueue, AfterHand
    <1>18. CASE FlushQueue
        BY <1>18, <1>l DEF FlushQueue
    <1>19. CASE SignalQueue
        BY <1>19 DEF SignalQueue, AfterHand
    <1>20. CASE DecoderTurn
        BY <1>20 DEF DecoderTurn
    <1>21. CASE DecoderWaits
        BY <1>21 DEF DecoderWaits
    <1>22. CASE DecoderTakes
        BY <1>22, <1>l DEF DecoderTakes
    <1>23. CASE Decode
        BY <1>23, <1>n DEF Decode, Items
    <1>24. CASE UNCHANGED vars
        BY <1>24
    <1> QED
        BY <1>1, <1>2, <1>3, <1>4, <1>5, <1>6, <1>7, <1>8, <1>9, <1>10, <1>11, <1>12, <1>13, <1>14, <1>15, <1>16,
           <1>17, <1>18, <1>19, <1>20, <1>21, <1>22, <1>23, <1>24
        DEF Next, Connection, Receiver, Arrives, Decoder, Gone

\* Every variable keeps its type: the blocks and the numbers of the queue are what the code
\* makes them, for every loss, repetition and order of the packets.
THEOREM TypeCorrect == Spec => []TypeOK
    <1>1. Base => TypeOK
        BY DEF Base
    <1> QED
        BY <1>1, InitBase, BaseStep, PTL DEF Spec

\* decodeAndPlaySample is never called on a renderer that was cleaned up: stopAudioStream and
\* a start that fails join the threads first.
THEOREM SamplesReachTheRenderer == Spec => []NoSampleAfterCleanup
    <1>1. Base => NoSampleAfterCleanup
        BY DEF Base, TypeOK, LifeOK, RunsOK, ThreadsLive, NoSampleAfterCleanup, Playing
    <1> QED
        BY <1>1, InitBase, BaseStep, PTL DEF Spec

\* The backlog is short: from the first block to the last, and what may still arrive, is at most half
\* of the numbers.  The code bounds the backlog by time and loss only, not by a count.
SpanIsShort == Short(queue)

\* The receive thread has a packet to hand on.
AtHand == rx \in {"hand", "flush"}

\* What is on its way to the decoder is in order, newer than what was played, and older than n.
Ordered(n) ==
    /\ played < n
    /\ AtHand => played < item.n /\ item.n < n
    /\ dec = "decode" => played < held.n /\ held.n < n /\ (AtHand => held.n < item.n)
    /\ \A i \in DOMAIN lbq.items :
          /\ played < lbq.items[i].n /\ lbq.items[i].n < n
          /\ dec = "decode" => held.n < lbq.items[i].n
          /\ AtHand => lbq.items[i].n < item.n
          /\ \A j \in 1 .. i - 1 : lbq.items[j].n < lbq.items[i].n

\* Nothing has left the queue of the receive thread yet.
NothingHanded == played = 0 /\ ~AtHand /\ dec # "decode" /\ lbq.items = <<>>

\* The queue counts on from a number of the host: the next packet's.
Numbered ==
    ~queue.resync =>
        \E n \in Nat :
            /\ Lined(queue, n) /\ Spans(queue, n)
            /\ stream # "destroyed" =>
                  /\ Open(queue, n)
                  /\ \/ queue.incompatible
                     \/ Waiting(queue)
                     \/ Reach(queue, n, high) /\ Ordered(n)

\* Before the first packets were looked at, and while no block was finished, nothing was handed on.
Quiet ==
    /\ toDrop > 0 => Waiting(queue)
    /\ (queue.sync /\ queue.blocks = <<>> /\ ~queue.resync /\ ~queue.incompatible /\ stream # "destroyed")
          => NothingHanded

\* What a step leaves alone of what is on its way to the decoder.
Still ==
    /\ played' = played /\ lbq'.items = lbq.items
    /\ AtHand' => AtHand /\ item' = item
    /\ dec' = "decode" => dec = "decode" /\ held' = held

\* What is on its way to the decoder and does not move stays in order.
LEMMA StillOrdered ==
    ASSUME NEW n \in Nat, Still
    PROVE  (Ordered(n) => Ordered(n)') /\ (NothingHanded => NothingHanded')
    BY DEF Ordered, Still, NothingHanded

\* Every step but the receive thread's on its queue keeps the order.
Elsewhere ==
    \/ Connection \/ ReceiverTurn \/ ReceiveFails \/ ReceiveTimesOut
    \/ HandDirect \/ HandToQueue \/ FlushQueue \/ SignalQueue
    \/ Decoder \/ Gone

\* Every step but the receive thread's on its queue keeps the order of what is on its way: the
\* hand to the queue of the decoder, its flush, and the decoder itself.
LEMMA OrderIsKept ==
    ASSUME Base, Elsewhere, NEW n \in Nat
    PROVE  (Ordered(n) => Ordered(n)') /\ (NothingHanded => NothingHanded')
    <1>1. lbq \in LbqOf(Items, Bound) /\ lbq.items \in Seq(Items) /\ item \in Items /\ played \in Nat
          /\ held \in Items
        BY DEF Base, TypeOK, RunsOK, QueuesOK, LbqOf
    <1>2. /\ LbqShutdown(lbq).items = lbq.items
          /\ LbqFlush(lbq).items = <<>>
          /\ LbqWaitAnswer(lbq) = "success" => lbq.items # <<>> /\ LbqWait(lbq).items = Tail(lbq.items)
          /\ LbqWaitAnswer(lbq) # "success" => LbqWait(lbq).items = lbq.items
          /\ LbqOfferAnswer(lbq) = "success" => LbqOffer(lbq, item).items = Append(lbq.items, item)
          /\ LbqOfferAnswer(lbq) # "success" => LbqOffer(lbq, item) = lbq
        BY <1>1, LbqKeepsTypes
    <1>3. item.n \in Nat /\ held.n \in Nat /\ DOMAIN lbq.items = 1 .. Len(lbq.items) /\ Len(lbq.items) \in Nat
          /\ \A i \in DOMAIN lbq.items : lbq.items[i].n \in Nat
        <2>1. DOMAIN lbq.items = 1 .. Len(lbq.items) /\ Len(lbq.items) \in Nat
              /\ \A i \in DOMAIN lbq.items : lbq.items[i] \in Items
            BY <1>1
        <2> QED
            BY <1>1, <2>1 DEF Items
    <1>4. CASE NotifyPort \/ StartDecoder \/ UndoStart \/ Stop \/ ShutdownQueue \/ JoinReceiver \/ JoinDecoder \/ Gone
        <2>1. Still
            BY <1>2, <1>4 DEF NotifyPort, StartDecoder, UndoStart, Stop, ShutdownQueue, JoinReceiver,
                              JoinDecoder, Gone, Still, AtHand, media, life, vars
        <2> QED
            BY <2>1, StillOrdered
    <1>5. CASE StartReceiver
        <2>1. rx' \in {rx, "none", "turn"} /\ UNCHANGED <<item, lbq, dec, held, played>>
            BY <1>5 DEF StartReceiver
        <2>2. Still
            BY <2>1 DEF Still, AtHand
        <2> QED
            BY <2>2, StillOrdered
    <1>6. CASE SignalShutdown
        <2>1. Still
            BY <1>6 DEF SignalShutdown, Still, AtHand
        <2> QED
            BY <2>1, StillOrdered
    <1>7. CASE Destroy
        <2>1. lbq'.items = <<>> /\ UNCHANGED <<rx, item, dec, held, played>>
            BY <1>2, <1>7 DEF Destroy
        <2>2. DOMAIN lbq'.items = {}
            BY <2>1
        <2> QED
            BY <2>1, <2>2 DEF Ordered, NothingHanded, AtHand
    <1>8. CASE ReceiverTurn \/ ReceiveFails \/ ReceiveTimesOut \/ SignalQueue \/ DecoderTurn \/ DecoderWaits
        <2>1. UNCHANGED <<item, lbq, held, played>>
            BY <1>8 DEF ReceiverTurn, ReceiveFails, ReceiveTimesOut, SignalQueue, DecoderTurn, DecoderWaits
        <2>2. rx' = rx \/ rx' \in {"ended", "drain", "turn", "recv"}
            BY <1>8 DEF ReceiverTurn, ReceiveFails, ReceiveTimesOut, SignalQueue, DecoderTurn, DecoderWaits, AfterHand
        <2>3. dec' = dec \/ dec' \in {"wait", "ended", "blocked"}
            BY <1>8 DEF ReceiverTurn, ReceiveFails, ReceiveTimesOut, SignalQueue, DecoderTurn, DecoderWaits
        <2>4. Still
            BY <2>1, <2>2, <2>3 DEF Still, AtHand
        <2> QED
            BY <2>4, StillOrdered
    <1>9. CASE HandDirect
        <2>1. /\ rx = "hand" /\ direct /\ played' = item.n /\ rx' \in {"drain", "turn"}
              /\ UNCHANGED <<lbq, dec, held>>
            BY <1>9 DEF HandDirect, AfterHand
        <2>2. dec = "none" /\ lbq.items = <<>> /\ AtHand /\ ~AtHand' /\ dec' = "none" /\ lbq'.items = <<>>
            BY <2>1 DEF Base, ThreadsLive, AtHand
        <2>3. DOMAIN lbq'.items = {}
            BY <2>2
        <2> QED
            BY <2>1, <2>2, <2>3 DEF Ordered, NothingHanded
    <1>10. CASE HandToQueue
        <2>1. rx = "hand" /\ lbq' = LbqOffer(lbq, item) /\ UNCHANGED <<dec, held, played>> /\ AtHand
            BY <1>10 DEF HandToQueue, AtHand
        <2>2. CASE LbqOfferAnswer(lbq) # "success"
            <3>1. UNCHANGED item \/ rx' = "ended"
                BY <1>10, <2>2 DEF HandToQueue
            <3>2. Still
                BY <1>2, <2>1, <2>2, <3>1 DEF Still, AtHand
            <3> QED
                BY <3>2, StillOrdered
        <2>3. CASE LbqOfferAnswer(lbq) = "success"
            <3>1. rx' \in {"signal", "drain", "turn"}
                BY <1>10, <2>3 DEF HandToQueue, AfterHand
            <3>2. ~AtHand' /\ lbq'.items = Append(lbq.items, item)
                BY <1>2, <2>1, <2>3, <3>1 DEF AtHand
            <3>3. /\ DOMAIN lbq'.items = 1 .. Len(lbq.items) + 1
                  /\ lbq'.items[Len(lbq.items) + 1] = item
                  /\ \A i \in DOMAIN lbq.items : lbq'.items[i] = lbq.items[i]
                BY <1>1, <3>2
            <3>4. ASSUME Ordered(n) PROVE Ordered(n)'
                <4>1. played' < n /\ (dec' = "decode" => played' < held'.n /\ held'.n < n)
                    BY <2>1, <3>4 DEF Ordered
                <4>2. ASSUME NEW i \in DOMAIN lbq'.items
                      PROVE  /\ played' < lbq'.items[i].n /\ lbq'.items[i].n < n
                             /\ dec' = "decode" => held'.n < lbq'.items[i].n
                             /\ \A j \in 1 .. i - 1 : lbq'.items[j].n < lbq'.items[i].n
                    <5>1. CASE i \in DOMAIN lbq.items
                        <6>1. \A j \in 1 .. i - 1 : j \in DOMAIN lbq.items
                            BY <1>3, <5>1
                        <6> QED
                            BY <2>1, <3>3, <3>4, <5>1, <6>1 DEF Ordered
                    <5>2. CASE i \notin DOMAIN lbq.items
                        <6>1. i = Len(lbq.items) + 1 /\ \A j \in 1 .. i - 1 : j \in DOMAIN lbq.items
                            BY <1>3, <3>3, <4>2, <5>2
                        <6> QED
                            BY <2>1, <3>3, <3>4, <6>1 DEF Ordered
                    <5> QED
                        BY <5>1, <5>2
                <4> QED
                    BY <3>2, <4>1, <4>2 DEF Ordered
            <3> QED
                BY <2>1, <3>4 DEF NothingHanded
        <2> QED
            BY <2>2, <2>3
    <1>11. CASE FlushQueue
        <2>1. rx = "flush" /\ rx' = "hand" /\ lbq'.items = <<>> /\ UNCHANGED <<item, dec, held, played>>
            BY <1>2, <1>11 DEF FlushQueue
        <2>2. DOMAIN lbq'.items = {}
            BY <2>1
        <2> QED
            BY <2>1, <2>2 DEF Ordered, NothingHanded, AtHand
    <1>12. CASE DecoderTakes
        <2>1. dec = "wait" /\ lbq' = LbqWait(lbq) /\ UNCHANGED <<rx, item, played>>
            BY <1>12 DEF DecoderTakes
        <2>2. CASE LbqWaitAnswer(lbq) # "success"
            <3>1. dec' = "ended"
                BY <1>12, <2>2 DEF DecoderTakes
            <3>2. Still
                BY <1>2, <2>1, <2>2, <3>1 DEF Still, AtHand
            <3> QED
                BY <3>2, StillOrdered
        <2>3. CASE LbqWaitAnswer(lbq) = "success"
            <3>1. dec' = "decode" /\ held' = Head(lbq.items) /\ lbq.items # <<>> /\ lbq'.items = Tail(lbq.items)
                BY <1>2, <1>12, <2>1, <2>3 DEF DecoderTakes
            <3>2. /\ held' = lbq.items[1] /\ 1 \in DOMAIN lbq.items
                  /\ \A i \in DOMAIN lbq'.items : /\ i \in Nat /\ i >= 1 /\ i + 1 \in DOMAIN lbq.items
                                                  /\ lbq'.items[i] = lbq.items[i + 1]
                BY <1>1, <3>1
            <3>3. ASSUME Ordered(n) PROVE Ordered(n)'
                <4>1. /\ played' < n /\ (AtHand' => played' < item'.n /\ item'.n < n)
                      /\ played' < held'.n /\ held'.n < n /\ (AtHand' => held'.n < item'.n)
                    BY <2>1, <3>2, <3>3 DEF Ordered, AtHand
                <4>2. ASSUME NEW i \in DOMAIN lbq'.items
                      PROVE  /\ played' < lbq'.items[i].n /\ lbq'.items[i].n < n
                             /\ held'.n < lbq'.items[i].n
                             /\ AtHand' => lbq'.items[i].n < item'.n
                             /\ \A j \in 1 .. i - 1 : lbq'.items[j].n < lbq'.items[i].n
                    <5>1. /\ i \in Nat /\ i >= 1 /\ i + 1 \in DOMAIN lbq.items /\ lbq'.items[i] = lbq.items[i + 1]
                          /\ 1 \in 1 .. (i + 1) - 1
                        BY <3>2
                    <5>2. \A j \in 1 .. i - 1 : j \in DOMAIN lbq'.items /\ j + 1 \in 1 .. (i + 1) - 1
                                                /\ lbq'.items[j] = lbq.items[j + 1]
                        <6>1. DOMAIN lbq'.items = 1 .. Len(lbq'.items) /\ Len(lbq'.items) \in Nat
                            BY <1>1, <3>1
                        <6>2. ASSUME NEW j \in 1 .. i - 1
                              PROVE  j \in DOMAIN lbq'.items /\ j + 1 \in 1 .. (i + 1) - 1
                            <7>1. i <= Len(lbq'.items)
                                BY <4>2, <6>1
                            <7> QED
                                BY <5>1, <6>1, <7>1
                        <6> QED
                            BY <3>2, <6>2
                    <5>3. \A j \in 1 .. (i + 1) - 1 : lbq.items[j].n < lbq.items[i + 1].n
                        BY <3>3, <5>1 DEF Ordered
                    <5> QED
                        BY <2>1, <3>2, <3>3, <5>1, <5>2, <5>3 DEF Ordered, AtHand
                <4> QED
                    BY <4>1, <4>2 DEF Ordered
            <3> QED
                BY <3>1, <3>3 DEF NothingHanded
        <2> QED
            BY <2>2, <2>3
    <1>13. CASE Decode
        <2>1. dec = "decode" /\ dec' = "loop" /\ played' = held.n /\ UNCHANGED <<rx, item, lbq>>
            BY <1>13 DEF Decode
        <2> QED
            BY <2>1 DEF Ordered, NothingHanded, AtHand
    <1> QED
        BY <1>4, <1>5, <1>6, <1>7, <1>8, <1>9, <1>10, <1>11, <1>12, <1>13 DEF Elsewhere, Connection, Decoder

\* The invariant.
Inv == Base /\ Numbered /\ Quiet

\* Nothing was received yet.
LEMMA InitInv == Init => Inv
    <1> SUFFICES ASSUME Init PROVE Inv
        OBVIOUS
    <1>1. Base
        BY InitBase
    <1>2. queue = EmptyAudioQueue /\ lbq.items = <<>> /\ rx = "none" /\ dec = "none" /\ played = 0
        BY DEF Init, EmptyLbq
    <1>3. /\ queue.next = 0 /\ queue.oldest = 0 /\ queue.blocks = <<>> /\ queue.sync /\ ~queue.incompatible
          /\ DOMAIN queue.blocks = {}
        BY <1>2 DEF EmptyAudioQueue
    <1>4. Quiet
        BY <1>2, <1>3 DEF Quiet, NothingHanded, Waiting, AtHand
    <1>5. Wrap(0) = 0 /\ BaseOf(0) = 0
        <2>1. BaseOf(0) \in Nat /\ BaseOf(0) <= 0
            BY BlockOf
        <2>2. SeqSpace \in Nat /\ 0 < SeqSpace
            BY Sizable
        <2>3. Wrap(0 * SeqSpace + 0) = 0 /\ 0 * SeqSpace + 0 = 0
            <3>1. 0 \in Int /\ 0 \in 0 .. SeqSpace - 1 /\ 0 * SeqSpace + 0 = 0
                BY <2>2
            <3> QED
                BY <3>1, WrapOf
        <2> QED
            BY <2>1, <2>3
    <1>6. Lined(queue, 0) /\ Spans(queue, 0) /\ Open(queue, 0) /\ Waiting(queue)
        BY <1>3, <1>5 DEF Lined, Spans, Open, Waiting
    <1>7. Numbered
        BY <1>6 DEF Numbered
    <1> QED
        BY <1>1, <1>4, <1>7 DEF Inv

\* The receive thread puts a packet through its queue.
LEMMA ReceiveIsNumbered ==
    ASSUME Inv, NEW p \in Packets, NEW late \in MayBeLate, Receive(p, late), SpanIsShort'
    PROVE  Numbered' /\ Quiet'
    <1> DEFINE g == Newest(high, p.n)
    <1>1. /\ queue \in AudioQueues /\ high \in Nat /\ Sent(p) /\ p.n \in Nat /\ late \in BOOLEAN
          /\ Near(p, high) \/ (p.kind \in {"misaligned", "invalid"} /\ p.n = high)
        <2>1. queue \in AudioQueues /\ high \in Nat
            BY DEF Inv, Base, TypeOK, QueuesOK, RunsOK
        <2> QED
            BY <2>1, PacketsAreSent, MayBeLateIsBoolean DEF Sent
    <1>2. PICK r : r = AddPacket(queue, p, late)
        OBVIOUS
    <1>3. /\ rx = "recv" /\ toDrop = 0 /\ queue' = r.q /\ high' = g
          /\ UNCHANGED <<life, toDrop, lbq, dec, held, played>>
          /\ r.answer = "now" => rx' = "hand" /\ item'.n = p.n
          /\ r.answer # "now" => ~AtHand'
          /\ ~AtHand
        BY <1>2 DEF Receive, Newest, AtHand
    <1>4. r.q \in AudioQueues /\ (queue.resync => r.q.resync) /\ r.answer \in {"now", "ready", "none"}
          /\ (queue.incompatible => r.q = queue)
        BY <1>1, <1>2, AddKeepsTypes
    <1>5. stream' = stream /\ stream # "destroyed"
        BY <1>3 DEF life, Inv, Base, ThreadsLive
    <1>6. Short(r.q)
        BY <1>3 DEF SpanIsShort
    <1>7. CASE queue.incompatible
        <2>1. queue' = queue
            BY <1>3, <1>4, <1>7
        <2>2. Numbered' /\ (toDrop' > 0 => Waiting(queue'))
            BY <1>3, <1>5, <1>7, <2>1 DEF Inv, Numbered
        <2> QED
            BY <1>7, <2>1, <2>2 DEF Quiet
    <1>8. CASE ~queue.incompatible /\ p.kind \in {"misaligned", "invalid"} /\ p.n = high
        <2>1. /\ r.q \in AudioQueues /\ r.answer = "none" /\ Alike(r.q, queue) /\ r.q.blocks = queue.blocks
              /\ r.q = queue \/ r.q.incompatible
            BY <1>1, <1>2, <1>8, PacketIsRefused
        <2>2. high' = high /\ ~AtHand'
            BY <1>1, <1>3, <1>8, <2>1 DEF Newest
        <2>3. \A n \in Nat : Ordered(n) => Ordered(n)'
            BY <1>3, <2>2 DEF Ordered
        <2>4. NothingHanded => NothingHanded'
            BY <1>3, <2>2 DEF NothingHanded
        <2>5. Numbered'
            <3> SUFFICES ASSUME ~queue'.resync PROVE Numbered'
                BY DEF Numbered
            <3>1. PICK n \in Nat : /\ Lined(queue, n) /\ Spans(queue, n) /\ Open(queue, n)
                                   /\ Waiting(queue) \/ (Reach(queue, n, high) /\ Ordered(n))
                BY <1>3, <1>5, <1>8, <2>1 DEF Inv, Numbered, Alike
            <3>2. Lined(r.q, n) /\ Spans(r.q, n) /\ Open(r.q, n)
                BY <1>1, <2>1, <3>1, AlikeFits
            <3>3. r.q.incompatible \/ Waiting(r.q) \/ (Reach(r.q, n, high) /\ Ordered(n)')
                BY <2>1, <2>3, <3>1
            <3> QED
                BY <1>3, <2>2, <3>2, <3>3 DEF Numbered
        <2> QED
            BY <1>3, <1>5, <2>1, <2>4, <2>5 DEF Inv, Quiet, Alike
    <1>9. CASE ~queue.incompatible /\ Near(p, high) /\ queue.sync /\ queue.oldest = 0
        <2>1. /\ r.answer = "none" /\ r.q.blocks = queue.blocks
              /\ (r.q.resync <=> queue.resync \/ queue.blocks # <<>>)
              /\ queue.blocks = <<>> =>
                    \E m \in Nat : /\ 0 < m /\ Lined(r.q, m) /\ Open(r.q, m) /\ Spans(r.q, m) /\ Reach(r.q, m, g)
            <3>1. queue \in AudioQueues /\ high \in Nat /\ late \in BOOLEAN /\ r = AddPacket(queue, p, late)
                BY <1>1, <1>2
            <3>2. Near(p, high) /\ queue.sync /\ queue.oldest = 0 /\ ~queue.incompatible
                BY <1>9
            <3> HIDE DEF g
            <3>3. /\ r.answer = "none" /\ r.q.blocks = queue.blocks
                  /\ (r.q.resync <=> queue.resync \/ queue.blocks # <<>>)
                BY <3>1, <3>2, StreamIsJoined
            <3>4. queue.blocks = <<>> =>
                    \E m \in Nat : /\ 0 < m /\ Lined(r.q, m) /\ Open(r.q, m) /\ Spans(r.q, m)
                                   /\ Reach(r.q, m, Newest(high, p.n))
                BY <3>1, <3>2, StreamIsJoined
            <3> QED
                BY <3>3, <3>4 DEF g
        <2>2. NothingHanded => NothingHanded'
            BY <1>3, <2>1 DEF NothingHanded
        <2>3. Quiet'
            <3>1. toDrop' = 0
                BY <1>3
            <3>2. queue'.blocks = <<>> /\ ~queue'.resync => queue.blocks = <<>> /\ ~queue.resync
                BY <1>3, <2>1
            <3> QED
                BY <1>5, <1>9, <2>2, <3>1, <3>2 DEF Inv, Quiet
        <2>4. Numbered'
            <3> SUFFICES ASSUME ~queue'.resync PROVE Numbered'
                BY DEF Numbered
            <3>1. queue.blocks = <<>> /\ ~queue.resync
                BY <1>3, <2>1
            <3>2. NothingHanded'
                BY <1>5, <1>9, <2>2, <3>1 DEF Inv, Quiet
            <3>3. PICK m \in Nat : /\ 0 < m /\ Lined(r.q, m) /\ Open(r.q, m) /\ Spans(r.q, m) /\ Reach(r.q, m, g)
                BY <2>1, <3>1
            <3>4. Ordered(m)'
                <4>1. DOMAIN lbq'.items = {}
                    BY <3>2 DEF NothingHanded
                <4> QED
                    BY <3>2, <3>3, <4>1 DEF NothingHanded, Ordered
            <3> QED
                BY <1>3, <3>3, <3>4 DEF Numbered
        <2> QED
            BY <2>3, <2>4
    <1>10. CASE ~queue.incompatible /\ Near(p, high) /\ ~(queue.sync /\ queue.oldest = 0)
        <2>1. ASSUME queue.resync PROVE Numbered' /\ Quiet'
            BY <1>3, <1>4, <2>1 DEF Numbered, Quiet
        <2>2. ASSUME ~queue.resync PROVE Numbered' /\ Quiet'
            <3>1. PICK n \in Nat : Lined(queue, n) /\ Spans(queue, n) /\ Open(queue, n) /\ Reach(queue, n, high) /\ Ordered(n)
                BY <1>5, <1>10, <2>2 DEF Inv, Numbered, Waiting
            <3>2. /\ r.q.sync /\ r.q.blocks = <<>> => queue.sync /\ queue.blocks = <<>> /\ r.answer = "none"
                  /\ \E m \in Nat : /\ n <= m /\ Lined(r.q, m) /\ Open(r.q, m) /\ Spans(r.q, m)
                                    /\ Reach(r.q, m, g)
                                    /\ r.answer = "now" => p.n = n /\ m = n + 1
                BY <1>1, <1>2, <1>6, <1>10, <3>1, PacketIsAdded
            <3>3. PICK m \in Nat : /\ n <= m /\ Lined(r.q, m) /\ Open(r.q, m) /\ Spans(r.q, m)
                                   /\ Reach(r.q, m, g)
                                   /\ r.answer = "now" => p.n = n /\ m = n + 1
                BY <3>2
            <3>4. /\ lbq' = lbq /\ dec' = dec /\ held' = held /\ played' = played /\ played \in Nat /\ held.n \in Nat
                  /\ \A i \in DOMAIN lbq.items : lbq.items[i].n \in Nat
                <4>1. lbq.items \in Seq(Items) /\ played \in Nat /\ held \in Items
                    BY DEF Inv, Base, TypeOK, QueuesOK, RunsOK, LbqOf
                <4>2. \A i \in DOMAIN lbq.items : lbq.items[i] \in Items
                    BY <4>1
                <4> QED
                    BY <1>3, <4>1, <4>2 DEF Items
            <3>5. CASE r.answer = "now"
                <4>1. item'.n = n /\ m = n + 1
                    BY <1>3, <3>3, <3>5
                <4> HIDE DEF g
                <4>2. Ordered(m)'
                    BY <3>1, <3>4, <4>1, <1>3 DEF Ordered
                <4> QED
                    BY <1>3, <3>2, <3>3, <3>5, <4>2 DEF Numbered, Quiet
            <3>6. CASE r.answer # "now"
                <4>1. ~AtHand'
                    BY <1>3, <3>6
                <4>2. Ordered(m)'
                    BY <3>1, <3>3, <3>4, <4>1 DEF Ordered
                <4>3. NothingHanded => NothingHanded'
                    BY <3>4, <4>1 DEF NothingHanded
                <4>4. r.q.sync /\ r.q.blocks = <<>> => NothingHanded'
                    BY <1>5, <1>10, <2>2, <3>2, <4>3 DEF Inv, Quiet
                <4> HIDE DEF g
                <4> QED
                    BY <1>3, <3>3, <4>2, <4>4 DEF Numbered, Quiet
            <3> QED
                BY <3>5, <3>6
        <2> QED
            BY <2>1, <2>2
    <1> QED
        BY <1>1, <1>7, <1>8, <1>9, <1>10

\* The receive thread takes what is in order.
LEMMA DrainIsNumbered ==
    ASSUME Inv, DrainOne
    PROVE  Numbered' /\ Quiet'
    <1>1. PICK g : g = GetQueued(queue)
        OBVIOUS
    <1>2. queue \in AudioQueues
        BY DEF Inv, Base, TypeOK, QueuesOK
    <1>3. /\ rx = "drain" /\ queue' = g.q
          /\ g.out = "nothing" => ~AtHand'
          /\ g.out # "nothing" => item'.n = g.n
          /\ UNCHANGED <<life, toDrop, lbq, dec, held, high, played>> /\ ~AtHand
        BY <1>1 DEF DrainOne, AtHand
    <1>4. /\ g.q.resync = queue.resync /\ (g.out = "nothing" => g.q = queue)
          /\ g.out = "nothing" <=> ~Ready(queue)
        BY <1>1, <1>2, GetKeepsTypes
    <1>5. stream' = stream /\ stream # "destroyed"
        BY <1>3 DEF life, Inv, Base, ThreadsLive
    <1>6. /\ lbq' = lbq /\ dec' = dec /\ held' = held /\ played' = played /\ played \in Nat /\ held.n \in Nat
          /\ \A i \in DOMAIN lbq.items : lbq.items[i].n \in Nat
        <2>1. lbq.items \in Seq(Items) /\ played \in Nat /\ held \in Items
            BY DEF Inv, Base, TypeOK, QueuesOK, RunsOK, LbqOf
        <2>2. \A i \in DOMAIN lbq.items : lbq.items[i] \in Items
            BY <2>1
        <2> QED
            BY <1>3, <2>1, <2>2 DEF Items
    <1>7. CASE g.out = "nothing"
        <2>1. queue' = queue /\ ~AtHand' /\ high' = high /\ toDrop' = toDrop
            BY <1>3, <1>4, <1>7
        <2>2. \A n \in Nat : Ordered(n) => Ordered(n)'
            BY <1>6, <2>1 DEF Ordered
        <2>3. NothingHanded => NothingHanded'
            BY <1>6, <2>1 DEF NothingHanded
        <2>4. Numbered'
            BY <1>5, <2>1, <2>2 DEF Inv, Numbered
        <2> QED
            BY <1>5, <2>1, <2>3, <2>4 DEF Inv, Quiet
    <1>8. CASE g.out # "nothing"
        <2>1. Ready(queue) /\ ~Waiting(queue)
            BY <1>4, <1>8 DEF Ready, Waiting
        <2>2. toDrop' > 0 => Waiting(queue')
            BY <1>3, <2>1 DEF Inv, Quiet
        <2>3. CASE queue.resync
            BY <1>3, <1>4, <2>2, <2>3 DEF Numbered, Quiet
        <2>4. CASE ~queue.resync
            <3>1. PICK n \in Nat : /\ Lined(queue, n) /\ Spans(queue, n) /\ Open(queue, n)
                                   /\ queue.incompatible \/ (Reach(queue, n, high) /\ Ordered(n))
                BY <1>5, <2>1, <2>4 DEF Inv, Numbered
            <3>2. /\ g.n = n /\ Lined(g.q, n + 1) /\ Open(g.q, n + 1) /\ Spans(g.q, n + 1)
                  /\ g.q.incompatible = queue.incompatible /\ (g.q.blocks = <<>> => ~g.q.sync)
                  /\ \A h \in Nat : Reach(queue, n, h) => Reach(g.q, n + 1, h)
                BY <1>1, <1>2, <2>1, <3>1, PacketIsHanded
            <3>3. item'.n = n /\ high' = high /\ high \in Nat
                BY <1>3, <1>8, <3>2 DEF Inv, Base, TypeOK, RunsOK
            <3>4. Ordered(n) => Ordered(n + 1)'
                BY <1>3, <1>6, <3>3 DEF Ordered
            <3>5. n + 1 \in Nat /\ (queue'.incompatible \/ (Reach(queue', n + 1, high') /\ Ordered(n + 1)'))
                BY <1>3, <3>1, <3>2, <3>3, <3>4
            <3>6. Numbered'
                BY <1>3, <3>2, <3>5 DEF Numbered
            <3> QED
                BY <1>3, <2>2, <3>2, <3>6 DEF Quiet
        <2> QED
            BY <2>3, <2>4
    <1> QED
        BY <1>7, <1>8

\* Every step from a short backlog to a short one keeps the invariant.
LEMMA InvStep == Inv /\ SpanIsShort' /\ [Next]_vars => Inv'
    <1> SUFFICES ASSUME Inv, SpanIsShort', [Next]_vars PROVE Numbered' /\ Quiet'
        BY BaseStep DEF Inv
    <1>1. Base
        BY DEF Inv
    <1>2. ASSUME NEW p \in Packets, NEW late \in MayBeLate, Receive(p, late) PROVE Numbered' /\ Quiet'
        BY <1>2, ReceiveIsNumbered
    <1>3. CASE DrainOne
        BY <1>3, DrainIsNumbered
    <1>4. ASSUME NEW p \in Packets, DropInitial(p) PROVE Numbered' /\ Quiet'
        <2>1. /\ Waiting(queue) /\ queue' = queue /\ rx' = "turn" /\ UNCHANGED <<life, item, lbq, dec, held, played>>
            BY <1>4 DEF DropInitial, Inv, Quiet
        <2>2. stream' = stream
            BY <2>1 DEF life
        <2>3. NothingHanded => NothingHanded'
            BY <2>1 DEF NothingHanded, AtHand
        <2>4. Quiet'
            BY <2>1, <2>2, <2>3 DEF Inv, Quiet
        <2>5. Numbered'
            BY <2>1, <2>2 DEF Inv, Numbered
        <2> QED
            BY <2>4, <2>5
    <1>5. CASE Destroy
        <2>1. stream' = "destroyed" /\ queue' = CleanedUp(queue) /\ toDrop' = toDrop
            BY <1>5 DEF Destroy
        <2> DEFINE e == <<>>
        <2>2. DOMAIN e = {} /\ queue' = [queue EXCEPT !.blocks = e] /\ queue \in AudioQueues
            BY <1>1, <2>1 DEF CleanedUp, Base, TypeOK, QueuesOK
        <2>3. Waiting(queue) => e = queue.blocks
            BY DEF Waiting
        <2> HIDE DEF e
        <2>4. /\ queue'.next = queue.next /\ queue'.oldest = queue.oldest /\ queue'.resync = queue.resync
              /\ queue'.sync = queue.sync /\ queue'.blocks = e
            BY <2>2 DEF AudioQueues
        <2>5. \A n \in Nat : Lined(queue, n) => Lined(queue', n) /\ Spans(queue', n)
            BY <2>2, <2>4 DEF Lined, Spans
        <2>6. Numbered'
            BY <2>1, <2>4, <2>5 DEF Inv, Numbered
        <2>7. Quiet'
            BY <2>1, <2>3, <2>4 DEF Inv, Quiet, Waiting
        <2> QED
            BY <2>6, <2>7
    <1>6. CASE Elsewhere /\ ~Destroy
        <2>1. /\ queue' = queue /\ high' = high /\ (toDrop' > 0 => toDrop > 0)
              /\ stream' # "destroyed" => stream # "destroyed"
              /\ stream' = "destroyed" => stream = "destroyed"
            BY <1>6 DEF Elsewhere, Connection, Decoder, Gone, NotifyPort, StartReceiver, StartDecoder, UndoStart,
                        Stop, ShutdownQueue, SignalShutdown, JoinReceiver, JoinDecoder, ReceiverTurn, ReceiveFails,
                        ReceiveTimesOut, HandDirect, HandToQueue, FlushQueue, SignalQueue, DecoderTurn,
                        DecoderWaits, DecoderTakes, Decode, vars, life, media
        <2>2. \A n \in Nat : Ordered(n) => Ordered(n)'
            BY <1>1, <1>6, OrderIsKept
        <2>3. NothingHanded => NothingHanded'
            BY <1>1, <1>6, OrderIsKept
        <2>4. Numbered'
            BY <2>1, <2>2 DEF Inv, Numbered
        <2>5. Quiet'
            BY <2>1, <2>3 DEF Inv, Quiet
        <2> QED
            BY <2>4, <2>5
    <1>7. CASE UNCHANGED vars
        <2>1. /\ queue' = queue /\ high' = high /\ toDrop' = toDrop /\ stream' = stream
              /\ UNCHANGED <<rx, item, dec, held, lbq, played>>
            BY <1>7 DEF vars
        <2>2. Still
            BY <2>1 DEF Still, AtHand
        <2>3. \A n \in Nat : Ordered(n) => Ordered(n)'
            BY <2>2, StillOrdered
        <2>4. NothingHanded => NothingHanded'
            BY <2>2, StillOrdered
        <2>5. Numbered'
            BY <2>1, <2>3 DEF Inv, Numbered
        <2>6. Quiet'
            BY <2>1, <2>4 DEF Inv, Quiet
        <2> QED
            BY <2>5, <2>6
    <1> QED
        BY <1>2, <1>3, <1>4, <1>5, <1>6, <1>7 DEF Next, Receiver, Arrives, Elsewhere

\* Blocks that are numbered as the host numbered them are what validateFecBlockState asserts.
LEMMA NumberedIsConsistent == Inv => BlocksAreConsistent
    <1> SUFFICES ASSUME Inv, ~queue.resync
                 PROVE  /\ ValidFecBlockState(queue)
                        /\ \A i \in DOMAIN queue.blocks :
                              IF i = 1 THEN queue.blocks[i].idx < DataShards
                                       ELSE ~queue.blocks[i].allow /\ queue.blocks[i].idx = 0
        BY DEF BlocksAreConsistent
    <1>1. PICK n \in Nat : Lined(queue, n) /\ Spans(queue, n)
        BY DEF Inv, Numbered
    <1>2. queue \in AudioQueues
        BY DEF Inv, Base, TypeOK, QueuesOK
    <1> DEFINE b == queue.blocks
               a == BaseOf(n)
    <1>3. a \in Nat /\ a <= n /\ n < a + DataShards
        BY BlockOf
    <1>4. /\ DOMAIN b = 1 .. Len(b) /\ Len(b) \in Nat
          /\ \A i \in DOMAIN b : b[i].real \in Nat /\ a <= b[i].real
          /\ \A i \in DOMAIN b : \A j \in DOMAIN b : j < i => b[j].real < b[i].real
        BY <1>1, <1>2, BlocksLie
    <1>5. /\ queue.next = Wrap(n) /\ queue.oldest = Wrap(a)
          /\ \A i \in DOMAIN b : /\ b[i].base = Wrap(b[i].real)
                                 /\ IF b[i].real = a THEN b[i].idx = n - b[i].real ELSE b[i].idx = 0 /\ ~b[i].allow
        BY <1>1 DEF Lined, BlockFits
    <1>6. /\ DataShards \in Nat \ {0} /\ SeqSpace \in Nat /\ Slack \in Nat /\ Slack >= 2 * DataShards
          /\ 2 * Slack < SeqSpace
        BY Sizable, NumbersSuffice DEF Slack, NumbersSuffice
    <1>7. \A i \in DOMAIN b : 2 * (b[i].real - a + Slack) <= SeqSpace
        BY <1>1 DEF Spans
    <1> HIDE DEF a, b
    <1>8. ~IsBefore16(queue.next, queue.oldest)
        <2>1. 2 * (n - a) < SeqSpace /\ 2 * (a - n) <= SeqSpace
            BY <1>3, <1>6
        <2> QED
            BY <1>3, <1>5, <2>1, Before
    <1>9. ASSUME NEW i \in 1 .. Len(b) - 1 PROVE IsBefore16(b[i].base, b[i + 1].base)
        <2>1. i \in DOMAIN b /\ i + 1 \in DOMAIN b /\ i < i + 1
            BY <1>4
        <2> DEFINE x == b[i].real
                   y == b[i + 1].real
        <2>2. x \in Nat /\ y \in Nat /\ x < y /\ a <= x /\ 2 * (y - a + Slack) <= SeqSpace
            BY <1>4, <1>7, <2>1
        <2>3. b[i].base = Wrap(x) /\ b[i + 1].base = Wrap(y)
            BY <1>5, <2>1
        <2> HIDE DEF x, y
        <2>4. 2 * (x - y) < SeqSpace /\ 2 * (y - x) <= SeqSpace
            BY <1>3, <1>6, <2>2
        <2> QED
            BY <2>2, <2>3, <2>4, Before
    <1>10. ASSUME b # <<>>
           PROVE  IsBefore16(queue.next, Wrap(b[1].base + DataShards)) /\ ~IsBefore16(b[1].base, queue.oldest)
        <2>1. 1 \in DOMAIN b
            BY <1>1, <1>2, <1>10, BlocksLie DEF b
        <2> DEFINE x == b[1].real
        <2>2. x \in Nat /\ a <= x /\ 2 * (x - a + Slack) <= SeqSpace /\ b[1].base = Wrap(x)
            BY <1>4, <1>5, <1>7, <2>1
        <2> HIDE DEF x
        <2>3. Wrap(b[1].base + DataShards) = Wrap(x + DataShards) /\ x + DataShards \in Nat
            BY <1>6, <2>2, WrapAdds
        <2>4. /\ n < x + DataShards
              /\ 2 * (n - (x + DataShards)) < SeqSpace /\ 2 * ((x + DataShards) - n) <= SeqSpace
            BY <1>3, <1>6, <2>2
        <2>5. IsBefore16(Wrap(n), Wrap(x + DataShards))
            BY <2>3, <2>4, Before
        <2>6. 2 * (x - a) < SeqSpace /\ 2 * (a - x) <= SeqSpace /\ ~(x < a)
            BY <1>3, <1>6, <2>2
        <2>7. ~IsBefore16(Wrap(x), Wrap(a))
            BY <1>3, <2>2, <2>6, Before
        <2> QED
            BY <1>5, <2>2, <2>3, <2>5, <2>7
    <1>11. ASSUME NEW i \in DOMAIN b
           PROVE  IF i = 1 THEN b[i].idx < DataShards ELSE ~b[i].allow /\ b[i].idx = 0
        <2>1. CASE i = 1
            BY <1>3, <1>5, <1>6, <2>1
        <2>2. CASE i # 1
            <3>1. 1 \in DOMAIN b /\ 1 < i
                BY <1>4, <2>2
            <3>2. b[1].real < b[i].real /\ a <= b[1].real /\ b[1].real \in Nat /\ b[i].real \in Nat
                BY <1>4, <3>1
            <3>3. b[i].real # a
                BY <1>3, <3>2
            <3> QED
                BY <1>5, <2>2, <3>3
        <2> QED
            BY <2>1, <2>2
    <1> QED
        BY <1>8, <1>9, <1>10, <1>11 DEF ValidFecBlockState, b

\* What validateFecBlockState asserts after every call holds for every size of the blocks, every
\* space of numbers and every wrap, as long as the backlog is short.
THEOREM BlocksStayConsistent == Spec /\ []SpanIsShort => []BlocksAreConsistent
    BY InitInv, InvStep, NumberedIsConsistent, PTL DEF Spec

\* What is given to the decoder next was numbered later than what it was given before.
LEMMA NextPlayedIsNewer ==
    ASSUME Inv, [Next]_vars, played' # played, ~queue.incompatible, ~queue.resync
    PROVE  played' > played
    <1>1. \/ HandDirect /\ AtHand /\ played' = item.n
          \/ Decode /\ dec = "decode" /\ played' = held.n
        BY DEF Next, Connection, Receiver, Arrives, Decoder, Gone, NotifyPort, StartReceiver, StartDecoder, UndoStart,
               Stop, ShutdownQueue, SignalShutdown, JoinReceiver, JoinDecoder, Destroy, ReceiverTurn, ReceiveFails,
               ReceiveTimesOut, DropInitial, Receive, DrainOne, HandDirect, HandToQueue, FlushQueue, SignalQueue,
               DecoderTurn, DecoderWaits, DecoderTakes, Decode, vars, life, media, AtHand
    <1>2. stream # "destroyed" /\ ~NothingHanded
        BY <1>1 DEF AtHand, NothingHanded, Inv, Base, ThreadsLive
    <1>3. ~Waiting(queue)
        BY <1>2 DEF Inv, Quiet, Waiting
    <1>4. PICK n \in Nat : Ordered(n)
        BY <1>2, <1>3 DEF Inv, Numbered
    <1>5. item.n \in Nat /\ held.n \in Nat /\ played \in Nat
        BY DEF Inv, Base, TypeOK, RunsOK, Items
    <1> QED
        BY <1>1, <1>4, <1>5 DEF Ordered

\* The decoder gets packets and placeholders in the order the host numbered them, each at most
\* once, as long as the backlog is short (decodeInputData, queuePacketToLbq).
THEOREM DecoderNeverGoesBack == Spec /\ []SpanIsShort => PlaysInOrder
    <1>1. Inv /\ [Next]_vars => [played' # played /\ ~queue.incompatible /\ ~queue.resync => played' > played]_vars
        BY NextPlayedIsNewer
    <1> QED
        BY <1>1, InitInv, InvStep, PTL DEF Spec, PlaysInOrder
================================================================================
