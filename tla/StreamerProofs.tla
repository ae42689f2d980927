---------------------------- MODULE StreamerProofs ----------------------------
(***************************************************************************)
(* Proofs about the streamer.  Its session, for any set of input-only      *)
(* browsers: the types, the guard of start_stream, and that no exit comes  *)
(* before the report.  Its video sender, for packets, rates and bursts of  *)
(* any size: the types, and the bound on what the pacer writes.  Its       *)
(* gamepad slots, for any number of clients, gamepads and slots.           *)
(***************************************************************************)
EXTENDS Streamer, VideoSender, Gamepads, FiniteSetTheorems, TLAPS

\* A start_stream that went past the guard has set it.
StartIsGuarded == start # "off" => initiated

\* A caller of stop() reaches notify_waiters, and main its end, only behind a report.
StopsReport ==
    /\ \A x \in Stoppers : stops[x] \in {"notify", "done"} => told # "no"
    /\ main = "exited" => told # "no"

IInv == TypeOK /\ StartIsGuarded /\ StopsReport

TaskType == [at : Location, client : Phones \cup {None}, count : 0 .. Cardinality(Phones)]

\* A set of phones is no larger than all of them, so every count fits its type.
LEMMA CountFits ==
    ASSUME NEW S \in SUBSET Phones
    PROVE  Cardinality(S) \in 0 .. Cardinality(Phones)
<1>1. IsFiniteSet(Phones)
    BY StreamerAssumption
<1>2. IsFiniteSet(S) /\ Cardinality(S) <= Cardinality(Phones)
    BY <1>1, FS_Subset
<1>3. Cardinality(S) \in Nat /\ Cardinality(Phones) \in Nat
    BY <1>1, <1>2, FS_CardinalityType
<1> QED
    BY <1>2, <1>3

\* The streamer starts with nothing begun.
LEMMA InitHolds == Init => IInv
<1> SUFFICES ASSUME Init PROVE IInv
    OBVIOUS
<1>1. 0 \in 0 .. Cardinality(Phones)
    BY CountFits, FS_EmptySet
<1>2. Idle \in TaskType
    BY <1>1 DEF Idle, Task, TaskType, Location
<1>3. TypeOK
    BY <1>1, <1>2 DEF Init, TypeOK, TaskType
<1> QED
    BY <1>3 DEF Init, IInv, StartIsGuarded, StopsReport

\* One call of stop() keeps the invariant.
LEMMA StoppingKeeps ==
    ASSUME IInv, Stopping \/ IpcWrites
    PROVE  IInv'
<1> USE DEF IInv, TypeOK, StartIsGuarded, StopsReport, sessionVars, inputVars
<1>1. ASSUME NEW x \in Stoppers, TakeStream(x)
      PROVE  IInv'
    BY <1>1 DEF TakeStream
<1>2. ASSUME NEW x \in Stoppers, DrainPeers(x) \/ PeerClosed(x)
      PROVE  IInv'
    <2>1. /\ DrainNext(x)
          /\ UNCHANGED <<main, sessionVars, stream, told, phone, task, shown>>
        BY <1>2 DEF DrainPeers, PeerClosed
    <2>2. /\ closing' \in Phones \cup {None} /\ peers' \in SUBSET Phones
          /\ callback' \in [Phones -> {"no", "lock", "release"}]
          /\ stops' = [stops EXCEPT ![x] = "report"] \/ stops' = [stops EXCEPT ![x] = "close"]
        BY <2>1 DEF DrainNext, Close
    <2> QED
        BY <2>1, <2>2
<1>3. ASSUME NEW x \in Stoppers, Report(x)
      PROVE  IInv'
    BY <1>3 DEF Report
<1>4. ASSUME NEW x \in Stoppers, Notify(x)
      PROVE  IInv'
    BY <1>4 DEF Notify
<1>5. CASE IpcWrites
    BY <1>5 DEF IpcWrites
<1> QED
    BY <1>1, <1>2, <1>3, <1>4, <1>5 DEF Stopping, StopGoesOn

\* A new call of stop() begins before its report.
LEMMA StopBegins ==
    ASSUME IInv, NEW x \in Stoppers, Stop(x)
    PROVE  /\ stops' \in [Stoppers -> {"no", "take", "drain", "close", "report", "notify", "done"}]
           /\ \A y \in Stoppers : stops'[y] \in {"notify", "done"} => stops[y] = stops'[y]
BY DEF IInv, TypeOK, Stop

\* The primary peer, the launch and the watchdog.
LEMMA SessionKeeps ==
    ASSUME IInv,
           \/ MainWaits \/ IceConnects \/ IceDisconnects \/ PeerEnds
           \/ StartGoesOn \/ StartFails
           \/ RelayCandidate \/ GatheringEnds \/ DeadlinePasses \/ SendRetry
    PROVE  IInv'
<1> USE DEF IInv, TypeOK, StartIsGuarded, StopsReport, sessionVars, inputVars
<1>1. CASE MainWaits
    BY <1>1 DEF MainWaits
<1>2. CASE IceConnects
    BY <1>2 DEF IceConnects, Initiate
<1>3. CASE IceDisconnects
    BY <1>3 DEF IceDisconnects
<1>4. CASE PeerEnds
    <2>1. "peer" \in Stoppers /\ Stop("peer")
        BY <1>4 DEF PeerEnds, Stoppers
    <2> QED
        BY <1>4, <2>1, StopBegins DEF PeerEnds
<1>5. CASE StartGoesOn
    BY <1>5 DEF StartGoesOn
<1>6. CASE StartFails
    <2>1. "start" \in Stoppers /\ Stop("start")
        BY <1>6 DEF StartFails, Stoppers
    <2> QED
        BY <1>6, <2>1, StopBegins DEF StartFails
<1>7. CASE RelayCandidate
    BY <1>7 DEF RelayCandidate
<1>8. CASE GatheringEnds
    BY <1>8 DEF GatheringEnds, RequestFresh
<1>9. CASE DeadlinePasses
    BY <1>9 DEF DeadlinePasses, RequestFresh
<1>10. CASE SendRetry
    <2>1. "fresh" \in Stoppers /\ Stop("fresh")
        BY <1>10 DEF SendRetry, Stoppers
    <2> QED
        BY <1>10, <2>1, StopBegins DEF SendRetry
<1> QED
    BY <1>1, <1>2, <1>3, <1>4, <1>5, <1>6, <1>7, <1>8, <1>9, <1>10

\* A task that is set to a record of its type keeps the type of `task`.
LEMMA TaskStep ==
    ASSUME TypeOK, NEW t \in Tasks, NEW r \in TaskType
    PROVE  [task EXCEPT ![t] = r] \in [Tasks -> TaskType]
BY DEF TypeOK, TaskType

\* Attach, detach and announcement only touch inputVars, apart from the Stop of the loop.
LEMMA InputsKeep ==
    ASSUME IInv, InputPeers
    PROVE  IInv'
<1> USE DEF IInv, StartIsGuarded, StopsReport, sessionVars
<1>0. "loop" \in Tasks /\ Phones \subseteq Tasks
    BY DEF Tasks
<1>i. \A n \in 0 .. Cardinality(Phones) : \A c \in Phones \cup {None} : \A a \in Location :
          [at |-> a, client |-> c, count |-> n] \in TaskType
    BY DEF TaskType
<1>z. 0 \in 0 .. Cardinality(Phones)
    BY CountFits, FS_EmptySet
<1>t. \A t \in Tasks : /\ task[t].at \in Location
                       /\ task[t].client \in Phones \cup {None}
                       /\ task[t].count \in 0 .. Cardinality(Phones)
                       /\ task[t] = [at |-> task[t].at, client |-> task[t].client,
                                     count |-> task[t].count]
    BY DEF TypeOK
<1>1. ASSUME NEW c \in Phones, InsertPeer(c)
      PROVE  IInv'
    <2>1. peers' \in SUBSET Phones
        BY <1>1 DEF InsertPeer, TypeOK
    <2>2. Task("config", c, Cardinality(peers')) \in TaskType
        BY <2>1, CountFits, <1>i DEF Task, Location
    <2>3. task' \in [Tasks -> TaskType]
        BY <1>1, <2>2, <1>0, TaskStep DEF InsertPeer
    <2> QED
        BY <1>1, <2>1, <2>3 DEF InsertPeer, TypeOK, TaskType
<1>10. ASSUME NEW c \in Phones, Attach(c)
      PROVE  IInv'
    <2>1. Task("insert", c, 0) \in TaskType
        BY <1>i, <1>z DEF Task, Location
    <2>2. task' \in [Tasks -> TaskType]
        BY <1>10, <2>1, <1>0, TaskStep DEF Attach
    <2> QED
        BY <1>10, <2>2 DEF Attach, TypeOK, TaskType
<1>11. ASSUME NEW c \in Phones, ClosedReported(c) \/ ClosedReleases(c)
      PROVE  IInv'
    BY <1>11 DEF ClosedReported, ClosedReleases, TypeOK
<1>2. ASSUME NEW c \in Phones, SendConfig(c)
      PROVE  IInv'
    <2>1. task' \in [Tasks -> TaskType]
        BY <1>2, <1>0 DEF SendConfig, TypeOK, TaskType, Location
    <2> QED
        BY <1>2, <2>1 DEF SendConfig, TypeOK, TaskType
<1>3. ASSUME NEW c \in Phones, LoopDetaches(c)
      PROVE  IInv'
    <2>1. Task("remove", c, 0) \in TaskType
        BY <1>i, <1>z DEF Task, Location
    <2>2. task' \in [Tasks -> TaskType]
        BY <1>3, <2>1, <1>0, TaskStep DEF LoopDetaches
    <2> QED
        BY <1>3, <2>2 DEF LoopDetaches, TypeOK, TaskType
<1>4. ASSUME NEW c \in Phones, PeerDetaches(c)
      PROVE  IInv'
    <2>1. Task("remove", c, 0) \in TaskType
        BY <1>i, <1>z DEF Task, Location
    <2>2. task' \in [Tasks -> TaskType]
        BY <1>4, <2>1, <1>0, TaskStep DEF PeerDetaches
    <2> QED
        BY <1>4, <2>2 DEF PeerDetaches, TypeOK, TaskType
<1>5. ASSUME NEW t \in Tasks, RemovePeer(t)
      PROVE  IInv'
    <2>1. task' \in [Tasks -> TaskType]
        BY <1>5 DEF RemovePeer, TypeOK, TaskType, Location
    <2> QED
        BY <1>5, <2>1 DEF RemovePeer, Close, TypeOK, TaskType
<1>6. ASSUME NEW t \in Tasks, CountPeers(t)
      PROVE  IInv'
    <2>1. Cardinality(peers) \in 0 .. Cardinality(Phones)
        BY CountFits DEF TypeOK
    <2>c. [task[t] EXCEPT !.at = "counted", !.count = Cardinality(peers)] \in TaskType
        BY <2>1 DEF TypeOK, TaskType, Location
    <2>2. task' \in [Tasks -> TaskType]
        BY <1>6, <2>c DEF CountPeers, TypeOK, TaskType
    <2> QED
        BY <1>6, <2>2 DEF CountPeers, TypeOK, TaskType
<1>7. ASSUME NEW t \in Tasks, ReleaseGamepads(t)
      PROVE  IInv'
    <2>1. Idle \in TaskType
        BY <1>i, <1>z DEF Idle, Task, Location
    <2>e. [task[t] EXCEPT !.at = "announce"] \in TaskType
        BY DEF TypeOK, TaskType, Location
    <2>2. task' \in [Tasks -> TaskType]
        BY <1>7, <2>1, <2>e DEF ReleaseGamepads, TypeOK, TaskType
    <2> QED
        BY <1>7, <2>2 DEF ReleaseGamepads, TypeOK, TaskType
<1>8. ASSUME NEW t \in Tasks, Announce(t)
      PROVE  IInv'
    <2>1. Idle \in TaskType
        BY <1>i, <1>z DEF Idle, Task, Location
    <2>2. task' \in [Tasks -> TaskType]
        BY <1>8, <2>1, TaskStep DEF Announce
    <2> QED
        BY <1>8, <2>2, <1>t DEF Announce, TypeOK, TaskType
<1>9. CASE LoopStops
    <2>1. "ipc" \in Stoppers /\ Stop("ipc")
        BY <1>9 DEF LoopStops, Stoppers
    <2>2. Task("ended", None, 0) \in TaskType
        BY <1>i, <1>z DEF Task, Location
    <2>3. task' \in [Tasks -> TaskType]
        BY <1>9, <2>2, <1>0, TaskStep DEF LoopStops
    <2>4. TypeOK'
        BY <1>9, <2>1, <2>3, StopBegins DEF LoopStops, TypeOK, TaskType
    <2> QED
        BY <1>9, <2>1, <2>4, StopBegins DEF LoopStops
<1> QED
    BY <1>1, <1>2, <1>3, <1>4, <1>5, <1>6, <1>7, <1>8, <1>9, <1>10, <1>11 DEF InputPeers, TaskGoesOn

\* Every step keeps the invariant.
LEMMA StepKeeps == IInv /\ [Next]_vars => IInv'
<1> SUFFICES ASSUME IInv, [Next]_vars PROVE IInv'
    OBVIOUS
<1>1. CASE UNCHANGED vars
    BY <1>1 DEF IInv, TypeOK, StartIsGuarded, StopsReport, vars
<1>2. CASE Next
    BY <1>2, StoppingKeeps, SessionKeeps, InputsKeep DEF Next
<1> QED
    BY <1>1, <1>2

\* The inductive invariant holds throughout.
THEOREM Invariance == Spec => []IInv
BY InitHolds, StepKeeps, PTL DEF Spec

\* Every variable keeps its type; counts never exceed the number of phones.
THEOREM TypeCorrect == Spec => []TypeOK
<1>1. IInv => TypeOK
    BY DEF IInv
<1> QED
    BY <1>1, Invariance, PTL

\* exit(0) of main() comes after Stop was handed to the IPC sender, whichever callers of
\* stop() overlap.
THEOREM ExitComesAfterReport == Spec => []ExitIsReported
<1>1. IInv => ExitIsReported
    BY DEF IInv, StopsReport, ExitIsReported
<1> QED
    BY <1>1, Invariance, PTL

\* Only the first start_stream goes past stream_start_initiated, however often ICE
\* reports Connected.
THEOREM StreamStartsOnce == Spec => StartsOnce
<1>1. ASSUME IInv, [Next]_vars, start' = "stage"
      PROVE  start \in {"off", "stage"}
    <2>1. CASE start' = start
        BY <1>1, <2>1
    <2>2. CASE IceConnects
        BY <1>1, <2>2 DEF IceConnects, Initiate, IInv, StartIsGuarded
    <2>3. CASE start' # start /\ ~IceConnects
        BY <1>1, <2>3 DEF Next, vars, Stopping, StopGoesOn, TakeStream, DrainPeers, PeerClosed,
            Report, Notify, IpcWrites, MainWaits, IceDisconnects, PeerEnds, StartGoesOn, StartFails, RelayCandidate,
            GatheringEnds, DeadlinePasses, SendRetry, InputPeers, TaskGoesOn,
            Attach, InsertPeer, SendConfig,
            LoopDetaches, PeerDetaches, RemovePeer, CountPeers, ReleaseGamepads, Announce,
            ClosedReported, ClosedReleases, LoopStops, sessionVars
    <2> QED
        BY <2>1, <2>2, <2>3
<1>2. IInv /\ [Next]_vars => [start' = "stage" => start \in {"off", "stage"}]_vars
    BY <1>1
<1> QED
    BY <1>2, Invariance, PTL DEF Spec, StartsOnce

(***************************************************************************)
(* The video sender.                                                       *)
(***************************************************************************)
\* What the writer may rely on: it has a packet and tokens.
Writing == pacer = "write" => queue # <<>> /\ budget > 0

\* What the bucket gains at its next refill is at most this.
Gain == Least(waited * Rate, Burst + MaxSize)

\* What was written, what may be written now and what the next refill adds: writing
\* moves bytes from the second to the first, a tick from the first to the third, a
\* refill from the third to the second.
Balance == level + budget + Gain <= 2 * Burst + MaxSize

SenderInv == SenderTypeOK /\ Writing /\ Balance

\* The types of the constants, without the product, which slows the solver down.
LEMMA Constants ==
    /\ MaxSize \in Nat /\ MaxSize > 0 /\ Burst \in Nat /\ Burst > 0
    /\ Rate \in Nat /\ Rate > 0 /\ MaxWait \in Nat /\ MaxWait > 0
    /\ ChannelSize \in Nat /\ ChannelSize > 0 /\ QueueMax \in Nat /\ MaxFrame \in Nat
BY SenderAssumption DEF SenderAssumption

\* A new sender has a full bucket and nothing queued.
LEMMA SenderInitHolds == SenderInit => SenderInv
<1> SUFFICES ASSUME SenderInit PROVE SenderInv
    OBVIOUS
<1> USE Constants DEF SenderInit
<1>e. <<>> \in Seq(Sizes) /\ Len(<<>>) = 0
    OBVIOUS
<1>1. SenderTypeOK
    <2>1. budget \in Int /\ budget > -MaxSize /\ budget <= Burst /\ waited \in 0 .. MaxWait
        OBVIOUS
    <2>2. frame \in Seq(Sizes)
        BY <1>e
    <2>3. channel \in Seq(Sizes) /\ Len(channel) <= ChannelSize
        BY <1>e
    <2>4. queue \in Seq(Sizes)
        BY <1>e
    <2> QED
        BY <2>1, <2>2, <2>3, <2>4 DEF SenderTypeOK
<1>2. waited * Rate = 0
    OBVIOUS
<1>3. Balance
    BY <1>2 DEF Balance, Gain, Least
<1> QED
    BY <1>1, <1>3 DEF SenderInv, Writing

\* A refill never adds more than Gain, though it is capped at Burst and may start from
\* an overdrawn bucket.
LEMMA RefillGains ==
    ASSUME SenderTypeOK
    PROVE  /\ Refill \in Int
           /\ Refill <= Burst
           /\ Refill > -MaxSize
           /\ Refill <= budget + Gain
<1>1. PICK w \in Nat : w = waited * Rate
    BY Constants DEF SenderTypeOK
<1>2. Refill = IF budget + w <= Burst THEN budget + w ELSE Burst
    BY <1>1 DEF Refill, Least
<1>3. Gain = IF w <= Burst + MaxSize THEN w ELSE Burst + MaxSize
    BY <1>1 DEF Gain, Least
<1> QED
    BY <1>2, <1>3, Constants DEF SenderTypeOK

\* Appending the channel to the local queue gives a queue.
LEMMA ArrivedIsTyped ==
    ASSUME SenderTypeOK
    PROVE  Arrived \in Seq(Sizes) /\ Len(Arrived) \in Nat
BY DEF SenderTypeOK, Arrived

\* The steps that leave the bucket alone.
LEMMA CallbackKeeps ==
    ASSUME SenderInv, Callback \/ Hangup \/ Pli
    PROVE  SenderInv'
<1> USE DEF SenderInv
<1> USE Constants DEF SenderTypeOK, Writing, Balance, Gain, Least, bucketVars
<1>1. ASSUME NEW f \in Frames, StartFrame(f)
      PROVE  SenderInv'
    <2>1. f \in Seq(Sizes)
        BY DEF Frames
    <2> QED
        BY <1>1, <2>1 DEF StartFrame
<1>2. CASE SendPacket
    <2>1. Head(frame) \in Sizes /\ Tail(frame) \in Seq(Sizes)
        BY <1>2 DEF SendPacket
    <2>2. /\ Append(channel, Head(frame)) \in Seq(Sizes)
          /\ Len(Append(channel, Head(frame))) <= ChannelSize
        BY <1>2, <2>1 DEF SendPacket
    <2> QED
        BY <1>2, <2>1, <2>2 DEF SendPacket
<1>3. CASE Return
    BY <1>3 DEF Return
<1>4. CASE Hangup
    BY <1>4 DEF Hangup
<1>5. CASE Pli
    BY <1>5 DEF Pli
<1> QED
    BY <1>1, <1>2, <1>3, <1>4, <1>5 DEF Callback

\* The steps of sample_sender: only Pace and Write touch the bucket.
LEMMA PacerKeeps ==
    ASSUME SenderInv, Pacer
    PROVE  SenderInv'
<1> USE DEF SenderInv
<1>0. Arrived \in Seq(Sizes) /\ Len(Arrived) \in Nat
    BY ArrivedIsTyped
<1>e. <<>> \in Seq(Sizes) /\ Len(<<>>) = 0
    OBVIOUS
<1>1. CASE DropBacklog
    BY <1>1, <1>e, Constants
    DEF DropBacklog, StillOpen, SenderTypeOK, Writing, Balance, Gain, Least, decoderVars, bucketVars
<1>2. CASE NothingQueued
    BY <1>2, Constants
    DEF NothingQueued, StillOpen, SenderTypeOK, Writing, Balance, Gain, Least, decoderVars, bucketVars
<1>3. CASE Pace
    <2>1. /\ budget' \in Int /\ budget' <= Burst /\ budget' > -MaxSize
          /\ budget' <= budget + Gain
        BY <1>3, RefillGains DEF Pace
    <2>2. Gain' = 0
        <3>1. waited' * Rate = 0
            BY <1>3, Constants DEF Pace
        <3> QED
            BY <3>1, Constants DEF Gain, Least
    <2>3. Gain \in Int
        <3>1. waited * Rate \in Nat
            BY Constants DEF SenderTypeOK
        <3> QED
            BY <3>1, Constants DEF Gain, Least
    <2>4. Balance'
        BY <1>3, <2>1, <2>2, <2>3, Constants DEF Pace, Balance, SenderTypeOK
    <2>5. sleep' \in Nat
        <3>1. CASE budget' > 0
            BY <1>3, <3>1, <2>1 DEF Pace, SenderTypeOK
        <3>2. CASE budget' <= 0
            <4>1. (Rate - 1 - budget') \div Rate \in Int
                BY <2>1, Constants
            <4> QED
                BY <1>3, <3>2, <4>1, <2>1 DEF Pace, Most
        <3> QED
            BY <3>1, <3>2, <2>1
    <2>6. Writing'
        <3>1. queue' # <<>>
            BY <1>3, <1>0 DEF Pace
        <3> QED
            BY <1>3, <3>1 DEF Pace, Writing
    <2>7. SenderTypeOK'
        BY <1>3, <1>0, <1>e, <2>1, <2>5, Constants DEF Pace, StillOpen, SenderTypeOK, decoderVars
    <2> QED
        BY <2>4, <2>6, <2>7
<1>4. CASE Receive
    <2>1. Head(channel) \in Sizes /\ Tail(channel) \in Seq(Sizes) /\ Len(Tail(channel)) <= ChannelSize
        BY <1>4, Constants DEF Receive, SenderTypeOK
    <2>2. Append(queue, Head(channel)) \in Seq(Sizes)
        BY <2>1 DEF SenderTypeOK
    <2> QED
        BY <1>4, <2>1, <2>2 DEF Receive, SenderTypeOK, Writing, Balance, Gain, Least, decoderVars, bucketVars
<1>5. CASE SenderIsGone
    BY <1>5 DEF SenderIsGone, SenderTypeOK, Writing, Balance, Gain, Least, decoderVars, bucketVars
<1>6. CASE SleepEnds
    BY <1>6 DEF SleepEnds, SenderTypeOK, Writing, Balance, Gain, Least, decoderVars, bucketVars
<1>7. CASE Write
    <2>1. queue # <<>> /\ budget > 0
        BY <1>7 DEF Write, Writing
    <2>2. PICK n \in Sizes : n = Head(queue)
        BY <2>1 DEF SenderTypeOK
    <2>3. n \in Nat /\ n > 0 /\ n <= MaxSize
        BY Constants DEF Sizes
    <2>4. Tail(queue) \in Seq(Sizes)
        BY <2>1 DEF SenderTypeOK
    <2>5. budget' = budget - n /\ level' = level + n /\ queue' = Tail(queue)
        BY <1>7, <2>2 DEF Write
    <2>6. Gain' = Gain /\ Gain \in Int
        <3>1. waited * Rate \in Nat
            BY Constants DEF SenderTypeOK
        <3> QED
            BY <1>7, <3>1, Constants DEF Write, Gain, Least
    <2>7. Balance'
        BY <2>3, <2>5, <2>6, Constants DEF Balance, SenderTypeOK
    <2>8. Writing'
        BY <1>7 DEF Write, Writing
    <2>9. SenderTypeOK'
        BY <1>7, <2>1, <2>3, <2>4, <2>5, Constants DEF Write, SenderTypeOK, decoderVars
    <2> QED
        BY <2>7, <2>8, <2>9
<1> QED
    BY <1>1, <1>2, <1>3, <1>4, <1>5, <1>6, <1>7 DEF Pacer

\* The arithmetic of a tick: the level is empty, or falls by what the gain may rise.
LEMMA BalanceOfTick ==
    \A l, b, g, newL, newG \in Int, r, burst, size \in Nat :
        /\ l + b + g <= 2 * burst + size
        /\ b <= burst
        /\ newG <= burst + size /\ newG <= g + r
        /\ newL = 0 \/ newL = l - r
        => newL + b + newG <= 2 * burst + size
OBVIOUS

\* Time fills the bucket no faster than it empties the level.
LEMMA TickKeeps ==
    ASSUME SenderInv, Tick
    PROVE  SenderInv'
<1> USE DEF SenderInv
<1>1. PICK w \in Nat : w = waited * Rate
    BY Constants DEF SenderTypeOK
<1>2. Gain = IF w <= Burst + MaxSize THEN w ELSE Burst + MaxSize
    BY <1>1 DEF Gain, Least
<1>3. Gain' \in Int /\ Gain' <= Burst + MaxSize /\ Gain' <= Gain + Rate
    <2>1. CASE waited = MaxWait
        <3>1. waited' = waited
            BY <2>1, Constants DEF Tick, Least
        <3>2. Gain' = Gain
            BY <3>1, Constants DEF Gain, Least
        <3> QED
            BY <1>2, <3>2, Constants
    <2>2. CASE waited # MaxWait
        <3>1. waited' = waited + 1
            BY <2>2, Constants DEF Tick, Least, SenderTypeOK
        <3>2. waited' * Rate = w + Rate
            BY <1>1, <3>1, Constants DEF SenderTypeOK
        <3>3. Gain' = IF w + Rate <= Burst + MaxSize THEN w + Rate ELSE Burst + MaxSize
            BY <3>2 DEF Gain, Least
        <3> QED
            BY <1>2, <3>3, Constants
    <2> QED
        BY <2>1, <2>2
<1>4. level' \in Nat /\ (level' = 0 \/ level' = level - Rate) /\ budget' = budget
    BY Constants DEF Tick, Most, SenderTypeOK
<1>5. Balance'
    <2>1. Gain \in Int /\ level \in Int /\ budget \in Int /\ budget <= Burst
        BY <1>2, Constants DEF SenderTypeOK
    <2>2. level + budget + Gain <= 2 * Burst + MaxSize
        BY DEF Balance
    <2>3. level' + budget' + Gain' <= 2 * Burst + MaxSize
        <3>1. level' \in Int /\ Gain' \in Int
            BY <1>3, <1>4
        <3>2. level' + budget + Gain' <= 2 * Burst + MaxSize
            BY <1>3, <1>4, <2>1, <2>2, <3>1, Constants, BalanceOfTick, Zenon
        <3> QED
            BY <1>4, <3>2
    <2> QED
        BY <2>3 DEF Balance
<1>6. waited' \in 0 .. MaxWait /\ sleep' \in Nat
    BY Constants DEF Tick, Least, Most, SenderTypeOK
<1>7. SenderTypeOK' /\ Writing'
    BY <1>4, <1>6 DEF Tick, SenderTypeOK, Writing, decoderVars
<1> QED
    BY <1>5, <1>7

\* Stuttering changes nothing.
LEMMA StutterKeeps ==
    ASSUME SenderInv, UNCHANGED senderVars
    PROVE  SenderInv'
BY DEF SenderInv, SenderTypeOK, Writing, Balance, Gain, Least, senderVars

\* The balance of the bucket is an invariant of the sender.
THEOREM SenderInvariance == SenderSpec => []SenderInv
<1>1. SenderInv /\ [SenderNext]_senderVars => SenderInv'
    BY CallbackKeeps, PacerKeeps, TickKeeps, StutterKeeps DEF SenderNext
<1> QED
    BY SenderInitHolds, <1>1, PTL DEF SenderSpec

\* Every variable keeps its type: the channel stays within its size, and a packet never
\* overdraws the bucket by its whole size (sample_sender's `while budget > 0.0`).
THEOREM SenderTypeCorrect == SenderSpec => []SenderTypeOK
<1>1. SenderInv => SenderTypeOK
    BY DEF SenderInv
<1> QED
    BY SenderInvariance, <1>1, PTL

\* What sample_sender writes in any interval is bounded by Rate times its length and
\* two bursts, whatever the packets and however long a write takes.
THEOREM Paced == SenderSpec => []PacedBound
<1>1. ASSUME SenderInv PROVE PacedBound
    <2>1. waited * Rate \in Nat
        BY <1>1, Constants DEF SenderInv, SenderTypeOK
    <2>2. Gain \in Nat
        BY <2>1, Constants DEF Gain, Least
    <2> QED
        BY <1>1, <2>2, Constants DEF SenderInv, SenderTypeOK, Balance, PacedBound
<1> QED
    BY SenderInvariance, <1>1, PTL

-----------------------------------------------------------------------------
(***************************************************************************)
(* What input.rs guarantees about gamepad slots for any number of clients, *)
(* gamepads and slots.  Distinctness is not inductive alone: a new slot is *)
(* distinct because it is outside the mask, so the mask must be the image  *)
(* of the map; and the mask stays that image when a slot is freed because  *)
(* no other gamepad has the same one.                                      *)
(***************************************************************************)

\* A control message that is being handled names a gamepad.
PadKnown == \A c \in Clients : control[c].at \in {"add", "drop"} => control[c].pad \in LocalIds

\* An event that is about to be sent names a slot.
SlotKnown ==
    /\ \A c \in Clients : control[c].at \in {"arrived", "left"} => control[c].slot \in Slots
    /\ \A k \in Pads : feed[k].at # "idle" => feed[k].slot \in Slots
    /\ \A d \in Detachers : detach[d].at = "left" => detach[d].slot \in Slots

Typed == PadsTypeOK /\ PadKnown /\ SlotKnown
PadsInv == Typed /\ SlotsAreDistinct /\ MaskIsTheMap

\* None is not a slot.
LEMMA NoneIsNoSlot == Absent \notin Slots
BY GamepadAssumption DEF Slots

\* A slot taken from outside the mask keeps the map injective and the mask its image.
LEMMA TakeSlot ==
  ASSUME SlotsAreDistinct, MaskIsTheMap, slots \in [Pads -> Slots \cup {Absent}],
         NEW k \in Pads, slots[k] = Absent, NEW s \in Slots \ active,
         slots' = [slots EXCEPT ![k] = s], active' = active \cup {s}
  PROVE  SlotsAreDistinct' /\ MaskIsTheMap'
<1>1. s # Absent
  BY NoneIsNoSlot
<1>2. Held' = Held \cup {k}
  BY <1>1 DEF Held
<1>3. \A j \in Held : slots'[j] = slots[j] /\ slots[j] # s
  BY DEF Held, MaskIsTheMap
<1>4. slots'[k] = s
  OBVIOUS
<1>5. SlotsAreDistinct'
  BY <1>2, <1>3, <1>4 DEF SlotsAreDistinct
<1>6. MaskIsTheMap'
  BY <1>2, <1>3, <1>4 DEF MaskIsTheMap
<1> QED BY <1>5, <1>6

\* release_gamepad_slot takes exactly one slot from both.
LEMMA FreeSlot ==
  ASSUME SlotsAreDistinct, MaskIsTheMap, slots \in [Pads -> Slots \cup {Absent}],
         NEW k \in Pads, slots[k] # Absent, Free(k)
  PROVE  /\ SlotsAreDistinct' /\ MaskIsTheMap'
         /\ slots' \in [Pads -> Slots \cup {Absent}] /\ active' = active \ {slots[k]}
<1>1. slots' = [slots EXCEPT ![k] = Absent] /\ active' = active \ {slots[k]}
  BY DEF Free
<1>2. Held' = Held \ {k}
  BY <1>1 DEF Held
<1>3. \A j \in Held \ {k} : slots'[j] = slots[j] /\ slots[j] # slots[k]
  BY <1>1 DEF Held, SlotsAreDistinct
<1>4. SlotsAreDistinct'
  BY <1>2, <1>3 DEF SlotsAreDistinct
<1>5. MaskIsTheMap'
  BY <1>1, <1>2, <1>3 DEF MaskIsTheMap
<1> QED BY <1>1, <1>4, <1>5

\* Steps that leave the map and the mask alone leave what is said about them alone.
LEMMA MapUnchanged ==
  ASSUME SlotsAreDistinct, MaskIsTheMap, UNCHANGED <<slots, active>>
  PROVE  SlotsAreDistinct' /\ MaskIsTheMap'
BY DEF SlotsAreDistinct, MaskIsTheMap, Held

-----------------------------------------------------------------------------
\* The pad and the slot of a handler, from its state.
LEMMA StateFields ==
  ASSUME Typed
  PROVE  /\ \A c \in Clients, l \in LocalIds : <<c, l>> \in Pads
         /\ \A k \in Pads : slots[k] \in Slots \cup {Absent} /\ feed[k].mask \in SUBSET Slots
         /\ \A c \in Clients : control[c].mask \in SUBSET Slots
         /\ \A d \in Detachers : /\ detach[d].mask \in SUBSET Slots
                                 /\ detach[d].todo \in SUBSET LocalIds
                                 /\ d[1] \in Clients
BY DEF Typed, PadsTypeOK, ControlState, FeedState, DetachState, Pads, Detachers, Clients

\* A step of a "controllers" handler that leaves the handler in a typed state.
LEMMA ControlTyped ==
  ASSUME Typed, NEW c \in Clients, NEW pad \in LocalIds \cup {Absent},
         NEW slot \in Slots \cup {Absent}, NEW mask \in SUBSET Slots,
         NEW at \in {"idle", "add", "drop", "arrived", "left"},
         at \in {"add", "drop"} => pad \in LocalIds,
         at \in {"arrived", "left"} => slot \in Slots,
         control' = [control EXCEPT ![c] = Handling(at, pad, slot, mask)],
         UNCHANGED <<session, peer, feed, detach>>,
         slots' \in [Pads -> Slots \cup {Absent}], active' \in SUBSET Slots,
         connected' \in SUBSET Slots
  PROVE  Typed'
<1>1. Handling(at, pad, slot, mask) \in ControlState
  BY DEF Handling, ControlState
<1>2. /\ Handling(at, pad, slot, mask).at = at /\ Handling(at, pad, slot, mask).pad = pad
      /\ Handling(at, pad, slot, mask).slot = slot
  BY DEF Handling
<1>3. \A e \in Clients : control'[e] = IF e = c THEN Handling(at, pad, slot, mask) ELSE control[e]
  BY DEF Typed, PadsTypeOK
<1>4. PadsTypeOK'
  BY <1>1 DEF Typed, PadsTypeOK
<1>5. PadKnown'
  BY <1>2, <1>3 DEF Typed, PadKnown
<1>6. SlotKnown'
  BY <1>2, <1>3 DEF Typed, SlotKnown
<1> QED BY <1>4, <1>5, <1>6 DEF Typed

\* The same for a step of an input handler,
LEMMA FeedTyped ==
  ASSUME Typed, NEW k \in Pads, NEW slot \in Slots \cup {Absent}, NEW mask \in SUBSET Slots,
         NEW at \in {"idle", "mask", "send"}, at # "idle" => slot \in Slots,
         feed' = [feed EXCEPT ![k] = Feeding(at, slot, mask)],
         UNCHANGED <<slots, active, session, peer, control, detach>>, connected' \in SUBSET Slots
  PROVE  Typed'
<1>1. Feeding(at, slot, mask) \in FeedState
  BY DEF Feeding, FeedState
<1>2. Feeding(at, slot, mask).at = at /\ Feeding(at, slot, mask).slot = slot
  BY DEF Feeding
<1>3. \A j \in Pads : feed'[j] = IF j = k THEN Feeding(at, slot, mask) ELSE feed[j]
  BY DEF Typed, PadsTypeOK
<1>4. PadsTypeOK'
  BY <1>1 DEF Typed, PadsTypeOK
<1>5. PadKnown' /\ SlotKnown'
  BY <1>2, <1>3 DEF Typed, PadKnown, SlotKnown
<1> QED BY <1>4, <1>5 DEF Typed

\* and for a step of a detach task.
LEMMA DetachTyped ==
  ASSUME Typed, NEW d \in Detachers, NEW todo \in SUBSET LocalIds,
         NEW slot \in Slots \cup {Absent}, NEW mask \in SUBSET Slots,
         NEW at \in {"no", "close", "collect", "next", "left", "done"}, at = "left" => slot \in Slots,
         detach' = [detach EXCEPT ![d] = Detaching(at, todo, slot, mask)],
         UNCHANGED <<session, control, feed>>, peer' \in [Guests -> {"in", "leaving", "out"}],
         slots' \in [Pads -> Slots \cup {Absent}], active' \in SUBSET Slots,
         connected' \in SUBSET Slots
  PROVE  Typed'
<1>1. Detaching(at, todo, slot, mask) \in DetachState
  BY DEF Detaching, DetachState
<1>2. Detaching(at, todo, slot, mask).at = at /\ Detaching(at, todo, slot, mask).slot = slot
  BY DEF Detaching
<1>3. \A e \in Detachers : detach'[e] = IF e = d THEN Detaching(at, todo, slot, mask) ELSE detach[e]
  BY DEF Typed, PadsTypeOK
<1>4. PadsTypeOK'
  BY <1>1 DEF Typed, PadsTypeOK
<1>5. PadKnown' /\ SlotKnown'
  BY <1>2, <1>3 DEF Typed, PadKnown, SlotKnown
<1> QED BY <1>4, <1>5 DEF Typed

-----------------------------------------------------------------------------
LEMMA InitPadsInv == PadsInit => PadsInv
<1> SUFFICES ASSUME PadsInit PROVE PadsInv
  OBVIOUS
<1>1. /\ IdleControl \in ControlState /\ IdleFeed \in FeedState
      /\ Detaching("no", {}, Absent, {}) \in DetachState
      /\ IdleControl.at = "idle" /\ IdleFeed.at = "idle"
      /\ Detaching("no", {}, Absent, {}).at = "no"
  BY DEF IdleControl, IdleFeed, Handling, Feeding, Detaching, ControlState, FeedState, DetachState
<1>2. PadsTypeOK
  BY <1>1 DEF PadsInit, PadsTypeOK
<1>3. PadKnown /\ SlotKnown
  BY <1>1 DEF PadsInit, PadKnown, SlotKnown
<1>4. Held = {}
  BY DEF PadsInit, Held
<1> QED BY <1>2, <1>3, <1>4 DEF PadsInit, PadsInv, Typed, SlotsAreDistinct, MaskIsTheMap

\* The handlers of the "controllers" channels.
LEMMA ControlStep ==
  ASSUME PadsInv, NEW c \in Clients, Control(c)
  PROVE  PadsInv'
<1>0. Typed /\ SlotsAreDistinct /\ MaskIsTheMap
  BY DEF PadsInv
<1> DEFINE k == <<c, control[c].pad>>
<1>t. /\ slots \in [Pads -> Slots \cup {Absent}] /\ active \in SUBSET Slots
      /\ connected \in SUBSET Slots /\ control[c].mask \in SUBSET Slots
  BY <1>0, StateFields DEF Typed, PadsTypeOK
<1>k. control[c].at \in {"add", "drop"} => k \in Pads
  BY <1>0 DEF Typed, PadKnown, Pads
<1>1. ASSUME NEW l \in LocalIds, ReadControl(c, l) PROVE PadsInv'
  <2>1. PICK at \in {"add", "drop"} :
           control' = [control EXCEPT ![c] = Handling(at, l, Absent, {})]
    BY <1>1 DEF ReadControl
  <2>2. UNCHANGED <<slots, active, session, connected, peer, feed, detach>>
    BY <1>1 DEF ReadControl
  <2>3. Typed'
    BY <1>0, <1>t, <2>1, <2>2, ControlTyped
  <2> QED BY <1>0, <2>2, <2>3, MapUnchanged DEF PadsInv
<1>2. CASE AllocateAgain(c)
  <2>1. slots[k] \in Slots
    BY <1>2, <1>k, <1>t DEF AllocateAgain
  <2>2. /\ control' = [control EXCEPT ![c] = Handling("arrived", Absent, slots[k], active)]
        /\ UNCHANGED <<slots, active, session, connected, peer, feed, detach>>
    BY <1>2 DEF AllocateAgain
  <2>3. Typed'
    BY <1>0, <1>t, <2>1, <2>2, ControlTyped
  <2> QED BY <1>0, <2>2, <2>3, MapUnchanged DEF PadsInv
<1>3. CASE Allocate(c)
  <2>1. k \in Pads /\ slots[k] = Absent
    BY <1>3, <1>k DEF Allocate
  <2>2. PICK s \in FreeSlots :
           /\ slots' = [slots EXCEPT ![k] = s]
           /\ active' = active \cup {s}
           /\ control' = [control EXCEPT ![c] = Handling("arrived", Absent, s, active \cup {s})]
    BY <1>3 DEF Allocate
  <2>3. s \in Slots \ active
    BY DEF FreeSlots
  <2>4. SlotsAreDistinct' /\ MaskIsTheMap'
    BY <1>0, <1>t, <2>1, <2>2, <2>3, TakeSlot
  <2>5. /\ slots' \in [Pads -> Slots \cup {Absent}] /\ active' \in SUBSET Slots
        /\ active \cup {s} \in SUBSET Slots /\ s \in Slots
    BY <1>t, <2>1, <2>2, <2>3
  <2>6. UNCHANGED <<session, connected, peer, feed, detach>>
    BY <1>3 DEF Allocate
  <2>7. Typed'
    BY <1>0, <1>t, <2>2, <2>5, <2>6, ControlTyped
  <2> QED BY <2>4, <2>7 DEF PadsInv
<1>4. CASE Refuse(c) \/ ReleaseNothing(c)
  <2>1. /\ control' = [control EXCEPT ![c] = Handling("idle", Absent, Absent, {})]
        /\ UNCHANGED <<slots, active, session, connected, peer, feed, detach>>
    BY <1>4 DEF Refuse, ReleaseNothing, IdleControl
  <2>2. Typed'
    BY <1>0, <1>t, <2>1, ControlTyped
  <2> QED BY <1>0, <2>1, <2>2, MapUnchanged DEF PadsInv
<1>5. CASE AnnounceArrival(c) \/ AnnounceRemoval(c)
  <2>1. /\ control' = [control EXCEPT ![c] = Handling("idle", Absent, Absent, {})]
        /\ UNCHANGED <<slots, active, session, peer, feed, detach>>
    BY <1>5 DEF AnnounceArrival, AnnounceRemoval, IdleControl
  <2>2. control[c].slot \in Slots
    BY <1>0, <1>5 DEF AnnounceArrival, AnnounceRemoval, Typed, SlotKnown
  <2>3. connected' \in SUBSET Slots
    BY <1>5, <1>t, <2>2 DEF AnnounceArrival, AnnounceRemoval, Told
  <2>4. Typed'
    BY <1>0, <1>t, <2>1, <2>3, ControlTyped
  <2> QED BY <1>0, <2>1, <2>4, MapUnchanged DEF PadsInv
<1>6. CASE Release(c)
  <2>1. k \in Pads /\ slots[k] # Absent /\ Free(k)
    BY <1>6, <1>k DEF Release
  <2>2. /\ SlotsAreDistinct' /\ MaskIsTheMap'
        /\ slots' \in [Pads -> Slots \cup {Absent}] /\ active' = active \ {slots[k]}
    BY <1>0, <1>t, <2>1, FreeSlot
  <2>3. slots[k] \in Slots /\ active' \in SUBSET Slots
    BY <1>t, <2>1, <2>2
  <2>4. /\ control' = [control EXCEPT ![c] = Handling("left", Absent, slots[k], active')]
        /\ UNCHANGED <<session, connected, peer, feed, detach>>
    BY <1>6 DEF Release
  <2>5. Typed'
    BY <1>0, <1>t, <2>2, <2>3, <2>4, ControlTyped
  <2> QED BY <2>2, <2>5 DEF PadsInv
<1> QED BY <1>1, <1>2, <1>3, <1>4, <1>5, <1>6 DEF Control

\* The handlers of the gamepads' own channels.
LEMMA FeedStep ==
  ASSUME PadsInv, NEW k \in Pads, Feed(k)
  PROVE  PadsInv'
<1>0. Typed /\ SlotsAreDistinct /\ MaskIsTheMap
  BY DEF PadsInv
<1>t. /\ slots[k] \in Slots \cup {Absent} /\ active \in SUBSET Slots /\ connected \in SUBSET Slots
      /\ feed[k].at # "idle" => feed[k].slot \in Slots
      /\ feed[k].mask \in SUBSET Slots
  BY <1>0, StateFields DEF Typed, PadsTypeOK, SlotKnown
<1>1. UNCHANGED <<slots, active, session, peer, control, detach>>
  BY DEF Feed, LookUp, ReadMask, SendInput
<1>2. CASE LookUp(k)
  <2>1. Typed'
    BY <1>0, <1>1, <1>2, <1>t, FeedTyped DEF LookUp
  <2> QED BY <1>0, <1>1, <2>1, MapUnchanged DEF PadsInv
<1>3. CASE ReadMask(k)
  <2>1. connected' = connected /\ feed[k].slot \in Slots
    BY <1>3, <1>t DEF ReadMask
  <2>2. \/ feed' = [feed EXCEPT ![k] = Feeding("send", feed[k].slot, active)]
        \/ feed' = [feed EXCEPT ![k] = Feeding("idle", Absent, {})]
    BY <1>3 DEF ReadMask, IdleFeed
  <2>3. Typed'
    BY <1>0, <1>1, <1>t, <2>1, <2>2, FeedTyped
  <2> QED BY <1>0, <1>1, <2>3, MapUnchanged DEF PadsInv
<1>4. CASE SendInput(k)
  <2>1. connected' \in SUBSET Slots
    BY <1>4, <1>t DEF SendInput, Told
  <2>2. feed' = [feed EXCEPT ![k] = Feeding("idle", Absent, {})]
    BY <1>4 DEF SendInput, IdleFeed
  <2>3. Typed'
    BY <1>0, <1>1, <2>1, <2>2, FeedTyped
  <2> QED BY <1>0, <1>1, <2>3, MapUnchanged DEF PadsInv
<1> QED BY <1>2, <1>3, <1>4 DEF Feed

\* The detach tasks.
LEMMA DetachStep ==
  ASSUME PadsInv, NEW d \in Detachers, Detach(d)
  PROVE  PadsInv'
<1>0. Typed /\ SlotsAreDistinct /\ MaskIsTheMap
  BY DEF PadsInv
<1>t. /\ slots \in [Pads -> Slots \cup {Absent}] /\ active \in SUBSET Slots
      /\ connected \in SUBSET Slots /\ peer \in [Guests -> {"in", "leaving", "out"}]
      /\ detach[d].todo \in SUBSET LocalIds /\ detach[d].mask \in SUBSET Slots
      /\ \A l \in LocalIds : <<d[1], l>> \in Pads
  BY <1>0, StateFields DEF Typed, PadsTypeOK
<1>1. CASE StartDetach(d) \/ ClosePeer(d)
  <2>1. PICK at \in {"close", "collect"} :
           detach' = [detach EXCEPT ![d] = Detaching(at, {}, Absent, {})]
    BY <1>1 DEF StartDetach, ClosePeer
  <2>2. /\ UNCHANGED <<slots, active, session, connected, control, feed>>
        /\ peer' \in [Guests -> {"in", "leaving", "out"}]
    BY <1>1, <1>t DEF StartDetach, ClosePeer
  <2>3. Typed'
    BY <1>0, <1>t, <2>1, <2>2, DetachTyped
  <2> QED BY <1>0, <2>2, <2>3, MapUnchanged DEF PadsInv
<1>2. CASE Collect(d)
  <2> DEFINE todo == {l \in LocalIds : slots[<<d[1], l>>] # Absent}
  <2>1. /\ detach' = [detach EXCEPT ![d] = Detaching("next", todo, Absent, {})]
        /\ UNCHANGED <<slots, active, session, connected, peer, control, feed>>
    BY <1>2 DEF Collect
  <2>2. todo \in SUBSET LocalIds
    OBVIOUS
  <2> HIDE DEF todo
  <2>3. Typed'
    BY <1>0, <1>t, <2>1, <2>2, DetachTyped
  <2> QED BY <1>0, <2>1, <2>3, MapUnchanged DEF PadsInv
<1>3. CASE ReleaseNext(d)
  <2>1. PICK l \in detach[d].todo :
           /\ slots[<<d[1], l>>] # Absent
           /\ Free(<<d[1], l>>)
           /\ detach' = [detach EXCEPT ![d] =
                           Detaching("left", detach[d].todo \ {l}, slots[<<d[1], l>>], active')]
    BY <1>0, <1>3 DEF ReleaseNext, Typed, PadsTypeOK
  <2>2. <<d[1], l>> \in Pads
    BY <1>t
  <2>3. /\ SlotsAreDistinct' /\ MaskIsTheMap'
        /\ slots' \in [Pads -> Slots \cup {Absent}] /\ active' = active \ {slots[<<d[1], l>>]}
    BY <1>0, <1>t, <2>1, <2>2, FreeSlot
  <2>4. /\ slots[<<d[1], l>>] \in Slots /\ active' \in SUBSET Slots
        /\ detach[d].todo \ {l} \in SUBSET LocalIds
    BY <1>t, <2>1, <2>2, <2>3
  <2>5. UNCHANGED <<session, connected, peer, control, feed>>
    BY <1>3 DEF ReleaseNext
  <2>6. Typed'
    BY <1>0, <1>t, <2>1, <2>3, <2>4, <2>5, DetachTyped
  <2> QED BY <2>3, <2>6 DEF PadsInv
<1>4. CASE SkipReleased(d)
  <2>1. PICK l \in detach[d].todo :
           detach' = [detach EXCEPT ![d] = Detaching("next", detach[d].todo \ {l}, Absent, {})]
    BY <1>0, <1>4 DEF SkipReleased, Typed, PadsTypeOK
  <2>2. detach[d].todo \ {l} \in SUBSET LocalIds
    BY <1>t
  <2>3. UNCHANGED <<slots, active, session, connected, peer, control, feed>>
    BY <1>4 DEF SkipReleased
  <2>4. Typed'
    BY <1>0, <1>t, <2>1, <2>2, <2>3, DetachTyped
  <2> QED BY <1>0, <2>3, <2>4, MapUnchanged DEF PadsInv
<1>5. CASE AnnounceNext(d)
  <2>1. detach[d].slot \in Slots
    BY <1>0, <1>5 DEF AnnounceNext, Typed, SlotKnown
  <2>2. connected' \in SUBSET Slots
    BY <1>5, <1>t, <2>1 DEF AnnounceNext, Told
  <2>3. /\ detach' = [detach EXCEPT ![d] = Detaching("next", detach[d].todo, Absent, {})]
        /\ UNCHANGED <<slots, active, session, peer, control, feed>>
    BY <1>0, <1>5 DEF AnnounceNext, Typed, PadsTypeOK
  <2>4. Typed'
    BY <1>0, <1>t, <2>2, <2>3, DetachTyped
  <2> QED BY <1>0, <2>3, <2>4, MapUnchanged DEF PadsInv
<1>6. CASE EndDetach(d)
  <2>1. /\ detach' = [detach EXCEPT ![d] = Detaching("done", {}, Absent, {})]
        /\ UNCHANGED <<slots, active, session, connected, peer, control, feed>>
    BY <1>6 DEF EndDetach
  <2>2. Typed'
    BY <1>0, <1>t, <2>1, DetachTyped
  <2> QED BY <1>0, <2>1, <2>2, MapUnchanged DEF PadsInv
<1> QED BY <1>1, <1>2, <1>3, <1>4, <1>5, <1>6 DEF Detach

LEMMA NextPadsInv == PadsInv /\ [PadsNext]_padsVars => PadsInv'
<1> SUFFICES ASSUME PadsInv, [PadsNext]_padsVars PROVE PadsInv'
  OBVIOUS
<1>0. Typed /\ SlotsAreDistinct /\ MaskIsTheMap
  BY DEF PadsInv
<1>1. ASSUME NEW c \in Clients, Control(c) PROVE PadsInv'
  BY <1>1, ControlStep
<1>2. ASSUME NEW k \in Pads, Feed(k) PROVE PadsInv'
  BY <1>2, FeedStep
<1>3. ASSUME NEW d \in Detachers, Detach(d) PROVE PadsInv'
  BY <1>3, DetachStep
<1>4. CASE LaunchStream \/ StoreStream \/ StreamEnds
  <2>1. Typed'
    BY <1>0, <1>4 DEF LaunchStream, StoreStream, StreamEnds, Typed, PadsTypeOK, PadKnown, SlotKnown
  <2> QED BY <1>0, <1>4, <2>1, MapUnchanged DEF LaunchStream, StoreStream, StreamEnds, PadsInv
<1>5. CASE UNCHANGED padsVars
  <2>1. Typed'
    BY <1>0, <1>5 DEF padsVars, Typed, PadsTypeOK, PadKnown, SlotKnown
  <2> QED BY <1>0, <1>5, <2>1, MapUnchanged DEF padsVars, PadsInv
<1> QED BY <1>1, <1>2, <1>3, <1>4, <1>5 DEF PadsNext

\* The only steps that take a slot away are a removal message of the gamepad's own
\* client and a detach task of that client.
LEMMA OwnerReleasesStep ==
  ASSUME PadsInv, [PadsNext]_padsVars, NEW c \in Clients, NEW l \in LocalIds,
         slots[<<c, l>>] # Absent, slots'[<<c, l>>] = Absent
  PROVE  \/ control[c].at = "drop" /\ control[c].pad = l
         \/ \E d \in Detachers : d[1] = c /\ detach[d].at = "next"
<1>0. Typed /\ slots \in [Pads -> Slots \cup {Absent}] /\ <<c, l>> \in Pads
  BY DEF PadsInv, Typed, PadsTypeOK, Pads
<1>1. slots' # slots
  OBVIOUS
<1>2. ASSUME NEW e \in Clients, Control(e)
      PROVE  e = c /\ control[e].at = "drop" /\ control[e].pad = l
  <2>1. CASE Allocate(e)
    <3>1. PICK s \in FreeSlots : slots' = [slots EXCEPT ![<<e, control[e].pad>>] = s]
      BY <2>1 DEF Allocate
    <3>2. s # Absent
      BY NoneIsNoSlot DEF FreeSlots
    <3> QED BY <1>0, <3>1, <3>2
  <2>2. CASE Release(e)
    <3>1. /\ slots' = [slots EXCEPT ![<<e, control[e].pad>>] = Absent]
          /\ control[e].at = "drop"
      BY <2>2 DEF Release, Free
    <3>2. <<e, control[e].pad>> = <<c, l>>
      BY <1>0, <3>1
    <3> QED BY <3>1, <3>2
  <2> QED BY <1>1, <1>2, <2>1, <2>2 DEF Control, ReadControl, AllocateAgain, Refuse, AnnounceArrival,
             ReleaseNothing, AnnounceRemoval
<1>3. ASSUME NEW d \in Detachers, Detach(d)
      PROVE  d[1] = c /\ detach[d].at = "next"
  <2>1. CASE ReleaseNext(d)
    <3>1. PICK m \in detach[d].todo : slots' = [slots EXCEPT ![<<d[1], m>>] = Absent]
      BY <2>1 DEF ReleaseNext, Free
    <3>2. <<d[1], m>> = <<c, l>>
      BY <1>0, <3>1
    <3> QED BY <2>1, <3>2 DEF ReleaseNext
  <2> QED BY <1>1, <1>3, <2>1 DEF Detach, StartDetach, ClosePeer, Collect, SkipReleased, AnnounceNext,
             EndDetach
<1>4. ASSUME NEW k \in Pads, Feed(k) PROVE FALSE
  BY <1>1, <1>4 DEF Feed, LookUp, ReadMask, SendInput
<1>5. ~(LaunchStream \/ StoreStream \/ StreamEnds) /\ ~UNCHANGED padsVars
  BY <1>1 DEF LaunchStream, StoreStream, StreamEnds, padsVars
<1> QED BY <1>2, <1>3, <1>4, <1>5 DEF PadsNext

\* The inductive invariant holds in every reachable state.
THEOREM PadsInvariance == PadsSpec => []PadsInv
BY InitPadsInv, NextPadsInv, PTL DEF PadsSpec

\* Type correctness: among others the mask and every slot stay below NumSlots.
THEOREM PadsTypeCorrect == PadsSpec => []PadsTypeOK
<1>1. PadsInv => PadsTypeOK
  BY DEF PadsInv, Typed
<1> QED BY <1>1, PadsInvariance, PTL

\* gamepad_slots: "two different phones' 'gamepad 0'" never get the same controller.
THEOREM NoSharedSlot == PadsSpec => []SlotsAreDistinct
<1>1. PadsInv => SlotsAreDistinct
  BY DEF PadsInv
<1> QED BY <1>1, PadsInvariance, PTL

\* active_gamepads and gamepad_slots, two locks, never drift apart.
THEOREM MaskFollowsMap == PadsSpec => []MaskIsTheMap
<1>1. PadsInv => MaskIsTheMap
  BY DEF PadsInv
<1> QED BY <1>1, PadsInvariance, PTL

\* release_gamepad_slot is keyed by the client: nobody takes another client's slot.
THEOREM OwnersRelease == PadsSpec => OnlyOwnerReleases
<1>1. PadsInv /\ [PadsNext]_padsVars =>
         [\A c \in Clients, l \in LocalIds :
            slots[<<c, l>>] # Absent /\ slots'[<<c, l>>] = Absent
               => \/ control[c].at = "drop" /\ control[c].pad = l
                  \/ \E d \in Detachers : d[1] = c /\ detach[d].at = "next"]_padsVars
  BY OwnerReleasesStep
<1> QED BY <1>1, PadsInvariance, PTL DEF PadsSpec, OnlyOwnerReleases
==============================================================================
