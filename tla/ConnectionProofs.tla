--------------------------- MODULE ConnectionProofs ---------------------------
(***************************************************************************)
(* Proofs about the connection, for any scenario of starts, failures,      *)
(* interruptions and messages: what a thread uses is released after it was *)
(* joined, messages come before a goodbye, and callbacks settle.           *)
(***************************************************************************)
EXTENDS Connection, SequenceTheorems, TLAPS

Places == {"none", "ended", "wait", "poll", "linger", "act", "report", "raise", "send", "resend",
           "reply", "clear", "check", "batch", "request", "demand"}
Errors == {"none", "socket", "disconnect", "novideo", "graceful", "early", "reason"}

Said    == {plan.msgs[i] : i \in DOMAIN plan.msgs}
Goodbye == [kind |-> "disconnect", ctl |-> 0, n |-> 0]
Links   == [peer: {"null", "connected", "zombie", "disconnected"}, sock: {"invalid", "open", "shutdown"},
            intercept: BOOLEAN, pending: BOOLEAN, wire: Seq(Said), inbox: Seq(Said), lost: BOOLEAN]

Objects == Threads \cup {"platform", "name", "audio", "RTSP", "control", "video", "playback",
    "startA", "startB", "setup", "started", "stopped", "cleaned", "socket", "now", "gracefully",
    "interrupted", "terminated", "stopping", "event", "depacketizer"}
Verbs == {"open", "free", "resolve", "handshake", "connect", "create", "send", "reply", "resend",
          "renderer", "bind", "set", "shutdown", "drain", "close", "disconnect", "stop"}
Steps == (Verbs \X Objects) \cup ({"interrupt", "join"} \X SUBSET Threads)

AtOK ==
    /\ at \in [Threads -> Places] /\ at["async"] \in {"none", "wait", "batch", "ended"}
    /\ at["async"] = "batch" => held \in Said
FlagsOK ==
    /\ why \in [Threads -> Errors] /\ told \subseteq Objects
    /\ interrupted \in BOOLEAN /\ stopping \in BOOLEAN /\ terminated \in BOOLEAN
    /\ event \in BOOLEAN /\ seen \in BOOLEAN
    /\ code \in Errors /\ alarms \in Nat /\ heard \in Nat
    /\ host \in {"here", "leaving", "dead", "expired"}
QueuesOK ==
    /\ rfiQ \in LbqOf({"range"}, RfiBound)
    /\ asyncQ \in LbqOf(Said, AsyncBound) /\ ~asyncQ.userWake
    /\ held \in Said \cup {Nothing}
MessagesOK ==
    /\ got \in Said \cup {Nothing, Goodbye} /\ hdr \in Nat
    /\ taken \in [SlotsOf(plan) -> Nat] /\ shown \in [SlotsOf(plan) -> Nat]
ClientOK ==
    /\ app \in {"start", "run", "stop", "done"} /\ stage \in 0..11 /\ todo \in Seq(Steps)
    /\ alive \subseteq Objects /\ renderer \in {"none"} \cup Objects
TypeOK == plan \in Scenarios /\ AtOK /\ FlagsOK /\ link \in Links /\ QueuesOK /\ MessagesOK /\ ClientOK

(* Stage n + 1 has made its first k calls, or is over.                     *)
Reached(n, k, stg, call) == n > stg \/ (n = stg /\ k >= call)

(* The threads that live, and those the calls until then have created.     *)
Running == {t \in Threads : Alive(t)}
Born(n, k) ==
    {t \in Threads :
        \/ t = "recv" /\ Reached(n, k, 7, 2)
        \/ t = "loss" /\ Reached(n, k, 7, 5)
        \/ t = "idr" /\ Reached(n, k, 7, 6)
        \/ t = "async" /\ Reached(n, k, 7, 7)
        \/ t = "rfi" /\ plan.rfi /\ Reached(n, k, 7, 8)
        \/ t = "vrecv" /\ Reached(n, k, 8, 4)
        \/ t = "vdec" /\ ~plan.direct /\ Reached(n, k, 8, 5)
        \/ t = "vping" /\ Reached(n, k, 8, Len(VideoStart))
        \/ t = "input" /\ Reached(n, k, 10, 1)}

(* What they have set up.                                                  *)
SetUp(n, k) ==
    /\ ~Reached(n, k, 7, 1) => link = NoLink /\ host = "here" /\ hdr = 0 /\ got = Nothing
    /\ Reached(n, k, 4, 1) => "control" \in alive
    /\ Reached(n, k, 5, 1) => "video" \in alive
    /\ Reached(n, k, 6, 1) => "input" \in alive
    /\ Reached(n, k, 7, 1) => Linked
    /\ Reached(n, k, 8, 2) => "socket" \in alive
    /\ Reached(n, k, 8, 3) => renderer = "started"
    /\ Running \subseteq Born(n, k)

(* A start has made the first k calls of its stage; it may be waiting for  *)
(* the answer to the last one.                                             *)
Suffix(s, k) == [i \in 1 .. Len(s) - k |-> s[i + k]]
Waits(s, k)  == {<<<<v, s[k][2]>>>> \o Suffix(s, k) : v \in {"reply", "resend"}}
Progressed(n, k) ==
    /\ SetUp(n, k)
    /\ \/ todo = Suffix(StartOf[n + 1], k)
       \/ k \in 1 .. Len(StartOf[n + 1]) /\ StartOf[n + 1][k][1] = "send"
          /\ todo \in Waits(StartOf[n + 1], k)
Starts == app = "start" => stage \in 0..10 /\ \E k \in 0 .. Len(StartOf[stage + 1]) : Progressed(stage, k)
Runs == app = "run" => stage = 11 /\ todo = <<>> /\ SetUp(11, 0)

(* A call that releases what a thread uses, and a call that joins it.      *)
Releases(op, t) ==
    \/ /\ op[1] = "disconnect" \/ (op[1] = "close" /\ op[2] # "video")
       /\ t \in {"recv", "loss", "idr", "rfi", "input"}
    \/ op = <<"free", "control">> /\ t # "vping"
    \/ op \in {<<"close", "video">>, <<"free", "socket">>} /\ t \in {"vrecv", "vping"}
    \/ op = <<"free", "video">> /\ t \in {"vrecv", "vdec"}
    \/ op[1] = "renderer" /\ op[2] \notin {"started", "stopped"} /\ t \in {"vrecv", "vdec"}
    \/ op = <<"free", "input">> /\ t = "input"
Joins(op, t) == op[1] = "join" /\ t \in op[2]

(* A row of calls does not release what t uses; it does so only after it   *)
(* has joined t; and it joins t.                                           *)
Harmless(t, s) == \A i \in 1 .. Len(s) : ~Releases(s[i], t)
Safe(t, s) ==
    \A i \in 1 .. Len(s) : Releases(s[i], t) => \E j \in 1 .. i - 1 : Joins(s[j], t)
Freed(t, s) == Safe(t, s) /\ \E j \in 1 .. Len(s) : Joins(s[j], t)

(* Nothing begins while a connection is taken down.                        *)
Begins == {"open", "resolve", "handshake", "connect", "create", "send", "reply", "resend", "bind"}
Ends(s) == \A i \in 1 .. Len(s) : s[i][1] \notin Begins
Stops == app \in {"stop", "done"} => Ends(todo) /\ \A t \in Running : Safe(t, todo)

(* A goodbye never overtakes a message unless they share a datagram.       *)
LinkIsSound(l) ==
    /\ ~plan.bundled => ~l.lost
    /\ l.peer = "null" => l.inbox = <<>> /\ ~l.pending
    /\ l.pending => l.wire = <<>>
    /\ l.peer = "connected" /\ ~l.intercept => l.wire = <<>> /\ l.inbox = <<>>
    /\ host \in {"dead", "expired"} => l.wire = <<>>
    /\ host = "expired" => l.inbox = <<>>
GoodbyeIsLast == LinkIsSound(link) /\ (at["recv"] = "linger" => link.pending)

(* The numbers of the messages that are still to come grow.                *)
Above(b, l) == /\ \A i \in 1 .. Len(l.inbox) : b < l.inbox[i].n
               /\ \A i \in 1 .. Len(l.wire) : b < l.wire[i].n
Ordered(l) ==
    /\ \A i, j \in 1 .. Len(l.wire) : i < j => l.wire[i].n < l.wire[j].n
    /\ \A i, j \in 1 .. Len(l.inbox) : i < j => l.inbox[i].n < l.inbox[j].n
    /\ \A i \in 1 .. Len(l.inbox), j \in 1 .. Len(l.wire) : l.inbox[i].n < l.wire[j].n
NumbersGrow ==
    /\ Ordered(link) /\ Above(hdr, link)
    /\ got \in Said => hdr < got.n /\ Above(got.n, link)
    /\ \A s \in SlotsOf(plan) : s[1] = "hdr" => taken[s] <= hdr

(* The last message of a slot that waits for its callback is the one that  *)
(* was taken last; a slot that none waits for was shown it.                *)
Waiting == IF at["async"] = "batch" THEN <<held>> \o asyncQ.items ELSE asyncQ.items
Newest(w, took, was) ==
    /\ \A i \in 1 .. Len(w) :
          (\A j \in 1 .. Len(w) : j > i => Slot(w[j]) # Slot(w[i])) => took[Slot(w[i])] = w[i].n
    /\ \A s \in SlotsOf(plan) : (\A i \in 1 .. Len(w) : Slot(w[i]) # s) => took[s] <= was[s]
NewestWaits ==
    /\ Newest(Waiting, taken, shown)
    /\ at["async"] = "ended" /\ ~asyncQ.shutdown => asyncQ.draining /\ asyncQ.items = <<>>

IInv == TypeOK /\ Starts /\ Runs /\ Stops /\ NothingOutlivesWhatItUses /\ GoodbyeIsLast
        /\ NumbersGrow /\ NewestWaits

--------------------------------------------------------------------------------
(* One call after the other: what holds of two rows of calls holds of the  *)
(* one followed by the other.                                              *)
LEMMA Concatenation ==
    ASSUME NEW s \in Seq(Steps), NEW u \in Seq(Steps)
    PROVE  /\ s \o u \in Seq(Steps)
           /\ Len(s \o u) = Len(s) + Len(u)
           /\ \A i \in 1 .. Len(s) : (s \o u)[i] = s[i]
           /\ \A i \in 1 .. Len(s \o u) : i > Len(s) => i - Len(s) \in 1 .. Len(u) /\ (s \o u)[i] = u[i - Len(s)]
           /\ Len(s) \in Nat /\ Len(u) \in Nat
    OBVIOUS

(* Two rows of calls that begin nothing begin nothing together.            *)
LEMMA EndsTogether ==
    ASSUME NEW s \in Seq(Steps), NEW u \in Seq(Steps), Ends(s), Ends(u)
    PROVE  Ends(s \o u)
    <1>1. \A i \in 1 .. Len(s \o u) : i \in 1 .. Len(s) \/ i > Len(s)
        BY Concatenation
    <1> QED
        BY <1>1, Concatenation DEF Ends

(* Two rows that leave a thread alone leave it alone together.             *)
LEMMA HarmlessTogether ==
    ASSUME NEW t, NEW s \in Seq(Steps), NEW u \in Seq(Steps), Harmless(t, s), Harmless(t, u)
    PROVE  Harmless(t, s \o u)
    <1>1. \A i \in 1 .. Len(s \o u) : i \in 1 .. Len(s) \/ i > Len(s)
        BY Concatenation
    <1> QED
        BY <1>1, Concatenation DEF Harmless

(* A row that releases nothing of a thread is safe for it.                 *)
LEMMA HarmlessIsSafe ==
    ASSUME NEW t, NEW s, Harmless(t, s)
    PROVE  Safe(t, s)
    BY DEF Harmless, Safe

(* What comes after a thread was joined may release what it used.          *)
LEMMA FreedBefore ==
    ASSUME NEW t, NEW s \in Seq(Steps), NEW u \in Seq(Steps), Freed(t, s)
    PROVE  Freed(t, s \o u)
    <1>1. PICK m \in 1 .. Len(s) : Joins(s[m], t)
        BY DEF Freed
    <1>2. m \in 1 .. Len(s \o u) /\ Joins((s \o u)[m], t)
        BY <1>1, Concatenation
    <1>3. ASSUME NEW i \in 1 .. Len(s \o u), Releases((s \o u)[i], t)
          PROVE  \E j \in 1 .. i - 1 : Joins((s \o u)[j], t)
        <2>1. CASE i \in 1 .. Len(s)
            <3>1. PICK j \in 1 .. i - 1 : Joins(s[j], t)
                BY <1>3, <2>1, Concatenation DEF Freed, Safe
            <3>2. j \in 1 .. Len(s)
                BY <2>1, Concatenation
            <3> QED
                BY <3>1, <3>2, Concatenation
        <2>2. CASE i > Len(s)
            <3>1. m \in 1 .. i - 1
                BY <1>1, <2>2, Concatenation
            <3> QED
                BY <1>2, <3>1
        <2> QED
            BY <2>1, <2>2, Concatenation
    <1> QED
        BY <1>2, <1>3 DEF Freed, Safe

(* A row that joins a thread before it frees may follow one that leaves it *)
(* alone.                                                                  *)
LEMMA FreedAfter ==
    ASSUME NEW t, NEW s \in Seq(Steps), NEW u \in Seq(Steps), Harmless(t, s), Freed(t, u)
    PROVE  Freed(t, s \o u)
    <1>1. PICK m \in 1 .. Len(u) : Joins(u[m], t)
        BY DEF Freed
    <1>2. m + Len(s) \in 1 .. Len(s \o u) /\ (s \o u)[m + Len(s)] = u[m]
        <2>1. m + Len(s) \in 1 .. Len(s \o u) /\ m + Len(s) > Len(s) /\ m + Len(s) - Len(s) = m
            BY Concatenation
        <2> QED
            BY <2>1, Concatenation
    <1>3. ASSUME NEW i \in 1 .. Len(s \o u), Releases((s \o u)[i], t)
          PROVE  \E j \in 1 .. i - 1 : Joins((s \o u)[j], t)
        <2>1. i \notin 1 .. Len(s)
            BY <1>3, Concatenation DEF Harmless
        <2>2. i > Len(s) /\ i - Len(s) \in 1 .. Len(u) /\ Releases(u[i - Len(s)], t)
            BY <1>3, <2>1, Concatenation
        <2>3. PICK j \in 1 .. i - Len(s) - 1 : Joins(u[j], t)
            BY <2>2 DEF Freed, Safe
        <2>4. /\ j + Len(s) \in 1 .. i - 1 /\ j + Len(s) \in 1 .. Len(s \o u) /\ j + Len(s) > Len(s)
              /\ j + Len(s) - Len(s) = j
            BY <2>2, Concatenation
        <2>5. (s \o u)[j + Len(s)] = u[j]
            BY <2>4, Concatenation
        <2> QED
            BY <2>3, <2>4, <2>5
    <1> QED
        BY <1>1, <1>2, <1>3 DEF Freed, Safe

(* What is left of a safe row of calls after its first call is safe for    *)
(* every thread that call did not have to wait for.                        *)
LEMMA SafeTail ==
    ASSUME NEW t, NEW s \in Seq(Steps), s # <<>>, Safe(t, s), ~Joins(s[1], t)
    PROVE  Safe(t, Tail(s))
    <1>1. /\ Len(s) \in Nat \ {0} /\ Len(Tail(s)) = Len(s) - 1
          /\ \A i \in 1 .. Len(Tail(s)) : i + 1 \in 1 .. Len(s) /\ Tail(s)[i] = s[i + 1]
        OBVIOUS
    <1>2. ASSUME NEW i \in 1 .. Len(Tail(s)), Releases(Tail(s)[i], t)
          PROVE  \E j \in 1 .. i - 1 : Joins(Tail(s)[j], t)
        <2>1. PICK j \in 1 .. i + 1 - 1 : Joins(s[j], t)
            BY <1>1, <1>2 DEF Safe
        <2>2. j # 1
            BY <2>1
        <2>3. j - 1 \in 1 .. i - 1 /\ j - 1 \in 1 .. Len(Tail(s)) /\ j - 1 + 1 = j
            BY <2>2
        <2> QED
            BY <1>1, <2>1, <2>3
    <1> QED
        BY <1>2 DEF Safe

(* The first call of a stopping row begins nothing, nor does the rest.     *)
LEMMA EndsTail ==
    ASSUME NEW s \in Seq(Steps), s # <<>>, Ends(s)
    PROVE  Ends(Tail(s)) /\ s[1][1] \notin Begins /\ s[1] = Head(s) /\ s[1] \in Steps
    BY DEF Ends

(* A row of calls without its first k and its first k + 1.                 *)
LEMMA SuffixTail ==
    ASSUME NEW s \in Seq(Steps), NEW k \in 0 .. Len(s)
    PROVE  /\ Suffix(s, k) \in Seq(Steps) /\ Len(Suffix(s, k)) = Len(s) - k
           /\ Suffix(s, 0) = s
           /\ Suffix(s, k) = <<>> <=> k = Len(s)
           /\ k < Len(s) => /\ k + 1 \in 1 .. Len(s) /\ Head(Suffix(s, k)) = s[k + 1]
                            /\ Tail(Suffix(s, k)) = Suffix(s, k + 1)
    <1>1. Suffix(s, k) \in Seq(Steps) /\ Len(Suffix(s, k)) = Len(s) - k
        <2>1. Len(s) - k \in Nat /\ \A i \in 1 .. Len(s) - k : s[i + k] \in Steps
            OBVIOUS
        <2> QED
            BY <2>1 DEF Suffix
    <1>2. Suffix(s, 0) = s
        <2>1. Suffix(s, 0) = [i \in 1 .. Len(s) |-> s[i]]
            BY DEF Suffix
        <2> QED
            BY <2>1
    <1>3. ASSUME k < Len(s)
          PROVE  /\ k + 1 \in 1 .. Len(s) /\ Head(Suffix(s, k)) = s[k + 1]
                 /\ Tail(Suffix(s, k)) = Suffix(s, k + 1)
        <2>1. k + 1 \in 1 .. Len(s)
            BY <1>3
        <2>2. Head(Suffix(s, k)) = s[k + 1]
            BY <1>1, <1>3 DEF Suffix
        <2>3. Tail(Suffix(s, k)) \in Seq(Steps) /\ Suffix(s, k + 1) \in Seq(Steps)
            <3>1. Len(s) - (k + 1) \in Nat /\ \A i \in 1 .. Len(s) - (k + 1) : s[i + (k + 1)] \in Steps
                BY <1>3
            <3> QED
                BY <1>1, <1>3, <3>1 DEF Suffix
        <2>4. Len(Tail(Suffix(s, k))) = Len(s) - k - 1 /\ Len(Suffix(s, k + 1)) = Len(s) - k - 1
            <3>1. Len(Tail(Suffix(s, k))) = Len(s) - k - 1
                BY <1>1, <1>3
            <3>2. Len(s) - (k + 1) = Len(s) - k - 1 /\ Len(s) - (k + 1) \in Nat
                BY <1>3
            <3>3. Len(Suffix(s, k + 1)) = Len(s) - (k + 1)
                BY <3>2 DEF Suffix
            <3> QED
                BY <3>1, <3>2, <3>3
        <2>5. ASSUME NEW i \in 1 .. Len(s) - k - 1
              PROVE  Tail(Suffix(s, k))[i] = Suffix(s, k + 1)[i]
            <3>1. Tail(Suffix(s, k))[i] = Suffix(s, k)[i + 1]
                BY <1>1, <1>3
            <3>2. i + 1 \in 1 .. Len(s) - k /\ i \in 1 .. Len(s) - (k + 1) /\ (i + 1) + k = i + (k + 1)
                OBVIOUS
            <3> QED
                BY <3>1, <3>2 DEF Suffix
        <2> QED
            BY <2>1, <2>2, <2>3, <2>4, <2>5, SeqEqual
    <1>4. Suffix(s, k) = <<>> <=> k = Len(s)
        BY <1>1
    <1> QED
        BY <1>1, <1>2, <1>3, <1>4

--------------------------------------------------------------------------------
(* Calls and rows of calls.                                                *)
LEMMA Vocabulary ==
    /\ \A v \in Verbs, o \in Objects : <<v, o>> \in Steps
    /\ \A ts \in SUBSET Threads : <<"interrupt", ts>> \in Steps /\ <<"join", ts>> \in Steps
    BY DEF Steps
(* A row of one call, its length and its call.                             *)
LEMMA OneCall ==
    ASSUME NEW op \in Steps
    PROVE  <<op>> \in Seq(Steps) /\ Len(<<op>>) = 1 /\ <<op>>[1] = op
    OBVIOUS
(* The row of no call.                                                     *)
LEMMA NoCall == <<>> \in Seq(Steps) /\ Len(<<>>) = 0
    OBVIOUS
(* When(c, s): the calls an if statement makes.                            *)
LEMMA PerhapsCalls ==
    ASSUME NEW c \in BOOLEAN, NEW s \in Seq(Steps)
    PROVE  /\ When(c, s) \in Seq(Steps)
           /\ c => When(c, s) = s
           /\ ~c => When(c, s) = <<>>
    BY NoCall DEF When
(* A row of four calls.                                                    *)
LEMMA FourCalls ==
    ASSUME NEW a \in Steps, NEW b \in Steps, NEW c \in Steps, NEW d \in Steps
    PROVE  <<a, b, c, d>> \in Seq(Steps) /\ Len(<<a, b, c, d>>) = 4
    OBVIOUS
(* A row of seven calls.                                                   *)
LEMMA SevenCalls ==
    ASSUME NEW a \in Steps, NEW b \in Steps, NEW c \in Steps, NEW d \in Steps, NEW e \in Steps,
           NEW f \in Steps, NEW g \in Steps
    PROVE  <<a, b, c, d, e, f, g>> \in Seq(Steps) /\ Len(<<a, b, c, d, e, f, g>>) = 7
    OBVIOUS
(* Every call LiStartConnection makes is a call of the model.              *)
LEMMA StartVocabulary ==
    /\ <<"open", "platform">> \in Steps /\ <<"resolve", "name">> \in Steps /\ <<"open", "audio">> \in Steps
    /\ <<"handshake", "RTSP">> \in Steps /\ <<"open", "control">> \in Steps /\ <<"open", "video">> \in Steps
    /\ <<"open", "input">> \in Steps /\ <<"open", "playback">> \in Steps /\ <<"create", "input">> \in Steps
    /\ <<"connect", "control">> \in Steps /\ <<"create", "recv">> \in Steps
    /\ <<"send", "startA">> \in Steps /\ <<"send", "startB">> \in Steps
    /\ <<"create", "loss">> \in Steps /\ <<"create", "idr">> \in Steps
    /\ <<"create", "async">> \in Steps /\ <<"create", "rfi">> \in Steps
    /\ <<"renderer", "setup">> \in Steps /\ <<"bind", "video">> \in Steps
    /\ <<"renderer", "started">> \in Steps /\ <<"create", "vrecv">> \in Steps
    /\ <<"create", "vdec">> \in Steps /\ <<"connect", "video">> \in Steps /\ <<"create", "vping">> \in Steps
    <1>1. {"open", "resolve", "handshake", "connect", "create", "send", "renderer", "bind"} \subseteq Verbs
        BY DEF Verbs
    <1>2. {"platform", "name", "audio", "RTSP", "control", "video", "input", "playback", "recv", "startA",
           "startB", "loss", "idr", "async", "rfi", "setup", "started", "vrecv", "vdec", "vping"} \subseteq Objects
        BY DEF Objects, Threads
    <1> QED
        BY <1>1, <1>2, Vocabulary

--------------------------------------------------------------------------------
(* The calls of a start: what call k of stage n + 1 is.                    *)
IsCall(n, k, op) ==
    \/ /\ k = 1
       /\ \/ n = 0 /\ op = <<"open", "platform">>
          \/ n = 1 /\ op = <<"resolve", "name">>
          \/ n = 2 /\ op = <<"open", "audio">>
          \/ n = 3 /\ op = <<"handshake", "RTSP">>
          \/ n = 4 /\ op = <<"open", "control">>
          \/ n = 5 /\ op = <<"open", "video">>
          \/ n = 6 /\ op = <<"open", "input">>
          \/ n = 9 /\ op = <<"open", "playback">>
          \/ n = 10 /\ op = <<"create", "input">>
    \/ /\ n = 7
       /\ \/ k = 1 /\ op = <<"connect", "control">>
          \/ k = 2 /\ op = <<"create", "recv">>
          \/ k = 3 /\ op = <<"send", "startA">>
          \/ k = 4 /\ op = <<"send", "startB">>
          \/ k = 5 /\ op = <<"create", "loss">>
          \/ k = 6 /\ op = <<"create", "idr">>
          \/ k = 7 /\ op = <<"create", "async">>
          \/ k = 8 /\ plan.rfi /\ op = <<"create", "rfi">>
    \/ /\ n = 8
       /\ \/ k = 1 /\ op = <<"renderer", "setup">>
          \/ k = 2 /\ op = <<"bind", "video">>
          \/ k = 3 /\ op = <<"renderer", "started">>
          \/ k = 4 /\ op = <<"create", "vrecv">>
          \/ k = 5 /\ ~plan.direct /\ op = <<"create", "vdec">>
          \/ k \in {5, 6} /\ (k = 6 <=> ~plan.direct) /\ plan.tcp /\ op = <<"connect", "video">>
          \/ k \in {5, 6, 7} /\ k = Len(VideoStart) /\ op = <<"create", "vping">>

(* startControlStream: seven calls, eight with the thread for              *)
(* invalidations.                                                          *)
LEMMA ControlStartCalls ==
    ASSUME plan \in Plans
    PROVE  /\ ControlStart \in Seq(Steps)
           /\ plan.rfi => Len(ControlStart) = 8
           /\ ~plan.rfi => Len(ControlStart) = 7
           /\ \A k \in 1 .. Len(ControlStart) : IsCall(7, k, ControlStart[k])
    <1> DEFINE seven == <<<<"connect", "control">>, <<"create", "recv">>, <<"send", "startA">>,
                          <<"send", "startB">>, <<"create", "loss">>, <<"create", "idr">>,
                          <<"create", "async">>>>
               more  == When(plan.rfi, <<<<"create", "rfi">>>>)
    <1>1. seven \in Seq(Steps)
        BY StartVocabulary, SevenCalls
    <1>2. more \in Seq(Steps)
        BY StartVocabulary, OneCall, NoCall, PerhapsCalls DEF Plans
    <1>3. ControlStart = seven \o more
        BY DEF ControlStart
    <1>4. Len(seven) = 7 /\ \A k \in 1 .. 7 : IsCall(7, k, seven[k])
        <2>1. /\ IsCall(7, 1, seven[1]) /\ IsCall(7, 2, seven[2]) /\ IsCall(7, 3, seven[3])
              /\ IsCall(7, 4, seven[4]) /\ IsCall(7, 5, seven[5]) /\ IsCall(7, 6, seven[6])
              /\ IsCall(7, 7, seven[7])
            BY DEF IsCall
        <2>2. Len(seven) = 7 /\ \A k \in 1 .. 7 : k \in {1, 2, 3, 4, 5, 6, 7}
            OBVIOUS
        <2> QED
            BY <2>1, <2>2
    <1>5. /\ plan.rfi => Len(more) = 1 /\ IsCall(7, 8, more[1])
          /\ ~plan.rfi => Len(more) = 0
        BY DEF IsCall, When
    <1> HIDE DEF seven, more
    <1>6. /\ ControlStart \in Seq(Steps) /\ Len(ControlStart) = Len(seven) + Len(more)
          /\ \A k \in 1 .. Len(seven) : ControlStart[k] = seven[k]
          /\ \A k \in 1 .. Len(ControlStart) : k > Len(seven) => ControlStart[k] = more[k - Len(seven)]
        BY <1>1, <1>2, <1>3, Concatenation
    <1>7. ASSUME NEW k \in 1 .. Len(ControlStart)
          PROVE  IsCall(7, k, ControlStart[k])
        <2>1. CASE k \in 1 .. 7
            BY <1>4, <1>6, <2>1
        <2>2. CASE k > 7
            <3>1. plan.rfi /\ k = 8 /\ k - Len(seven) = 1
                BY <1>4, <1>5, <1>6, <2>2
            <3> QED
                BY <1>4, <1>5, <1>6, <3>1
        <2> QED
            BY <1>4, <1>5, <1>6, <2>1, <2>2
    <1> QED
        BY <1>4, <1>5, <1>6, <1>7

(* startVideoStream: which calls it makes for TCP and for direct           *)
(* submission.                                                             *)
LEMMA VideoStartCalls ==
    ASSUME plan \in Plans
    PROVE  /\ VideoStart \in Seq(Steps)
           /\ plan.direct /\ ~plan.tcp => Len(VideoStart) = 5
           /\ (plan.direct <=> plan.tcp) => Len(VideoStart) = 6
           /\ ~plan.direct /\ plan.tcp => Len(VideoStart) = 7
           /\ \A k \in 1 .. Len(VideoStart) : IsCall(8, k, VideoStart[k])
    <1> DEFINE four == <<<<"renderer", "setup">>, <<"bind", "video">>, <<"renderer", "started">>,
                         <<"create", "vrecv">>>>
               dec  == When(~plan.direct, <<<<"create", "vdec">>>>)
               tcp  == When(plan.tcp, <<<<"connect", "video">>>>)
               ping == <<<<"create", "vping">>>>
    <1>0. plan.direct \in BOOLEAN /\ plan.tcp \in BOOLEAN
        BY DEF Plans
    <1>1. four \in Seq(Steps)
        BY StartVocabulary, FourCalls
    <1>2. dec \in Seq(Steps) /\ tcp \in Seq(Steps)
        BY StartVocabulary, OneCall, NoCall, PerhapsCalls DEF Plans
    <1>3. ping \in Seq(Steps)
        BY StartVocabulary, OneCall
    <1>4. VideoStart = ((four \o dec) \o tcp) \o ping
        BY DEF VideoStart
    <1>5. Len(four) = 4 /\ \A k \in 1 .. 4 : IsCall(8, k, four[k])
        BY DEF IsCall
    <1>6. /\ ~plan.direct => Len(dec) = 1 /\ dec[1] = <<"create", "vdec">>
          /\ plan.direct => Len(dec) = 0
          /\ plan.tcp => Len(tcp) = 1 /\ tcp[1] = <<"connect", "video">>
          /\ ~plan.tcp => Len(tcp) = 0
          /\ Len(ping) = 1 /\ ping[1] = <<"create", "vping">>
        BY DEF When
    <1> HIDE DEF four, dec, tcp, ping
    <1> DEFINE a == four \o dec
               b == a \o tcp
    <1>7. /\ a \in Seq(Steps) /\ Len(a) = Len(four) + Len(dec)
          /\ \A k \in 1 .. Len(four) : a[k] = four[k]
          /\ \A k \in 1 .. Len(a) : k > Len(four) => a[k] = dec[k - Len(four)]
        BY <1>1, <1>2, Concatenation
    <1> HIDE DEF a
    <1>8. /\ b \in Seq(Steps) /\ Len(b) = Len(a) + Len(tcp)
          /\ \A k \in 1 .. Len(a) : b[k] = a[k]
          /\ \A k \in 1 .. Len(b) : k > Len(a) => b[k] = tcp[k - Len(a)]
        BY <1>2, <1>7, Concatenation
    <1> HIDE DEF b
    <1>9. VideoStart = b \o ping
        BY <1>4 DEF a, b
    <1>10. /\ VideoStart \in Seq(Steps) /\ Len(VideoStart) = Len(b) + Len(ping)
           /\ \A k \in 1 .. Len(b) : VideoStart[k] = b[k]
           /\ \A k \in 1 .. Len(VideoStart) : k > Len(b) => VideoStart[k] = ping[k - Len(b)]
        BY <1>3, <1>8, <1>9, Concatenation
    <1> DEFINE la == Len(a)
               lb == Len(b)
               lv == Len(VideoStart)
    <1>11. /\ ~plan.direct => la = 5
           /\ plan.direct => la = 4
           /\ plan.tcp => lb = la + 1
           /\ ~plan.tcp => lb = la
           /\ lv = lb + 1
        <2>1. la = Len(four) + Len(dec) /\ lb = la + Len(tcp) /\ lv = lb + Len(ping)
            BY <1>7, <1>8, <1>10
        <2>2. Len(four) = 4 /\ Len(ping) = 1
            BY <1>5, <1>6
        <2>3. /\ Len(dec) = IF plan.direct THEN 0 ELSE 1
              /\ Len(tcp) = IF plan.tcp THEN 1 ELSE 0
            BY <1>6
        <2> HIDE DEF la, lb, lv
        <2> QED
            BY <2>1, <2>2, <2>3
    <1> HIDE DEF la, lb, lv
    <1>12. /\ plan.direct /\ ~plan.tcp => lv = 5
           /\ (plan.direct <=> plan.tcp) => lv = 6
           /\ ~plan.direct /\ plan.tcp => lv = 7
        BY <1>0, <1>11
    <1>13. ASSUME NEW k \in 1 .. lv
           PROVE  IsCall(8, k, VideoStart[k])
        <2>1. CASE k \in 1 .. 4
            <3>1. k \in 1 .. lv /\ k \in 1 .. lb /\ k \in 1 .. la
                BY <1>0, <1>11, <2>1
            <3>2. VideoStart[k] = b[k] /\ b[k] = a[k] /\ a[k] = four[k]
                BY <1>5, <1>7, <1>8, <1>10, <2>1, <3>1 DEF la, lb, lv
            <3> QED
                BY <1>5, <2>1, <3>2
        <2>2. CASE k > 4 /\ k \in 1 .. la
            <3>1. ~plan.direct /\ k = 5
                BY <1>0, <1>11, <2>2
            <3>3. k - Len(four) = 1 /\ k > Len(four) /\ k \in 1 .. lb
                BY <1>0, <1>5, <1>11, <3>1
            <3>2. VideoStart[k] = b[k] /\ b[k] = a[k] /\ a[k] = dec[1]
                BY <1>7, <1>8, <1>10, <2>2, <3>1, <3>3 DEF la, lb, lv
            <3> QED
                BY <1>6, <3>1, <3>2 DEF IsCall
        <2>3. CASE k > la /\ k \in 1 .. lb
            <3>1. plan.tcp /\ k = la + 1 /\ k - la = 1
                BY <1>0, <1>11, <2>3
            <3>2. VideoStart[k] = b[k] /\ b[k] = tcp[1]
                BY <1>8, <1>10, <2>3, <3>1 DEF la, lb, lv
            <3>3. (plan.direct => k = 5) /\ (~plan.direct => k = 6)
                BY <1>0, <1>11, <3>1
            <3> QED
                BY <1>6, <3>1, <3>2, <3>3 DEF IsCall
        <2>4. CASE k > lb
            <3>1. k = lv /\ k - lb = 1 /\ k \in {5, 6, 7}
                BY <1>11, <1>12, <2>4
            <3>2. VideoStart[k] = ping[1]
                BY <1>10, <2>4, <3>1 DEF la, lb, lv
            <3> QED
                BY <1>6, <3>1, <3>2 DEF IsCall, lv
        <2> QED
            BY <1>0, <1>11, <2>1, <2>2, <2>3, <2>4
    <1> QED
        BY <1>10, <1>12, <1>13 DEF lv

(* The stages of LiStartConnection and the calls of each.                  *)
LEMMA StartCalls ==
    ASSUME plan \in Plans, NEW n \in 0..10
    PROVE  /\ StartOf[n + 1] \in Seq(Steps) /\ Len(StartOf) = 11
           /\ Len(StartOf[n + 1]) \in Nat \ {0} /\ Len(VideoStart) \in {5, 6, 7}
           /\ n \notin {7, 8} => Len(StartOf[n + 1]) = 1
           /\ n = 7 /\ plan.rfi => Len(StartOf[n + 1]) = 8
           /\ n = 7 /\ ~plan.rfi => Len(StartOf[n + 1]) = 7
           /\ n = 8 => Len(StartOf[n + 1]) = Len(VideoStart)
           /\ \A k \in 1 .. Len(StartOf[n + 1]) : IsCall(n, k, StartOf[n + 1][k])
    <1>1. /\ StartOf[8] = ControlStart /\ StartOf[9] = VideoStart /\ Len(StartOf) = 11
          /\ n = 7 => n + 1 = 8
          /\ n = 8 => n + 1 = 9
        BY DEF StartOf
    <1>2. Len(VideoStart) \in {5, 6, 7}
        <2>1. plan.direct \in BOOLEAN /\ plan.tcp \in BOOLEAN
            BY DEF Plans
        <2> QED
            BY <2>1, VideoStartCalls
    <1>3. CASE n = 7
        <2>1. StartOf[n + 1] = ControlStart
            BY <1>1, <1>3
        <2>2. plan.rfi \in BOOLEAN
            BY DEF Plans
        <2>3. Len(StartOf[n + 1]) \in Nat \ {0}
            <3> DEFINE len == Len(ControlStart)
            <3>1. (plan.rfi => len = 8) /\ (~plan.rfi => len = 7)
                BY ControlStartCalls
            <3> HIDE DEF len
            <3>2. len \in Nat \ {0}
                BY <2>2, <3>1
            <3> QED
                BY <2>1, <3>2 DEF len
        <2> QED
            BY <1>1, <1>2, <1>3, <2>1, <2>3, ControlStartCalls
    <1>4. CASE n = 8
        <2>1. StartOf[n + 1] = VideoStart
            BY <1>1, <1>4
        <2>2. Len(StartOf[n + 1]) \in Nat \ {0}
            <3> DEFINE len == Len(VideoStart)
            <3>1. len \in {5, 6, 7}
                BY <1>2
            <3> HIDE DEF len
            <3>2. len \in Nat \ {0}
                BY <3>1
            <3> QED
                BY <2>1, <3>2 DEF len
        <2> QED
            BY <1>1, <1>2, <1>4, <2>1, <2>2, VideoStartCalls
    <1>5. CASE n \notin {7, 8}
        <2>1. PICK op : StartOf[n + 1] = <<op>> /\ IsCall(n, 1, op) /\ op \in Steps
            <3>1. /\ StartOf[1] = <<<<"open", "platform">>>> /\ StartOf[2] = <<<<"resolve", "name">>>>
                  /\ StartOf[3] = <<<<"open", "audio">>>>    /\ StartOf[4] = <<<<"handshake", "RTSP">>>>
                  /\ StartOf[5] = <<<<"open", "control">>>>  /\ StartOf[6] = <<<<"open", "video">>>>
                  /\ StartOf[7] = <<<<"open", "input">>>>    /\ StartOf[10] = <<<<"open", "playback">>>>
                  /\ StartOf[11] = <<<<"create", "input">>>>
                BY DEF StartOf
            <3>2. n \in {0, 1, 2, 3, 4, 5, 6, 9, 10}
                BY <1>5
            <3>3. /\ IsCall(0, 1, <<"open", "platform">>) /\ IsCall(1, 1, <<"resolve", "name">>)
                  /\ IsCall(2, 1, <<"open", "audio">>)    /\ IsCall(3, 1, <<"handshake", "RTSP">>)
                  /\ IsCall(4, 1, <<"open", "control">>)  /\ IsCall(5, 1, <<"open", "video">>)
                  /\ IsCall(6, 1, <<"open", "input">>)    /\ IsCall(9, 1, <<"open", "playback">>)
                  /\ IsCall(10, 1, <<"create", "input">>)
                BY DEF IsCall
            <3> DEFINE H(m, j, op) == StartOf[j] = <<op>> /\ IsCall(m, 1, op) /\ op \in Steps
            <3>4. /\ H(0, 1, <<"open", "platform">>)
                  /\ H(1, 2, <<"resolve", "name">>)
                  /\ H(2, 3, <<"open", "audio">>)
                  /\ H(3, 4, <<"handshake", "RTSP">>)
                  /\ H(4, 5, <<"open", "control">>)
                  /\ H(5, 6, <<"open", "video">>)
                  /\ H(6, 7, <<"open", "input">>)
                  /\ H(9, 10, <<"open", "playback">>)
                  /\ H(10, 11, <<"create", "input">>)
                <4>1. H(0, 1, <<"open", "platform">>)
                    BY <3>1, <3>3, StartVocabulary
                <4>2. H(1, 2, <<"resolve", "name">>)
                    BY <3>1, <3>3, StartVocabulary
                <4>3. H(2, 3, <<"open", "audio">>)
                    BY <3>1, <3>3, StartVocabulary
                <4>4. H(3, 4, <<"handshake", "RTSP">>)
                    BY <3>1, <3>3, StartVocabulary
                <4>5. H(4, 5, <<"open", "control">>)
                    BY <3>1, <3>3, StartVocabulary
                <4>6. H(5, 6, <<"open", "video">>)
                    BY <3>1, <3>3, StartVocabulary
                <4>7. H(6, 7, <<"open", "input">>)
                    BY <3>1, <3>3, StartVocabulary
                <4>8. H(9, 10, <<"open", "playback">>)
                    BY <3>1, <3>3, StartVocabulary
                <4>9. H(10, 11, <<"create", "input">>)
                    BY <3>1, <3>3, StartVocabulary
                <4> QED
                    BY <4>1, <4>2, <4>3, <4>4, <4>5, <4>6, <4>7, <4>8, <4>9
            <3>5. \E op : H(n, n + 1, op)
                <4> HIDE DEF H
                <4> QED
                    BY <3>2, <3>4
            <3> QED
                BY <3>5
        <2>2. StartOf[n + 1] \in Seq(Steps) /\ Len(StartOf[n + 1]) = 1 /\ StartOf[n + 1][1] = op
            BY <2>1, OneCall
        <2>3. \A k \in 1 .. Len(StartOf[n + 1]) : k = 1
            BY <2>2
        <2> QED
            BY <1>1, <1>2, <1>5, <2>1, <2>2, <2>3
    <1> QED
        BY <1>3, <1>4, <1>5

(* How many there are of them.                                             *)
LEMMA CallCounts ==
    ASSUME plan \in Plans, NEW n \in 0..10
    PROVE  /\ Len(StartOf[n + 1]) \in Nat \ {0} /\ Len(VideoStart) \in {5, 6, 7}
           /\ n = 7 => Len(StartOf[n + 1]) \in {7, 8}
    <1>1. plan.rfi \in BOOLEAN
        BY DEF Plans
    <1>2. /\ Len(StartOf[n + 1]) \in Nat \ {0} /\ Len(VideoStart) \in {5, 6, 7}
          /\ n = 7 /\ plan.rfi => Len(StartOf[n + 1]) = 8
          /\ n = 7 /\ ~plan.rfi => Len(StartOf[n + 1]) = 7
        BY StartCalls
    <1> QED
        BY <1>1, <1>2

--------------------------------------------------------------------------------
(* Rows of calls that take something down: those that leave alone what t   *)
(* uses, and those that join t before they release it.                     *)
Row(s)       == s \in Seq(Steps) /\ Ends(s)
Mild(t, s)   == Row(s) /\ Harmless(t, s)
Joined(t, s) == Row(s) /\ Freed(t, s)

(* Rows of stopping calls combine into rows that are as good.              *)
LEMMA RowsTogether ==
    /\ \A s, u : Row(s) /\ Row(u) => Row(s \o u)
    /\ \A t, s, u : Mild(t, s) /\ Mild(t, u) => Mild(t, s \o u)
    /\ \A t, s, u : Joined(t, s) /\ Row(u) => Joined(t, s \o u)
    /\ \A t, s, u : Mild(t, s) /\ Joined(t, u) => Joined(t, s \o u)
    <1>1. ASSUME NEW s, NEW u, Row(s), Row(u)
          PROVE  Row(s \o u)
        BY <1>1, EndsTogether, Concatenation DEF Row
    <1>2. ASSUME NEW t, NEW s, NEW u, Mild(t, s), Mild(t, u)
          PROVE  Mild(t, s \o u)
        <2>1. Row(s) /\ Row(u) /\ s \in Seq(Steps) /\ u \in Seq(Steps)
            BY <1>2 DEF Mild, Row
        <2>2. Harmless(t, s \o u)
            BY <1>2, <2>1, HarmlessTogether DEF Mild
        <2> QED
            BY <1>1, <2>1, <2>2 DEF Mild
    <1>3. ASSUME NEW t, NEW s, NEW u, Joined(t, s), Row(u)
          PROVE  Joined(t, s \o u)
        <2>1. Row(s) /\ Row(u) /\ s \in Seq(Steps) /\ u \in Seq(Steps)
            BY <1>3 DEF Joined, Row
        <2>2. Freed(t, s \o u)
            BY <1>3, <2>1, FreedBefore DEF Joined
        <2> QED
            BY <1>1, <2>1, <2>2 DEF Joined
    <1>4. ASSUME NEW t, NEW s, NEW u, Mild(t, s), Joined(t, u)
          PROVE  Joined(t, s \o u)
        <2>1. Row(s) /\ Row(u) /\ s \in Seq(Steps) /\ u \in Seq(Steps)
            BY <1>4 DEF Joined, Mild, Row
        <2>2. Freed(t, s \o u)
            BY <1>4, <2>1, FreedAfter DEF Joined, Mild
        <2> QED
            BY <1>1, <2>1, <2>2 DEF Joined
    <1> QED
        BY <1>1, <1>2, <1>3, <1>4

(* A row that touches nothing of a thread, or joins it first, is safe for  *)
(* it.                                                                     *)
LEMMA KindsOfRows ==
    /\ \A t, s : Mild(t, s) => Row(s) /\ Safe(t, s)
    /\ \A t, s : Joined(t, s) => Row(s) /\ Safe(t, s)
    /\ \A t : Mild(t, <<>>)
    <1>1. ASSUME NEW t PROVE Mild(t, <<>>)
        BY NoCall DEF Mild, Row, Ends, Harmless
    <1> QED
        BY <1>1, HarmlessIsSafe DEF Mild, Joined, Freed

(* A stopping row under an if statement.                                   *)
LEMMA PerhapsRows ==
    ASSUME NEW c \in BOOLEAN, NEW s
    PROVE  /\ Row(s) => Row(When(c, s))
           /\ \A t : Mild(t, s) => Mild(t, When(c, s))
           /\ \A t : Joined(t, s) /\ c => Joined(t, When(c, s))
    <1>1. CASE c
        BY <1>1 DEF When
    <1>2. CASE ~c
        <2>1. When(c, s) = <<>>
            BY <1>2 DEF When
        <2> QED
            BY <1>2, <2>1, KindsOfRows
    <1> QED
        BY <1>1, <1>2

(* Most of the calls only ask threads to end and wait for them.            *)
QuietVerbs == {"set", "shutdown", "drain", "stop", "interrupt", "join"}
Quiet(s) == s \in Seq(Steps) /\ \A i \in 1 .. Len(s) : s[i][1] \in QuietVerbs
(* A row of calls that only wake, join or close is mild for every thread.  *)
LEMMA QuietIsMild ==
    ASSUME NEW t, NEW s, Quiet(s)
    PROVE  Mild(t, s)
    BY DEF Quiet, QuietVerbs, Mild, Row, Ends, Begins, Harmless, Releases
(* One quiet call is a quiet row.                                          *)
LEMMA QuietCall ==
    ASSUME NEW op \in Steps, op[1] \in QuietVerbs
    PROVE  Quiet(<<op>>)
    BY OneCall DEF Quiet
(* Two quiet calls are a quiet row.                                        *)
LEMMA QuietTwo ==
    ASSUME NEW a \in Steps, a[1] \in QuietVerbs, NEW b \in Steps, b[1] \in QuietVerbs
    PROVE  Quiet(<<a, b>>)
    <1>1. <<a, b>> \in Seq(Steps) /\ Len(<<a, b>>) = 2 /\ <<a, b>>[1] = a /\ <<a, b>>[2] = b
        OBVIOUS
    <1>2. ASSUME NEW i \in 1 .. Len(<<a, b>>) PROVE <<a, b>>[i][1] \in QuietVerbs
        <2>1. i = 1 \/ i = 2
            BY <1>1
        <2> QED
            BY <1>1, <2>1
    <1> QED
        BY <1>1, <1>2 DEF Quiet
(* Four quiet calls are a quiet row.                                       *)
LEMMA QuietFour ==
    ASSUME NEW a \in Steps, a[1] \in QuietVerbs, NEW b \in Steps, b[1] \in QuietVerbs,
           NEW c \in Steps, c[1] \in QuietVerbs, NEW d \in Steps, d[1] \in QuietVerbs
    PROVE  Quiet(<<a, b, c, d>>)
    <1>1. /\ <<a, b, c, d>> \in Seq(Steps) /\ Len(<<a, b, c, d>>) = 4
          /\ <<a, b, c, d>>[1] = a /\ <<a, b, c, d>>[2] = b
          /\ <<a, b, c, d>>[3] = c /\ <<a, b, c, d>>[4] = d
        OBVIOUS
    <1>2. ASSUME NEW i \in 1 .. Len(<<a, b, c, d>>) PROVE <<a, b, c, d>>[i][1] \in QuietVerbs
        <2>1. i \in {1, 2, 3, 4}
            BY <1>1
        <2> QED
            BY <1>1, <2>1
    <1> QED
        BY <1>1, <1>2 DEF Quiet

(* The rows that interrupt and join threads join every one of them.        *)
LEMMA EndAllJoins ==
    ASSUME NEW ts \in SUBSET Threads
    PROVE  /\ Quiet(EndAll(ts))
           /\ \A t \in ts : Joined(t, EndAll(ts))
    <1> DEFINE a == <<"interrupt", ts>>
               b == <<"join", ts>>
    <1>1. a \in Steps /\ b \in Steps /\ a[1] \in QuietVerbs /\ b[1] \in QuietVerbs
        BY Vocabulary DEF QuietVerbs
    <1>2. b[1] = "join" /\ b[2] = ts
        OBVIOUS
    <1>3. EndAll(ts) = <<a, b>>
        BY DEF EndAll
    <1> HIDE DEF a, b
    <1>4. Quiet(EndAll(ts))
        BY <1>1, <1>3, QuietTwo
    <1>5. ASSUME NEW t \in ts PROVE Joined(t, EndAll(ts))
        <2>1. 2 \in 1 .. Len(EndAll(ts)) /\ EndAll(ts)[2] = b
            BY <1>3
        <2>2. Joins(EndAll(ts)[2], t)
            BY <1>2, <2>1 DEF Joins
        <2>3. Mild(t, EndAll(ts)) /\ Safe(t, EndAll(ts))
            BY <1>4, QuietIsMild, KindsOfRows
        <2> QED
            BY <2>1, <2>2, <2>3 DEF Joined, Freed, Mild
    <1> QED
        BY <1>4, <1>5

(* PltInterruptThread and PltJoinThread of a list of threads join each.    *)
LEMMA EndJoins ==
    ASSUME NEW ts \in Seq(Threads)
    PROVE  /\ Quiet(End(ts))
           /\ \A j \in 1 .. Len(ts) : Joined(ts[j], End(ts))
    <1> DEFINE call(i) == <<IF i % 2 = 1 THEN "interrupt" ELSE "join", {ts[(i + 1) \div 2]}>>
    <1>1. Len(ts) \in Nat /\ 2 * Len(ts) \in Nat /\ End(ts) = [i \in 1 .. 2 * Len(ts) |-> call(i)]
        BY DEF End
    <1>2. ASSUME NEW i \in 1 .. 2 * Len(ts)
          PROVE  call(i) \in Steps /\ call(i)[1] \in QuietVerbs
        <2>1. (i + 1) \div 2 \in 1 .. Len(ts)
            BY <1>1
        <2>2. {ts[(i + 1) \div 2]} \in SUBSET Threads
            BY <2>1
        <2>3. CASE i % 2 = 1
            <3>1. call(i) = <<"interrupt", {ts[(i + 1) \div 2]}>>
                BY <2>3
            <3> QED
                BY <2>2, <3>1, Vocabulary DEF QuietVerbs
        <2>4. CASE i % 2 # 1
            <3>1. call(i) = <<"join", {ts[(i + 1) \div 2]}>>
                BY <2>4
            <3> QED
                BY <2>2, <3>1, Vocabulary DEF QuietVerbs
        <2> QED
            BY <2>3, <2>4
    <1>3. ASSUME NEW j \in 1 .. Len(ts)
          PROVE  2 * j \in 1 .. 2 * Len(ts) /\ Joins(call(2 * j), ts[j])
        <2>1. 2 * j \in 1 .. 2 * Len(ts) /\ (2 * j) % 2 = 0 /\ (2 * j + 1) \div 2 = j
            BY <1>1
        <2>2. call(2 * j) = <<"join", {ts[j]}>>
            BY <2>1
        <2> HIDE DEF call
        <2> QED
            BY <2>1, <2>2 DEF Joins
    <1> HIDE DEF call
    <1>4. End(ts) \in Seq(Steps) /\ Len(End(ts)) = 2 * Len(ts)
        BY <1>1, <1>2
    <1>5. Quiet(End(ts))
        BY <1>1, <1>2, <1>4 DEF Quiet
    <1>6. ASSUME NEW j \in 1 .. Len(ts) PROVE Joined(ts[j], End(ts))
        <2>1. 2 * j \in 1 .. Len(End(ts)) /\ Joins(End(ts)[2 * j], ts[j])
            BY <1>1, <1>3, <1>4
        <2>2. Mild(ts[j], End(ts)) /\ Safe(ts[j], End(ts))
            BY <1>5, QuietIsMild, KindsOfRows
        <2> QED
            BY <2>1, <2>2 DEF Joined, Freed, Mild
    <1> QED
        BY <1>5, <1>6

--------------------------------------------------------------------------------
(* What a stage undoes when it fails, and what a stop undoes.              *)
LEMMA StopVocabulary ==
    /\ <<"set", "stopping">> \in Steps /\ <<"set", "event">> \in Steps /\ <<"set", "interrupted">> \in Steps
    /\ <<"set", "terminated">> \in Steps /\ <<"shutdown", "async">> \in Steps
    /\ <<"shutdown", "rfi">> \in Steps /\ <<"shutdown", "socket">> \in Steps
    /\ <<"drain", "async">> \in Steps /\ <<"drain", "input">> \in Steps
    /\ <<"stop", "depacketizer">> \in Steps /\ <<"close", "socket">> \in Steps
    /\ <<"close", "video">> \in Steps /\ <<"disconnect", "now">> \in Steps
    /\ <<"disconnect", "gracefully">> \in Steps /\ <<"renderer", "cleaned">> \in Steps
    /\ <<"renderer", "stopped">> \in Steps
    /\ <<"free", "playback">> \in Steps /\ <<"free", "input">> \in Steps /\ <<"free", "video">> \in Steps
    /\ <<"free", "control">> \in Steps /\ <<"free", "audio">> \in Steps /\ <<"free", "platform">> \in Steps
    <1>1. {"set", "shutdown", "drain", "stop", "close", "disconnect", "renderer", "free"} \subseteq Verbs
        BY DEF Verbs
    <1>2. {"stopping", "event", "interrupted", "terminated", "async", "rfi", "socket", "input",
           "depacketizer", "video", "now", "gracefully", "cleaned", "stopped", "playback", "control",
           "audio", "platform"} \subseteq Objects
        BY DEF Objects, Threads
    <1> QED
        BY <1>1, <1>2, Vocabulary

(* A single call that does not begin anything.                             *)
LEMMA SingleRow ==
    ASSUME NEW op \in Steps, op[1] \notin Begins
    PROVE  Row(<<op>>) /\ \A t : ~Releases(op, t) => Mild(t, <<op>>)
    <1>1. <<op>> \in Seq(Steps) /\ Len(<<op>>) = 1 /\ <<op>>[1] = op
        BY OneCall
    <1> DEFINE s == <<op>>
    <1>2. s \in Seq(Steps) /\ \A i \in 1 .. Len(s) : s[i] = op
        BY <1>1
    <1> HIDE DEF s
    <1>3. Row(s) /\ \A t : ~Releases(op, t) => Mild(t, s)
        BY <1>2 DEF Row, Ends, Mild, Harmless
    <1> QED
        BY <1>3 DEF s

(* The disconnect of a failed startControlStream releases nothing of a     *)
(* thread.                                                                 *)
LEMMA HangUpRow ==
    ASSUME plan \in Plans
    PROVE  Quiet(HangUp)
    <1>1. plan.tcp => HangUp = <<<<"shutdown", "socket">>>>
        BY DEF HangUp
    <1>2. ~plan.tcp => HangUp = <<<<"set", "interrupted">>>>
        BY DEF HangUp
    <1>3. Quiet(<<<<"shutdown", "socket">>>>) /\ Quiet(<<<<"set", "interrupted">>>>)
        BY StopVocabulary, QuietCall DEF QuietVerbs
    <1> QED
        BY <1>1, <1>2, <1>3
(* The disconnect of stopControlStream begins nothing.                     *)
LEMMA LeaveRow ==
    ASSUME plan \in Plans
    PROVE  Row(Leave) /\ Row(<<<<"disconnect", "gracefully">>>>)
    <1>1. plan.tcp => Leave = <<<<"close", "socket">>>>
        BY DEF Leave
    <1>2. ~plan.tcp => Leave = <<<<"disconnect", "now">>>>
        BY DEF Leave
    <1>3. /\ Row(<<<<"close", "socket">>>>) /\ Row(<<<<"disconnect", "now">>>>)
          /\ Row(<<<<"disconnect", "gracefully">>>>)
        BY StopVocabulary, SingleRow DEF Begins
    <1> QED
        BY <1>1, <1>2, <1>3

(* startControlStream: the threads that exist when a later creation fails. *)
LEMMA CreatedThreads ==
    ASSUME NEW x
    PROVE  /\ Created(x) \in Seq(Threads)
           /\ x \in {"startA", "startB", "loss", "idr", "async", "rfi"}
                 => \E j \in 1 .. Len(Created(x)) : Created(x)[j] = "recv"
           /\ x \in {"idr", "async", "rfi"} => \E j \in 1 .. Len(Created(x)) : Created(x)[j] = "loss"
           /\ x \in {"async", "rfi"} => \E j \in 1 .. Len(Created(x)) : Created(x)[j] = "idr"
           /\ x = "rfi" => \E j \in 1 .. Len(Created(x)) : Created(x)[j] = "async"
    <1>1. CASE x \in {"startA", "startB", "loss"}
        <2>1. Created(x) = <<"recv">>
            BY <1>1 DEF Created
        <2>2. /\ <<"recv">> \in Seq(Threads) /\ Len(<<"recv">>) = 1
              /\ <<"recv">>[1] = "recv"
            BY DEF Threads
        <2> DEFINE s == <<"recv">>
        <2>3. s \in Seq(Threads) /\ 1 \in 1 .. Len(s) /\ s[1] = "recv"
            BY <2>2
        <2> HIDE DEF s
        <2>4. Created(x) = s
            BY <2>1 DEF s
        <2> QED
            BY <1>1, <2>3, <2>4
    <1>2. CASE x = "idr"
        <2>1. Created(x) = <<"loss", "recv">>
            BY <1>2 DEF Created
        <2>2. /\ <<"loss", "recv">> \in Seq(Threads) /\ Len(<<"loss", "recv">>) = 2
              /\ <<"loss", "recv">>[1] = "loss" /\ <<"loss", "recv">>[2] = "recv"
            BY DEF Threads
        <2> DEFINE s == <<"loss", "recv">>
        <2>3. s \in Seq(Threads) /\ 1 \in 1 .. Len(s) /\ s[1] = "loss" /\ 2 \in 1 .. Len(s) /\ s[2] = "recv"
            BY <2>2
        <2> HIDE DEF s
        <2>4. Created(x) = s
            BY <2>1 DEF s
        <2> QED
            BY <1>2, <2>3, <2>4
    <1>3. CASE x = "async"
        <2>1. Created(x) = <<"loss", "recv", "idr">>
            BY <1>3 DEF Created
        <2>2. /\ <<"loss", "recv", "idr">> \in Seq(Threads) /\ Len(<<"loss", "recv", "idr">>) = 3
              /\ <<"loss", "recv", "idr">>[1] = "loss" /\ <<"loss", "recv", "idr">>[2] = "recv" /\ <<"loss", "recv", "idr">>[3] = "idr"
            BY DEF Threads
        <2> DEFINE s == <<"loss", "recv", "idr">>
        <2>3. s \in Seq(Threads) /\ 1 \in 1 .. Len(s) /\ s[1] = "loss" /\ 2 \in 1 .. Len(s) /\ s[2] = "recv" /\ 3 \in 1 .. Len(s) /\ s[3] = "idr"
            BY <2>2
        <2> HIDE DEF s
        <2>4. Created(x) = s
            BY <2>1 DEF s
        <2> QED
            BY <1>3, <2>3, <2>4
    <1>4. CASE x = "rfi"
        <2>1. Created(x) = <<"loss", "recv", "idr", "async">>
            BY <1>4 DEF Created
        <2>2. /\ <<"loss", "recv", "idr", "async">> \in Seq(Threads) /\ Len(<<"loss", "recv", "idr", "async">>) = 4
              /\ <<"loss", "recv", "idr", "async">>[1] = "loss" /\ <<"loss", "recv", "idr", "async">>[2] = "recv" /\ <<"loss", "recv", "idr", "async">>[3] = "idr" /\ <<"loss", "recv", "idr", "async">>[4] = "async"
            BY DEF Threads
        <2> DEFINE s == <<"loss", "recv", "idr", "async">>
        <2>3. s \in Seq(Threads) /\ 1 \in 1 .. Len(s) /\ s[1] = "loss" /\ 2 \in 1 .. Len(s) /\ s[2] = "recv" /\ 3 \in 1 .. Len(s) /\ s[3] = "idr" /\ 4 \in 1 .. Len(s) /\ s[4] = "async"
            BY <2>2
        <2> HIDE DEF s
        <2>4. Created(x) = s
            BY <2>1 DEF s
        <2> QED
            BY <1>4, <2>3, <2>4
    <1>5. CASE x \notin {"startA", "startB", "loss", "idr", "async", "rfi"}
        <2>1. Created(x) = <<>>
            BY <1>5 DEF Created
        <2>2. Created(x) \in Seq(Threads)
            BY <2>1
        <2> QED
            BY <1>5, <2>2
    <1> QED
        BY <1>1, <1>2, <1>3, <1>4, <1>5

(* What startControlStream shuts down when it fails releases nothing.      *)
LEMMA WakesRow ==
    ASSUME NEW x
    PROVE  \A t : Mild(t, Wakes(x))
    <1>1. CASE x = "async"
        <2>1. Wakes(x) = <<<<"set", "event">>>>
            BY <1>1 DEF Wakes
        <2> QED
            BY <2>1, StopVocabulary, QuietCall, QuietIsMild DEF QuietVerbs
    <1>2. CASE x = "rfi"
        <2>1. Wakes(x) = <<<<"set", "event">>, <<"shutdown", "async">>>>
            BY <1>2 DEF Wakes
        <2> QED
            BY <2>1, StopVocabulary, QuietTwo, QuietIsMild DEF QuietVerbs
    <1>3. CASE x \notin {"async", "rfi"}
        <2>1. Wakes(x) = <<>>
            BY <1>3 DEF Wakes
        <2> QED
            BY <2>1, KindsOfRows
    <1> QED
        BY <1>1, <1>2, <1>3

(* When startControlStream fails, the threads it has created are joined.   *)
LEMMA ControlUndoRows ==
    ASSUME plan \in Plans, NEW x
    PROVE  /\ Row(ControlUndo(x))
           /\ \A j \in 1 .. Len(Created(x)) : Joined(Created(x)[j], ControlUndo(x))
    <1> DEFINE a == <<<<"set", "stopping">>>>
               b == Wakes(x)
               c == When(Created(x) # <<>>, HangUp)
               d == End(Created(x))
               e == When(x # "control", Leave)
    <1>1. \A t : Mild(t, a) /\ Mild(t, b)
        BY WakesRow, StopVocabulary, QuietCall, QuietIsMild DEF QuietVerbs
    <1>2. \A t : Mild(t, c)
        <2>1. \A t : Mild(t, HangUp)
            BY HangUpRow, QuietIsMild
        <2>2. (Created(x) # <<>>) \in BOOLEAN
            OBVIOUS
        <2> QED
            BY <2>1, <2>2, PerhapsRows
    <1>3. Quiet(d) /\ \A j \in 1 .. Len(Created(x)) : Joined(Created(x)[j], d)
        BY CreatedThreads, EndJoins
    <1>4. Row(e)
        <2>1. (x # "control") \in BOOLEAN
            OBVIOUS
        <2> QED
            BY <2>1, LeaveRow, PerhapsRows
    <1>5. ControlUndo(x) = (((a \o b) \o c) \o d) \o e
        BY DEF ControlUndo
    <1>6. Row(d)
        BY <1>3, QuietIsMild, KindsOfRows
    <1> HIDE DEF a, b, c, d, e
    <1>7. \A t : Mild(t, (a \o b) \o c)
        BY <1>1, <1>2, RowsTogether
    <1>8. Row(((a \o b) \o c) \o d)
        BY <1>6, <1>7, RowsTogether, KindsOfRows
    <1>9. \A j \in 1 .. Len(Created(x)) : Joined(Created(x)[j], ((a \o b) \o c) \o d)
        BY <1>3, <1>7, RowsTogether
    <1> QED
        BY <1>4, <1>5, <1>8, <1>9, RowsTogether

(* stopControlStream joins every thread of the control stream.             *)
ControlThreads == {"recv", "loss", "idr", "async"}
(* stopControlStream joins every control thread it has started.            *)
LEMMA ControlStopRows ==
    ASSUME plan \in Plans
    PROVE  /\ Row(ControlStop)
           /\ \A t \in ControlThreads : Joined(t, ControlStop)
           /\ plan.rfi => Joined("rfi", ControlStop)
    <1> DEFINE a == <<<<"set", "stopping">>, <<"shutdown", "rfi">>, <<"drain", "async">>, <<"set", "event">>>>
               b == When(plan.tcp, HangUp)
               c == EndAll({"loss", "idr", "recv", "async"})
               d == When(plan.rfi, End(<<"rfi">>))
               e == When(~plan.tcp, <<<<"disconnect", "gracefully">>>>)
               f == When(plan.tcp, Leave)
    <1>0. plan.tcp \in BOOLEAN /\ plan.rfi \in BOOLEAN /\ (~plan.tcp) \in BOOLEAN
        BY DEF Plans
    <1>1. \A t : Mild(t, a)
        BY StopVocabulary, QuietFour, QuietIsMild DEF QuietVerbs
    <1>2. \A t : Mild(t, b)
        BY <1>0, HangUpRow, QuietIsMild, PerhapsRows
    <1>3. (\A t : Mild(t, c)) /\ \A t \in ControlThreads : Joined(t, c)
        <2>1. {"loss", "idr", "recv", "async"} \in SUBSET Threads /\ ControlThreads = {"loss", "idr", "recv", "async"}
            BY DEF Threads, ControlThreads
        <2> QED
            BY <2>1, EndAllJoins, QuietIsMild
    <1>4. (\A t : Mild(t, d)) /\ (plan.rfi => Joined("rfi", d))
        <2>1. <<"rfi">> \in Seq(Threads) /\ Len(<<"rfi">>) = 1 /\ <<"rfi">>[1] = "rfi"
            BY DEF Threads
        <2>2. Quiet(End(<<"rfi">>)) /\ Joined("rfi", End(<<"rfi">>))
            BY <2>1, EndJoins
        <2> QED
            BY <1>0, <2>2, PerhapsRows, QuietIsMild
    <1>5. Row(e) /\ Row(f)
        BY <1>0, LeaveRow, PerhapsRows
    <1>6. ControlStop = ((((a \o b) \o c) \o d) \o e) \o f
        BY DEF ControlStop
    <1> HIDE DEF a, b, c, d, e, f
    <1>7. \A t : Mild(t, (a \o b) \o c) /\ Row((a \o b) \o c)
        BY <1>1, <1>2, <1>3, RowsTogether, KindsOfRows
    <1>8. \A t \in ControlThreads : Joined(t, (a \o b) \o c)
        BY <1>1, <1>2, <1>3, RowsTogether
    <1>9. /\ Row(((a \o b) \o c) \o d)
          /\ \A t \in ControlThreads : Joined(t, ((a \o b) \o c) \o d)
          /\ plan.rfi => Joined("rfi", ((a \o b) \o c) \o d)
        BY <1>4, <1>7, <1>8, RowsTogether, KindsOfRows
    <1>10. Row((((a \o b) \o c) \o d) \o e)
        BY <1>5, <1>9, RowsTogether
    <1> QED
        BY <1>5, <1>6, <1>9, <1>10, RowsTogether

(* A row of two stopping calls.                                            *)
LEMMA TwoRow ==
    ASSUME NEW a \in Steps, a[1] \notin Begins, NEW b \in Steps, b[1] \notin Begins
    PROVE  Row(<<a, b>>) /\ \A t : ~Releases(a, t) /\ ~Releases(b, t) => Mild(t, <<a, b>>)
    <1>1. <<a, b>> \in Seq(Steps) /\ Len(<<a, b>>) = 2 /\ <<a, b>>[1] = a /\ <<a, b>>[2] = b
        OBVIOUS
    <1> DEFINE s == <<a, b>>
    <1>2. s \in Seq(Steps) /\ \A i \in 1 .. Len(s) : s[i] = a \/ s[i] = b
        BY <1>1
    <1> HIDE DEF s
    <1>3. Row(s) /\ \A t : ~Releases(a, t) /\ ~Releases(b, t) => Mild(t, s)
        BY <1>2 DEF Row, Ends, Mild, Harmless
    <1> QED
        BY <1>3 DEF s

VideoThreads == {"vrecv", "vdec", "vping"}
(* The pieces of stopVideoStream release only what the video threads use.  *)
LEMMA VideoPieces ==
    /\ \A t : Mild(t, <<<<"renderer", "stopped">>>>)
    /\ \A t : Mild(t, <<<<"renderer", "stopped">>, <<"stop", "depacketizer">>>>)
    /\ Row(VideoRelease) /\ \A t : t \notin VideoThreads => Mild(t, VideoRelease)
    /\ Row(<<<<"renderer", "cleaned">>>>)
    /\ \A t : t \notin VideoThreads => Mild(t, <<<<"renderer", "cleaned">>>>)
    <1> DEFINE a == <<"renderer", "stopped">>
               b == <<"stop", "depacketizer">>
               c == <<"close", "video">>
               d == <<"renderer", "cleaned">>
    <1>1. a \in Steps /\ b \in Steps /\ c \in Steps /\ d \in Steps
        BY StopVocabulary
    <1>2. a[1] \notin Begins /\ b[1] \notin Begins /\ c[1] \notin Begins /\ d[1] \notin Begins
        BY DEF Begins
    <1>3. \A t : ~Releases(a, t) /\ ~Releases(b, t)
        BY DEF Releases
    <1>4. \A t : t \notin VideoThreads => ~Releases(c, t) /\ ~Releases(d, t)
        BY DEF Releases, VideoThreads
    <1>5. VideoRelease = <<c, d>>
        BY DEF VideoRelease
    <1> HIDE DEF a, b, c, d
    <1>6. /\ \A t : Mild(t, <<a>>) /\ Mild(t, <<a, b>>)
          /\ Row(<<c, d>>) /\ Row(<<d>>)
          /\ \A t : t \notin VideoThreads => Mild(t, <<c, d>>) /\ Mild(t, <<d>>)
        BY <1>1, <1>2, <1>3, <1>4, SingleRow, TwoRow
    <1> QED
        BY <1>5, <1>6 DEF a, b, c, d

(* When startVideoStream fails, the threads it has created are joined.     *)
LEMMA VideoUndoRows ==
    ASSUME NEW x
    PROVE  /\ Row(VideoUndo(x))
           /\ \A t : t \notin VideoThreads => Mild(t, VideoUndo(x))
           /\ x \notin {"setup", "bind", "vrecv"} => Joined("vrecv", VideoUndo(x))
           /\ x \notin {"setup", "bind", "vrecv", "vdec"} /\ ~plan.direct => Joined("vdec", VideoUndo(x))
    <1>1. CASE x = "setup"
        <2>1. VideoUndo(x) = <<>>
            BY <1>1 DEF VideoUndo
        <2> QED
            BY <1>1, <2>1, KindsOfRows
    <1>2. CASE x = "bind"
        <2>1. VideoUndo(x) = <<<<"renderer", "cleaned">>>>
            BY <1>2 DEF VideoUndo
        <2> QED
            BY <1>2, <2>1, VideoPieces
    <1>3. CASE x = "vrecv"
        <2>1. VideoUndo(x) = <<<<"renderer", "stopped">>>> \o VideoRelease
            BY <1>3 DEF VideoUndo
        <2>2. Row(VideoUndo(x)) /\ \A t : t \notin VideoThreads => Mild(t, VideoUndo(x))
            BY <2>1, VideoPieces, RowsTogether, KindsOfRows
        <2> QED
            BY <1>3, <2>2
    <1>4. CASE x = "vdec"
        <2> DEFINE a == <<<<"renderer", "stopped">>>>
                   b == End(<<"vrecv">>)
        <2>1. VideoUndo(x) = (a \o b) \o VideoRelease
            BY <1>4 DEF VideoUndo
        <2>2. \A t : Mild(t, a)
            BY VideoPieces
        <2>3. (\A t : Mild(t, b)) /\ Joined("vrecv", b)
            <3> DEFINE s == <<"vrecv">>
            <3>1. s \in Seq(Threads) /\ 1 \in 1 .. Len(s) /\ s[1] = "vrecv"
                BY DEF Threads
            <3> HIDE DEF s
            <3>2. Quiet(End(s)) /\ Joined("vrecv", End(s))
                BY <3>1, EndJoins
            <3>3. b = End(s)
                BY DEF s
            <3> QED
                BY <3>2, <3>3, QuietIsMild
        <2> HIDE DEF a, b
        <2>4. (\A t : Mild(t, a \o b)) /\ Joined("vrecv", a \o b)
            BY <2>2, <2>3, RowsTogether
        <2>5. /\ Row(VideoUndo(x)) /\ \A t : t \notin VideoThreads => Mild(t, VideoUndo(x))
              /\ Joined("vrecv", VideoUndo(x))
            BY <2>1, <2>4, VideoPieces, RowsTogether, KindsOfRows
        <2> QED
            BY <1>4, <2>5
    <1>5. CASE x \notin {"setup", "bind", "vrecv", "vdec"}
        <2> DEFINE a == <<<<"renderer", "stopped">>, <<"stop", "depacketizer">>>>
                   ts == {"vrecv"} \cup Decoders
                   b == EndAll(ts)
        <2>1. VideoUndo(x) = (a \o b) \o VideoRelease
            BY <1>5 DEF VideoUndo
        <2>2. \A t : Mild(t, a)
            BY VideoPieces
        <2>3. ts \in SUBSET Threads /\ "vrecv" \in ts /\ (~plan.direct => "vdec" \in ts)
            BY DEF Threads, Decoders
        <2>4. (\A t : Mild(t, b)) /\ \A t \in ts : Joined(t, b)
            BY <2>3, EndAllJoins, QuietIsMild
        <2> HIDE DEF a, b, ts
        <2>5. (\A t : Mild(t, a \o b)) /\ \A t \in ts : Joined(t, a \o b)
            BY <2>2, <2>4, RowsTogether
        <2>6. /\ Row(VideoUndo(x)) /\ \A t : t \notin VideoThreads => Mild(t, VideoUndo(x))
              /\ \A t \in ts : Joined(t, VideoUndo(x))
            BY <2>1, <2>5, VideoPieces, RowsTogether, KindsOfRows
        <2> QED
            BY <1>5, <2>3, <2>6
    <1> QED
        BY <1>1, <1>2, <1>3, <1>4, <1>5

(* stopVideoStream joins every thread of the video stream.                 *)
LEMMA VideoStopRows ==
    /\ Row(VideoStop)
    /\ \A t : t \notin VideoThreads => Mild(t, VideoStop)
    /\ \A t \in {"vrecv", "vping"} \cup Decoders : Joined(t, VideoStop)
    <1> DEFINE a == <<<<"renderer", "stopped">>, <<"stop", "depacketizer">>>>
               ts == {"vping", "vrecv"} \cup Decoders
               b == EndAll(ts)
    <1>1. VideoStop = (a \o b) \o VideoRelease
        BY DEF VideoStop
    <1>2. \A t : Mild(t, a)
        BY VideoPieces
    <1>3. ts \in SUBSET Threads
        BY DEF Threads, Decoders
    <1>4. (\A t : Mild(t, b)) /\ \A t \in ts : Joined(t, b)
        BY <1>3, EndAllJoins, QuietIsMild
    <1>5. {"vrecv", "vping"} \cup Decoders = ts
        OBVIOUS
    <1> HIDE DEF a, b, ts
    <1>6. (\A t : Mild(t, a \o b)) /\ \A t \in ts : Joined(t, a \o b)
        BY <1>2, <1>4, RowsTogether
    <1>7. /\ Row(VideoStop) /\ \A t : t \notin VideoThreads => Mild(t, VideoStop)
          /\ \A t \in ts : Joined(t, VideoStop)
        BY <1>1, <1>6, VideoPieces, RowsTogether, KindsOfRows
    <1> QED
        BY <1>5, <1>7

(* stopInputStream joins the input thread before it drains the queue.      *)
LEMMA InputStopRows == (\A t : t # "input" => Mild(t, InputStop)) /\ Joined("input", InputStop)
    <1> DEFINE a == <<"drain", "input">>
               b == <<"join", {"input"}>>
    <1>1. a \in Steps /\ b \in Steps /\ a[1] \in QuietVerbs /\ b[1] \in QuietVerbs
        <2>1. {"input"} \in SUBSET Threads
            BY DEF Threads
        <2> QED
            BY <2>1, StopVocabulary, Vocabulary DEF QuietVerbs
    <1>2. Joins(b, "input")
        BY DEF Joins
    <1>3. InputStop = <<a, b>>
        BY DEF InputStop
    <1> HIDE DEF a, b
    <1>4. Quiet(<<a, b>>)
        BY <1>1, QuietTwo
    <1>5. 2 \in 1 .. Len(<<a, b>>) /\ <<a, b>>[2] = b
        OBVIOUS
    <1>6. Joined("input", InputStop)
        BY <1>2, <1>3, <1>4, <1>5, QuietIsMild, KindsOfRows DEF Joined, Freed
    <1> QED
        BY <1>3, <1>4, <1>6, QuietIsMild

(* LiStopConnection from stage k joins every thread the stages up to k     *)
(* have created before it releases what the thread uses.                   *)
LEMMA StopRows ==
    ASSUME plan \in Plans, NEW k \in 0..11
    PROVE  /\ Row(StopFrom(k))
           /\ k >= 11 => Joined("input", StopFrom(k))
           /\ k >= 9 => \A t \in {"vrecv", "vping"} \cup Decoders : Joined(t, StopFrom(k))
           /\ k >= 8 => /\ \A t \in ControlThreads : Joined(t, StopFrom(k))
                        /\ plan.rfi => Joined("rfi", StopFrom(k))
    <1> DEFINE a == <<<<"set", "terminated">>, <<"set", "interrupted">>>>
               b == When(k >= 11, InputStop)
               c == When(k >= 10, <<<<"free", "playback">>>>)
               d == When(k >= 9, VideoStop)
               e == When(k >= 8, ControlStop)
               f == When(k >= 7, <<<<"free", "input">>>>)
               g == When(k >= 6, <<<<"free", "video">>>>)
               h == When(k >= 5, <<<<"free", "control">>>>)
               i == When(k >= 3, <<<<"free", "audio">>>>)
               j == When(k >= 1, <<<<"free", "platform">>>>)
               vs == {"vrecv", "vping"} \cup Decoders
    <1>0. /\ (k >= 11) \in BOOLEAN /\ (k >= 10) \in BOOLEAN /\ (k >= 9) \in BOOLEAN /\ (k >= 8) \in BOOLEAN
          /\ (k >= 7) \in BOOLEAN /\ (k >= 6) \in BOOLEAN /\ (k >= 5) \in BOOLEAN
          /\ (k >= 3) \in BOOLEAN /\ (k >= 1) \in BOOLEAN
        OBVIOUS
    <1>1. \A t : Mild(t, a)
        BY StopVocabulary, QuietTwo, QuietIsMild DEF QuietVerbs
    <1>2. (\A t : t # "input" => Mild(t, b)) /\ (k >= 11 => Joined("input", b)) /\ Row(b)
        BY <1>0, InputStopRows, PerhapsRows, KindsOfRows
    <1>3. \A t : Mild(t, c)
        <2>1. \A t : ~Releases(<<"free", "playback">>, t)
            BY DEF Releases
        <2>2. <<"free", "playback">>[1] \notin Begins
            BY DEF Begins
        <2>3. \A t : Mild(t, <<<<"free", "playback">>>>)
            BY <2>1, <2>2, StopVocabulary, SingleRow
        <2> QED
            BY <1>0, <2>3, PerhapsRows
    <1>4. /\ Row(d)
          /\ \A t : t \notin VideoThreads => Mild(t, d)
          /\ k >= 9 => \A t \in vs : Joined(t, d)
        BY <1>0, VideoStopRows, PerhapsRows
    <1>5. /\ Row(e)
          /\ k >= 8 => (\A t \in ControlThreads : Joined(t, e)) /\ (plan.rfi => Joined("rfi", e))
        BY <1>0, ControlStopRows, PerhapsRows
    <1>6. Row(f) /\ Row(g) /\ Row(h) /\ Row(i) /\ Row(j)
        <2>1. /\ Row(<<<<"free", "input">>>>) /\ Row(<<<<"free", "video">>>>) /\ Row(<<<<"free", "control">>>>)
              /\ Row(<<<<"free", "audio">>>>) /\ Row(<<<<"free", "platform">>>>)
            BY StopVocabulary, SingleRow DEF Begins
        <2> QED
            BY <1>0, <2>1, PerhapsRows
    <1>7. StopFrom(k) = ((((((((a \o b) \o c) \o d) \o e) \o f) \o g) \o h) \o i) \o j
        BY DEF StopFrom
    <1>8. "input" \notin vs /\ "input" \notin ControlThreads /\ vs \cap ControlThreads = {}
          /\ ControlThreads \cap VideoThreads = {} /\ vs \subseteq VideoThreads /\ "rfi" \notin VideoThreads
        BY DEF ControlThreads, VideoThreads, Decoders
    <1> HIDE DEF a, b, c, d, e, f, g, h, i, j, vs
    <1> DEFINE s1 == (a \o b) \o c
               s2 == s1 \o d
               s3 == s2 \o e
               s4 == ((((s3 \o f) \o g) \o h) \o i) \o j
    <1>9. /\ \A t : t # "input" => Mild(t, s1)
          /\ k >= 11 => Joined("input", s1)
          /\ Row(s1)
        BY <1>1, <1>2, <1>3, RowsTogether, KindsOfRows
    <1> HIDE DEF s1
    <1>10. /\ Row(s2)
           /\ k >= 11 => Joined("input", s2)
           /\ k >= 9 => \A t \in vs : Joined(t, s2)
           /\ \A t : t # "input" /\ t \notin VideoThreads => Mild(t, s2)
        BY <1>4, <1>8, <1>9, RowsTogether
    <1> HIDE DEF s2
    <1>11. /\ Row(s3)
           /\ k >= 11 => Joined("input", s3)
           /\ k >= 9 => \A t \in vs : Joined(t, s3)
           /\ k >= 8 => (\A t \in ControlThreads : Joined(t, s3)) /\ (plan.rfi => Joined("rfi", s3))
        <2>1. \A t \in ControlThreads : t # "input" /\ t \notin VideoThreads
            BY <1>8
        <2>2. "rfi" # "input" /\ "rfi" \notin VideoThreads
            BY <1>8
        <2> QED
            BY <1>5, <1>10, <2>1, <2>2, RowsTogether
    <1> HIDE DEF s3
    <1>12. /\ Row(s4)
           /\ \A t : Joined(t, s3) => Joined(t, s4)
        BY <1>6, <1>11, RowsTogether
    <1>13. StopFrom(k) = s4
        BY <1>7 DEF s1, s2, s3
    <1> HIDE DEF s4
    <1> QED
        BY <1>11, <1>12, <1>13 DEF vs

(* A failed call of startControlStream is undone by startControlStream     *)
(* itself.                                                                 *)
LEMMA ControlUndone ==
    ASSUME NEW op, op[2] \in {"recv", "startA", "startB", "loss", "idr", "async", "rfi", "control"}
    PROVE  UndoOf(op) = ControlUndo(op[2])
    <1>1. /\ op[2] \notin {"vrecv", "vdec", "vping"}
          /\ op # <<"bind", "video">> /\ op # <<"connect", "video">>
        OBVIOUS
    <1> QED
        BY <1>1 DEF UndoOf
(* Every undo is a row of stopping calls.                                  *)
LEMMA UndoRows ==
    ASSUME plan \in Plans, NEW op
    PROVE  Row(UndoOf(op))
    <1>1. CASE op[2] \in {"recv", "startA", "startB", "loss", "idr", "async", "rfi", "control"}
        <2>1. UndoOf(op) = ControlUndo(op[2])
            BY <1>1, ControlUndone
        <2> QED
            BY <2>1, ControlUndoRows
    <1>2. CASE op[2] \in {"vrecv", "vdec", "vping"}
        <2>1. UndoOf(op) = VideoUndo(op[2])
            BY <1>2 DEF UndoOf
        <2> QED
            BY <2>1, VideoUndoRows
    <1>3. CASE op = <<"bind", "video">>
        <2>1. UndoOf(op) = VideoUndo("bind")
            BY <1>3 DEF UndoOf
        <2> QED
            BY <2>1, VideoUndoRows
    <1>4. CASE op = <<"connect", "video">>
        <2>1. UndoOf(op) = VideoUndo("first")
            BY <1>4 DEF UndoOf
        <2> QED
            BY <2>1, VideoUndoRows
    <1>5. CASE /\ op[2] \notin {"recv", "startA", "startB", "loss", "idr", "async", "rfi", "control"}
               /\ op[2] \notin {"vrecv", "vdec", "vping"}
               /\ op # <<"bind", "video">> /\ op # <<"connect", "video">>
        <2>1. UndoOf(op) = <<>>
            BY <1>5 DEF UndoOf
        <2> QED
            BY <2>1, KindsOfRows
    <1> QED
        BY <1>1, <1>2, <1>3, <1>4, <1>5

(* Wherever a start fails, what has been created until then is joined      *)
(* before what it uses is released.                                        *)
LEMMA ControlFailureIsUndone ==
    ASSUME plan \in Plans, NEW v, NEW x,
           x \in {"control", "recv", "startA", "startB", "loss", "idr", "async", "rfi"},
           NEW t \in Threads,
           \/ t = "recv" /\ x \in {"startA", "startB", "loss", "idr", "async", "rfi"}
           \/ t = "loss" /\ x \in {"idr", "async", "rfi"}
           \/ t = "idr" /\ x \in {"async", "rfi"}
           \/ t = "async" /\ x = "rfi"
    PROVE  Safe(t, UndoOf(<<v, x>>) \o StopFrom(7))
    <1>1. UndoOf(<<v, x>>) = ControlUndo(x)
        <2> DEFINE op == <<v, x>>
        <2>1. op[2] = x
            OBVIOUS
        <2> HIDE DEF op
        <2>2. UndoOf(op) = ControlUndo(op[2])
            BY <2>1, ControlUndone
        <2> QED
            BY <2>1, <2>2 DEF op
    <1>2. PICK j \in 1 .. Len(Created(x)) : Created(x)[j] = t
        BY CreatedThreads
    <1>3. Joined(t, ControlUndo(x))
        <2>1. Joined(Created(x)[j], ControlUndo(x))
            BY ControlUndoRows
        <2> QED
            BY <1>2, <2>1
    <1>4. Row(StopFrom(7))
        <2>1. 7 \in 0..11
            OBVIOUS
        <2> QED
            BY <2>1, StopRows
    <1> QED
        BY <1>1, <1>3, <1>4, RowsTogether, KindsOfRows

(* A failed startVideoStream, then the Cleanup of LiStartConnection, is    *)
(* safe for every thread that lives.                                       *)
LEMMA VideoFailureIsUndone ==
    ASSUME plan \in Plans, NEW x, NEW u, u = VideoUndo(x), NEW t \in Threads,
           \/ t \in ControlThreads
           \/ t = "rfi" /\ plan.rfi
           \/ t = "vrecv" /\ x \notin {"setup", "bind", "vrecv"}
           \/ t = "vdec" /\ x \notin {"setup", "bind", "vrecv", "vdec"} /\ ~plan.direct
    PROVE  Safe(t, u \o StopFrom(8))
    <1>1. /\ Row(StopFrom(8)) /\ \A c \in ControlThreads : Joined(c, StopFrom(8))
          /\ plan.rfi => Joined("rfi", StopFrom(8))
        BY StopRows
    <1>2. CASE t \in ControlThreads \/ (t = "rfi" /\ plan.rfi)
        <2>1. t \notin VideoThreads
            BY <1>2 DEF ControlThreads, VideoThreads
        <2>2. Mild(t, u) /\ Joined(t, StopFrom(8))
            BY <1>1, <1>2, <2>1, VideoUndoRows
        <2> QED
            BY <2>2, RowsTogether, KindsOfRows
    <1>3. CASE \/ t = "vrecv" /\ x \notin {"setup", "bind", "vrecv"}
               \/ t = "vdec" /\ x \notin {"setup", "bind", "vrecv", "vdec"} /\ ~plan.direct
        <2>1. Joined(t, u)
            BY <1>3, VideoUndoRows
        <2> QED
            BY <1>1, <2>1, RowsTogether, KindsOfRows
    <1> QED
        BY <1>2, <1>3

(* Whichever call of LiStartConnection fails, its undo and Cleanup are     *)
(* safe for the threads created until then.                                *)
LEMMA FailureIsUndone ==
    ASSUME plan \in Plans, NEW n \in 0..10, NEW k \in 1 .. Len(StartOf[n + 1]), NEW op, IsCall(n, k, op)
    PROVE  /\ Row(UndoOf(op) \o StopFrom(n))
           /\ \A t \in Born(n, k - 1) : Safe(t, UndoOf(op) \o StopFrom(n))
    <1>1. n \in 0..11 /\ k \in Nat /\ Len(VideoStart) \in {5, 6, 7} /\ k - 1 \in Nat
        <2>1. Len(VideoStart) \in {5, 6, 7} /\ Len(StartOf[n + 1]) \in Nat
            BY StartCalls
        <2> QED
            BY <2>1
    <1>2. Row(UndoOf(op) \o StopFrom(n))
        BY <1>1, UndoRows, StopRows, RowsTogether
    <1>3. ASSUME NEW t \in Born(n, k - 1)
          PROVE  Safe(t, UndoOf(op) \o StopFrom(n))
        <2>1. CASE n < 7
            <3>1. FALSE
                BY <1>1, <1>3, <2>1 DEF Born, Reached
            <3> QED
                BY <3>1
        <2>2. CASE n = 7
            <3>1. k \in 1 .. 8 /\ t \in Threads
                <4>1. k \in 1 .. 8
                    <5> DEFINE len == Len(StartOf[n + 1])
                    <5>1. len = 7 \/ len = 8
                        BY <2>2, CallCounts
                    <5>2. k \in 1 .. len
                        OBVIOUS
                    <5> HIDE DEF len
                    <5>3. len \in Nat /\ len <= 8
                        BY <5>1
                    <5> QED
                        BY <5>2, <5>3
                <4> QED
                    BY <4>1 DEF Born
            <3>2. /\ t = "recv" => k - 1 >= 2
                  /\ t = "loss" => k - 1 >= 5
                  /\ t = "idr" => k - 1 >= 6
                  /\ t = "async" => k - 1 >= 7
                  /\ t \in {"recv", "loss", "idr", "async"}
                BY <1>1, <2>2, <3>1 DEF Born, Reached
            <3>3. /\ k = 3 => op = <<"send", "startA">>
                  /\ k = 4 => op = <<"send", "startB">>
                  /\ k = 5 => op = <<"create", "loss">>
                  /\ k = 6 => op = <<"create", "idr">>
                  /\ k = 7 => op = <<"create", "async">>
                  /\ k = 8 => op = <<"create", "rfi">>
                BY <2>2 DEF IsCall
            <3>4. /\ k \in 3 .. 8
                  /\ t = "loss" => k \in 6 .. 8
                  /\ t = "idr" => k \in 7 .. 8
                  /\ t = "async" => k = 8
                BY <3>1, <3>2
            <3>5. PICK x : /\ \E v : op = <<v, x>>
                           /\ x \in {"control", "recv", "startA", "startB", "loss", "idr", "async", "rfi"}
                           /\ \/ t = "recv" /\ x \in {"startA", "startB", "loss", "idr", "async", "rfi"}
                              \/ t = "loss" /\ x \in {"idr", "async", "rfi"}
                              \/ t = "idr" /\ x \in {"async", "rfi"}
                              \/ t = "async" /\ x = "rfi"
                <4>1. CASE k = 3
                    BY <3>2, <3>3, <3>4, <4>1
                <4>2. CASE k = 4
                    BY <3>2, <3>3, <3>4, <4>2
                <4>3. CASE k = 5
                    BY <3>2, <3>3, <3>4, <4>3
                <4>4. CASE k = 6
                    BY <3>2, <3>3, <3>4, <4>4
                <4>5. CASE k = 7
                    BY <3>2, <3>3, <3>4, <4>5
                <4>6. CASE k = 8
                    BY <3>2, <3>3, <3>4, <4>6
                <4> QED
                    BY <3>4, <4>1, <4>2, <4>3, <4>4, <4>5, <4>6
            <3> QED
                BY <2>2, <3>1, <3>5, ControlFailureIsUndone
        <2>3. CASE n = 8
            <3>1. k \in 1 .. 7 /\ t \in Threads
                BY <1>1, <2>3 DEF IsCall, Born
            <3>2. /\ t = "vrecv" => k - 1 >= 4
                  /\ t = "vdec" => k - 1 >= 5 /\ ~plan.direct
                  /\ t = "vping" => k - 1 >= Len(VideoStart)
                  /\ t = "rfi" => plan.rfi
                  /\ t # "input"
                BY <1>1, <2>3, <3>1 DEF Born, Reached
            <3>3. k <= Len(VideoStart)
                BY <1>1, <2>3, StartCalls
            <3>4. t \in ControlThreads \cup {"rfi", "vrecv", "vdec"}
                BY <1>1, <3>1, <3>2, <3>3 DEF Threads, ControlThreads
            <3>5. PICK x : /\ UndoOf(op) = VideoUndo(x)
                           /\ k > 4 => x \notin {"setup", "bind", "vrecv"}
                           /\ k > 5 => x # "vdec"
                <4>1. CASE op = <<"renderer", "setup">> /\ k = 1
                    <5>1. UndoOf(op) = <<>> /\ VideoUndo("setup") = <<>>
                        BY <4>1 DEF UndoOf, VideoUndo
                    <5> QED
                        BY <4>1, <5>1
                <4>2. CASE op = <<"bind", "video">> /\ k = 2
                    <5>1. UndoOf(op) = VideoUndo("bind")
                        BY <4>2 DEF UndoOf
                    <5> QED
                        BY <4>2, <5>1
                <4>3. CASE op = <<"renderer", "started">> /\ k = 3
                    <5>1. UndoOf(op) = <<>> /\ VideoUndo("setup") = <<>>
                        BY <4>3 DEF UndoOf, VideoUndo
                    <5> QED
                        BY <4>3, <5>1
                <4>4. CASE op = <<"create", "vrecv">> /\ k = 4
                    <5>1. UndoOf(op) = VideoUndo("vrecv")
                        BY <4>4 DEF UndoOf
                    <5> QED
                        BY <4>4, <5>1
                <4>5. CASE op = <<"create", "vdec">> /\ k = 5
                    <5>1. UndoOf(op) = VideoUndo("vdec")
                        BY <4>5 DEF UndoOf
                    <5> QED
                        BY <4>5, <5>1
                <4>6. CASE op = <<"connect", "video">>
                    <5>1. UndoOf(op) = VideoUndo("first")
                        BY <4>6 DEF UndoOf
                    <5> QED
                        BY <5>1
                <4>7. CASE op = <<"create", "vping">>
                    <5>1. UndoOf(op) = VideoUndo("vping")
                        BY <4>7 DEF UndoOf
                    <5> QED
                        BY <5>1
                <4> QED
                    BY <2>3, <4>1, <4>2, <4>3, <4>4, <4>5, <4>6, <4>7 DEF IsCall
            <3>6. \/ t \in ControlThreads
                  \/ t = "rfi" /\ plan.rfi
                  \/ t = "vrecv" /\ x \notin {"setup", "bind", "vrecv"}
                  \/ t = "vdec" /\ x \notin {"setup", "bind", "vrecv", "vdec"} /\ ~plan.direct
                <4>1. (t = "vrecv" => k > 4) /\ (t = "vdec" => k > 5 /\ k > 4)
                    BY <1>1, <3>2
                <4> QED
                    BY <3>2, <3>4, <3>5, <4>1
            <3> QED
                BY <2>3, <3>1, <3>5, <3>6, VideoFailureIsUndone
        <2>4. CASE n \in {9, 10}
            <3>1. UndoOf(op) = <<>>
                <4>1. op = <<"open", "playback">> \/ op = <<"create", "input">>
                    BY <2>4 DEF IsCall
                <4> QED
                    BY <4>1 DEF UndoOf
            <3>2. \/ t \in ControlThreads
                  \/ t = "rfi" /\ plan.rfi
                  \/ t \in {"vrecv", "vping"} \cup Decoders
                <4>1. t # "input" /\ t \in Threads
                    <5>1. k = 1
                        BY <2>4 DEF IsCall
                    <5> QED
                        BY <2>4, <5>1 DEF Born, Reached
                <4>2. (t = "rfi" => plan.rfi) /\ (t = "vdec" => ~plan.direct)
                    BY DEF Born
                <4> QED
                    BY <4>1, <4>2 DEF Threads, ControlThreads, Decoders
            <3>3. Joined(t, StopFrom(n))
                <4>1. n >= 9 /\ n >= 8
                    BY <2>4
                <4> QED
                    BY <1>1, <3>2, <4>1, StopRows
            <3> QED
                BY <3>1, <3>3, RowsTogether, KindsOfRows
        <2>5. n < 7 \/ n = 7 \/ n = 8 \/ n \in {9, 10}
            OBVIOUS
        <2> QED
            BY <2>1, <2>2, <2>3, <2>4, <2>5
    <1> QED
        BY <1>2, <1>3

(* The same when the answer to a message of the start does not come, and   *)
(* when the client stops.                                                  *)
LEMMA AnswerFailureIsUndone ==
    ASSUME plan \in Plans, NEW k \in {3, 4}, NEW v, NEW x \in {"startA", "startB"}
    PROVE  /\ Row(UndoOf(<<v, x>>) \o StopFrom(7))
           /\ \A t \in Born(7, k) : Safe(t, UndoOf(<<v, x>>) \o StopFrom(7))
    <1>1. Row(UndoOf(<<v, x>>) \o StopFrom(7))
        BY UndoRows, StopRows, RowsTogether
    <1>2. \A t \in Born(7, k) : t = "recv" /\ t \in Threads
        <2>1. Len(VideoStart) \in {5, 6, 7}
            <3>1. 7 \in 0..10
                OBVIOUS
            <3> QED
                BY <3>1, CallCounts
        <2> QED
            BY <2>1 DEF Born, Reached
    <1> QED
        BY <1>1, <1>2, ControlFailureIsUndone
(* LiStopConnection is safe for every thread of a whole connection.        *)
LEMMA StopIsSafe ==
    ASSUME plan \in Plans
    PROVE  Row(StopFrom(11)) /\ \A t \in Born(11, 0) : Safe(t, StopFrom(11))
    <1>1. ASSUME NEW t \in Born(11, 0)
          PROVE  Joined(t, StopFrom(11))
        <2>1. (t = "rfi" => plan.rfi) /\ (t = "vdec" => ~plan.direct) /\ t \in Threads
            BY DEF Born
        <2>2. \/ t \in ControlThreads
              \/ t = "rfi" /\ plan.rfi
              \/ t \in {"vrecv", "vping"} \cup Decoders
              \/ t = "input"
            BY <2>1 DEF Threads, ControlThreads, Decoders
        <2>3. /\ Joined("input", StopFrom(11))
              /\ \A c \in {"vrecv", "vping"} \cup Decoders : Joined(c, StopFrom(11))
              /\ \A c \in ControlThreads : Joined(c, StopFrom(11))
              /\ plan.rfi => Joined("rfi", StopFrom(11))
            BY StopRows
        <2> QED
            BY <2>2, <2>3
    <1> QED
        BY <1>1, StopRows, KindsOfRows

--------------------------------------------------------------------------------
(* What a call of ENet does to the link: messages stay in order, none of   *)
(* those that wait is dropped before a goodbye, and the link stays up.     *)
LEMMA Messaging ==
    ASSUME plan \in Plans
    PROVE  /\ Said \subseteq Messages
           /\ \A m \in Said : m.n \in Nat /\ m # Nothing /\ m # Goodbye /\ m.kind \in HostKinds
                              /\ m.kind # "disconnect" /\ m.kind # "nothing"
           /\ Nothing # Goodbye /\ Goodbye.kind = "disconnect" /\ Nothing.kind = "nothing"
           /\ plan.msgs \in Seq(Said)
    <1>1. plan.msgs \in Seq(Messages)
        BY DEF Plans
    <1>2. Said \subseteq Messages /\ plan.msgs \in Seq(Said)
        BY <1>1 DEF Said
    <1>3. \A m \in Messages : m.n \in Nat /\ m.kind \in HostKinds
        BY DEF Messages
    <1>4. "disconnect" \notin HostKinds /\ "nothing" \notin HostKinds
        BY DEF HostKinds
    <1>5. Nothing # Goodbye /\ Goodbye.kind = "disconnect" /\ Nothing.kind = "nothing"
        BY DEF Nothing, Goodbye
    <1> QED
        BY <1>2, <1>3, <1>4, <1>5

(* The two halves of a sequence of messages.                               *)
LEMMA Splitting ==
    ASSUME NEW S, NEW w \in Seq(S), NEW k \in 0 .. Len(w)
    PROVE  /\ SubSeq(w, 1, k) \in Seq(S) /\ Len(SubSeq(w, 1, k)) = k
           /\ \A i \in 1 .. k : SubSeq(w, 1, k)[i] = w[i]
           /\ SubSeq(w, k + 1, Len(w)) \in Seq(S) /\ Len(SubSeq(w, k + 1, Len(w))) = Len(w) - k
           /\ \A i \in 1 .. Len(w) - k : SubSeq(w, k + 1, Len(w))[i] = w[i + k]
    <1>1. SubSeq(w, 1, k) \in Seq(S) /\ Len(SubSeq(w, 1, k)) = k
        BY SubSeqProperties
    <1>2. \A i \in 1 .. k : SubSeq(w, 1, k)[i] = w[i]
        BY SubSeqProperties
    <1>3. SubSeq(w, k + 1, Len(w)) \in Seq(S) /\ Len(SubSeq(w, k + 1, Len(w))) = Len(w) - k
        BY SubSeqProperties
    <1>4. \A i \in 1 .. Len(w) - k : SubSeq(w, k + 1, Len(w))[i] = w[i + k]
        BY SubSeqProperties
    <1> QED
        BY <1>1, <1>2, <1>3, <1>4

(* The link m after a step that keeps it up.                               *)
Follows(l, m) ==
    /\ m \in Links /\ LinkIsSound(m) /\ Ordered(m)
    /\ \A b \in Nat : Above(b, l) => Above(b, m)
    /\ l.pending => m.pending
    /\ l.peer # "null" => m.peer # "null"
    /\ m.sock = l.sock /\ m.intercept = l.intercept
Sound(l) == l \in Links /\ LinkIsSound(l) /\ Ordered(l)

(* The fields of a link have their types.                                  *)
LEMMA LinkFields ==
    ASSUME NEW l \in Links
    PROVE  /\ l.peer \in {"null", "connected", "zombie", "disconnected"}
           /\ l.sock \in {"invalid", "open", "shutdown"}
           /\ l.intercept \in BOOLEAN /\ l.pending \in BOOLEAN /\ l.lost \in BOOLEAN
           /\ l.wire \in Seq(Said) /\ l.inbox \in Seq(Said)
           /\ Len(l.wire) \in Nat /\ Len(l.inbox) \in Nat
    BY DEF Links

(* A sound link follows itself.                                            *)
LEMMA StandsStill ==
    ASSUME NEW l, Sound(l)
    PROVE  Follows(l, l)
    BY DEF Sound, Follows

(* A link whose peer was reset holds no more messages than before.         *)
LEMMA SeveredFollows ==
    ASSUME NEW l, Sound(l), l.peer = "connected", l.inbox = <<>> \/ plan.bundled
    PROVE  Follows(l, Severed(l))
    <1> DEFINE m == Severed(l)
               dropped == l.lost \/ l.inbox # <<>>
    <1>1. l \in Links
        BY DEF Sound
    <1>2. m = [l EXCEPT !.peer = "zombie", !.inbox = <<>>, !.lost = dropped]
        BY DEF Severed
    <1>3. dropped \in BOOLEAN
        OBVIOUS
    <1> HIDE DEF m, dropped
    <1>4. /\ m \in Links /\ m.peer = "zombie" /\ m.inbox = <<>> /\ m.lost = dropped
          /\ m.wire = l.wire /\ m.pending = l.pending /\ m.sock = l.sock /\ m.intercept = l.intercept
        <2>1. <<>> \in Seq(Said)
            OBVIOUS
        <2>2. [l EXCEPT !.peer = "zombie", !.inbox = <<>>, !.lost = dropped] \in Links
            BY <1>1, <1>3, <2>1 DEF Links
        <2>3. /\ m.peer = "zombie" /\ m.inbox = <<>> /\ m.lost = dropped
              /\ m.wire = l.wire /\ m.pending = l.pending /\ m.sock = l.sock /\ m.intercept = l.intercept
            BY <1>1, <1>2 DEF Links
        <2> QED
            BY <1>2, <2>2, <2>3
    <1>5. LinkIsSound(m)
        BY <1>4 DEF LinkIsSound, Sound, dropped
    <1>6. Ordered(m) /\ \A b \in Nat : Above(b, l) => Above(b, m)
        <2>1. Len(m.inbox) = 0 /\ \A i \in 1 .. Len(m.inbox) : FALSE
            BY <1>4
        <2>2. Ordered(m)
            BY <1>4, <2>1 DEF Sound, Ordered
        <2>3. \A b \in Nat : Above(b, l) => Above(b, m)
            BY <1>4, <2>1 DEF Above
        <2> QED
            BY <2>2, <2>3
    <1>7. Follows(l, m)
        BY <1>4, <1>5, <1>6 DEF Follows
    <1> QED
        BY <1>7 DEF m

(* Messages that arrive move from the wire to the inbox, in order.         *)
LEMMA ArrivingFollows ==
    ASSUME NEW l, Sound(l), l.peer = "connected", host # "expired", NEW k \in 0 .. Len(l.wire), NEW m,
           m = [l EXCEPT !.inbox = @ \o SubSeq(l.wire, 1, k), !.wire = SubSeq(@, k + 1, Len(@))]
    PROVE  Follows(l, m) /\ m.peer = l.peer
    <1> DEFINE a == SubSeq(l.wire, 1, k)
               c == SubSeq(l.wire, k + 1, Len(l.wire))
    <1>1. /\ l \in Links /\ l.wire \in Seq(Said) /\ l.inbox \in Seq(Said)
          /\ Len(l.wire) \in Nat /\ Len(l.inbox) \in Nat /\ l.pending \in BOOLEAN /\ l.lost \in BOOLEAN
        BY LinkFields DEF Sound
    <1>2. /\ a \in Seq(Said) /\ Len(a) = k /\ (\A i \in 1 .. k : a[i] = l.wire[i])
          /\ c \in Seq(Said) /\ Len(c) = Len(l.wire) - k
          /\ \A i \in 1 .. Len(l.wire) - k : c[i] = l.wire[i + k]
        BY <1>1, Splitting
    <1>3. m = [l EXCEPT !.inbox = l.inbox \o a, !.wire = c]
        OBVIOUS
    <1> HIDE DEF a, c
    <1>4. /\ l.inbox \o a \in Seq(Said) /\ Len(l.inbox \o a) = Len(l.inbox) + k
          /\ \A i \in 1 .. Len(l.inbox) : (l.inbox \o a)[i] = l.inbox[i]
          /\ \A i \in 1 .. Len(l.inbox) + k : i > Len(l.inbox) => (l.inbox \o a)[i] = a[i - Len(l.inbox)]
        <2>1. l.inbox \in Seq(Said) /\ a \in Seq(Said)
            BY <1>1, <1>2
        <2>2. /\ l.inbox \o a \in Seq(Said) /\ Len(l.inbox \o a) = Len(l.inbox) + Len(a)
              /\ \A i \in 1 .. Len(l.inbox) + Len(a) :
                    (l.inbox \o a)[i] = IF i <= Len(l.inbox) THEN l.inbox[i] ELSE a[i - Len(l.inbox)]
            BY <2>1, ConcatProperties
        <2> QED
            BY <1>1, <1>2, <2>2
    <1>5. /\ m \in Links /\ m.inbox = l.inbox \o a /\ m.wire = c
          /\ m.peer = l.peer /\ m.pending = l.pending /\ m.sock = l.sock /\ m.intercept = l.intercept
          /\ m.lost = l.lost
        BY <1>1, <1>2, <1>3, <1>4 DEF Links
    <1>6. /\ \A i \in 1 .. Len(m.inbox) :
                 \/ i \in 1 .. Len(l.inbox) /\ m.inbox[i] = l.inbox[i]
                 \/ /\ i > Len(l.inbox) /\ i - Len(l.inbox) \in 1 .. k /\ i - Len(l.inbox) \in 1 .. Len(l.wire)
                    /\ m.inbox[i] = l.wire[i - Len(l.inbox)]
          /\ \A i \in 1 .. Len(m.wire) : i + k \in 1 .. Len(l.wire) /\ m.wire[i] = l.wire[i + k]
          /\ Len(m.wire) \in Nat /\ Len(m.inbox) \in Nat
        <2>1. ASSUME NEW i \in 1 .. Len(m.inbox)
              PROVE  \/ i \in 1 .. Len(l.inbox) /\ m.inbox[i] = l.inbox[i]
                     \/ /\ i > Len(l.inbox) /\ i - Len(l.inbox) \in 1 .. k /\ i - Len(l.inbox) \in 1 .. Len(l.wire)
                        /\ m.inbox[i] = l.wire[i - Len(l.inbox)]
            <3>1. i \in 1 .. Len(l.inbox) + k
                BY <1>4, <1>5
            <3>2. CASE i \in 1 .. Len(l.inbox)
                BY <1>4, <1>5, <3>2
            <3>3. CASE i > Len(l.inbox)
                <4>1. i - Len(l.inbox) \in 1 .. k /\ i - Len(l.inbox) \in 1 .. Len(l.wire)
                    BY <1>1, <3>1, <3>3
                <4> QED
                    BY <1>2, <1>4, <1>5, <3>1, <3>3, <4>1
            <3> QED
                BY <1>1, <3>1, <3>2, <3>3
        <2>2. ASSUME NEW i \in 1 .. Len(m.wire)
              PROVE  i + k \in 1 .. Len(l.wire) /\ m.wire[i] = l.wire[i + k]
            <3>1. i \in 1 .. Len(l.wire) - k
                BY <1>2, <1>5
            <3>2. Len(l.wire) \in Nat /\ k \in Nat
                BY <1>1
            <3>3. i + k \in 1 .. Len(l.wire)
                BY <3>1, <3>2
            <3>4. m.wire[i] = c[i] /\ c[i] = l.wire[i + k]
                BY <1>2, <1>5, <3>1
            <3> QED
                BY <3>3, <3>4
        <2>3. Len(m.wire) \in Nat /\ Len(m.inbox) \in Nat
            BY <1>5, LinkFields
        <2> QED
            BY <2>1, <2>2, <2>3
    <1>7. LinkIsSound(m)
        <2>1. l.wire = <<>> => k = 0 /\ c = <<>> /\ a = <<>>
            BY <1>1, <1>2
        <2>2. l.wire = <<>> => m.wire = <<>> /\ m.inbox = l.inbox
            BY <1>1, <1>5, <2>1
        <2> QED
            BY <1>5, <2>2 DEF LinkIsSound, Sound
    <1>8. Ordered(m)
        <2>0. Len(l.inbox) \in Nat /\ k \in Nat
            BY <1>1
        <2>1. ASSUME NEW i \in 1 .. Len(m.wire), NEW j \in 1 .. Len(m.wire), i < j
              PROVE  m.wire[i].n < m.wire[j].n
            <3>1. /\ i + k \in 1 .. Len(l.wire) /\ m.wire[i] = l.wire[i + k]
                  /\ j + k \in 1 .. Len(l.wire) /\ m.wire[j] = l.wire[j + k]
                BY <1>6
            <3>2. i + k < j + k
                BY <2>0, <2>1
            <3>3. \A x, y \in 1 .. Len(l.wire) : x < y => l.wire[x].n < l.wire[y].n
                BY DEF Sound, Ordered
            <3> QED
                BY <3>1, <3>2, <3>3
        <2>2. ASSUME NEW i \in 1 .. Len(m.inbox), NEW j \in 1 .. Len(m.inbox), i < j
              PROVE  m.inbox[i].n < m.inbox[j].n
            <3>1. CASE i \in 1 .. Len(l.inbox) /\ j \in 1 .. Len(l.inbox)
                <4>1. m.inbox[i] = l.inbox[i] /\ m.inbox[j] = l.inbox[j]
                    BY <1>1, <1>6, <3>1
                <4> QED
                    BY <2>2, <3>1, <4>1 DEF Sound, Ordered
            <3>2. CASE i \in 1 .. Len(l.inbox) /\ j > Len(l.inbox)
                <4>1. m.inbox[i] = l.inbox[i]
                    BY <1>1, <1>6, <3>2
                <4>2. j - Len(l.inbox) \in 1 .. Len(l.wire) /\ m.inbox[j] = l.wire[j - Len(l.inbox)]
                    BY <1>1, <1>6, <3>2
                <4> QED
                    BY <3>2, <4>1, <4>2 DEF Sound, Ordered
            <3>3. CASE i > Len(l.inbox) /\ j > Len(l.inbox)
                <4>1. i - Len(l.inbox) \in 1 .. Len(l.wire) /\ m.inbox[i] = l.wire[i - Len(l.inbox)]
                    BY <1>1, <1>6, <3>3
                <4>2. j - Len(l.inbox) \in 1 .. Len(l.wire) /\ m.inbox[j] = l.wire[j - Len(l.inbox)]
                    BY <1>1, <1>6, <3>3
                <4>3. i - Len(l.inbox) < j - Len(l.inbox)
                    BY <1>1, <2>2
                <4> QED
                    BY <4>1, <4>2, <4>3 DEF Sound, Ordered
            <3>4. i \in Nat /\ j \in Nat /\ i >= 1 /\ j >= 1
                OBVIOUS
            <3>5. /\ i \in 1 .. Len(l.inbox) \/ i > Len(l.inbox)
                  /\ j \in 1 .. Len(l.inbox) \/ j > Len(l.inbox)
                  /\ i > Len(l.inbox) => j > Len(l.inbox)
                BY <2>0, <2>2, <3>4
            <3> QED
                BY <3>1, <3>2, <3>3, <3>5
        <2>3. ASSUME NEW i \in 1 .. Len(m.inbox), NEW j \in 1 .. Len(m.wire)
              PROVE  m.inbox[i].n < m.wire[j].n
            <3>1. j + k \in 1 .. Len(l.wire) /\ m.wire[j] = l.wire[j + k]
                BY <1>6
            <3>2. CASE i \in 1 .. Len(l.inbox)
                <4>1. m.inbox[i] = l.inbox[i]
                    BY <1>1, <1>6, <3>2
                <4> QED
                    BY <3>1, <3>2, <4>1 DEF Sound, Ordered
            <3>3. CASE i > Len(l.inbox)
                <4>0. i \notin 1 .. Len(l.inbox)
                    BY <2>0, <3>3
                <4>1. /\ i - Len(l.inbox) \in 1 .. Len(l.wire) /\ m.inbox[i] = l.wire[i - Len(l.inbox)]
                      /\ i - Len(l.inbox) \in 1 .. k
                    BY <1>6, <4>0
                <4>2. i - Len(l.inbox) < j + k
                    <5>1. j \in Nat /\ j >= 1
                        OBVIOUS
                    <5> QED
                        BY <2>0, <4>1, <5>1
                <4> QED
                    BY <3>1, <4>1, <4>2 DEF Sound, Ordered
            <3> QED
                BY <1>1, <1>6, <3>2, <3>3
        <2> QED
            BY <2>1, <2>2, <2>3 DEF Ordered
    <1>9. ASSUME NEW b \in Nat, Above(b, l)
          PROVE  Above(b, m)
        <2>1. \A i \in 1 .. Len(m.inbox) : b < m.inbox[i].n
            BY <1>6, <1>9 DEF Above
        <2>2. \A i \in 1 .. Len(m.wire) : b < m.wire[i].n
            BY <1>6, <1>9 DEF Above
        <2> QED
            BY <2>1, <2>2 DEF Above
    <1> QED
        BY <1>5, <1>7, <1>8, <1>9 DEF Follows

(* A disconnect that arrives follows every message of the host.            *)
LEMMA DisconnectFollows ==
    ASSUME NEW l, Sound(l), l.peer = "connected", host = "leaving", l.wire = <<>>, plan.bundled \in BOOLEAN
    PROVE  Follows(l, DisconnectArrives(l))
    <1>1. CASE l.intercept /\ ~plan.bundled
        <2> DEFINE m == [l EXCEPT !.pending = TRUE]
        <2>1. l \in Links
            BY DEF Sound
        <2>2. /\ m \in Links /\ m.peer = l.peer /\ m.inbox = l.inbox /\ m.wire = l.wire /\ m.lost = l.lost
              /\ m.sock = l.sock /\ m.intercept = l.intercept /\ m.pending
            BY <2>1 DEF Links
        <2> HIDE DEF m
        <2>3. LinkIsSound(m)
            BY <2>2 DEF LinkIsSound, Sound
        <2>4. Ordered(m) /\ \A b \in Nat : Above(b, l) => Above(b, m)
            BY <2>2 DEF Ordered, Sound, Above
        <2>5. Follows(l, m)
            BY <2>2, <2>3, <2>4 DEF Follows
        <2>6. DisconnectArrives(l) = m
            BY <1>1 DEF DisconnectArrives, m
        <2> QED
            BY <2>5, <2>6
    <1>2. CASE ~(l.intercept /\ ~plan.bundled)
        <2>1. DisconnectArrives(l) = Severed(l)
            BY <1>2 DEF DisconnectArrives
        <2>2. l.inbox = <<>> \/ plan.bundled
            BY <1>2 DEF Sound, LinkIsSound
        <2> QED
            BY <2>1, <2>2, SeveredFollows
    <1> QED
        BY <1>1, <1>2

(* What one service of the link keeps, two keep.                           *)
LEMMA FollowsTwice ==
    ASSUME NEW l, NEW m, NEW n, Follows(l, m), Follows(m, n)
    PROVE  Follows(l, n)
    BY DEF Follows

(* enet_host_service: the link after it follows the link before.           *)
LEMMA ServicedFollows ==
    ASSUME plan \in Plans, NEW l, Sound(l), NEW m \in Serviced(l)
    PROVE  Follows(l, m)
    <1> DEFINE arrived(k) == [l EXCEPT !.inbox = @ \o SubSeq(l.wire, 1, k), !.wire = SubSeq(@, k + 1, Len(@))]
    <1>1. CASE l.peer # "connected"
        <2>1. m = l
            BY <1>1 DEF Serviced
        <2> QED
            BY <2>1, StandsStill
    <1>2. CASE l.peer = "connected" /\ host = "expired"
        <2>1. m = Severed(l)
            BY <1>2 DEF Serviced
        <2>2. l.inbox = <<>>
            BY <1>2 DEF Sound, LinkIsSound
        <2> QED
            BY <1>2, <2>1, <2>2, SeveredFollows
    <1>3. CASE l.peer = "connected" /\ host # "expired"
        <2>1. \/ \E k \in 0 .. Len(l.wire) : m = arrived(k)
              \/ \E k \in 0 .. Len(l.wire) : /\ host = "leaving" /\ arrived(k).wire = <<>>
                                             /\ m = DisconnectArrives(arrived(k))
            BY <1>3 DEF Serviced
        <2>2. \A k \in 0 .. Len(l.wire) : Follows(l, arrived(k)) /\ arrived(k).peer = "connected"
            BY <1>3, ArrivingFollows
        <2> HIDE DEF arrived
        <2>3. CASE \E k \in 0 .. Len(l.wire) : m = arrived(k)
            BY <2>2, <2>3
        <2>4. CASE \E k \in 0 .. Len(l.wire) : /\ host = "leaving" /\ arrived(k).wire = <<>>
                                               /\ m = DisconnectArrives(arrived(k))
            <3>1. PICK k \in 0 .. Len(l.wire) : /\ host = "leaving" /\ arrived(k).wire = <<>>
                                                /\ m = DisconnectArrives(arrived(k))
                BY <2>4
            <3>2. Sound(arrived(k)) /\ arrived(k).peer = "connected"
                BY <2>2 DEF Follows, Sound
            <3>3. Follows(arrived(k), m)
                BY <3>1, <3>2, DisconnectFollows DEF Plans
            <3> QED
                BY <2>2, <3>3, FollowsTwice
        <2> QED
            BY <2>1, <2>3, <2>4
    <1> QED
        BY <1>1, <1>2, <1>3

(* ... and what the receive thread is handed.                              *)
Hands(l, r) ==
    /\ Follows(l, r.link) /\ r.ev \in Said \cup {Nothing, Goodbye}
    /\ r.ev \in Said => Above(r.ev.n, r.link) /\ \A b \in Nat : Above(b, l) => b < r.ev.n
    /\ r.ev = Nothing => r.link.inbox = <<>>

(* enet_host_check_events hands out the oldest message, or the disconnect  *)
(* after the last one.                                                     *)
LEMMA HandOutHands ==
    ASSUME plan \in Plans, NEW l, Sound(l)
    PROVE  Hands(l, HandOut(l))
    <1>0. /\ l \in Links /\ l.inbox \in Seq(Said) /\ l.wire \in Seq(Said)
          /\ Len(l.inbox) \in Nat /\ Len(l.wire) \in Nat
        BY LinkFields DEF Sound
    <1>1. CASE l.peer = "zombie"
        <2> DEFINE e == [Nothing EXCEPT !.kind = "disconnect"]
                   m == [l EXCEPT !.peer = "disconnected"]
        <2>1. HandOut(l) = [ev |-> e, link |-> m]
            BY <1>1 DEF HandOut
        <2>2. e = Goodbye
            BY DEF Nothing, Goodbye
        <2>3. /\ m \in Links /\ m.peer = "disconnected" /\ m.inbox = l.inbox /\ m.wire = l.wire
              /\ m.lost = l.lost /\ m.pending = l.pending /\ m.sock = l.sock /\ m.intercept = l.intercept
            BY <1>0 DEF Links
        <2> HIDE DEF e, m
        <2>4. LinkIsSound(m)
            BY <1>1, <2>3 DEF LinkIsSound, Sound
        <2>5. Ordered(m) /\ \A b \in Nat : Above(b, l) => Above(b, m)
            BY <2>3 DEF Ordered, Sound, Above
        <2>6. Follows(l, m)
            BY <2>3, <2>4, <2>5 DEF Follows
        <2>7. Goodbye \notin Said /\ Goodbye # Nothing
            BY Messaging
        <2>8. HandOut(l).ev = Goodbye /\ HandOut(l).link = m
            BY <2>1, <2>2
        <2> QED
            BY <2>6, <2>7, <2>8 DEF Hands
    <1>2. CASE l.peer # "zombie" /\ l.inbox # <<>>
        <2> DEFINE e == Head(l.inbox)
                   m == [l EXCEPT !.inbox = Tail(l.inbox)]
        <2>1. HandOut(l) = [ev |-> e, link |-> m]
            BY <1>2 DEF HandOut
        <2>2. /\ e \in Said /\ Tail(l.inbox) \in Seq(Said) /\ Len(Tail(l.inbox)) = Len(l.inbox) - 1
              /\ \A i \in 1 .. Len(Tail(l.inbox)) : Tail(l.inbox)[i] = l.inbox[i + 1]
              /\ e = l.inbox[1] /\ Len(l.inbox) >= 1
            BY <1>0, <1>2, HeadTailProperties
        <2>3. /\ m \in Links /\ m.peer = l.peer /\ m.inbox = Tail(l.inbox) /\ m.wire = l.wire
              /\ m.lost = l.lost /\ m.pending = l.pending /\ m.sock = l.sock /\ m.intercept = l.intercept
            BY <1>0, <2>2 DEF Links
        <2> HIDE DEF e, m
        <2>4. \A i \in 1 .. Len(m.inbox) : i + 1 \in 1 .. Len(l.inbox) /\ m.inbox[i] = l.inbox[i + 1]
            BY <1>0, <2>2, <2>3
        <2>5. LinkIsSound(m)
            BY <1>2, <2>3 DEF LinkIsSound, Sound
        <2>6. Len(m.inbox) \in Nat
            BY <2>3, LinkFields
        <2>7. Ordered(m)
            <3>1. \A i, j \in 1 .. Len(m.inbox) : i < j => m.inbox[i].n < m.inbox[j].n
                <4>1. \A i, j \in 1 .. Len(m.inbox) : i < j => i + 1 < j + 1
                    BY <2>6
                <4> QED
                    BY <2>4, <4>1 DEF Ordered, Sound
            <3>2. \A i \in 1 .. Len(m.inbox), j \in 1 .. Len(m.wire) : m.inbox[i].n < m.wire[j].n
                BY <2>3, <2>4 DEF Ordered, Sound
            <3> QED
                BY <2>3, <3>1, <3>2 DEF Ordered, Sound
        <2>8. \A b \in Nat : Above(b, l) => Above(b, m)
            BY <2>3, <2>4 DEF Above
        <2>9. Follows(l, m)
            BY <2>3, <2>5, <2>7, <2>8 DEF Follows
        <2>10. Above(e.n, m)
            <3>1. \A i \in 1 .. Len(m.inbox) : e.n < m.inbox[i].n
                <4>1. \A i \in 1 .. Len(m.inbox) : 1 < i + 1 /\ 1 \in 1 .. Len(l.inbox)
                    BY <1>0, <2>2, <2>6
                <4> QED
                    BY <2>2, <2>4, <4>1 DEF Ordered, Sound
            <3>2. \A i \in 1 .. Len(m.wire) : e.n < m.wire[i].n
                BY <1>0, <2>2, <2>3 DEF Ordered, Sound
            <3> QED
                BY <3>1, <3>2 DEF Above
        <2>11. \A b \in Nat : Above(b, l) => b < e.n
            BY <1>0, <2>2 DEF Above
        <2>12. e # Nothing
            BY <2>2, Messaging
        <2>13. HandOut(l).ev = e /\ HandOut(l).link = m
            BY <2>1
        <2> QED
            BY <2>2, <2>9, <2>10, <2>11, <2>12, <2>13 DEF Hands
    <1>3. CASE l.peer # "zombie" /\ l.inbox = <<>>
        <2>1. HandOut(l).ev = Nothing /\ HandOut(l).link = l
            BY <1>3 DEF HandOut
        <2>2. Nothing \notin Said
            BY Messaging
        <2> QED
            BY <1>3, <2>1, <2>2, StandsStill DEF Hands
    <1> QED
        BY <1>1, <1>2, <1>3

(* serviceEnetHost hands out one event and leaves the link sound.          *)
LEMMA EventHands ==
    ASSUME plan \in Plans, NEW l, Sound(l), NEW r \in ServicedForEvent(l)
    PROVE  Hands(l, r)
    <1>1. CASE r = HandOut(l)
        BY <1>1, HandOutHands
    <1>2. CASE \E x \in Serviced(l) : r = HandOut(x)
        <2>1. PICK x \in Serviced(l) : r = HandOut(x)
            BY <1>2
        <2>2. Follows(l, x)
            BY ServicedFollows
        <2>3. Sound(x)
            BY <2>2 DEF Follows, Sound
        <2>4. Hands(x, r)
            BY <2>1, <2>3, HandOutHands
        <2>5. Follows(l, r.link)
            BY <2>2, <2>4, FollowsTwice DEF Hands
        <2> QED
            BY <2>2, <2>4, <2>5 DEF Hands, Follows
    <1> QED
        BY <1>1, <1>2 DEF ServicedForEvent

(* A sender leaves the link as sound as it was.                            *)
LEMMA SendersFollow ==
    ASSUME plan \in Plans, Sound(link)
    PROVE  /\ \A t : \A r \in Sends(t) : Follows(link, r.link) /\ r.to \in {"failed", "sent", "resend", "reply"}
           /\ \A r \in Resends : Follows(link, r.link) /\ r.to \in {"failed", "sent"}
           /\ \A r \in Replies : Follows(link, r.link) /\ r.to \in {"failed", "sent"}
    <1>1. Follows(link, link)
        BY StandsStill
    <1>2. \A m \in Serviced(link) : Follows(link, m)
        BY ServicedFollows
    <1>3. \A r \in EnetSends : Follows(link, r.link) /\ r.to \in {"failed", "sent", "resend", "reply"}
        BY <1>1, <1>2 DEF EnetSends, MayFail
    <1>4. \A t : \A r \in TcpSends(t) : Follows(link, r.link) /\ r.to \in {"failed", "sent", "resend", "reply"}
        BY <1>1 DEF TcpSends, MayFail
    <1>5. \A r \in Resends : Follows(link, r.link) /\ r.to \in {"failed", "sent"}
        BY <1>2 DEF Resends, MayFail
    <1>6. \A r \in Replies : Follows(link, r.link) /\ r.to \in {"failed", "sent"}
        BY <1>1 DEF Replies, MayFail
    <1>7. \A t : \A r \in Sends(t) : Follows(link, r.link) /\ r.to \in {"failed", "sent", "resend", "reply"}
        BY <1>3, <1>4 DEF Sends
    <1> QED
        BY <1>5, <1>6, <1>7

--------------------------------------------------------------------------------
(* Type correctness, action by action.                                     *)
LEMMA PlanStays ==
    ASSUME plan' = plan
    PROVE  Said' = Said /\ Links' = Links /\ SlotsOf(plan)' = SlotsOf(plan)
    BY DEF Said, Links

(* The choices of a scenario have their types.                             *)
LEMMA PlansAreTyped ==
    ASSUME TypeOK
    PROVE  /\ plan \in Plans
           /\ plan.tcp \in BOOLEAN /\ plan.direct \in BOOLEAN /\ plan.rfi \in BOOLEAN
           /\ plan.leaves \subseteq {"leaving", "dead"} /\ plan.bundled \in BOOLEAN
           /\ \A i \in DOMAIN plan.msgs : plan.msgs[i].n = i
    <1>1. plan \in Plans
        BY ScenarioAssumption DEF TypeOK
    <1> QED
        BY <1>1, ScenarioAssumption DEF Plans, TypeOK

(* A thread that goes to another place leaves all threads at places of     *)
(* theirs.                                                                 *)
LEMMA Moved ==
    ASSUME TypeOK, plan' = plan, NEW t \in Threads, NEW p \in Places, Goes(t, p),
           t = "async" => p \in {"wait", "ended"} \/ (p = "batch" /\ held' \in Said),
           t # "async" => held' = held
    PROVE  AtOK'
    <1>1. Said' = Said
        BY PlanStays
    <1>2. at' \in [Threads -> Places] /\ at'[t] = p /\ \A s \in Threads : s # t => at'[s] = at[s]
        BY DEF Goes, TypeOK, AtOK
    <1>3. "async" \in Threads
        BY DEF Threads
    <1> QED
        BY <1>1, <1>2, <1>3 DEF AtOK, TypeOK

(* A thread that reports a termination keeps the types of places and       *)
(* errors.                                                                 *)
LEMMA Reported ==
    ASSUME TypeOK, plan' = plan, NEW t \in Threads, t # "async", NEW e \in Errors, Reports(t, e),
           held' = held
    PROVE  AtOK' /\ why' \in [Threads -> Errors]
    <1>1. "report" \in Places /\ Goes(t, "report")
        BY DEF Places, Reports, Goes
    <1>2. why' \in [Threads -> Errors]
        BY DEF Reports, TypeOK, FlagsOK
    <1> QED
        BY <1>1, <1>2, Moved

(* LinkedBlockingQueue.c: every call leaves a queue of the same items.     *)
LEMMA QueueTypes ==
    ASSUME NEW S, NEW b \in Nat \ {0}, NEW q \in LbqOf(S, b), ~q.userWake
    PROVE  /\ LbqFlush(q) \in LbqOf(S, b) /\ ~LbqFlush(q).userWake
           /\ LbqShutdown(q) \in LbqOf(S, b) /\ ~LbqShutdown(q).userWake
           /\ LbqDrain(q) \in LbqOf(S, b) /\ ~LbqDrain(q).userWake
           /\ \A x \in S : LbqOffer(q, x) \in LbqOf(S, b) /\ ~LbqOffer(q, x).userWake
           /\ LbqPoll(q) \in LbqOf(S, b) /\ ~LbqPoll(q).userWake
           /\ LbqWait(q) \in LbqOf(S, b) /\ ~LbqWait(q).userWake
    <1>1. /\ q.items \in Seq(S) /\ q.bound = b /\ q.shutdown \in BOOLEAN /\ q.draining \in BOOLEAN
          /\ q.userWake \in BOOLEAN
        BY DEF LbqOf
    <1>2. \A s \in Seq(S) : [q EXCEPT !.items = s] \in LbqOf(S, b) /\ ~[q EXCEPT !.items = s].userWake
        BY <1>1 DEF LbqOf
    <1>3. LbqFlush(q) \in LbqOf(S, b) /\ ~LbqFlush(q).userWake
        <2>1. <<>> \in Seq(S)
            OBVIOUS
        <2> QED
            BY <1>2, <2>1 DEF LbqFlush
    <1>4. /\ LbqShutdown(q) \in LbqOf(S, b) /\ ~LbqShutdown(q).userWake
          /\ LbqDrain(q) \in LbqOf(S, b) /\ ~LbqDrain(q).userWake
        BY <1>1 DEF LbqOf, LbqShutdown, LbqDrain
    <1>5. ASSUME NEW x \in S PROVE LbqOffer(q, x) \in LbqOf(S, b) /\ ~LbqOffer(q, x).userWake
        <2>1. Append(q.items, x) \in Seq(S)
            BY <1>1
        <2> QED
            BY <1>2, <2>1 DEF LbqOffer
    <1>6. LbqPoll(q) \in LbqOf(S, b) /\ ~LbqPoll(q).userWake
        <2>1. CASE LbqPollAnswer(q) = "success"
            <3>1. q.items # <<>>
                BY <1>1, <2>1 DEF LbqPollAnswer
            <3>2. Tail(q.items) \in Seq(S)
                BY <1>1, <3>1
            <3> QED
                BY <1>2, <2>1, <3>2 DEF LbqPoll
        <2>2. CASE LbqPollAnswer(q) # "success"
            BY <2>2 DEF LbqPoll
        <2> QED
            BY <2>1, <2>2
    <1>7. LbqWait(q) \in LbqOf(S, b) /\ ~LbqWait(q).userWake
        <2>1. LbqWaitAnswer(q) # "wake"
            BY <1>1 DEF LbqWaitAnswer
        <2>2. CASE LbqWaitAnswer(q) = "success"
            <3>1. q.items # <<>>
                BY <1>1, <2>2 DEF LbqWaitAnswer
            <3>2. Tail(q.items) \in Seq(S)
                BY <1>1, <3>1
            <3> QED
                BY <1>2, <2>2, <3>2 DEF LbqWait
        <2>3. CASE LbqWaitAnswer(q) # "success"
            BY <2>1, <2>3 DEF LbqWait
        <2> QED
            BY <2>2, <2>3
    <1> QED
        BY <1>3, <1>4, <1>5, <1>6, <1>7

(* What a step of a thread does to where the threads are.                  *)
Turn(t) ==
    /\ t \in Threads /\ Alive(t)
    /\ at' \in [Threads -> Places] /\ \A s \in Threads : s # t => at'[s] = at[s]
    /\ UNCHANGED <<plan, told, stopping, interrupted, heard, host>>

(* A step that leaves the link and the messages alone.                     *)
Silent(t) ==
    /\ Turn(t) /\ t # "async" /\ FlagsOK' /\ rfiQ' \in LbqOf({"range"}, RfiBound)
    /\ at'["recv"] = "linger" => at["recv"] = "linger"
    /\ UNCHANGED <<link, asyncQ, got, held, hdr, taken, shown>>

(* A thread that only goes somewhere takes a turn.                         *)
LEMMA Going ==
    ASSUME TypeOK, NEW t \in Threads, Alive(t), NEW p \in Places, Goes(t, p),
           UNCHANGED <<plan, told, stopping, interrupted, heard, host>>
    PROVE  Turn(t) /\ at'[t] = p
    BY DEF Goes, Turn, TypeOK, AtOK

(* The places a thread can go to.                                          *)
LEMMA PlacesToGo ==
    ASSUME NEW t
    PROVE  /\ {"none", "ended", "wait", "poll", "linger", "act", "report", "raise", "send", "resend",
               "reply", "clear", "check", "batch", "request", "demand"} \subseteq Places
           /\ Top(t) \in {"ended", "send", "wait"} /\ AfterReport(t) \in {"ended", "send", "wait"}
    BY DEF Places, Top, AfterReport

(* The threads that report an error, and the sources of errors.            *)
LEMMA SilentGoing ==
    ASSUME TypeOK, NEW t \in Threads \ {"async"}, Alive(t), NEW p \in Places \ {"linger"}, Goes(t, p),
           FlagsOK', rfiQ' \in LbqOf({"range"}, RfiBound),
           UNCHANGED <<plan, told, stopping, interrupted, heard, host, link, asyncQ, got, held, hdr,
                       taken, shown>>
    PROVE  Silent(t)
    <1>1. Turn(t) /\ at'[t] = p
        BY Going
    <1>2. at'["recv"] = "linger" => at["recv"] = "linger"
        BY <1>1 DEF Turn, Threads
    <1> QED
        BY <1>1, <1>2 DEF Silent

(* terminateConnection: reporting, and raising the callback, touch no link *)
(* and no queue.                                                           *)
LEMMA ReportingSteps ==
    ASSUME TypeOK, NEW t \in Threads, Report(t) \/ Raise(t)
    PROVE  Silent(t)
    <1>1. at[t] \in {"report", "raise"} /\ Alive(t) /\ t # "async" /\ rfiQ \in LbqOf({"range"}, RfiBound)
        BY DEF Report, Raise, Alive, TypeOK, AtOK, QueuesOK
    <1>2. CASE Report(t)
        <2> DEFINE p == IF terminated \/ interrupted THEN AfterReport(t) ELSE "raise"
        <2>1. Goes(t, p)
            BY <1>2 DEF Report
        <2>2. p \in Places \ {"linger"}
            BY PlacesToGo
        <2> HIDE DEF p
        <2>3. FlagsOK'
            BY <1>2 DEF Report, FlagsOK, TypeOK, reporting, queues
        <2>4. UNCHANGED <<rfiQ, plan, told, stopping, interrupted, heard, host, link, asyncQ, got, held, hdr,
                          taken, shown>>
            BY <1>2 DEF Report, reporting, queues, showing
        <2>5. rfiQ' \in LbqOf({"range"}, RfiBound)
            BY <1>1, <2>4
        <2> QED
            BY <1>1, <2>1, <2>2, <2>3, <2>4, <2>5, SilentGoing
    <1>3. CASE Raise(t)
        <2>1. Goes(t, AfterReport(t))
            BY <1>3 DEF Raise
        <2>2. AfterReport(t) \in Places \ {"linger"}
            BY PlacesToGo
        <2>3. FlagsOK'
            BY <1>3 DEF Raise, FlagsOK, TypeOK, queues
        <2>4. UNCHANGED <<rfiQ, plan, told, stopping, interrupted, heard, host, link, asyncQ, got, held, hdr,
                          taken, shown>>
            BY <1>3 DEF Raise, queues, showing
        <2>5. rfiQ' \in LbqOf({"range"}, RfiBound)
            BY <1>1, <2>4
        <2> QED
            BY <1>1, <2>1, <2>2, <2>3, <2>4, <2>5, SilentGoing
    <1> QED
        BY <1>2, <1>3

(* A thread that goes on without an error, or to report one.               *)
LEMMA SilentMoves ==
    ASSUME TypeOK, NEW t \in Threads \ {"async"}, Alive(t), NEW p \in Places \ {"linger"}, Goes(t, p),
           UNCHANGED <<plan, why, told, stopping, reporting, link, host, asyncQ, got, showing, hdr>>,
           event' \in BOOLEAN, seen' \in BOOLEAN, rfiQ' \in {rfiQ, LbqFlush(rfiQ), LbqOffer(rfiQ, "range")}
    PROVE  Silent(t)
    <1>1. FlagsOK'
        BY DEF FlagsOK, TypeOK, reporting
    <1>2. rfiQ' \in LbqOf({"range"}, RfiBound)
        <2>1. RfiBound \in Nat \ {0} /\ rfiQ \in LbqOf({"range"}, RfiBound) /\ "range" \in {"range"}
            BY ControlAssumption DEF TypeOK, QueuesOK
        <2>2. LbqFlush(rfiQ) \in LbqOf({"range"}, RfiBound) /\ LbqOffer(rfiQ, "range") \in LbqOf({"range"}, RfiBound)
            <3>1. /\ rfiQ.items \in Seq({"range"}) /\ rfiQ.bound = RfiBound /\ rfiQ.shutdown \in BOOLEAN
                  /\ rfiQ.draining \in BOOLEAN /\ rfiQ.userWake \in BOOLEAN
                BY <2>1 DEF LbqOf
            <3>2. \A s \in Seq({"range"}) : [rfiQ EXCEPT !.items = s] \in LbqOf({"range"}, RfiBound)
                BY <2>1, <3>1 DEF LbqOf
            <3>3. <<>> \in Seq({"range"}) /\ Append(rfiQ.items, "range") \in Seq({"range"})
                BY <3>1
            <3> QED
                BY <2>1, <3>2, <3>3 DEF LbqFlush, LbqOffer
        <2> QED
            BY <2>1, <2>2
    <1>3. UNCHANGED <<plan, told, stopping, interrupted, heard, host, link, asyncQ, got, held, hdr,
                      taken, shown>>
        BY DEF reporting, showing
    <1> QED
        BY <1>1, <1>2, <1>3, SilentGoing

(* A thread that reports a termination touches no link and no queue.       *)
LEMMA SilentReports ==
    ASSUME TypeOK, NEW t \in Threads \ {"async"}, Alive(t), NEW e \in Errors, Reports(t, e),
           UNCHANGED <<plan, told, stopping, reporting, link, host, queues, got, showing, hdr, seen>>
    PROVE  Silent(t)
    <1>1. FlagsOK'
        BY DEF FlagsOK, TypeOK, reporting, queues, Reports
    <1>2. rfiQ' \in LbqOf({"range"}, RfiBound)
        BY DEF TypeOK, QueuesOK, queues
    <1>3. UNCHANGED <<plan, told, stopping, interrupted, heard, host, link, asyncQ, got, held, hdr,
                      taken, shown>>
        BY DEF reporting, showing, queues
    <1>4. Goes(t, "report") /\ "report" \in Places \ {"linger"}
        BY PlacesToGo DEF Reports, Goes
    <1> QED
        BY <1>1, <1>2, <1>3, <1>4, SilentGoing

(* The receive thread leaves, the loss statistics end.                     *)
LEMMA PlainSteps ==
    ASSUME TypeOK, NEW t \in Threads, NEW p \in {"ended", "wait", "clear", "check", "send", "request", "demand"},
           Alive(t), t # "async", Goes(t, p),
           UNCHANGED <<plan, why, told, stopping, reporting, link, host, queues, got, showing, hdr, seen>>
    PROVE  Silent(t)
    <1>1. p \in Places \ {"linger"} /\ t \in Threads \ {"async"}
        BY PlacesToGo
    <1>2. event' \in BOOLEAN /\ seen' \in BOOLEAN /\ rfiQ' = rfiQ /\ asyncQ' = asyncQ
        BY DEF queues, TypeOK, FlagsOK
    <1> QED
        BY <1>1, <1>2, SilentMoves

(* The names of the threads are threads.                                   *)
LEMMA ThreadNames ==
    /\ {"recv", "loss", "idr", "async", "rfi", "input", "vrecv", "vdec", "vping"} \subseteq Threads
    /\ {"recv", "loss", "idr", "rfi", "input", "vrecv", "vdec", "vping"} \subseteq Threads \ {"async"}
    BY DEF Threads

(* The control receiver that ends or fails touches no link.                *)
LEMMA ReceiverLeaves ==
    ASSUME TypeOK, ReceiverEnds \/ ServiceFails
    PROVE  Silent("recv")
    <1>1. CASE ReceiverEnds
        <2>1. Alive("recv") /\ Goes("recv", "ended")
            BY <1>1 DEF ReceiverEnds, Alive
        <2> QED
            BY <1>1, <2>1, PlainSteps, ThreadNames DEF ReceiverEnds
    <1>2. CASE ServiceFails
        <2>1. Alive("recv") /\ Reports("recv", "socket") /\ "socket" \in Errors
            BY <1>2 DEF ServiceFails, Alive, Errors
        <2> QED
            BY <1>2, <2>1, SilentReports, ThreadNames DEF ServiceFails
    <1> QED
        BY <1>1, <1>2

(* requestIdrFrameFunc touches no link and no callback.                    *)
LEMMA RequestSteps ==
    ASSUME TypeOK, IdrWakes \/ IdrClears \/ IdrChecks
    PROVE  Silent("idr")
    <1>1. Alive("idr") /\ "idr" \in Threads \ {"async"} /\ {"ended", "clear", "check", "send"} \subseteq Places \ {"linger"}
        BY ThreadNames, PlacesToGo DEF IdrWakes, IdrClears, IdrChecks, Alive
    <1>2. CASE IdrWakes
        BY <1>1, <1>2, PlainSteps DEF IdrWakes
    <1>3. CASE IdrClears
        BY <1>1, <1>3, SilentMoves DEF IdrClears, TypeOK, FlagsOK
    <1>4. CASE IdrChecks
        <2>1. Goes("idr", IF stopping THEN "ended" ELSE "send") /\ rfiQ' \in {rfiQ, LbqFlush(rfiQ)}
            BY <1>4 DEF IdrChecks
        <2>2. (IF stopping THEN "ended" ELSE "send") \in Places \ {"linger"}
            BY <1>1
        <2> QED
            BY <1>1, <1>4, <2>1, <2>2, SilentMoves DEF IdrChecks, TypeOK, FlagsOK
    <1> QED
        BY <1>2, <1>3, <1>4

(* invalidateRefFramesFunc that wakes touches no link.                     *)
LEMMA InvalidationSteps ==
    ASSUME TypeOK, InvalidationWakes
    PROVE  Silent("rfi")
    <1> DEFINE p == IF LbqWaitAnswer(rfiQ) = "success" THEN "send" ELSE "ended"
    <1>1. Alive("rfi") /\ "rfi" \in Threads \ {"async"} /\ p \in Places \ {"linger"}
        BY ThreadNames, PlacesToGo DEF InvalidationWakes, Alive
    <1>2. Goes("rfi", p)
        BY DEF InvalidationWakes
    <1> HIDE DEF p
    <1> QED
        BY <1>1, <1>2, SilentMoves DEF InvalidationWakes, TypeOK, FlagsOK

(* The waits of the input, video and ping threads touch no link.           *)
LEMMA WaitingSteps ==
    ASSUME TypeOK
    PROVE  /\ InputWakes => Silent("input")
           /\ VideoReceiverEnds => Silent("vrecv")
           /\ DecoderWakes => Silent("vdec")
           /\ PingEnds => Silent("vping")
    <1>1. /\ (InputWakes => Alive("input")) /\ (VideoReceiverEnds => Alive("vrecv"))
          /\ (DecoderWakes => Alive("vdec")) /\ (PingEnds => Alive("vping"))
        BY DEF InputWakes, VideoReceiverEnds, DecoderWakes, PingEnds, Alive
    <1>2. InputWakes => Silent("input")
        BY <1>1, PlainSteps, ThreadNames DEF InputWakes
    <1>3. VideoReceiverEnds => Silent("vrecv")
        BY <1>1, PlainSteps, ThreadNames DEF VideoReceiverEnds
    <1>4. DecoderWakes => Silent("vdec")
        BY <1>1, PlainSteps, ThreadNames DEF DecoderWakes
    <1>5. PingEnds => Silent("vping")
        BY <1>1, PlainSteps, ThreadNames DEF PingEnds
    <1> QED
        BY <1>2, <1>3, <1>4, <1>5

(* The video receiver touches no link.                                     *)
LEMMA VideoSteps ==
    ASSUME TypeOK, VideoReceiverFails \/ SawFrame \/ DetectLoss
    PROVE  Silent("vrecv")
    <1>1. /\ Alive("vrecv") /\ "vrecv" \in Threads \ {"async"} /\ {"socket", "novideo"} \subseteq Errors
          /\ {"wait", "request"} \subseteq Places \ {"linger"}
        BY ThreadNames, PlacesToGo DEF VideoReceiverFails, SawFrame, DetectLoss, Alive, Errors
    <1>2. CASE VideoReceiverFails
        BY <1>1, <1>2, SilentReports DEF VideoReceiverFails
    <1>3. CASE SawFrame
        <2>1. Goes("vrecv", "wait")
            BY <1>3 DEF SawFrame, Goes, TypeOK, AtOK
        <2> QED
            BY <1>1, <1>3, <2>1, SilentMoves DEF SawFrame, queues, TypeOK, FlagsOK
    <1>4. CASE DetectLoss
        <2>1. \E p \in {"wait", "request"} : Goes("vrecv", p)
            BY <1>4 DEF DetectLoss
        <2>2. rfiQ' \in {rfiQ, LbqOffer(rfiQ, "range")}
            BY <1>4 DEF DetectLoss
        <2> QED
            BY <1>1, <1>4, <2>1, <2>2, SilentMoves DEF DetectLoss, TypeOK, FlagsOK
    <1> QED
        BY <1>2, <1>3, <1>4

(* A video thread that asks for frames only fills a queue of requests.     *)
LEMMA DemandSteps ==
    ASSUME TypeOK, NEW t \in {"vrecv", "vdec"}, Video(t)
    PROVE  Silent(t)
    <1>1. /\ Alive(t) /\ t \in Threads \ {"async"} /\ {"wait", "demand"} \subseteq Places \ {"linger"}
        BY ThreadNames, PlacesToGo DEF Video, FlushInvalidations, DemandIdr, Alive
    <1>2. CASE FlushInvalidations(t)
        BY <1>1, <1>2, SilentMoves DEF FlushInvalidations, TypeOK, FlagsOK
    <1>3. CASE DemandIdr(t)
        BY <1>1, <1>3, SilentMoves DEF DemandIdr, TypeOK, FlagsOK
    <1> QED
        BY <1>2, <1>3 DEF Video

(* A step that uses the link: a sender's, the receive thread's when it     *)
(* services the host, is cut off or hears the goodbye.                     *)
Linking(t) ==
    /\ Turn(t) /\ t # "async" /\ FlagsOK'
    /\ link' \in Links /\ LinkIsSound(link') /\ Ordered(link') /\ Above(hdr, link') /\ (Linked => Linked')
    /\ got' \in Said \cup {Nothing, Goodbye} /\ (got' \in Said => hdr < got'.n /\ Above(got'.n, link'))
    /\ at'["recv"] = "linger" => link'.pending
    /\ UNCHANGED <<rfiQ, asyncQ, held, hdr, taken, shown>>

(* The invariant says what the lemmas about links assume.                  *)
LEMMA LinkIsFollowed ==
    ASSUME TypeOK, GoodbyeIsLast, NumbersGrow
    PROVE  /\ plan \in Plans /\ Sound(link) /\ hdr \in Nat /\ Above(hdr, link)
           /\ \A m \in Said : m.n \in Nat
    <1>1. plan \in Plans
        BY PlansAreTyped
    <1>2. Sound(link) /\ hdr \in Nat /\ Above(hdr, link)
        BY DEF TypeOK, MessagesOK, GoodbyeIsLast, NumbersGrow, Sound
    <1> QED
        BY <1>1, <1>2, Messaging

(* sendMessageAndForget under enetMutex keeps the order of the link.       *)
LEMMA SenderSteps ==
    ASSUME TypeOK, GoodbyeIsLast, NumbersGrow, NEW t \in Senders, SendMessage(t)
    PROVE  Linking(t)
    <1>1. Alive(t) /\ t \in Threads \ {"async"} /\ t # "recv"
        BY ThreadNames DEF SendMessage, Alive, Senders
    <1>2. PICK r : /\ r \in Sends(t) \/ r \in Resends \/ r \in Replies
                   /\ SenderGoes(t, r)
        BY DEF SendMessage
    <1>3. Follows(link, r.link) /\ r.to \in {"failed", "sent", "resend", "reply"}
        BY <1>2, SendersFollow, LinkIsFollowed
    <1>4. /\ link' = r.link
          /\ UNCHANGED <<plan, told, stopping, reporting, host, queues, got, showing, hdr, seen>>
        BY <1>2 DEF SenderGoes
    <1>5. UNCHANGED <<plan, told, stopping, interrupted, heard, host, rfiQ, asyncQ, got, held, hdr, taken, shown>>
        BY <1>4 DEF reporting, queues, showing
    <1>6. (\E p \in Places : Goes(t, p)) /\ why' \in [Threads -> Errors]
        <2>1. CASE r.to = "failed"
            <3>1. Reports(t, "socket")
                BY <1>2, <2>1 DEF SenderGoes
            <3> QED
                BY <3>1, PlacesToGo DEF Reports, Goes, Errors, TypeOK, FlagsOK
        <2>2. CASE r.to = "sent"
            <3>1. Goes(t, Top(t)) /\ UNCHANGED why
                BY <1>2, <2>2 DEF SenderGoes
            <3>2. Top(t) \in Places
                BY PlacesToGo
            <3> QED
                BY <3>1, <3>2 DEF TypeOK, FlagsOK
        <2>3. CASE r.to \notin {"failed", "sent"}
            <3>1. Goes(t, r.to) /\ UNCHANGED why
                BY <1>2, <2>3 DEF SenderGoes
            <3>2. r.to \in Places
                BY <1>3, <2>3, PlacesToGo
            <3> QED
                BY <3>1, <3>2 DEF TypeOK, FlagsOK
        <2> QED
            BY <2>1, <2>2, <2>3
    <1>7. Turn(t)
        BY <1>1, <1>5, <1>6, Going
    <1>8. FlagsOK'
        BY <1>4, <1>6 DEF FlagsOK, TypeOK, reporting, queues
    <1>9. /\ link' \in Links /\ LinkIsSound(link') /\ Ordered(link') /\ Above(hdr, link') /\ (Linked => Linked')
          /\ got' \in Said => hdr < got'.n /\ Above(got'.n, link')
        <2>1. link' \in Links /\ LinkIsSound(link') /\ Ordered(link') /\ Above(hdr, link')
            BY <1>3, <1>4, LinkIsFollowed DEF Follows
        <2>2. Linked => Linked'
            BY <1>3, <1>4 DEF Follows, Linked
        <2>3. got' \in Said => hdr < got'.n /\ Above(got'.n, link')
            BY <1>3, <1>4, LinkIsFollowed DEF Follows, NumbersGrow
        <2> QED
            BY <2>1, <2>2, <2>3
    <1>10. at'["recv"] = "linger" => link'.pending
        BY <1>1, <1>3, <1>4, <1>7, ThreadNames DEF Turn, GoodbyeIsLast, Follows
    <1>11. got' \in Said \cup {Nothing, Goodbye}
        BY <1>4 DEF TypeOK, MessagesOK
    <1> QED
        BY <1>1, <1>5, <1>7, <1>8, <1>9, <1>10, <1>11 DEF Linking

(* lossStatsThreadFunc keeps the order of the link.                        *)
LEMMA LossSteps ==
    ASSUME TypeOK, GoodbyeIsLast, NumbersGrow, LossTurn
    PROVE  Silent("loss") \/ Linking("loss")
    <1>1. CASE SendMessage("loss")
        BY <1>1, SenderSteps DEF Senders
    <1>2. CASE ~SendMessage("loss")
        <2>1. Alive("loss") /\ Goes("loss", "ended")
            BY <1>2 DEF LossTurn, Alive
        <2> QED
            BY <1>2, <2>1, PlainSteps, ThreadNames DEF LossTurn
    <1> QED
        BY <1>1, <1>2

(* controlReceiveThreadFunc: a turn of its loop keeps the order of the     *)
(* messages.                                                               *)
LEMMA PollSteps ==
    ASSUME TypeOK, GoodbyeIsLast, NumbersGrow, Poll
    PROVE  Linking("recv")
    <1> DEFINE p(r) == CASE r.ev # Nothing                      -> "act"
                         [] r.ev = Nothing /\ r.link.pending    -> "linger"
                         [] OTHER                               -> "poll"
    <1>1. PICK r \in ServicedForEvent(link) : link' = r.link /\ got' = r.ev /\ Goes("recv", p(r))
        BY DEF Poll
    <1>2. Hands(link, r) /\ Follows(link, r.link)
        BY EventHands, LinkIsFollowed DEF Hands
    <1>3. /\ Alive("recv") /\ p(r) \in Places
          /\ p(r) = "linger" => r.link.pending
        BY PlacesToGo DEF Poll, Alive
    <1> HIDE DEF p
    <1>4. UNCHANGED <<plan, why, told, stopping, reporting, host, queues, showing, hdr, seen>>
        BY DEF Poll
    <1>5. UNCHANGED <<plan, told, stopping, interrupted, heard, host, rfiQ, asyncQ, held, hdr, taken, shown>>
        BY <1>4 DEF reporting, queues, showing
    <1>6. Turn("recv") /\ at'["recv"] = p(r)
        BY <1>1, <1>3, <1>5, Going, ThreadNames
    <1>7. FlagsOK'
        BY <1>4 DEF FlagsOK, TypeOK, reporting, queues
    <1>8. link' \in Links /\ LinkIsSound(link') /\ Ordered(link') /\ Above(hdr, link')
        BY <1>1, <1>2, LinkIsFollowed DEF Follows
    <1>9. Linked => Linked'
        BY <1>1, <1>2 DEF Follows, Linked
    <1>10. got' \in Said \cup {Nothing, Goodbye} /\ (got' \in Said => hdr < got'.n /\ Above(got'.n, link'))
        BY <1>1, <1>2, LinkIsFollowed DEF Hands
    <1>11. at'["recv"] = "linger" => link'.pending
        BY <1>1, <1>3, <1>6
    <1> QED
        BY <1>5, <1>6, <1>7, <1>8, <1>9, <1>10, <1>11 DEF Linking

(* controlReceiveThreadFunc: waiting for pending messages keeps their      *)
(* order.                                                                  *)
LEMMA LingerSteps ==
    ASSUME TypeOK, GoodbyeIsLast, NumbersGrow, Linger
    PROVE  Linking("recv")
    <1>1. PICK r \in ServicedForEvent(link) :
             /\ got' = r.ev
             /\ link' = [r.link EXCEPT !.intercept = @ /\ r.ev # Nothing]
             /\ IF r.ev = Nothing /\ ~link.intercept
                THEN Reports("recv", "disconnect")
                ELSE Goes("recv", IF r.ev # Nothing THEN "act" ELSE "poll") /\ UNCHANGED why
        BY DEF Linger
    <1>2. Hands(link, r) /\ Follows(link, r.link)
        BY EventHands, LinkIsFollowed DEF Hands
    <1>3. Alive("recv") /\ link.pending
        BY DEF Linger, Alive, GoodbyeIsLast
    <1>4. UNCHANGED <<plan, told, stopping, reporting, host, queues, showing, hdr, seen>>
        BY DEF Linger
    <1>5. UNCHANGED <<plan, told, stopping, interrupted, heard, host, rfiQ, asyncQ, held, hdr, taken, shown>>
        BY <1>4 DEF reporting, queues, showing
    <1>6. (\E p \in Places \ {"linger"} : Goes("recv", p)) /\ why' \in [Threads -> Errors]
        <2>1. CASE r.ev = Nothing /\ ~link.intercept
            <3>1. Reports("recv", "disconnect")
                BY <1>1, <2>1
            <3> QED
                BY <3>1, PlacesToGo DEF Reports, Goes, Errors, TypeOK, FlagsOK
        <2>2. CASE ~(r.ev = Nothing /\ ~link.intercept)
            <3>1. Goes("recv", IF r.ev # Nothing THEN "act" ELSE "poll") /\ UNCHANGED why
                BY <1>1, <2>2
            <3>2. (IF r.ev # Nothing THEN "act" ELSE "poll") \in Places \ {"linger"}
                BY PlacesToGo
            <3> QED
                BY <3>1, <3>2 DEF TypeOK, FlagsOK
        <2> QED
            BY <2>1, <2>2
    <1>7. Turn("recv") /\ at'["recv"] # "linger"
        BY <1>3, <1>5, <1>6, Going, ThreadNames
    <1>8. FlagsOK'
        BY <1>4, <1>6 DEF FlagsOK, TypeOK, reporting, queues
    <1>9. /\ r.link \in Links /\ LinkIsSound(r.link) /\ Ordered(r.link) /\ Above(hdr, r.link) /\ r.link.pending
        BY <1>2, <1>3, LinkIsFollowed DEF Follows
    <1>10. /\ link' \in Links /\ link'.peer = r.link.peer /\ link'.sock = r.link.sock
           /\ link'.pending = r.link.pending /\ link'.wire = r.link.wire /\ link'.inbox = r.link.inbox
           /\ link'.lost = r.link.lost /\ (link'.intercept <=> r.link.intercept /\ r.ev # Nothing)
        <2> DEFINE c == r.link.intercept /\ r.ev # Nothing
        <2>1. link' = [r.link EXCEPT !.intercept = c] /\ c \in BOOLEAN
            BY <1>1
        <2> HIDE DEF c
        <2>2. /\ link' \in Links /\ link'.peer = r.link.peer /\ link'.sock = r.link.sock
              /\ link'.pending = r.link.pending /\ link'.wire = r.link.wire /\ link'.inbox = r.link.inbox
              /\ link'.lost = r.link.lost
            BY <1>9, <2>1 DEF Links
        <2>3. link'.intercept = c
            BY <1>9, <2>1 DEF Links
        <2> QED
            BY <2>2, <2>3 DEF c
    <1>11. LinkIsSound(link')
        <2>1. r.link.wire = <<>> /\ (r.ev = Nothing => r.link.inbox = <<>>)
            BY <1>2, <1>9 DEF Hands, LinkIsSound
        <2> QED
            BY <1>9, <1>10, <2>1 DEF LinkIsSound
    <1>12. Ordered(link') /\ Above(hdr, link')
        BY <1>9, <1>10 DEF Ordered, Above
    <1>13. Linked => Linked'
        BY <1>2, <1>10 DEF Follows, Linked
    <1>14. got' \in Said \cup {Nothing, Goodbye} /\ (got' \in Said => hdr < got'.n /\ Above(got'.n, link'))
        <2>1. got' \in Said \cup {Nothing, Goodbye} /\ (got' \in Said => hdr < got'.n /\ Above(got'.n, r.link))
            BY <1>1, <1>2, LinkIsFollowed DEF Hands
        <2> QED
            BY <1>10, <2>1 DEF Above
    <1> QED
        BY <1>5, <1>7, <1>8, <1>10, <1>11, <1>12, <1>13, <1>14 DEF Linking

(* controlReceiveThreadFunc: a termination, a disconnect and an ignored    *)
(* message keep the order.                                                 *)
LEMMA GoodbyeSteps ==
    ASSUME TypeOK, GoodbyeIsLast, NumbersGrow, HandleTermination \/ HandleDisconnect \/ IgnoreMessage
    PROVE  Linking("recv")
    <1>1. Alive("recv") /\ got' = Nothing
        BY DEF HandleTermination, HandleDisconnect, IgnoreMessage, Alive
    <1>2. UNCHANGED <<plan, told, stopping, reporting, host, queues, showing, hdr, seen>>
        BY DEF HandleTermination, HandleDisconnect, IgnoreMessage
    <1>3. UNCHANGED <<plan, told, stopping, interrupted, heard, host, rfiQ, asyncQ, held, hdr, taken, shown>>
        BY <1>2 DEF reporting, queues, showing
    <1>4. (\E p \in Places \ {"linger"} : Goes("recv", p)) /\ why' \in [Threads -> Errors]
        <2>1. CASE IgnoreMessage
            BY <2>1, PlacesToGo DEF IgnoreMessage, TypeOK, FlagsOK
        <2>2. CASE HandleTermination \/ HandleDisconnect
            <3>1. TerminationCode(got) \in {"graceful", "early", "reason"}
                BY DEF TerminationCode
            <3>2. PICK e \in {"graceful", "early", "reason", "disconnect"} : Reports("recv", e)
                BY <2>2, <3>1 DEF HandleTermination, HandleDisconnect
            <3>3. e \in Errors
                BY DEF Errors
            <3>4. Goes("recv", "report") /\ "report" \in Places \ {"linger"}
                BY <3>2, PlacesToGo DEF Reports, Goes
            <3>5. why' \in [Threads -> Errors]
                BY <3>2, <3>3 DEF Reports, TypeOK, FlagsOK
            <3> QED
                BY <3>4, <3>5
        <2> QED
            BY <2>1, <2>2
    <1>5. Turn("recv") /\ at'["recv"] # "linger"
        BY <1>1, <1>3, <1>4, Going, ThreadNames
    <1>6. FlagsOK'
        BY <1>2, <1>4 DEF FlagsOK, TypeOK, reporting, queues
    <1>7. link' = link \/ link' = [link EXCEPT !.peer = "disconnected", !.inbox = <<>>]
        BY DEF HandleTermination, HandleDisconnect, IgnoreMessage
    <1>8. link \in Links /\ LinkIsSound(link) /\ Ordered(link) /\ Above(hdr, link)
        BY LinkIsFollowed DEF Sound
    <1>9. /\ link' \in Links /\ LinkIsSound(link') /\ Ordered(link') /\ Above(hdr, link')
          /\ Linked => Linked'
        <2>1. CASE link' = link
            BY <1>8, <2>1 DEF Linked
        <2>2. CASE link' = [link EXCEPT !.peer = "disconnected", !.inbox = <<>>]
            <3>1. /\ link' \in Links /\ link'.peer = "disconnected" /\ link'.sock = link.sock
                  /\ link'.pending = link.pending /\ link'.wire = link.wire /\ link'.inbox = <<>>
                  /\ link'.lost = link.lost
                <4>1. <<>> \in Seq(Said)
                    OBVIOUS
                <4>2. link' \in Links
                    BY <1>8, <2>2, <4>1 DEF Links
                <4>3. /\ link'.peer = "disconnected" /\ link'.sock = link.sock
                      /\ link'.pending = link.pending /\ link'.wire = link.wire /\ link'.inbox = <<>>
                      /\ link'.lost = link.lost
                    BY <1>8, <2>2 DEF Links
                <4> QED
                    BY <4>2, <4>3
            <3>2. \A i \in 1 .. Len(link'.inbox) : FALSE
                BY <3>1
            <3>3. LinkIsSound(link')
                BY <1>8, <3>1 DEF LinkIsSound
            <3>4. Ordered(link') /\ Above(hdr, link')
                BY <1>8, <3>1, <3>2 DEF Ordered, Above
            <3>5. Linked'
                BY <3>1 DEF Linked
            <3> QED
                BY <3>1, <3>3, <3>4, <3>5
        <2> QED
            BY <1>7, <2>1, <2>2
    <1>10. got' \in {Nothing} /\ Nothing \notin Said
        BY <1>1, Messaging, LinkIsFollowed
    <1> QED
        BY <1>3, <1>5, <1>6, <1>9, <1>10 DEF Linking

--------------------------------------------------------------------------------
(* The queue of callbacks.                                                 *)
LEMMA SlotsOfMessages ==
    ASSUME plan \in Plans
    PROVE  \A m \in Said : Slot(m) \in SlotsOf(plan) /\ Slot(m)[1] = m.kind
    BY DEF Said, SlotsOf, Slot

(* A message added at the end is the newest of its slot.                   *)
LEMMA NewestAppend ==
    ASSUME plan \in Plans, NEW w \in Seq(Said), NEW m \in Said, NEW took \in [SlotsOf(plan) -> Nat], NEW was,
           Newest(w, took, was)
    PROVE  Newest(Append(w, m), [took EXCEPT ![Slot(m)] = m.n], was)
    <1> DEFINE u == Append(w, m)
               tk == [took EXCEPT ![Slot(m)] = m.n]
    <1>1. /\ Len(u) = Len(w) + 1 /\ u[Len(w) + 1] = m /\ Len(w) \in Nat
          /\ \A i \in 1 .. Len(w) : u[i] = w[i] /\ i \in 1 .. Len(u)
        OBVIOUS
    <1>2. /\ Slot(m) \in SlotsOf(plan) /\ \A i \in 1 .. Len(w) : Slot(w[i]) \in SlotsOf(plan)
        BY SlotsOfMessages
    <1>3. /\ tk[Slot(m)] = m.n
          /\ \A s \in SlotsOf(plan) : s # Slot(m) => tk[s] = took[s]
        BY <1>2
    <1> HIDE DEF u, tk
    <1>4. Len(w) + 1 \in 1 .. Len(u) /\ \A i \in 1 .. Len(u) : i \in 1 .. Len(w) \/ i = Len(w) + 1
        BY <1>1
    <1>5. ASSUME NEW i \in 1 .. Len(u), \A j \in 1 .. Len(u) : j > i => Slot(u[j]) # Slot(u[i])
          PROVE  tk[Slot(u[i])] = u[i].n
        <2>1. CASE i = Len(w) + 1
            BY <1>1, <1>3, <2>1
        <2>2. CASE i \in 1 .. Len(w)
            <3>1. Slot(w[i]) # Slot(m)
                <4>1. Len(w) + 1 > i
                    BY <1>1, <2>2
                <4> QED
                    BY <1>1, <1>4, <1>5, <2>2, <4>1
            <3>2. \A j \in 1 .. Len(w) : j > i => Slot(w[j]) # Slot(w[i])
                BY <1>1, <1>5, <2>2
            <3>3. took[Slot(w[i])] = w[i].n
                BY <2>2, <3>2 DEF Newest
            <3> QED
                BY <1>1, <1>2, <1>3, <2>2, <3>1, <3>3
        <2> QED
            BY <1>4, <2>1, <2>2
    <1>6. ASSUME NEW s \in SlotsOf(plan), \A i \in 1 .. Len(u) : Slot(u[i]) # s
          PROVE  tk[s] <= was[s]
        <2>1. s # Slot(m)
            BY <1>1, <1>4, <1>6
        <2>2. \A i \in 1 .. Len(w) : Slot(w[i]) # s
            BY <1>1, <1>6
        <2> QED
            BY <1>3, <2>1, <2>2 DEF Newest
    <1>7. Newest(u, tk, was)
        BY <1>5, <1>6 DEF Newest
    <1> QED
        BY <1>7 DEF u, tk

(* The first message leaves: a newer one takes its place, or it is shown.  *)
LEMMA NewestTail ==
    ASSUME plan \in Plans, NEW w \in Seq(Said), w # <<>>, NEW took \in [SlotsOf(plan) -> Nat],
           NEW was \in [SlotsOf(plan) -> Nat], NEW now \in [SlotsOf(plan) -> Nat], Newest(w, took, was),
           \A s \in SlotsOf(plan) : s # Slot(w[1]) => now[s] = was[s],
           (\A i \in 1 .. Len(Tail(w)) : Slot(Tail(w)[i]) # Slot(w[1]))
              => (took[Slot(w[1])] = w[1].n => took[Slot(w[1])] <= now[Slot(w[1])])
    PROVE  Newest(Tail(w), took, now)
    <1> DEFINE u == Tail(w)
    <1>1. /\ Len(w) \in Nat /\ Len(w) >= 1 /\ Len(u) = Len(w) - 1
          /\ \A i \in 1 .. Len(u) : u[i] = w[i + 1] /\ i + 1 \in 1 .. Len(w)
        OBVIOUS
    <1>2. 1 \in 1 .. Len(w)
        BY <1>1
    <1>3. \A i \in 1 .. Len(w) : i = 1 \/ (i - 1 \in 1 .. Len(u) /\ u[i - 1] = w[i])
        <2>1. \A i \in 1 .. Len(w) : i # 1 => i - 1 \in 1 .. Len(u) /\ (i - 1) + 1 = i
            BY <1>1
        <2> QED
            BY <1>1, <2>1
    <1> HIDE DEF u
    <1>4. ASSUME NEW i \in 1 .. Len(u), \A j \in 1 .. Len(u) : j > i => Slot(u[j]) # Slot(u[i])
          PROVE  took[Slot(u[i])] = u[i].n
        <2>1. i + 1 \in 1 .. Len(w) /\ u[i] = w[i + 1]
            BY <1>1
        <2>2. ASSUME NEW j \in 1 .. Len(w), j > i + 1
              PROVE  Slot(w[j]) # Slot(w[i + 1])
            <3>1. j - 1 \in 1 .. Len(u) /\ u[j - 1] = w[j] /\ j - 1 > i
                BY <1>3, <2>2
            <3> QED
                BY <1>4, <2>1, <3>1
        <2> QED
            BY <2>1, <2>2 DEF Newest
    <1>5. ASSUME NEW s \in SlotsOf(plan), \A i \in 1 .. Len(u) : Slot(u[i]) # s
          PROVE  took[s] <= now[s]
        <2>1. CASE s = Slot(w[1])
            <3>1. \A j \in 1 .. Len(w) : j > 1 => Slot(w[j]) # Slot(w[1])
                BY <1>3, <1>5, <2>1
            <3>2. took[Slot(w[1])] = w[1].n
                BY <1>2, <3>1 DEF Newest
            <3> QED
                BY <1>5, <2>1, <3>2 DEF u
        <2>2. CASE s # Slot(w[1])
            <3>1. \A i \in 1 .. Len(w) : Slot(w[i]) # s
                BY <1>3, <1>5, <2>2
            <3> QED
                BY <2>2, <3>1 DEF Newest
        <2> QED
            BY <2>1, <2>2
    <1>6. Newest(u, took, now)
        BY <1>4, <1>5 DEF Newest
    <1> QED
        BY <1>6 DEF u

(* The callback thread's own steps, and the receive thread's that queues.  *)
Calling(t) ==
    /\ Turn(t) /\ AtOK' /\ FlagsOK' /\ QueuesOK' /\ MessagesOK' /\ NumbersGrow' /\ NewestWaits'
    /\ at'["recv"] = "linger" => at["recv"] = "linger"
    /\ UNCHANGED link

(* The types of everything the asynchronous callbacks use.                 *)
LEMMA CallbackFacts ==
    ASSUME TypeOK, plan' = plan
    PROVE  /\ plan \in Plans /\ Said' = Said /\ SlotsOf(plan)' = SlotsOf(plan)
           /\ AsyncBound \in Nat \ {0} /\ asyncQ \in LbqOf(Said, AsyncBound) /\ ~asyncQ.userWake
           /\ asyncQ.items \in Seq(Said) /\ Len(asyncQ.items) \in Nat
           /\ asyncQ.shutdown \in BOOLEAN /\ asyncQ.draining \in BOOLEAN
           /\ hdr \in Nat /\ taken \in [SlotsOf(plan) -> Nat] /\ shown \in [SlotsOf(plan) -> Nat]
           /\ Nothing \notin Said
    <1>1. plan \in Plans
        BY PlansAreTyped
    <1>2. asyncQ \in LbqOf(Said, AsyncBound) /\ ~asyncQ.userWake
        BY DEF TypeOK, QueuesOK
    <1>3. asyncQ.items \in Seq(Said) /\ asyncQ.shutdown \in BOOLEAN /\ asyncQ.draining \in BOOLEAN
        BY <1>2 DEF LbqOf
    <1>4. Len(asyncQ.items) \in Nat
        BY <1>3
    <1> QED
        BY <1>1, <1>2, <1>3, <1>4, PlanStays, Messaging, ControlAssumption DEF TypeOK, MessagesOK

(* The callbacks that still wait are messages of the host.                 *)
LEMMA WaitingFacts ==
    ASSUME TypeOK
    PROVE  Waiting \in Seq(Said)
    <1>1. asyncQ.items \in Seq(Said) /\ (at["async"] = "batch" => held \in Said)
        <2>1. asyncQ.items \in Seq(Said)
            BY DEF TypeOK, QueuesOK, LbqOf
        <2> QED
            BY <2>1 DEF TypeOK, AtOK
    <1>2. at["async"] = "batch" => <<held>> \in Seq(Said)
        BY <1>1
    <1> QED
        BY <1>1, <1>2 DEF Waiting

(* queueAsyncCallback: the new message is the newest of its slot, queued   *)
(* or refused.                                                             *)
LEMMA QueueSteps ==
    ASSUME TypeOK, GoodbyeIsLast, NumbersGrow, NewestWaits, QueueCallback
    PROVE  Calling("recv")
    <1>1. UNCHANGED <<plan, why, told, stopping, reporting, link, host, event, rfiQ, held, shown, seen>>
        BY DEF QueueCallback
    <1>2. got \in Said
        BY Messaging, PlansAreTyped DEF QueueCallback, AsyncKinds, TypeOK, MessagesOK
    <1>3. Turn("recv") /\ at'["recv"] = "poll"
        <2>1. Alive("recv") /\ Goes("recv", "poll") /\ "poll" \in Places
            BY PlacesToGo DEF QueueCallback, Alive
        <2>2. UNCHANGED <<plan, told, stopping, interrupted, heard, host>>
            BY <1>1 DEF reporting
        <2> QED
            BY <2>1, <2>2, Going, ThreadNames
    <1>4. FlagsOK'
        BY <1>1 DEF FlagsOK, TypeOK, reporting
    <1>5. AtOK'
        <2>1. Goes("recv", "poll") /\ "poll" \in Places /\ "recv" \in Threads /\ held' = held
            BY <1>1, PlacesToGo, ThreadNames DEF QueueCallback
        <2> QED
            BY <1>1, <2>1, Moved
    <1>6. QueuesOK'
        <2>1. asyncQ' = LbqOffer(asyncQ, got)
            BY DEF QueueCallback
        <2>2. asyncQ' \in LbqOf(Said, AsyncBound) /\ ~asyncQ'.userWake
            BY <1>1, <1>2, <2>1, CallbackFacts, QueueTypes
        <2> QED
            BY <1>1, <2>2, CallbackFacts DEF QueuesOK, TypeOK
    <1>7. Slot(got) \in SlotsOf(plan) /\ Slot(got)[1] = got.kind /\ got.n \in Nat
        BY <1>1, <1>2, CallbackFacts, SlotsOfMessages, Messaging
    <1>8. /\ hdr' \in Nat /\ got' = Nothing /\ (got.kind = "hdr" => hdr' = got.n)
          /\ (got.kind # "hdr" => hdr' = hdr) /\ hdr <= hdr' /\ (hdr' = got.n \/ hdr' = hdr)
        BY <1>1, <1>2, <1>7, CallbackFacts DEF QueueCallback, HdrAfter, NumbersGrow
    <1>9. \/ /\ taken' = [taken EXCEPT ![Slot(got)] = got.n]
             /\ asyncQ' = [asyncQ EXCEPT !.items = Append(@, got)] /\ ~asyncQ.shutdown /\ ~asyncQ.draining
          \/ taken' = taken /\ asyncQ' = asyncQ
        <2>1. CASE LbqOfferAnswer(asyncQ) = "success"
            <3>1. ~asyncQ.shutdown /\ ~asyncQ.draining
                BY <2>1 DEF LbqOfferAnswer
            <3> QED
                BY <2>1, <3>1 DEF QueueCallback, LbqOffer
        <2>2. CASE LbqOfferAnswer(asyncQ) # "success"
            BY <2>2 DEF QueueCallback, LbqOffer
        <2> QED
            BY <2>1, <2>2
    <1>10. MessagesOK'
        <2>1. taken' \in [SlotsOf(plan) -> Nat]
            BY <1>1, <1>7, <1>9, CallbackFacts
        <2> QED
            BY <1>1, <1>8, <2>1, CallbackFacts DEF MessagesOK
    <1>11. NumbersGrow'
        <2>1. Ordered(link') /\ Above(hdr', link')
            BY <1>1, <1>2, <1>8 DEF NumbersGrow
        <2>2. got' \notin Said'
            BY <1>1, <1>8, CallbackFacts
        <2>3. ASSUME NEW s \in SlotsOf(plan), s[1] = "hdr"
              PROVE  taken'[s] <= hdr'
            <3>1. taken[s] <= hdr /\ taken[s] \in Nat
                BY <1>1, <2>3, CallbackFacts DEF NumbersGrow
            <3>2. CASE s = Slot(got)
                <4>1. hdr' = got.n
                    BY <1>7, <1>8, <2>3, <3>2
                <4>2. taken'[s] = got.n \/ taken'[s] = taken[s]
                    BY <1>1, <1>9, CallbackFacts
                <4> QED
                    BY <1>7, <1>8, <3>1, <4>1, <4>2, CallbackFacts, <1>1
            <3>3. CASE s # Slot(got)
                <4>1. taken'[s] = taken[s]
                    BY <1>1, <1>9, <3>3, CallbackFacts
                <4> QED
                    BY <1>1, <1>8, <3>1, <4>1, CallbackFacts
            <3> QED
                BY <3>2, <3>3
        <2>4. SlotsOf(plan)' = SlotsOf(plan)
            BY <1>1
        <2> QED
            BY <2>1, <2>2, <2>3, <2>4 DEF NumbersGrow
    <1>12. Newest(Waiting', taken', shown')
        <2>1. at'["async"] = at["async"] /\ held' = held /\ shown' = shown
            BY <1>1, <1>3, ThreadNames DEF Turn
        <2>2. CASE taken' = taken /\ asyncQ' = asyncQ
            BY <2>1, <2>2 DEF Waiting, NewestWaits
        <2>3. CASE /\ taken' = [taken EXCEPT ![Slot(got)] = got.n]
                   /\ asyncQ' = [asyncQ EXCEPT !.items = Append(@, got)]
            <3>1. asyncQ'.items = Append(asyncQ.items, got)
                BY <1>1, <2>3, CallbackFacts DEF LbqOf
            <3>2. Waiting' = Append(Waiting, got)
                <4>1. CASE at["async"] = "batch"
                    <5>1. held \in Said /\ asyncQ.items \in Seq(Said)
                        BY <1>1, <4>1, CallbackFacts DEF TypeOK, AtOK
                    <5>2. <<held>> \o Append(asyncQ.items, got) = Append(<<held>> \o asyncQ.items, got)
                        BY <1>2, <5>1
                    <5> QED
                        BY <2>1, <3>1, <4>1, <5>2 DEF Waiting
                <4>2. CASE at["async"] # "batch"
                    BY <2>1, <3>1, <4>2 DEF Waiting
                <4> QED
                    BY <4>1, <4>2
            <3> QED
                BY <1>1, <1>2, <2>1, <2>3, <3>2, WaitingFacts, NewestAppend, CallbackFacts DEF NewestWaits
        <2> QED
            BY <1>9, <2>2, <2>3
    <1>13. at'["async"] = "ended" /\ ~asyncQ'.shutdown => asyncQ'.draining /\ asyncQ'.items = <<>>
        <2>1. at'["async"] = at["async"]
            BY <1>3, ThreadNames DEF Turn
        <2>2. asyncQ' # asyncQ => asyncQ'.draining = asyncQ.draining /\ asyncQ'.shutdown = asyncQ.shutdown /\ ~asyncQ.draining
            BY <1>1, <1>9, CallbackFacts DEF LbqOf
        <2> QED
            BY <2>1, <2>2 DEF NewestWaits
    <1>14. Newest(Waiting, taken, shown)'
        BY <1>1, <1>12 DEF Newest
    <1> QED
        BY <1>1, <1>3, <1>4, <1>5, <1>6, <1>10, <1>11, <1>13, <1>14 DEF Calling, NewestWaits

(* Waiting for a callback, leaving it to a newer one, or making it.        *)
LEMMA CallbackSteps ==
    ASSUME TypeOK, GoodbyeIsLast, NumbersGrow, NewestWaits, plan' = plan, link' = link,
           Alive("async"), NEW p \in {"wait", "batch", "ended"}, Goes("async", p), held' \in Said \cup {Nothing},
           p = "batch" => held' \in Said,
           UNCHANGED <<why, told, stopping, reporting, host, event, rfiQ, got, taken, hdr, seen>>,
           shown' \in [SlotsOf(plan) -> Nat],
           asyncQ' \in LbqOf(Said, AsyncBound), ~asyncQ'.userWake,
           Newest(Waiting', taken, shown'),
           p = "ended" /\ ~asyncQ'.shutdown => asyncQ'.draining /\ asyncQ'.items = <<>>
    PROVE  Calling("async")
    <1>1. Turn("async") /\ at'["async"] = p
        <2>1. p \in Places
            BY PlacesToGo
        <2>2. UNCHANGED <<plan, told, stopping, interrupted, heard, host>>
            BY DEF reporting
        <2> QED
            BY <2>1, <2>2, Going, ThreadNames
    <1>2. AtOK'
        <2>1. p \in Places /\ "async" \in Threads
            BY PlacesToGo, ThreadNames
        <2> QED
            BY <2>1, Moved
    <1>3. FlagsOK'
        BY DEF FlagsOK, TypeOK, reporting
    <1>4. QueuesOK' /\ MessagesOK'
        <2>1. QueuesOK'
            BY CallbackFacts DEF QueuesOK, TypeOK
        <2>2. MessagesOK'
            BY CallbackFacts DEF MessagesOK, TypeOK
        <2> QED
            BY <2>1, <2>2
    <1>5. NumbersGrow'
        <2>1. hdr' = hdr /\ taken' = taken /\ got' = got /\ link' = link /\ Said' = Said
              /\ SlotsOf(plan)' = SlotsOf(plan)
            BY CallbackFacts
        <2> QED
            BY <2>1 DEF NumbersGrow
    <1>6. NewestWaits'
        <2>1. Newest(Waiting, taken, shown)'
            BY DEF Newest
        <2> QED
            BY <1>1, <2>1 DEF NewestWaits
    <1>7. at'["recv"] = at["recv"]
        BY <1>1, ThreadNames DEF Turn
    <1> QED
        BY <1>1, <1>2, <1>3, <1>4, <1>5, <1>6, <1>7 DEF Calling

(* The first callback of the queue and the rest.                           *)
LEMMA QueuedItems ==
    ASSUME TypeOK, asyncQ.items # <<>>
    PROVE  /\ Head(asyncQ.items) \in Said /\ Tail(asyncQ.items) \in Seq(Said)
           /\ <<Head(asyncQ.items)>> \o Tail(asyncQ.items) = asyncQ.items
           /\ [asyncQ EXCEPT !.items = Tail(@)].items = Tail(asyncQ.items)
    <1>1. asyncQ.items \in Seq(Said)
        BY CallbackFacts DEF TypeOK, QueuesOK, LbqOf
    <1>2. [asyncQ EXCEPT !.items = Tail(@)].items = Tail(asyncQ.items)
        BY DEF TypeOK, QueuesOK, LbqOf
    <1>3. Head(asyncQ.items) \in Said /\ Tail(asyncQ.items) \in Seq(Said)
        BY <1>1, HeadTailProperties
    <1>4. <<Head(asyncQ.items)>> \o Tail(asyncQ.items) = asyncQ.items
        <2>1. \A S : \A s \in Seq(S) : s # <<>> => <<Head(s)>> \o Tail(s) = s
            OBVIOUS
        <2> QED
            BY <1>1, <2>1
    <1> QED
        BY <1>2, <1>3, <1>4

(* asyncCallbackThreadFunc: taking a callback forgets none.                *)
LEMMA TakeSteps ==
    ASSUME TypeOK, GoodbyeIsLast, NumbersGrow, NewestWaits, TakeCallback
    PROVE  Calling("async")
    <1>1. /\ UNCHANGED <<plan, why, told, stopping, reporting, link, host, event, rfiQ, got, taken, shown, hdr, seen>>
          /\ at["async"] = "wait" /\ asyncQ' = LbqWait(asyncQ)
        BY DEF TakeCallback
    <1>2. Alive("async")
        BY <1>1 DEF Alive
    <1>3. asyncQ' \in LbqOf(Said, AsyncBound) /\ ~asyncQ'.userWake
        BY <1>1, CallbackFacts, QueueTypes
    <1>4. CASE LbqWaitAnswer(asyncQ) = "success"
        <2>1. held' = Head(asyncQ.items) /\ Goes("async", "batch") /\ asyncQ' = [asyncQ EXCEPT !.items = Tail(@)]
            BY <1>1, <1>4 DEF TakeCallback, LbqWait
        <2>2. asyncQ.items # <<>>
            BY <1>1, <1>4, CallbackFacts DEF LbqWaitAnswer
        <2>3. held' \in Said /\ <<held'>> \o asyncQ'.items = asyncQ.items
            BY <2>1, <2>2, QueuedItems
        <2>4. at'["async"] = "batch"
            BY <2>1, ThreadNames DEF Goes, TypeOK, AtOK
        <2>5. Waiting' = Waiting
            BY <1>1, <2>3, <2>4 DEF Waiting
        <2>6. Newest(Waiting', taken, shown')
            BY <1>1, <2>5 DEF NewestWaits
        <2> QED
            BY <1>1, <1>2, <1>3, <2>1, <2>3, <2>6, CallbackSteps, CallbackFacts
    <1>5. CASE LbqWaitAnswer(asyncQ) # "success"
        <2>1. held' = held /\ Goes("async", "ended")
            BY <1>5 DEF TakeCallback
        <2>2. asyncQ' = asyncQ
            BY <1>1, <1>5, CallbackFacts DEF LbqWait, LbqWaitAnswer
        <2>3. at'["async"] = "ended"
            BY <2>1, ThreadNames DEF Goes, TypeOK, AtOK
        <2>4. Waiting' = Waiting
            BY <1>1, <2>2, <2>3 DEF Waiting
        <2>5. ~asyncQ'.shutdown => asyncQ'.draining /\ asyncQ'.items = <<>>
            BY <1>1, <1>5, <2>2, CallbackFacts DEF LbqWaitAnswer, LbqMustWait, TakeCallback
        <2>6. Newest(Waiting', taken, shown')
            BY <1>1, <2>4 DEF NewestWaits
        <2>7. held' \in Said \cup {Nothing}
            BY <2>1 DEF TypeOK, QueuesOK
        <2> QED
            BY <1>1, <1>2, <1>3, <2>1, <2>5, <2>6, <2>7, CallbackSteps, CallbackFacts
    <1> QED
        BY <1>4, <1>5

(* asyncCallbackThreadFunc: a callback is skipped only for a newer one of  *)
(* its slot.                                                               *)
LEMMA BatchSteps ==
    ASSUME TypeOK, GoodbyeIsLast, NumbersGrow, NewestWaits, Batch
    PROVE  Calling("async")
    <1>1. /\ UNCHANGED <<plan, at, why, told, stopping, reporting, link, host, event, rfiQ, got, taken, shown, hdr, seen>>
          /\ at["async"] = "batch" /\ asyncQ' = LbqPoll(asyncQ) /\ held' = Head(asyncQ.items) /\ CanBatch
        BY DEF Batch
    <1>2. /\ Alive("async") /\ Goes("async", "batch") /\ held \in Said
        BY <1>1, ThreadNames DEF Alive, Goes, TypeOK, AtOK
    <1>3. asyncQ' \in LbqOf(Said, AsyncBound) /\ ~asyncQ'.userWake
        BY <1>1, CallbackFacts, QueueTypes
    <1>4. asyncQ.items # <<>> /\ Slot(held) = Slot(held')
        <2>1. LbqPollAnswer(asyncQ) = "success" /\ Slot(held) = Slot(held')
            BY <1>1 DEF CanBatch, SameCallback
        <2> QED
            BY <1>1, <2>1, CallbackFacts DEF LbqPollAnswer
    <1>5. asyncQ' = [asyncQ EXCEPT !.items = Tail(@)]
        BY <1>1 DEF LbqPoll, CanBatch
    <1>6. held' \in Said /\ <<held'>> \o asyncQ'.items = asyncQ.items
        BY <1>1, <1>4, <1>5, QueuedItems
    <1>7. /\ Waiting = <<held>> \o asyncQ.items /\ Waiting' = asyncQ.items /\ asyncQ.items \in Seq(Said)
        BY <1>1, <1>6, CallbackFacts DEF Waiting
    <1>8. /\ Tail(Waiting) = asyncQ.items /\ Waiting[1] = held /\ Waiting # <<>>
        BY <1>2, <1>7
    <1>9. asyncQ.items[1] = held' /\ 1 \in 1 .. Len(asyncQ.items)
        BY <1>1, <1>4, <1>7
    <1>10. Newest(Tail(Waiting), taken, shown)
        <2>1. Slot(Tail(Waiting)[1]) = Slot(Waiting[1]) /\ 1 \in 1 .. Len(Tail(Waiting))
            BY <1>4, <1>8, <1>9
        <2>2. Waiting \in Seq(Said)
            BY WaitingFacts
        <2>3. Newest(Waiting, taken, shown)
            BY DEF NewestWaits
        <2> QED
            BY <1>1, <1>8, <2>1, <2>2, <2>3, NewestTail, CallbackFacts
    <1>11. Newest(Waiting', taken, shown')
        BY <1>1, <1>7, <1>8, <1>10
    <1> QED
        BY <1>1, <1>2, <1>3, <1>6, <1>11, CallbackSteps, CallbackFacts

(* asyncCallbackThreadFunc: calling the client shows it what it held.      *)
LEMMA MakeSteps ==
    ASSUME TypeOK, GoodbyeIsLast, NumbersGrow, NewestWaits, MakeCallback
    PROVE  Calling("async")
    <1> DEFINE n == IF held.kind = "hdr" THEN hdr ELSE held.n
    <1>1. /\ UNCHANGED <<plan, why, told, stopping, reporting, link, host, queues, got, taken, hdr, seen>>
          /\ at["async"] = "batch" /\ held' = Nothing /\ Goes("async", "wait")
          /\ shown' = [shown EXCEPT ![Slot(held)] = n]
        BY DEF MakeCallback
    <1>2. UNCHANGED <<event, rfiQ, asyncQ>>
        BY <1>1 DEF queues
    <1>3. Alive("async") /\ held \in Said /\ at'["async"] = "wait"
        BY <1>1, ThreadNames DEF Alive, Goes, TypeOK, AtOK
    <1>4. n \in Nat /\ Slot(held) \in SlotsOf(plan) /\ Slot(held)[1] = held.kind
        BY <1>1, <1>3, SlotsOfMessages, Messaging, CallbackFacts
    <1>5. taken[Slot(held)] = held.n => taken[Slot(held)] <= n
        BY <1>4, <1>3, <1>1, CallbackFacts, Messaging DEF NumbersGrow
    <1> HIDE DEF n
    <1>6. /\ shown' \in [SlotsOf(plan) -> Nat] /\ shown'[Slot(held)] = n
          /\ \A s \in SlotsOf(plan) : s # Slot(held) => shown'[s] = shown[s]
        BY <1>1, <1>4, CallbackFacts
    <1>7. Waiting = <<held>> \o asyncQ.items /\ Waiting' = asyncQ.items /\ asyncQ.items \in Seq(Said)
        BY <1>1, <1>2, <1>3, CallbackFacts DEF Waiting
    <1>8. /\ Tail(Waiting) = asyncQ.items /\ Waiting[1] = held /\ Waiting # <<>>
        BY <1>3, <1>7
    <1>9. Newest(Tail(Waiting), taken, shown')
        <2>1. Waiting \in Seq(Said) /\ Newest(Waiting, taken, shown)
            BY WaitingFacts DEF NewestWaits
        <2>2. plan \in Plans /\ taken \in [SlotsOf(plan) -> Nat] /\ shown \in [SlotsOf(plan) -> Nat]
            BY <1>1, CallbackFacts
        <2>3. taken[Slot(Waiting[1])] = Waiting[1].n => taken[Slot(Waiting[1])] <= shown'[Slot(Waiting[1])]
            BY <1>5, <1>6, <1>8
        <2>4. \A s \in SlotsOf(plan) : s # Slot(Waiting[1]) => shown'[s] = shown[s]
            BY <1>6, <1>8
        <2> QED
            BY <1>6, <1>8, <2>1, <2>2, <2>3, <2>4, NewestTail
    <1>10. Newest(Waiting', taken, shown')
        BY <1>7, <1>8, <1>9
    <1>11. asyncQ' \in LbqOf(Said, AsyncBound) /\ ~asyncQ'.userWake
        BY <1>1, <1>2, CallbackFacts
    <1> QED
        BY <1>1, <1>2, <1>3, <1>6, <1>10, <1>11, CallbackSteps

(* Every step of a thread is of one of the three kinds.                    *)
LEMMA ThreadSteps ==
    ASSUME TypeOK, GoodbyeIsLast, NumbersGrow, NewestWaits, NEW t \in Threads, Thread(t)
    PROVE  Silent(t) \/ Linking(t) \/ Calling(t)
    <1>1. CASE Report(t) \/ Raise(t)
        BY <1>1, ReportingSteps
    <1>2. CASE t = "recv" /\ Receiver
        BY <1>2, ReceiverLeaves, PollSteps, LingerSteps, QueueSteps, GoodbyeSteps DEF Receiver
    <1>3. CASE t = "loss" /\ LossTurn
        BY <1>3, LossSteps
    <1>4. CASE t = "idr" /\ (IdrWakes \/ IdrClears \/ IdrChecks \/ RequestIdrFrame)
        BY <1>4, RequestSteps, SenderSteps DEF RequestIdrFrame, Senders
    <1>5. CASE t = "rfi" /\ (InvalidationWakes \/ RequestInvalidation)
        BY <1>5, InvalidationSteps, SenderSteps DEF RequestInvalidation, Senders
    <1>6. CASE t = "input" /\ (InputWakes \/ SendInputPacket)
        BY <1>6, WaitingSteps, SenderSteps DEF SendInputPacket, Senders
    <1>7. CASE t = "async" /\ Callbacks
        BY <1>7, TakeSteps, BatchSteps, MakeSteps DEF Callbacks
    <1>8. CASE t = "vrecv" /\ (VideoReceiverEnds \/ VideoReceiverFails \/ SawFrame \/ DetectLoss)
        BY <1>8, WaitingSteps, VideoSteps
    <1>9. CASE t = "vdec" /\ DecoderWakes
        BY <1>9, WaitingSteps
    <1>10. CASE t = "vping" /\ PingEnds
        BY <1>10, WaitingSteps
    <1>11. CASE t \in {"vrecv", "vdec"} /\ Video(t)
        BY <1>11, DemandSteps
    <1> QED
        BY <1>1, <1>2, <1>3, <1>4, <1>5, <1>6, <1>7, <1>8, <1>9, <1>10, <1>11 DEF Thread

--------------------------------------------------------------------------------
(* What a step of another actor leaves to the client.                      *)
Staged == Starts /\ Runs /\ Stops /\ NothingOutlivesWhatItUses

(* The calls of a start depend on the scenario only.                       *)
LEMMA PlanKeepsCalls ==
    ASSUME plan' = plan
    PROVE  StartOf' = StartOf /\ VideoStart' = VideoStart
    BY DEF StartOf, ControlStart, VideoStart, When

(* The threads created until a call depend on the scenario only.           *)
LEMMA BornStay ==
    ASSUME plan' = plan, NEW n, NEW k
    PROVE  Born(n, k)' = Born(n, k)
    <1>1. VideoStart' = VideoStart
        BY PlanKeepsCalls
    <1> QED
        BY <1>1 DEF Born

(* A step that destroys nothing leaves what a start has set up.            *)
LEMMA SetUpStays ==
    ASSUME TypeOK, NEW n \in 0 .. 11, NEW k \in Nat, SetUp(n, k), plan' = plan, alive' = alive, renderer' = renderer,
           Running' \subseteq Running, Linked => Linked',
           Reached(n, k, 7, 1) \/ UNCHANGED <<link, host, hdr, got>>
    PROVE  SetUp(n, k)'
    <1>1. Running' \subseteq Born(n, k)'
        BY BornStay DEF SetUp
    <1>2. ~Reached(n, k, 7, 1) => link' = NoLink /\ host' = "here" /\ hdr' = 0 /\ got' = Nothing
        BY DEF SetUp
    <1> QED
        BY <1>1, <1>2 DEF SetUp

(* No thread is created before the control connection is made.             *)
LEMMA BornIsLate ==
    ASSUME plan \in Plans, NEW n \in 0 .. 11, NEW k \in Nat, NEW t \in Born(n, k)
    PROVE  Reached(n, k, 7, 1)
    <1>1. \A m \in 0 .. 10 : Len(VideoStart) \in {5, 6, 7}
        BY StartCalls
    <1>2. 0 \in 0 .. 10
        OBVIOUS
    <1>3. Len(VideoStart) \in {5, 6, 7}
        BY <1>1, <1>2
    <1> QED
        BY <1>3 DEF Born, Reached

(* The numbers of stages and calls have their types.                       *)
LEMMA CallNumbers ==
    ASSUME plan \in Plans, NEW n \in 0 .. 10, NEW k \in 0 .. Len(StartOf[n + 1])
    PROVE  k \in Nat /\ Len(StartOf[n + 1]) \in Nat \ {0} /\ StartOf[n + 1] \in Seq(Steps) /\ n \in 0 .. 11
    <1>1. Len(StartOf[n + 1]) \in Nat \ {0} /\ StartOf[n + 1] \in Seq(Steps)
        BY StartCalls
    <1> QED
        BY <1>1

(* Threads and network keep what the start or the stop relies on.          *)
LEMMA OthersKeepStages ==
    ASSUME TypeOK, Staged, plan' = plan, UNCHANGED appVars, Running' \subseteq Running, Linked => Linked',
           Running # {} \/ UNCHANGED <<link, host, hdr, got>> \/ link # NoLink \/ host # "here"
    PROVE  Staged'
    <1>1. plan \in Plans /\ UNCHANGED <<app, stage, todo, alive, renderer>>
        BY PlansAreTyped DEF appVars
    <1>2. StartOf' = StartOf
        BY <1>1, PlanKeepsCalls
    <1>3. ASSUME NEW n \in 0 .. 11, NEW k \in Nat, SetUp(n, k)
          PROVE  SetUp(n, k)'
        <2>1. Reached(n, k, 7, 1) \/ UNCHANGED <<link, host, hdr, got>>
            <3>1. CASE Running # {}
                <4>1. PICK t : t \in Born(n, k)
                    BY <1>3, <3>1 DEF SetUp
                <4> QED
                    BY <1>1, <4>1, BornIsLate
            <3>2. CASE link # NoLink \/ host # "here"
                BY <1>3, <3>2 DEF SetUp
            <3> QED
                BY <3>1, <3>2
        <2> QED
            BY <1>1, <1>3, <2>1, SetUpStays
    <1>4. Starts'
        <2> SUFFICES ASSUME app' = "start"
                     PROVE  stage' \in 0..10 /\ \E k \in 0 .. Len(StartOf'[stage' + 1]) : Progressed(stage, k)'
            BY DEF Starts
        <2>1. stage \in 0..10 /\ app = "start"
            BY <1>1 DEF Staged, Starts
        <2>2. PICK k \in 0 .. Len(StartOf[stage + 1]) : Progressed(stage, k)
            BY <2>1 DEF Staged, Starts
        <2>3. SetUp(stage, k)'
            <3>1. k \in Nat /\ stage \in 0 .. 11 /\ SetUp(stage, k)
                BY <1>1, <2>1, <2>2, CallNumbers DEF Progressed
            <3>2. \A n \in 0 .. 11 : \A i \in Nat : SetUp(n, i) => SetUp(n, i)'
                BY <1>3
            <3> QED
                BY <1>1, <3>1, <3>2 DEF SetUp
        <2>4. Progressed(stage, k)'
            BY <1>1, <1>2, <2>2, <2>3 DEF Progressed
        <2> QED
            BY <1>1, <1>2, <2>1, <2>4
    <1>5. Runs'
        <2>1. SetUp(11, 0) => SetUp(11, 0)'
            BY <1>3
        <2> QED
            BY <1>1, <2>1 DEF Staged, Runs
    <1>6. Stops'
        BY <1>1 DEF Staged, Stops
    <1>7. NothingOutlivesWhatItUses'
        <2>1. \A t \in Threads : Alive(t)' => Alive(t)
            BY DEF Running
        <2> QED
            BY <1>1, <2>1, ThreadNames DEF Staged, NothingOutlivesWhatItUses
    <1> QED
        BY <1>4, <1>5, <1>6, <1>7 DEF Staged

(* The steps of the threads, of the host and of the termination callback   *)
(* keep the invariant.                                                     *)
LEMMA TurnsKeepStages ==
    ASSUME IInv, NEW t, Turn(t), UNCHANGED appVars, Linked => Linked'
    PROVE  Staged' /\ ClientOK' /\ plan' \in Scenarios /\ plan' = plan
    <1>1. plan' = plan /\ t \in Running
        BY DEF Turn, Running
    <1>2. Running' \subseteq Running
        BY <1>1 DEF Running, Turn, Alive
    <1>3. TypeOK /\ Staged
        BY DEF IInv, Staged
    <1> QED
        BY <1>1, <1>2, <1>3, OthersKeepStages DEF TypeOK, ClientOK, appVars

(* A turn of a thread leaves the callback thread where it was.             *)
LEMMA TurnsKeepPlaces ==
    ASSUME TypeOK, NEW t, Turn(t), t # "async", held' = held
    PROVE  AtOK' /\ at'["async"] = at["async"]
    <1>1. Said' = Said
        BY PlanStays DEF Turn
    <1> QED
        BY <1>1, ThreadNames DEF Turn, AtOK, TypeOK

(* A step that touches no callback forgets none.                           *)
LEMMA CallbacksStay ==
    ASSUME NewestWaits, plan' = plan, at'["async"] = at["async"], UNCHANGED <<held, asyncQ, taken, shown>>
    PROVE  NewestWaits'
    <1>1. Waiting' = Waiting
        BY DEF Waiting
    <1> QED
        BY <1>1 DEF NewestWaits, Newest

(* A silent step keeps the invariant.                                      *)
LEMMA SilentKeeps ==
    ASSUME IInv, NEW t, Silent(t), UNCHANGED appVars
    PROVE  IInv'
    <1>1. TypeOK /\ Turn(t) /\ t # "async" /\ plan' = plan
        BY DEF IInv, Silent, Turn
    <1>2. UNCHANGED <<link, asyncQ, got, held, hdr, taken, shown, host>> /\ (Linked => Linked')
        BY DEF Silent, Linked, Turn
    <1>3. Staged' /\ ClientOK' /\ plan' \in Scenarios
        BY <1>1, <1>2, TurnsKeepStages
    <1>4. AtOK' /\ at'["async"] = at["async"]
        BY <1>1, <1>2, TurnsKeepPlaces
    <1>5. Said' = Said /\ Links' = Links /\ SlotsOf(plan)' = SlotsOf(plan)
        BY <1>1, PlanStays
    <1>6. TypeOK'
        <2>1. QueuesOK' /\ MessagesOK' /\ link' \in Links'
            BY <1>1, <1>2, <1>5 DEF TypeOK, QueuesOK, MessagesOK, Silent
        <2>2. FlagsOK'
            BY DEF Silent
        <2> QED
            BY <1>3, <1>4, <2>1, <2>2 DEF TypeOK
    <1>7. GoodbyeIsLast'
        BY <1>1, <1>2 DEF GoodbyeIsLast, IInv, LinkIsSound, Silent
    <1>8. NumbersGrow'
        BY <1>2, <1>5 DEF NumbersGrow, IInv
    <1>9. NewestWaits'
        BY <1>1, <1>2, <1>4, CallbacksStay DEF IInv
    <1> QED
        BY <1>3, <1>6, <1>7, <1>8, <1>9 DEF IInv, Staged

(* A step over the link keeps the invariant.                               *)
LEMMA LinkingKeeps ==
    ASSUME IInv, NEW t, Linking(t), UNCHANGED appVars
    PROVE  IInv'
    <1>1. TypeOK /\ Turn(t) /\ t # "async" /\ plan' = plan /\ host' = host
        BY DEF IInv, Linking, Turn
    <1>2. UNCHANGED <<rfiQ, asyncQ, held, hdr, taken, shown>> /\ (Linked => Linked')
        BY DEF Linking
    <1>3. Staged' /\ ClientOK' /\ plan' \in Scenarios
        BY <1>1, <1>2, TurnsKeepStages
    <1>4. AtOK' /\ at'["async"] = at["async"]
        BY <1>1, <1>2, TurnsKeepPlaces
    <1>5. Said' = Said /\ Links' = Links /\ SlotsOf(plan)' = SlotsOf(plan)
        BY <1>1, PlanStays
    <1>6. TypeOK'
        <2>1. QueuesOK' /\ MessagesOK' /\ link' \in Links'
            BY <1>1, <1>2, <1>5 DEF TypeOK, QueuesOK, MessagesOK, Linking
        <2>2. FlagsOK'
            BY DEF Linking
        <2> QED
            BY <1>3, <1>4, <2>1, <2>2 DEF TypeOK
    <1>7. GoodbyeIsLast'
        <2>1. LinkIsSound(link)'
            BY <1>1 DEF Linking, LinkIsSound
        <2> QED
            BY <2>1 DEF GoodbyeIsLast, Linking
    <1>8. NumbersGrow'
        BY <1>2, <1>5 DEF NumbersGrow, IInv, Linking
    <1>9. NewestWaits'
        BY <1>1, <1>2, <1>4, CallbacksStay DEF IInv
    <1> QED
        BY <1>3, <1>6, <1>7, <1>8, <1>9 DEF IInv, Staged

(* A step over the callbacks keeps the invariant.                          *)
LEMMA CallingKeeps ==
    ASSUME IInv, NEW t, Calling(t), UNCHANGED appVars
    PROVE  IInv'
    <1>1. TypeOK /\ Turn(t) /\ plan' = plan /\ host' = host /\ link' = link
        BY DEF IInv, Calling, Turn
    <1>2. Linked => Linked'
        BY <1>1 DEF Linked
    <1>3. Staged' /\ ClientOK' /\ plan' \in Scenarios
        BY <1>1, <1>2, TurnsKeepStages
    <1>4. Links' = Links
        BY <1>1, PlanStays
    <1>5. TypeOK'
        BY <1>1, <1>3, <1>4 DEF TypeOK, Calling
    <1>6. GoodbyeIsLast'
        BY <1>1 DEF GoodbyeIsLast, IInv, LinkIsSound, Calling
    <1> QED
        BY <1>3, <1>5, <1>6 DEF IInv, Staged, Calling

(* Every step of every thread keeps the invariant.                         *)
LEMMA ThreadsKeep ==
    ASSUME IInv, NEW t \in Threads, Thread(t), UNCHANGED appVars
    PROVE  IInv'
    <1>1. Silent(t) \/ Linking(t) \/ Calling(t)
        BY ThreadSteps DEF IInv
    <1> QED
        BY <1>1, SilentKeeps, LinkingKeeps, CallingKeeps

(* The host, the network and the calls of the client keep the invariant.   *)
LEMMA EnvironmentKeeps ==
    ASSUME IInv, CallClient \/ Environment, UNCHANGED appVars
    PROVE  IInv'
    <1>1. /\ TypeOK /\ Staged
          /\ UNCHANGED <<plan, at, why, told, stopping, interrupted, terminated, code, queues, got, showing, hdr, seen>>
        BY DEF IInv, Staged, CallClient, Environment, HostLeaves, HostGivesUp, PeerExpires, reporting
    <1>2. UNCHANGED <<event, rfiQ, asyncQ, held, taken, shown>>
        BY <1>1 DEF queues, showing
    <1>3. link' = link \/ (host' = "dead" /\ link' = [link EXCEPT !.wire = <<>>])
        BY DEF CallClient, Environment, HostLeaves, HostGivesUp, PeerExpires
    <1>4. /\ link \in Links /\ LinkIsSound(link) /\ Ordered(link) /\ Above(hdr, link)
          /\ got \in Said => Above(got.n, link)
          /\ at["recv"] = "linger" => link.pending
        BY DEF IInv, TypeOK, GoodbyeIsLast, NumbersGrow
    <1>5. /\ link' \in Links /\ link'.peer = link.peer /\ link'.sock = link.sock /\ link'.intercept = link.intercept
          /\ link'.pending = link.pending /\ link'.inbox = link.inbox /\ link'.lost = link.lost
          /\ link'.wire = link.wire \/ link'.wire = <<>>
        <2>1. CASE link' = link
            BY <1>4, <2>1
        <2>2. CASE link' = [link EXCEPT !.wire = <<>>]
            <3>1. <<>> \in Seq(Said)
                OBVIOUS
            <3>2. link' \in Links
                BY <1>4, <2>2, <3>1 DEF Links
            <3>3. /\ link'.peer = link.peer /\ link'.sock = link.sock /\ link'.intercept = link.intercept
                  /\ link'.pending = link.pending /\ link'.inbox = link.inbox /\ link'.lost = link.lost
                  /\ link'.wire = <<>>
                BY <1>4, <2>2 DEF Links
            <3> QED
                BY <3>2, <3>3
        <2> QED
            BY <1>3, <2>1, <2>2
    <1>6. /\ host' \in {"here", "leaving", "dead", "expired"} /\ alarms' \in Nat /\ heard' \in Nat
          /\ host' = "expired" => host = "expired" \/ link.inbox = <<>>
          /\ host' \in {"dead", "expired"} => link'.wire = <<>>
        <2>1. CASE CallClient
            BY <1>4, <2>1 DEF CallClient, TypeOK, FlagsOK, IInv, LinkIsSound
        <2>2. CASE HostLeaves
            <3>1. host' \in {"leaving", "dead"} /\ (host' = "dead" => link' = [link EXCEPT !.wire = <<>>])
                BY <2>2, <1>1, PlansAreTyped DEF HostLeaves
            <3>2. host' = "dead" => link'.wire = <<>>
                BY <1>4, <3>1 DEF Links
            <3> QED
                BY <1>1, <2>2, <3>1, <3>2 DEF HostLeaves, reporting, TypeOK, FlagsOK
        <2>3. CASE HostGivesUp
            BY <1>1, <2>3 DEF HostGivesUp, reporting, TypeOK, FlagsOK
        <2>4. CASE PeerExpires
            BY <1>1, <1>4, <2>4 DEF PeerExpires, reporting, TypeOK, FlagsOK, LinkIsSound
        <2> QED
            BY <2>1, <2>2, <2>3, <2>4 DEF Environment
    <1>7. Said' = Said /\ Links' = Links /\ SlotsOf(plan)' = SlotsOf(plan)
        BY <1>1, PlanStays
    <1>8. Staged'
        <2>1. Running' = Running /\ (Linked => Linked')
            BY <1>1, <1>5 DEF Running, Alive, Linked
        <2>2. UNCHANGED <<link, host, hdr, got>> \/ link # NoLink \/ host # "here"
            <3>1. CASE CallClient
                BY <3>1 DEF CallClient
            <3>2. CASE HostLeaves
                <4>1. link.peer = "connected" \/ link.sock = "open"
                    BY <3>2 DEF HostLeaves
                <4> QED
                    BY <4>1 DEF NoLink
            <3>3. CASE HostGivesUp \/ PeerExpires
                BY <3>3 DEF HostGivesUp, PeerExpires
            <3> QED
                BY <3>1, <3>2, <3>3 DEF Environment
        <2> QED
            BY <1>1, <2>1, <2>2, OthersKeepStages
    <1>9. TypeOK'
        <2>1. AtOK' /\ QueuesOK' /\ MessagesOK'
            BY <1>1, <1>2, <1>7 DEF TypeOK, AtOK, QueuesOK, MessagesOK
        <2>2. FlagsOK'
            BY <1>1, <1>2, <1>6 DEF TypeOK, FlagsOK
        <2>3. ClientOK'
            BY DEF IInv, TypeOK, ClientOK, appVars
        <2> QED
            BY <1>1, <1>5, <1>7, <2>1, <2>2, <2>3 DEF TypeOK
    <1>10. GoodbyeIsLast'
        <2>1. LinkIsSound(link)'
            BY <1>1, <1>4, <1>5, <1>6 DEF LinkIsSound
        <2> QED
            BY <1>1, <1>4, <1>5, <2>1 DEF GoodbyeIsLast
    <1>11. NumbersGrow'
        <2>1. \A i \in 1 .. Len(<<>>) : FALSE
            OBVIOUS
        <2>2. Ordered(link')
            BY <1>4, <1>5, <2>1 DEF Ordered
        <2>3. \A b : Above(b, link) => Above(b, link')
            BY <1>5, <2>1 DEF Above
        <2> QED
            BY <1>1, <1>2, <1>4, <1>7, <2>2, <2>3 DEF NumbersGrow, IInv
    <1>12. NewestWaits'
        BY <1>1, <1>2, CallbacksStay DEF IInv
    <1> QED
        BY <1>8, <1>9, <1>10, <1>11, <1>12 DEF IInv, Staged

--------------------------------------------------------------------------------
(* The client's calls while a connection starts.                           *)
LEMMA NextReached ==
    ASSUME NEW n \in 0 .. 10, NEW k \in Nat, NEW stg \in Nat, NEW call \in Nat
    PROVE  Reached(n, k + 1, stg, call) <=> Reached(n, k, stg, call) \/ (n = stg /\ call = k + 1)
    BY DEF Reached

(* A call of a start that succeeds adds what it sets up.                   *)
LEMMA SetUpAdvances ==
    ASSUME plan \in Plans, plan' = plan, NEW n \in 0 .. 10, NEW k \in Nat, NEW op, IsCall(n, k + 1, op), SetUp(n, k),
           alive \subseteq alive', Linked => Linked',
           \A t \in Running' : t \in Running \/ op = <<"create", t>>,
           \A o \in {"control", "video", "input"} : op = <<"open", o>> => o \in alive',
           op = <<"bind", "video">> => "socket" \in alive',
           op = <<"renderer", "started">> => renderer' = "started",
           op[1] # "renderer" => renderer' = renderer,
           op = <<"connect", "control">> => Linked',
           Reached(n, k, 7, 1) \/ op = <<"connect", "control">> \/ UNCHANGED <<link, host, hdr, got>>
    PROVE  SetUp(n, k + 1)'
    <1>1. \A m \in 0 .. 10 : Len(VideoStart) \in {5, 6, 7}
        BY StartCalls
    <1>2. Len(VideoStart) \in {5, 6, 7} /\ VideoStart' = VideoStart
        <2>1. 0 \in 0 .. 10
            OBVIOUS
        <2> QED
            BY <1>1, <2>1, PlanKeepsCalls
    <1>3. /\ ~Reached(n, k + 1, 7, 1) => link' = NoLink /\ host' = "here" /\ hdr' = 0 /\ got' = Nothing
          /\ Reached(n, k + 1, 7, 1) => Linked'
        <2>1. Reached(n, k + 1, 7, 1) <=> Reached(n, k, 7, 1) \/ (n = 7 /\ 1 = k + 1)
            BY NextReached
        <2>2. op = <<"connect", "control">> <=> n = 7 /\ 1 = k + 1
            BY DEF IsCall
        <2> QED
            BY <2>1, <2>2 DEF SetUp
    <1>4. /\ Reached(n, k + 1, 4, 1) => "control" \in alive'
          /\ Reached(n, k + 1, 5, 1) => "video" \in alive'
          /\ Reached(n, k + 1, 6, 1) => "input" \in alive'
        <2>1. ASSUME NEW stg \in {4, 5, 6}
              PROVE  Reached(n, k + 1, stg, 1) <=> Reached(n, k, stg, 1) \/ (n = stg /\ 1 = k + 1)
            <3>1. stg \in Nat /\ 1 \in Nat
                OBVIOUS
            <3> QED
                BY <3>1, NextReached
        <2>2. /\ n = 4 /\ 1 = k + 1 => op = <<"open", "control">>
              /\ n = 5 /\ 1 = k + 1 => op = <<"open", "video">>
              /\ n = 6 /\ 1 = k + 1 => op = <<"open", "input">>
            BY DEF IsCall
        <2> QED
            BY <2>1, <2>2 DEF SetUp
    <1>5. /\ Reached(n, k + 1, 8, 2) => "socket" \in alive'
          /\ Reached(n, k + 1, 8, 3) => renderer' = "started"
        <2>1. /\ Reached(n, k + 1, 8, 2) <=> Reached(n, k, 8, 2) \/ (n = 8 /\ 2 = k + 1)
              /\ Reached(n, k + 1, 8, 3) <=> Reached(n, k, 8, 3) \/ (n = 8 /\ 3 = k + 1)
            <3>1. 8 \in Nat /\ 2 \in Nat /\ 3 \in Nat
                OBVIOUS
            <3>2. Reached(n, k + 1, 8, 2) <=> Reached(n, k, 8, 2) \/ (n = 8 /\ 2 = k + 1)
                BY <3>1, NextReached
            <3>3. Reached(n, k + 1, 8, 3) <=> Reached(n, k, 8, 3) \/ (n = 8 /\ 3 = k + 1)
                BY <3>1, NextReached
            <3> QED
                BY <3>2, <3>3
        <2>2. /\ n = 8 /\ 2 = k + 1 => op = <<"bind", "video">>
              /\ n = 8 /\ 3 = k + 1 => op = <<"renderer", "started">>
            BY <1>2 DEF IsCall
        <2>3. Reached(n, k, 8, 3) => op[1] # "renderer"
            BY DEF IsCall, Reached
        <2> QED
            BY <2>1, <2>2, <2>3 DEF SetUp
    <1>6. \A t \in Threads : t \in Born(n, k) => t \in Born(n, k + 1)
        BY <1>2 DEF Born, Reached
    <1>7. \A t \in Threads : op = <<"create", t>> => t \in Born(n, k + 1)
        <2> SUFFICES ASSUME NEW t \in Threads, op = <<"create", t>>
                     PROVE  t \in Born(n, k + 1)
            OBVIOUS
        <2>1. \/ n = 10 /\ k + 1 = 1 /\ t = "input"
              \/ n = 7 /\ \/ k + 1 = 2 /\ t = "recv"
                          \/ k + 1 = 5 /\ t = "loss"
                          \/ k + 1 = 6 /\ t = "idr"
                          \/ k + 1 = 7 /\ t = "async"
                          \/ k + 1 = 8 /\ plan.rfi /\ t = "rfi"
              \/ n = 8 /\ \/ k + 1 = 4 /\ t = "vrecv"
                          \/ k + 1 = 5 /\ ~plan.direct /\ t = "vdec"
                          \/ k + 1 = Len(VideoStart) /\ t = "vping"
            BY DEF IsCall
        <2> QED
            BY <2>1, <1>2 DEF Born, Reached
    <1>8. Running' \subseteq Born(n, k + 1)'
        <2>1. Running' \subseteq Threads
            BY DEF Running
        <2>2. Born(n, k + 1)' = Born(n, k + 1)
            BY BornStay
        <2> QED
            BY <1>6, <1>7, <2>1, <2>2 DEF SetUp
    <1> QED
        BY <1>3, <1>4, <1>5, <1>8 DEF SetUp

(* What is set up is what the threads use.                                 *)
LEMMA SetUpServes ==
    ASSUME plan \in Plans, plan' = plan, NEW n \in 0 .. 11, NEW k \in Nat, SetUp(n, k)'
    PROVE  NothingOutlivesWhatItUses'
    <1>1. \A m \in 0 .. 10 : Len(VideoStart) \in {5, 6, 7}
        BY StartCalls
    <1>2. Len(VideoStart) \in {5, 6, 7}
        <2>1. 0 \in 0 .. 10
            OBVIOUS
        <2> QED
            BY <1>1, <2>1
    <1>3. ASSUME NEW t \in Threads, Alive(t)'
          PROVE  t \in Born(n, k)
        <2>1. t \in Running'
            BY <1>3 DEF Running
        <2> QED
            BY <2>1, BornStay DEF SetUp
    <1>4. \A t \in {"recv", "loss", "idr", "rfi", "input"} : Alive(t)' => Linked'
        <2> SUFFICES ASSUME NEW t \in {"recv", "loss", "idr", "rfi", "input"}, Alive(t)'
                     PROVE  Linked'
            OBVIOUS
        <2>1. Reached(n, k, 7, 1)
            BY <1>3, ThreadNames, BornIsLate
        <2> QED
            BY <2>1 DEF SetUp
    <1>5. \A t \in Threads \ {"vping"} : Alive(t)' => "control" \in alive'
        <2> SUFFICES ASSUME NEW t \in Threads, Alive(t)'
                     PROVE  "control" \in alive'
            OBVIOUS
        <2>1. Reached(n, k, 7, 1)
            BY <1>3, BornIsLate
        <2>2. Reached(n, k, 4, 1)
            BY <2>1 DEF Reached
        <2> QED
            BY <2>2 DEF SetUp
    <1>6. \A t \in {"vrecv", "vping"} : Alive(t)' => "socket" \in alive'
        <2> SUFFICES ASSUME NEW t \in {"vrecv", "vping"}, Alive(t)'
                     PROVE  "socket" \in alive'
            OBVIOUS
        <2>1. t \in Born(n, k)
            BY <1>3, ThreadNames
        <2>3. Reached(n, k, 8, 4) \/ Reached(n, k, 8, Len(VideoStart))
            BY <2>1 DEF Born
        <2>2. Reached(n, k, 8, 2)
            BY <1>2, <2>3 DEF Reached
        <2> QED
            BY <2>2 DEF SetUp
    <1>7. \A t \in {"vrecv", "vdec"} : Alive(t)' => "video" \in alive' /\ renderer' \in {"started", "stopped"}
        <2> SUFFICES ASSUME NEW t \in {"vrecv", "vdec"}, Alive(t)'
                     PROVE  "video" \in alive' /\ renderer' \in {"started", "stopped"}
            OBVIOUS
        <2>1. t \in Born(n, k)
            BY <1>3, ThreadNames
        <2>2. Reached(n, k, 8, 3) /\ Reached(n, k, 5, 1)
            BY <1>2, <2>1 DEF Born, Reached
        <2> QED
            BY <2>2 DEF SetUp
    <1>8. Alive("input")' => "input" \in alive'
        <2> SUFFICES ASSUME Alive("input")'
                     PROVE  "input" \in alive'
            OBVIOUS
        <2>1. "input" \in Born(n, k)
            BY <1>3, ThreadNames
        <2>2. Reached(n, k, 6, 1)
            BY <2>1 DEF Born, Reached
        <2> QED
            BY <2>2 DEF SetUp
    <1> QED
        BY <1>4, <1>5, <1>6, <1>7, <1>8 DEF NothingOutlivesWhatItUses

(* Where a start is: its next call, or the answer to its last one.         *)
AtCall(k) ==
    /\ k \in Nat /\ k + 1 \in 1 .. Len(StartOf[stage + 1]) /\ SetUp(stage, k)
    /\ Op = StartOf[stage + 1][k + 1] /\ IsCall(stage, k + 1, Op)
    /\ Tail(todo) = Suffix(StartOf[stage + 1], k + 1)
AtAnswer(k) ==
    /\ stage = 7 /\ k \in {3, 4} /\ k \in 1 .. Len(StartOf[stage + 1]) /\ SetUp(stage, k)
    /\ StartOf[stage + 1][k][1] = "send"
    /\ Op[1] \in {"reply", "resend"} /\ Op = <<Op[1], Op[2]>> /\ Op[2] \in {"startA", "startB"}
    /\ Tail(todo) = Suffix(StartOf[stage + 1], k)

(* A start stands before one of its calls, or at the answer of one.        *)
LEMMA NextCall ==
    ASSUME TypeOK, Starts, app = "start", todo # <<>>
    PROVE  /\ stage \in 0 .. 10 /\ plan \in Plans
           /\ (\E k \in Nat : AtCall(k)) \/ (\E k \in Nat : AtAnswer(k))
    <1>1. plan \in Plans /\ stage \in 0 .. 10
        BY PlansAreTyped DEF Starts
    <1>2. PICK k \in 0 .. Len(StartOf[stage + 1]) : Progressed(stage, k)
        BY DEF Starts
    <1> DEFINE s == StartOf[stage + 1]
    <1>3. /\ s \in Seq(Steps) /\ Len(s) \in Nat \ {0} /\ k \in Nat /\ k \in 0 .. Len(s)
          /\ \A i \in 1 .. Len(s) : IsCall(stage, i, s[i])
        BY <1>1, <1>2, StartCalls, CallNumbers
    <1>4. /\ Suffix(s, k) \in Seq(Steps) /\ (Suffix(s, k) = <<>> <=> k = Len(s))
          /\ k < Len(s) => /\ k + 1 \in 1 .. Len(s) /\ Head(Suffix(s, k)) = s[k + 1]
                           /\ Tail(Suffix(s, k)) = Suffix(s, k + 1)
        <2> HIDE DEF s
        <2> QED
            BY <1>3, SuffixTail
    <1>5. SetUp(stage, k)
        BY <1>2 DEF Progressed
    <1>6. CASE todo = Suffix(s, k)
        <2>1. k < Len(s)
            BY <1>3, <1>4, <1>6
        <2>2. AtCall(k)
            BY <1>3, <1>4, <1>5, <1>6, <2>1 DEF AtCall, Op
        <2> QED
            BY <1>1, <1>3, <2>2
    <1>7. CASE todo # Suffix(s, k)
        <2>1. /\ k \in 1 .. Len(s) /\ s[k][1] = "send" /\ todo \in Waits(s, k)
            BY <1>2, <1>7 DEF Progressed
        <2>2. stage = 7 /\ k \in {3, 4} /\ s[k][2] \in {"startA", "startB"}
            <3>1. IsCall(stage, k, s[k])
                BY <1>3, <2>1
            <3> HIDE DEF s
            <3> QED
                BY <2>1, <3>1 DEF IsCall
        <2>3. PICK v \in {"reply", "resend"} : todo = <<<<v, s[k][2]>>>> \o Suffix(s, k)
            BY <2>1 DEF Waits
        <2>4. Op = <<v, s[k][2]>> /\ Tail(todo) = Suffix(s, k)
            <3> DEFINE x == <<v, s[k][2]>>
            <3>1. x \in Steps
                BY <2>2, Vocabulary DEF Verbs, Objects
            <3>2. todo = <<x>> \o Suffix(s, k)
                BY <2>3
            <3> HIDE DEF x, s
            <3>3. \A u \in Seq(Steps) : Head(<<x>> \o u) = x /\ Tail(<<x>> \o u) = u
                BY <3>1
            <3>4. Op = x /\ Tail(todo) = Suffix(s, k)
                BY <1>4, <3>2, <3>3 DEF Op
            <3> QED
                BY <3>4 DEF x
        <2>5. AtAnswer(k)
            BY <1>5, <2>1, <2>2, <2>3, <2>4 DEF AtAnswer
        <2> QED
            BY <1>1, <1>3, <2>5
    <1> QED
        BY <1>6, <1>7

(* A start goes on.                                                        *)
LEMMA StartContinues ==
    ASSUME TypeOK, Staged, app = "start", plan' = plan, UNCHANGED <<app, stage>>,
           NEW k \in 0 .. Len(StartOf[stage + 1]), Progressed(stage, k)'
    PROVE  Staged' /\ todo' \in Seq(Steps)
    <1> DEFINE s == StartOf[stage + 1]
    <1>1. stage \in 0 .. 10 /\ plan \in Plans /\ StartOf' = StartOf
        BY PlansAreTyped, PlanKeepsCalls DEF Staged, Starts
    <1>2. /\ s \in Seq(Steps) /\ k \in Nat /\ k \in 0 .. Len(s)
          /\ \A i \in 1 .. Len(s) : IsCall(stage, i, s[i])
        BY <1>1, StartCalls, CallNumbers
    <1>3. Starts'
        BY <1>1 DEF Starts
    <1>4. todo' \in Seq(Steps)
        <2>1. Suffix(s, k) \in Seq(Steps)
            <3> HIDE DEF s
            <3> QED
                BY <1>2, SuffixTail
        <2>2. \/ todo' = Suffix(s, k)
              \/ k \in 1 .. Len(s) /\ s[k][1] = "send" /\ todo' \in Waits(s, k)
            BY <1>1 DEF Progressed
        <2>3. ASSUME k \in 1 .. Len(s), s[k][1] = "send", todo' \in Waits(s, k)
              PROVE  todo' \in Seq(Steps)
            <3>1. s[k][2] \in {"startA", "startB"}
                <4>1. IsCall(stage, k, s[k])
                    BY <1>2, <2>3
                <4> HIDE DEF s
                <4> QED
                    BY <2>3, <4>1 DEF IsCall
            <3>2. PICK v \in {"reply", "resend"} : todo' = <<<<v, s[k][2]>>>> \o Suffix(s, k)
                BY <2>3 DEF Waits
            <3>3. <<v, s[k][2]>> \in Steps
                BY <3>1, Vocabulary DEF Verbs, Objects
            <3> DEFINE x == <<v, s[k][2]>>
            <3>4. x \in Steps /\ todo' = <<x>> \o Suffix(s, k)
                BY <3>2, <3>3
            <3> HIDE DEF x
            <3> QED
                BY <2>1, <3>4
        <2> QED
            BY <2>1, <2>2, <2>3
    <1>5. NothingOutlivesWhatItUses'
        <2>1. SetUp(stage, k)'
            BY DEF Progressed
        <2>2. stage' = stage /\ stage \in 0 .. 11
            BY <1>1
        <2>3. \A n \in 0 .. 11 : n = stage => SetUp(n, k)'
            <3> SUFFICES ASSUME NEW n \in 0 .. 11, n = stage
                         PROVE  SetUp(n, k)'
                OBVIOUS
            <3> QED
                BY <2>1, <2>2 DEF SetUp
        <2> QED
            BY <1>1, <1>2, <2>2, <2>3, SetUpServes
    <1> QED
        BY <1>3, <1>4, <1>5 DEF Staged, Runs, Stops

(* A call that is made brings the start to the next one, or to the wait    *)
(* for its answer.                                                         *)
LEMMA CallIsMade ==
    ASSUME TypeOK, Staged, app = "start", plan' = plan, UNCHANGED <<app, stage>>, NEW k \in Nat,
           AtCall(k), SetUp(stage, k + 1)',
           \/ Done
           \/ Op[1] = "send" /\ \E v \in {"reply", "resend"} : todo' = <<<<v, Op[2]>>>> \o Tail(todo)
    PROVE  Staged' /\ todo' \in Seq(Steps)
    <1>1. StartOf' = StartOf /\ k + 1 \in 0 .. Len(StartOf[stage + 1]) /\ k + 1 \in 1 .. Len(StartOf[stage + 1])
        BY PlanKeepsCalls DEF AtCall
    <1>2. \/ todo' = Suffix(StartOf[stage + 1], k + 1)
          \/ StartOf[stage + 1][k + 1][1] = "send" /\ todo' \in Waits(StartOf[stage + 1], k + 1)
        BY DEF AtCall, Done, Waits
    <1>3. Progressed(stage, k + 1)'
        <2>1. StartOf'[stage' + 1] = StartOf[stage + 1]
            BY <1>1
        <2> QED
            BY <1>1, <1>2, <2>1 DEF Progressed
    <1> QED
        BY <1>1, <1>3, StartContinues

(* A call that was answered is a call that succeeded.                      *)
LEMMA AnswerComes ==
    ASSUME TypeOK, Staged, app = "start", plan' = plan, UNCHANGED <<app, stage>>, NEW k \in Nat,
           AtAnswer(k), SetUp(stage, k)', Done
    PROVE  Staged' /\ todo' \in Seq(Steps)
    <1>1. StartOf' = StartOf /\ k \in 0 .. Len(StartOf[stage + 1])
        BY PlanKeepsCalls DEF AtAnswer
    <1>2. todo' = Suffix(StartOf[stage + 1], k)
        BY DEF AtAnswer, Done
    <1>3. Progressed(stage, k)'
        <2>1. StartOf'[stage' + 1] = StartOf[stage + 1]
            BY <1>1
        <2> QED
            BY <1>1, <1>2, <2>1 DEF Progressed
    <1> QED
        BY <1>1, <1>3, StartContinues

(* A call that fails leaves only what can be undone.                       *)
LEMMA CallFails ==
    ASSUME TypeOK, Staged, app = "start", todo # <<>>, Fails, plan' = plan, Running' \subseteq Running,
           Linked => Linked', UNCHANGED <<alive, renderer>>
    PROVE  Staged' /\ ClientOK'
    <1>1. stage \in 0 .. 10 /\ plan \in Plans
        BY NextCall DEF Staged
    <1>2. Row(todo') /\ \A t \in Running : Safe(t, todo')
        <2>1. ASSUME NEW k \in Nat, AtCall(k)
              PROVE  Row(todo') /\ \A t \in Running : Safe(t, todo')
            <3>1. k + 1 \in 1 .. Len(StartOf[stage + 1]) /\ IsCall(stage, k + 1, Op) /\ (k + 1) - 1 = k
                BY <2>1 DEF AtCall
            <3>2. Row(UndoOf(Op) \o StopFrom(stage)) /\ \A t \in Born(stage, (k + 1) - 1) : Safe(t, UndoOf(Op) \o StopFrom(stage))
                BY <1>1, <3>1, FailureIsUndone
            <3>3. Running \subseteq Born(stage, k)
                BY <2>1 DEF AtCall, SetUp
            <3> QED
                BY <3>1, <3>2, <3>3 DEF Fails
        <2>2. ASSUME NEW k \in Nat, AtAnswer(k)
              PROVE  Row(todo') /\ \A t \in Running : Safe(t, todo')
            <3>1. /\ Op = <<Op[1], Op[2]>> /\ Op[2] \in {"startA", "startB"} /\ stage = 7 /\ k \in {3, 4}
                  /\ Running \subseteq Born(7, k)
                BY <2>2 DEF AtAnswer, SetUp
            <3> DEFINE v == Op[1]
                       x == Op[2]
            <3>2. Op = <<v, x>> /\ x \in {"startA", "startB"}
                BY <3>1
            <3> HIDE DEF v, x
            <3>3. /\ Row(UndoOf(<<v, x>>) \o StopFrom(7))
                  /\ \A t \in Born(7, k) : Safe(t, UndoOf(<<v, x>>) \o StopFrom(7))
                BY <1>1, <3>1, <3>2, AnswerFailureIsUndone
            <3> QED
                BY <3>1, <3>2, <3>3 DEF Fails
        <2> QED
            BY <2>1, <2>2, NextCall DEF Staged
    <1>3. NothingOutlivesWhatItUses'
        <2>1. \A t \in Threads : Alive(t)' => Alive(t)
            BY DEF Running
        <2> QED
            BY <2>1, ThreadNames DEF Staged, NothingOutlivesWhatItUses
    <1>4. Stops'
        BY <1>2 DEF Stops, Row
    <1>5. ClientOK'
        BY <1>2 DEF ClientOK, TypeOK, Fails, Row
    <1> QED
        BY <1>3, <1>4, <1>5 DEF Staged, Starts, Runs, Fails

(* The calls of a stop.                                                    *)
LEMMA StepFields ==
    ASSUME NEW op \in Steps
    PROVE  /\ op = <<op[1], op[2]>>
           /\ \/ op[1] \in Verbs /\ op[2] \in Objects
              \/ op[1] \in {"interrupt", "join"} /\ op[2] \in SUBSET Threads
    BY DEF Steps

(* The next call of a stop releases nothing that a running thread uses.    *)
LEMMA StopCall ==
    ASSUME TypeOK, Staged, app = "stop", todo # <<>>
    PROVE  /\ Op \in Steps /\ Op[1] \notin Begins /\ Tail(todo) \in Seq(Steps) /\ Ends(Tail(todo))
           /\ \A t \in Running : ~Releases(Op, t) /\ (~Joins(Op, t) => Safe(t, Tail(todo)))
    <1>1. todo \in Seq(Steps) /\ Ends(todo) /\ \A t \in Running : Safe(t, todo)
        BY DEF TypeOK, ClientOK, Staged, Stops
    <1>2. Op = todo[1] /\ Op \in Steps /\ Op[1] \notin Begins /\ Ends(Tail(todo)) /\ Tail(todo) \in Seq(Steps)
        BY <1>1, EndsTail, HeadTailProperties DEF Op
    <1>3. ASSUME NEW t \in Running
          PROVE  ~Releases(Op, t)
        <2>1. 1 \in 1 .. Len(todo) /\ \A j \in 1 .. 1 - 1 : FALSE
            BY <1>1
        <2> QED
            BY <1>1, <1>2, <2>1 DEF Safe
    <1>4. \A t \in Running : ~Joins(Op, t) => Safe(t, Tail(todo))
        BY <1>1, <1>2, SafeTail
    <1> QED
        BY <1>2, <1>3, <1>4

(* A stop that has made a call still joins before it releases.             *)
LEMMA StopContinues ==
    ASSUME TypeOK, Staged, app = "stop", todo # <<>>, Done, UNCHANGED <<app, stage>>,
           Running' \subseteq Running, \A t \in Running' : ~Joins(Op, t), NothingOutlivesWhatItUses'
    PROVE  Staged' /\ todo' \in Seq(Steps)
    <1>1. todo' = Tail(todo)
        BY DEF Done
    <1>2. Ends(todo') /\ \A t \in Running' : Safe(t, todo')
        BY <1>1, StopCall
    <1>3. Stops'
        BY <1>2 DEF Stops
    <1> QED
        BY <1>1, <1>3, StopCall DEF Staged, Starts, Runs

(* What the control stream keeps when only the client moves.               *)
LEMMA ControlStands ==
    ASSUME IInv, UNCHANGED controlVars, ClientOK', Staged'
    PROVE  IInv'
    <1>1. UNCHANGED <<plan, at, why, told, interrupted, stopping, terminated, code, alarms, heard, link,
                      host, event, rfiQ, asyncQ, got, held, hdr, seen, taken, shown>>
        BY DEF controlVars
    <1>2. Said' = Said /\ Links' = Links /\ SlotsOf(plan)' = SlotsOf(plan)
        BY <1>1, PlanStays
    <1>3. TypeOK'
        BY <1>1, <1>2 DEF IInv, TypeOK, AtOK, FlagsOK, QueuesOK, MessagesOK
    <1>4. GoodbyeIsLast'
        BY <1>1 DEF IInv, GoodbyeIsLast, LinkIsSound
    <1>5. NumbersGrow'
        BY <1>1, <1>2 DEF IInv, NumbersGrow
    <1>6. NewestWaits'
        BY <1>1, CallbacksStay DEF IInv
    <1> QED
        BY <1>3, <1>4, <1>5, <1>6 DEF IInv, Staged

(* Calls that touch no control state keep threads and link.                *)
LEMMA ControlStandsStill ==
    ASSUME UNCHANGED controlVars
    PROVE  /\ plan' = plan /\ Running' = Running /\ Linked' = Linked /\ UNCHANGED <<link, host, hdr, got>>
           /\ \A t \in Threads : Alive(t)' = Alive(t)
    BY DEF controlVars, Running, Alive, Linked

(* One stage is over, and the next one begins.                             *)
LEMMA NextStage ==
    ASSUME plan \in Plans, NEW n \in 0 .. 10, SetUp(n, Len(StartOf[n + 1]))
    PROVE  SetUp(n + 1, 0)
    <1> DEFINE k == Len(StartOf[n + 1])
    <1>1. /\ k \in Nat \ {0} /\ Len(VideoStart) \in {5, 6, 7}
          /\ (n = 7 => k \in {7, 8}) /\ (n = 8 => k = Len(VideoStart))
        <2>1. plan.rfi \in BOOLEAN
            BY DEF Plans
        <2> QED
            BY <2>1, StartCalls
    <1>2. SetUp(n, k)
        OBVIOUS
    <1> HIDE DEF k
    <1>3. \A stg \in {4, 5, 6, 7} : Reached(n + 1, 0, stg, 1) => Reached(n, k, stg, 1)
        BY <1>1 DEF Reached
    <1>4. \A call \in {2, 3} : Reached(n + 1, 0, 8, call) => Reached(n, k, 8, call)
        <2>1. n = 8 => k \in {5, 6, 7}
            BY <1>1
        <2> QED
            BY <1>1, <2>1 DEF Reached
    <1>5. Reached(n, k, 7, 1) => Reached(n + 1, 0, 7, 1)
        BY DEF Reached
    <1>6. Running \subseteq Born(n + 1, 0)
        <2>1. \A t \in Threads : t \in Born(n, k) => t \in Born(n + 1, 0)
            BY <1>1 DEF Born, Reached
        <2> QED
            BY <1>2, <2>1 DEF SetUp, Running
    <1> QED
        BY <1>2, <1>3, <1>4, <1>5, <1>6 DEF SetUp

(* LiStartConnection: the end of a stage keeps the invariant.              *)
LEMMA StageCompleteKeeps ==
    ASSUME IInv, StageComplete
    PROVE  IInv'
    <1>1. /\ TypeOK /\ Staged /\ app = "start" /\ todo = <<>> /\ stage' = stage + 1
          /\ UNCHANGED <<controlVars, alive, renderer>>
        BY DEF IInv, Staged, StageComplete
    <1>2. plan \in Plans /\ stage \in 0 .. 10
        BY <1>1, PlansAreTyped DEF Staged, Starts
    <1>3. PICK k \in 0 .. Len(StartOf[stage + 1]) : Progressed(stage, k)
        BY <1>1 DEF Staged, Starts
    <1> DEFINE s == StartOf[stage + 1]
    <1>4. /\ s \in Seq(Steps) /\ Len(s) \in Nat \ {0} /\ k \in 0 .. Len(s)
          /\ \A i \in 1 .. Len(s) : IsCall(stage, i, s[i])
        BY <1>2, <1>3, StartCalls
    <1>5. Suffix(s, k) \in Seq(Steps) /\ (Suffix(s, k) = <<>> <=> k = Len(s))
        <2> HIDE DEF s
        <2> QED
            BY <1>4, SuffixTail
    <1>6. k = Len(s)
        <2>1. CASE todo = Suffix(s, k)
            BY <1>1, <1>5, <2>1
        <2>2. CASE k \in 1 .. Len(s) /\ s[k][1] = "send" /\ todo \in Waits(s, k)
            <3>1. PICK x : todo = <<x>> \o Suffix(s, k)
                BY <2>2 DEF Waits
            <3>2. FALSE
                <4> HIDE DEF s
                <4>1. Len(<<x>> \o Suffix(s, k)) = 1 + Len(Suffix(s, k)) /\ Len(Suffix(s, k)) \in Nat
                    BY <1>5
                <4>2. Len(<<x>> \o Suffix(s, k)) # 0 /\ Len(<<>>) = 0
                    BY <4>1
                <4>3. Len(todo) # 0 /\ Len(todo) = 0
                    BY <1>1, <3>1, <4>2
                <4> QED
                    BY <4>3
            <3> QED
                BY <3>2
        <2> QED
            BY <1>3, <2>1, <2>2 DEF Progressed
    <1>7. SetUp(stage + 1, 0)
        BY <1>2, <1>3, <1>6, NextStage DEF Progressed
    <1>8. PICK n \in 1 .. 11 : n = stage + 1
        BY <1>2
    <1>9. n \in 0 .. 11 /\ stage' = n /\ 0 \in Nat /\ Len(StartOf) = 11 /\ StartOf' = StartOf
        BY <1>1, <1>2, <1>8, StartCalls, PlanKeepsCalls DEF controlVars
    <1>10. SetUp(n, 0)'
        <2>1. SetUp(n, 0) /\ plan' = plan /\ Running' = Running /\ Linked' = Linked /\ UNCHANGED <<link, host, hdr, got, alive, renderer>>
            BY <1>1, <1>7, <1>8, ControlStandsStill
        <2> QED
            BY <1>1, <1>9, <2>1, SetUpStays
    <1>11. NothingOutlivesWhatItUses'
        BY <1>1, <1>2, <1>9, <1>10, SetUpServes, ControlStandsStill
    <1>12. CASE stage' = Len(StartOf)
        <2>1. app' = "run" /\ todo' = <<>> /\ n = 11
            BY <1>1, <1>9, <1>12 DEF StageComplete
        <2>2. Runs'
            <3>1. SetUp(11, 0)'
                BY <1>10, <2>1
            <3> QED
                BY <1>9, <2>1, <3>1 DEF Runs
        <2>3. Staged' /\ ClientOK'
            <3>1. <<>> \in Seq(Steps)
                OBVIOUS
            <3> QED
                BY <1>1, <1>9, <1>11, <2>1, <2>2, <3>1 DEF Staged, Starts, Stops, ClientOK, TypeOK
        <2> QED
            BY <1>1, <2>3, ControlStands
    <1>13. CASE stage' # Len(StartOf)
        <2>1. app' = "start" /\ todo' = StartOf[n + 1] /\ n \in 0 .. 10
            BY <1>1, <1>9, <1>13 DEF StageComplete
        <2>2. StartOf[n + 1] \in Seq(Steps) /\ Len(StartOf[n + 1]) \in Nat
            BY <1>2, <2>1, StartCalls
        <2>3. Suffix(StartOf[n + 1], 0) = StartOf[n + 1] /\ 0 \in 0 .. Len(StartOf[n + 1])
            BY <2>2, SuffixTail
        <2>4. Progressed(n, 0)'
            BY <1>9, <1>10, <2>1, <2>3 DEF Progressed
        <2>5. Starts'
            BY <1>9, <2>1, <2>3, <2>4 DEF Starts
        <2>6. Staged' /\ ClientOK'
            BY <1>1, <1>9, <1>11, <2>1, <2>2, <2>5 DEF Staged, Runs, Stops, ClientOK, TypeOK
        <2> QED
            BY <1>1, <2>6, ControlStands
    <1> QED
        BY <1>12, <1>13

(* The calls that leave the control stream alone.                          *)
LEMMA StageFailsKeeps ==
    ASSUME IInv, StageFails
    PROVE  IInv'
    <1>1. /\ TypeOK /\ Staged /\ app = "start" /\ todo # <<>> /\ Fails /\ UNCHANGED <<controlVars, alive, renderer>>
        BY DEF IInv, Staged, StageFails, Pending
    <1>2. plan' = plan /\ Running' = Running /\ (Linked => Linked')
        BY <1>1, ControlStandsStill
    <1>3. Staged' /\ ClientOK'
        BY <1>1, <1>2, CallFails
    <1> QED
        BY <1>1, <1>3, ControlStands

(* The initialization of a stage keeps the invariant.                      *)
LEMMA OpenKeeps ==
    ASSUME IInv, Open
    PROVE  IInv'
    <1>1. /\ TypeOK /\ Staged /\ app \in {"start", "stop"} /\ todo # <<>> /\ Done
          /\ Op[1] \in {"open", "resolve", "handshake", "bind", "free"}
          /\ UNCHANGED <<controlVars, app, stage, renderer>>
        BY DEF IInv, Staged, Open, Pending
    <1>2. /\ plan' = plan /\ Running' = Running /\ (Linked <=> Linked') /\ UNCHANGED <<link, host, hdr, got>>
          /\ \A t \in Threads : Alive(t)' <=> Alive(t)
        BY <1>1, ControlStandsStill
    <1>3. /\ Op[1] \in {"open", "bind"} => alive' = alive \cup {IF Op[1] = "bind" THEN "socket" ELSE Op[2]}
          /\ Op[1] = "free" => alive' = alive \ {Op[2]}
          /\ Op[1] \in {"resolve", "handshake"} => alive' = alive
        BY DEF Open
    <1>4. Op \in Steps /\ alive' \subseteq Objects
        <2>1. Op \in Steps
            BY <1>1, HeadTailProperties DEF TypeOK, ClientOK, Op
        <2>2. Op[2] \in Objects
            BY <1>1, <2>1, StepFields
        <2>3. "socket" \in Objects /\ alive \subseteq Objects
            BY <1>1 DEF Objects, TypeOK, ClientOK
        <2> QED
            BY <1>1, <1>3, <2>1, <2>2, <2>3
    <1>5. CASE app = "start"
        <2>1. PICK k \in Nat : AtCall(k) \/ AtAnswer(k)
            BY <1>1, <1>5, NextCall DEF Staged
        <2>2. AtCall(k)
            BY <1>1, <2>1 DEF AtAnswer
        <2>3. stage \in 0 .. 10 /\ plan \in Plans /\ IsCall(stage, k + 1, Op) /\ SetUp(stage, k)
            BY <1>1, <1>5, <2>2, NextCall DEF Staged, AtCall
        <2>4. PICK n \in 0 .. 10, op \in Steps : n = stage /\ op = Op
            BY <1>4, <2>3
        <2>5. IsCall(n, k + 1, op) /\ SetUp(n, k) /\ op[1] \notin {"free", "renderer", "create", "connect"}
            <3>1. IsCall(n, k + 1, op)
                BY <2>3, <2>4
            <3>2. op[1] \notin {"free", "renderer", "create", "connect"}
                BY <1>1, <2>4, <3>1 DEF IsCall
            <3> QED
                BY <2>3, <2>4, <3>1, <3>2
        <2>6. /\ alive \subseteq alive'
              /\ \A o \in {"control", "video", "input"} : op = <<"open", o>> => o \in alive'
              /\ op = <<"bind", "video">> => "socket" \in alive'
            BY <1>1, <1>3, <2>4, <2>5
        <2>7. SetUp(n, k + 1)'
            BY <1>1, <1>2, <2>3, <2>5, <2>6, SetUpAdvances
        <2>8. SetUp(stage, k + 1)'
            BY <1>1, <2>4, <2>7 DEF SetUp
        <2>9. Staged' /\ todo' \in Seq(Steps)
            BY <1>1, <1>2, <1>5, <2>2, <2>8, CallIsMade
        <2> QED
            BY <1>1, <1>4, <2>9, ControlStands DEF ClientOK, TypeOK
    <1>6. CASE app = "stop"
        <2>1. Op[1] = "free" /\ \A t \in Running : ~Releases(Op, t)
            BY <1>1, <1>6, StopCall DEF Begins
        <2>2. alive' = alive \ {Op[2]} /\ Op = <<"free", Op[2]>>
            BY <1>3, <1>4, <2>1, StepFields
        <2>3. \A t \in Running : ~Joins(Op, t)
            BY <2>1 DEF Joins
        <2>4. NothingOutlivesWhatItUses'
            <3>1. \A t \in Threads : Alive(t)' => t \in Running /\ Alive(t)
                BY <1>2 DEF Running
            <3>2. \A t \in Running : /\ Op[2] = "control" => t = "vping"
                                     /\ Op[2] = "socket" => t \notin {"vrecv", "vping"}
                                     /\ Op[2] = "video" => t \notin {"vrecv", "vdec"}
                                     /\ Op[2] = "input" => t # "input"
                BY <2>1, <2>2 DEF Releases
            <3>3. \A o : o \in alive /\ o # Op[2] => o \in alive'
                BY <2>2
            <3> QED
                BY <1>1, <1>2, <3>1, <3>2, <3>3, ThreadNames DEF Staged, NothingOutlivesWhatItUses
        <2>5. Staged' /\ todo' \in Seq(Steps)
            BY <1>1, <1>2, <1>6, <2>3, <2>4, StopContinues
        <2> QED
            BY <1>1, <1>4, <2>5, ControlStands DEF ClientOK, TypeOK
    <1> QED
        BY <1>1, <1>5, <1>6

(* The calls of the renderer keep the invariant.                           *)
LEMMA RenderKeeps ==
    ASSUME IInv, Render
    PROVE  IInv'
    <1>1. /\ TypeOK /\ Staged /\ app \in {"start", "stop"} /\ todo # <<>> /\ Done
          /\ Op[1] = "renderer" /\ renderer' = Op[2]
          /\ UNCHANGED <<controlVars, app, stage, alive>>
        BY DEF IInv, Staged, Render, Pending
    <1>2. /\ plan' = plan /\ Running' = Running /\ (Linked <=> Linked') /\ UNCHANGED <<link, host, hdr, got>>
          /\ \A t \in Threads : Alive(t)' <=> Alive(t)
        BY <1>1, ControlStandsStill
    <1>3. Op \in Steps /\ renderer' \in Objects
        <2>1. Op \in Steps
            BY <1>1, HeadTailProperties DEF TypeOK, ClientOK, Op
        <2> QED
            BY <1>1, <2>1, StepFields
    <1>4. CASE app = "start"
        <2>1. PICK k \in Nat : AtCall(k) \/ AtAnswer(k)
            BY <1>1, <1>4, NextCall DEF Staged
        <2>2. AtCall(k)
            BY <1>1, <2>1 DEF AtAnswer
        <2>3. stage \in 0 .. 10 /\ plan \in Plans /\ IsCall(stage, k + 1, Op) /\ SetUp(stage, k)
            BY <1>1, <1>4, <2>2, NextCall DEF Staged, AtCall
        <2>4. PICK n \in 0 .. 10, op \in Steps : n = stage /\ op = Op
            BY <1>3, <2>3
        <2>5. IsCall(n, k + 1, op) /\ SetUp(n, k) /\ n = 8 /\ k + 1 \in {1, 3}
            <3>1. IsCall(n, k + 1, op)
                BY <2>3, <2>4
            <3>2. n = 8 /\ k + 1 \in {1, 3}
                BY <1>1, <2>4, <3>1 DEF IsCall
            <3> QED
                BY <2>3, <2>4, <3>1, <3>2
        <2>6. Reached(n, k, 7, 1) /\ (op = <<"renderer", "started">> => renderer' = "started")
            BY <1>1, <2>4, <2>5 DEF Reached
        <2>7. SetUp(n, k + 1)'
            BY <1>1, <1>2, <2>3, <2>4, <2>5, <2>6, SetUpAdvances
        <2>8. SetUp(stage, k + 1)'
            BY <1>1, <2>4, <2>7 DEF SetUp
        <2>9. Staged' /\ todo' \in Seq(Steps)
            BY <1>1, <1>2, <1>4, <2>2, <2>8, CallIsMade
        <2> QED
            BY <1>1, <1>3, <2>9, ControlStands DEF ClientOK, TypeOK
    <1>5. CASE app = "stop"
        <2>1. \A t \in Running : ~Releases(Op, t)
            BY <1>1, <1>5, StopCall
        <2>2. \A t \in Running : ~Joins(Op, t)
            BY <1>1 DEF Joins
        <2>3. NothingOutlivesWhatItUses'
            <3>1. \A t \in Threads : Alive(t)' => t \in Running /\ Alive(t)
                BY <1>2 DEF Running
            <3>2. \A t \in Running : t \in {"vrecv", "vdec"} => renderer' \in {"started", "stopped"}
                BY <1>1, <2>1 DEF Releases
            <3> QED
                BY <1>1, <1>2, <3>1, <3>2, ThreadNames DEF Staged, NothingOutlivesWhatItUses
        <2>4. Staged' /\ todo' \in Seq(Steps)
            BY <1>1, <1>2, <1>5, <2>2, <2>3, StopContinues
        <2> QED
            BY <1>1, <1>3, <2>4, ControlStands DEF ClientOK, TypeOK
    <1> QED
        BY <1>1, <1>4, <1>5

(* PltJoinThread keeps the invariant.                                      *)
LEMMA JoinKeeps ==
    ASSUME IInv, JoinThread
    PROVE  IInv'
    <1>1. /\ TypeOK /\ Staged /\ app \in {"start", "stop"} /\ todo # <<>> /\ Done
          /\ Op[1] = "join" /\ \A t \in Op[2] : ~Alive(t)
          /\ UNCHANGED <<controlVars, app, stage, alive, renderer>>
        BY DEF IInv, Staged, JoinThread, Pending
    <1>2. /\ plan' = plan /\ Running' = Running /\ (Linked <=> Linked')
          /\ \A t \in Threads : Alive(t)' <=> Alive(t)
        BY <1>1, ControlStandsStill
    <1>3. app # "start"
        <2> SUFFICES ASSUME app = "start"
                     PROVE  FALSE
            OBVIOUS
        <2>1. PICK k \in Nat : AtCall(k) \/ AtAnswer(k)
            BY <1>1, NextCall DEF Staged
        <2>2. IsCall(stage, k + 1, Op)
            BY <1>1, <2>1 DEF AtAnswer, AtCall
        <2> QED
            BY <1>1, <2>2 DEF IsCall
    <1>4. \A t \in Running : ~Joins(Op, t)
        BY <1>1 DEF Joins, Running
    <1>5. NothingOutlivesWhatItUses'
        BY <1>1, <1>2, ThreadNames DEF Staged, NothingOutlivesWhatItUses
    <1>6. Staged' /\ todo' \in Seq(Steps)
        BY <1>1, <1>2, <1>3, <1>4, <1>5, StopContinues
    <1> QED
        BY <1>1, <1>6, ControlStands DEF ClientOK, TypeOK

(* LiStopConnection and the end of a stop keep the invariant.              *)
LEMMA StoppingKeeps ==
    ASSUME IInv, Stopped \/ LiStopConnection
    PROVE  IInv'
    <1>1. /\ TypeOK /\ Staged /\ UNCHANGED <<controlVars, alive, renderer>>
        BY DEF IInv, Staged, Stopped, LiStopConnection
    <1>2. /\ plan' = plan /\ Running' = Running /\ (Linked <=> Linked')
          /\ \A t \in Threads : Alive(t)' <=> Alive(t)
        BY <1>1, ControlStandsStill
    <1>3. NothingOutlivesWhatItUses'
        BY <1>1, <1>2, ThreadNames DEF Staged, NothingOutlivesWhatItUses
    <1>4. CASE Stopped
        <2>1. app = "stop" /\ app' = "done" /\ stage' = 0 /\ todo' = todo
            BY <1>4 DEF Stopped
        <2>2. Staged' /\ ClientOK'
            BY <1>1, <1>2, <1>3, <2>1 DEF Staged, Starts, Runs, Stops, ClientOK, TypeOK
        <2> QED
            BY <1>1, <2>2, ControlStands
    <1>5. CASE LiStopConnection
        <2>1. app = "run" /\ app' = "stop" /\ todo' = StopFrom(11) /\ stage' = stage /\ stage = 11 /\ SetUp(11, 0)
            BY <1>1, <1>5 DEF LiStopConnection, Staged, Runs
        <2>2. Row(StopFrom(11)) /\ \A t \in Born(11, 0) : Safe(t, StopFrom(11))
            BY <1>1, PlansAreTyped, StopIsSafe
        <2>3. Stops' /\ todo' \in Seq(Steps)
            BY <1>2, <2>1, <2>2 DEF Stops, Row, SetUp
        <2>4. Staged' /\ ClientOK'
            BY <1>1, <1>3, <2>1, <2>3 DEF Staged, Starts, Runs, ClientOK, TypeOK
        <2> QED
            BY <1>1, <2>4, ControlStands
    <1> QED
        BY <1>4, <1>5

--------------------------------------------------------------------------------
(* The calls that change the link, create a thread or set a flag.          *)
LEMMA LinkStands ==
    ASSUME IInv, UNCHANGED <<plan, at, why, told, stopping, reporting, host, queues, got, showing, hdr, seen>>,
           link' \in Links, LinkIsSound(link'), Ordered(link'), Above(hdr, link'),
           got \in Said => Above(got.n, link'), at["recv"] = "linger" => link'.pending, ClientOK', Staged'
    PROVE  IInv'
    <1>1. UNCHANGED <<plan, at, why, told, interrupted, stopping, terminated, code, alarms, heard,
                      host, event, rfiQ, asyncQ, got, held, hdr, seen, taken, shown>>
        BY DEF reporting, queues, showing
    <1>2. Said' = Said /\ Links' = Links /\ SlotsOf(plan)' = SlotsOf(plan)
        BY <1>1, PlanStays
    <1>3. TypeOK'
        BY <1>1, <1>2 DEF IInv, TypeOK, AtOK, FlagsOK, QueuesOK, MessagesOK
    <1>4. GoodbyeIsLast'
        <2>1. LinkIsSound(link)'
            BY <1>1 DEF LinkIsSound
        <2> QED
            BY <1>1, <2>1 DEF GoodbyeIsLast
    <1>5. NumbersGrow'
        BY <1>1, <1>2 DEF IInv, NumbersGrow
    <1>6. NewestWaits'
        BY <1>1, CallbacksStay DEF IInv
    <1> QED
        BY <1>3, <1>4, <1>5, <1>6 DEF IInv, Staged

(* sendMessageAndDiscardReply of START A and START B keeps the invariant.  *)
LEMMA SendStartKeeps ==
    ASSUME IInv, SendStart \/ FinishStart
    PROVE  IInv'
    <1>1. /\ TypeOK /\ Staged /\ GoodbyeIsLast /\ NumbersGrow
          /\ app \in {"start", "stop"} /\ todo # <<>> /\ Op[1] \in {"send", "reply", "resend"}
          /\ UNCHANGED <<plan, at, why, told, stopping, reporting, host, queues, got, showing, hdr, seen,
                         alive, renderer>>
        BY DEF IInv, Staged, SendStart, FinishStart, Pending
    <1>2. app = "start"
        BY <1>1, StopCall DEF Begins
    <1>3. PICK r : /\ Follows(link, r.link) /\ link' = r.link
                   /\ \/ Fails
                      \/ Done /\ UNCHANGED <<app, stage>>
                      \/ /\ Op[1] = "send" /\ \E v \in {"reply", "resend"} : todo' = <<<<v, Op[2]>>>> \o Tail(todo)
                         /\ UNCHANGED <<app, stage>>
        <2>1. CASE SendStart
            <3>1. PICK r \in Sends("app") :
                      /\ link' = r.link
                      /\ IF r.to = "failed" THEN Fails
                         ELSE todo' = (CASE r.to = "reply"  -> <<<<"reply", Op[2]>>>> \o Tail(todo)
                                         [] r.to = "resend" -> <<<<"resend", Op[2]>>>> \o Tail(todo)
                                         [] OTHER           -> Tail(todo))
                              /\ UNCHANGED <<app, stage>>
                BY <2>1 DEF SendStart
            <3>2. Follows(link, r.link) /\ Op[1] = "send"
                BY <1>1, <2>1, SendersFollow, LinkIsFollowed DEF SendStart
            <3> QED
                BY <3>1, <3>2 DEF Done
        <2>2. CASE FinishStart
            <3>1. PICK r \in IF Op[1] = "reply" THEN Replies ELSE Resends :
                      /\ link' = r.link
                      /\ IF r.to = "failed" THEN Fails ELSE Done /\ UNCHANGED <<app, stage>>
                BY <2>2 DEF FinishStart
            <3>2. Follows(link, r.link)
                BY <1>1, <3>1, SendersFollow, LinkIsFollowed
            <3> QED
                BY <3>1, <3>2
        <2> QED
            BY <2>1, <2>2
    <1>4. /\ plan' = plan /\ Running' = Running /\ (Linked => Linked') /\ hdr' = hdr /\ got' = got /\ host' = host
        BY <1>1, <1>3 DEF Running, Alive, Linked, Follows
    <1>5. PICK k \in Nat : AtCall(k) \/ AtAnswer(k)
        BY <1>1, <1>2, NextCall DEF Staged
    <1>6. stage \in 0 .. 10 /\ plan \in Plans /\ SetUp(stage, k) /\ stage = 7 /\ Reached(stage, k, 7, 1)
        <2>1. stage \in 0 .. 10 /\ plan \in Plans
            BY <1>1, <1>2, NextCall DEF Staged
        <2>2. CASE AtAnswer(k)
            BY <2>1, <2>2 DEF AtAnswer, Reached
        <2>3. CASE AtCall(k)
            <3>1. IsCall(stage, k + 1, Op) /\ SetUp(stage, k)
                BY <2>3 DEF AtCall
            <3>2. stage = 7 /\ k + 1 \in {3, 4}
                BY <1>1, <3>1 DEF IsCall
            <3> QED
                BY <2>1, <3>1, <3>2 DEF Reached
        <2> QED
            BY <1>5, <2>1, <2>2, <2>3
    <1>7. Staged' /\ ClientOK'
        <2>1. CASE Fails
            BY <1>1, <1>2, <1>4, <2>1, CallFails
        <2>2. CASE ~Fails
            <3>1. UNCHANGED <<app, stage>>
                BY <1>3, <2>2
            <3>2. CASE AtAnswer(k)
                <4>1. SetUp(7, k)'
                    <5>1. SetUp(7, k) /\ Reached(7, k, 7, 1) /\ 7 \in 0 .. 11
                        BY <1>6 DEF SetUp
                    <5> QED
                        BY <1>1, <1>4, <5>1, SetUpStays
                <4>2. SetUp(stage, k)'
                    BY <1>6, <3>1, <4>1 DEF SetUp
                <4>3. Done
                    BY <1>3, <2>2, <3>2 DEF AtAnswer
                <4>4. Staged' /\ todo' \in Seq(Steps)
                    BY <1>1, <1>2, <1>4, <3>1, <3>2, <4>2, <4>3, AnswerComes
                <4> QED
                    BY <1>1, <3>1, <4>4 DEF ClientOK, TypeOK
            <3>3. CASE AtCall(k)
                <4>1. IsCall(stage, k + 1, Op)
                    BY <3>3 DEF AtCall
                <4>2. PICK op : op = Op
                    OBVIOUS
                <4>3. IsCall(7, k + 1, op) /\ op[1] = "send" /\ SetUp(7, k) /\ Reached(7, k, 7, 1) /\ 7 \in 0 .. 10
                    <5>1. IsCall(7, k + 1, op) /\ SetUp(7, k) /\ Reached(7, k, 7, 1)
                        BY <1>6, <4>1, <4>2
                    <5>2. op[1] = "send"
                        BY <1>1, <4>2, <5>1 DEF IsCall
                    <5> QED
                        BY <5>1, <5>2
                <4>4. SetUp(7, k + 1)'
                    BY <1>1, <1>4, <1>6, <4>3, SetUpAdvances
                <4>5. SetUp(stage, k + 1)'
                    BY <1>6, <3>1, <4>4 DEF SetUp
                <4>6. Staged' /\ todo' \in Seq(Steps)
                    BY <1>1, <1>2, <1>3, <1>4, <2>2, <3>1, <3>3, <4>5, CallIsMade
                <4> QED
                    BY <1>1, <3>1, <4>6 DEF ClientOK, TypeOK
            <3> QED
                BY <1>5, <3>2, <3>3
        <2> QED
            BY <2>1, <2>2
    <1>8. link' \in Links /\ LinkIsSound(link') /\ Ordered(link') /\ Above(hdr, link')
        BY <1>1, <1>3, LinkIsFollowed DEF Follows
    <1>9. (got \in Said => Above(got.n, link')) /\ (at["recv"] = "linger" => link'.pending)
        <2>1. got \in Said => got.n \in Nat /\ Above(got.n, link)
            BY <1>1, LinkIsFollowed DEF NumbersGrow
        <2> QED
            BY <1>1, <1>3, <2>1 DEF Follows, GoodbyeIsLast
    <1> QED
        BY <1>1, <1>7, <1>8, <1>9, LinkStands

(* The messages of a new connection are all still to come.                 *)
LEMMA NewLink ==
    ASSUME TypeOK, host = "here", NEW m,
           m = [NoLink EXCEPT !.peer = "connected", !.intercept = TRUE, !.wire = plan.msgs]
    PROVE  m \in Links /\ LinkIsSound(m) /\ Ordered(m) /\ Above(0, m) /\ m.peer = "connected"
    <1>1. plan \in Plans /\ plan.msgs \in Seq(Said) /\ \A i \in DOMAIN plan.msgs : plan.msgs[i].n = i
        BY PlansAreTyped, Messaging
    <1> DEFINE w == plan.msgs
    <1>2. w \in Seq(Said) /\ m = [NoLink EXCEPT !.peer = "connected", !.intercept = TRUE, !.wire = w]
        BY <1>1
    <1> HIDE DEF w
    <1>3. /\ m.peer = "connected" /\ m.sock = "invalid" /\ m.intercept /\ ~m.pending
          /\ m.wire = w /\ m.inbox = <<>> /\ ~m.lost
        BY <1>2 DEF NoLink
    <1>4. <<>> \in Seq(Said) /\ \A i \in 1 .. Len(<<>>) : FALSE
        OBVIOUS
    <1>5. m \in Links
        <2>1. NoLink \in Links
            BY <1>4 DEF NoLink, Links
        <2> QED
            BY <1>2, <2>1 DEF Links
    <1>6. \A i \in 1 .. Len(m.wire) : m.wire[i].n = i /\ i \in Nat \ {0}
        BY <1>1, <1>3 DEF w
    <1>7. Ordered(m) /\ Above(0, m)
        BY <1>3, <1>4, <1>6 DEF Ordered, Above
    <1>8. LinkIsSound(m)
        BY <1>3 DEF LinkIsSound
    <1> QED
        BY <1>3, <1>5, <1>7, <1>8

(* enet_host_connect of startControlStream keeps the invariant.            *)
LEMMA ConnectKeeps ==
    ASSUME IInv, Connect
    PROVE  IInv'
    <1>1. /\ TypeOK /\ Staged /\ GoodbyeIsLast /\ NumbersGrow
          /\ app \in {"start", "stop"} /\ todo # <<>> /\ Op[1] = "connect"
          /\ UNCHANGED <<plan, at, why, told, stopping, reporting, host, queues, got, showing, hdr, seen,
                         alive, renderer>>
        BY DEF IInv, Staged, Connect, Pending
    <1>2. app = "start"
        BY <1>1, StopCall DEF Begins
    <1>3. PICK k \in Nat : AtCall(k)
        <2>1. PICK k \in Nat : AtCall(k) \/ AtAnswer(k)
            BY <1>1, <1>2, NextCall DEF Staged
        <2> QED
            BY <1>1, <2>1 DEF AtAnswer
    <1>4. PICK n \in 0 .. 10, op \in {Op} : n = stage /\ op = Op
        BY <1>1, <1>2, NextCall DEF Staged
    <1>5. plan \in Plans /\ IsCall(n, k + 1, op) /\ SetUp(n, k) /\ n \in 0 .. 11
        BY <1>1, <1>2, <1>3, <1>4, NextCall DEF Staged, AtCall
    <1>6. \/ op = <<"connect", "video">> /\ n = 8
          \/ op = <<"connect", "control">> /\ n = 7 /\ k + 1 = 1
        BY <1>1, <1>4, <1>5 DEF IsCall
    <1>7. /\ plan' = plan /\ Running' = Running /\ hdr' = hdr /\ got' = got /\ host' = host
        BY <1>1 DEF Running, Alive
    <1>8. CASE link' = link /\ (Fails \/ (Done /\ UNCHANGED <<app, stage>> /\ op = <<"connect", "video">>))
        <2>1. Linked => Linked'
            BY <1>8 DEF Linked
        <2>2. Staged' /\ ClientOK'
            <3>1. CASE Fails
                BY <1>1, <1>2, <1>7, <2>1, <3>1, CallFails
            <3>2. CASE Done /\ UNCHANGED <<app, stage>> /\ op = <<"connect", "video">>
                <4>1. Reached(n, k, 7, 1)
                    BY <1>6, <3>2 DEF Reached
                <4>2. SetUp(n, k + 1)'
                    BY <1>1, <1>5, <1>7, <2>1, <3>2, <4>1, SetUpAdvances
                <4>3. SetUp(stage, k + 1)'
                    BY <1>4, <3>2, <4>2 DEF SetUp
                <4>4. Staged' /\ todo' \in Seq(Steps)
                    BY <1>1, <1>2, <1>3, <1>7, <3>2, <4>3, CallIsMade
                <4> QED
                    BY <1>1, <3>2, <4>4 DEF ClientOK, TypeOK
            <3> QED
                BY <1>8, <3>1, <3>2
        <2>3. /\ link' \in Links /\ LinkIsSound(link') /\ Ordered(link') /\ Above(hdr, link')
              /\ got \in Said => Above(got.n, link')
              /\ at["recv"] = "linger" => link'.pending
            BY <1>1, <1>8, LinkIsFollowed DEF Sound, GoodbyeIsLast, NumbersGrow
        <2> QED
            BY <1>1, <2>2, <2>3, LinkStands
    <1>9. CASE ~(link' = link /\ (Fails \/ (Done /\ UNCHANGED <<app, stage>> /\ op = <<"connect", "video">>)))
        <2>1. /\ Done /\ UNCHANGED <<app, stage>> /\ op = <<"connect", "control">> /\ n = 7 /\ k = 0
              /\ \/ link' = [link EXCEPT !.sock = "open"]
                 \/ link' = [link EXCEPT !.peer = "connected", !.intercept = TRUE, !.wire = plan.msgs]
            BY <1>4, <1>6, <1>9 DEF Connect
        <2>2. link = NoLink /\ host = "here" /\ hdr = 0 /\ got = Nothing
            BY <1>5, <2>1 DEF SetUp, Reached
        <2>3. Nothing \notin Said /\ at["recv"] # "linger"
            <3>1. "recv" \notin Born(n, k)
                BY <2>1 DEF Born, Reached
            <3>2. ~Alive("recv")
                BY <1>5, <3>1, ThreadNames DEF SetUp, Running
            <3> QED
                BY <1>5, <3>2, Messaging DEF Alive
        <2>4. link' \in Links /\ LinkIsSound(link') /\ Ordered(link') /\ Above(hdr, link') /\ Linked'
            <3>1. CASE link' = [link EXCEPT !.peer = "connected", !.intercept = TRUE, !.wire = plan.msgs]
                BY <1>1, <2>2, <3>1, NewLink DEF Linked
            <3>2. CASE link' = [link EXCEPT !.sock = "open"]
                <4>1. /\ link \in Links /\ LinkIsSound(link) /\ Ordered(link) /\ Above(hdr, link)
                    BY <1>1, LinkIsFollowed DEF Sound
                <4>2. link' \in Links
                    BY <3>2, <4>1 DEF Links
                <4>3. /\ link'.peer = link.peer /\ link'.intercept = link.intercept /\ link'.pending = link.pending
                      /\ link'.wire = link.wire /\ link'.inbox = link.inbox /\ link'.lost = link.lost
                      /\ link'.sock = "open"
                    BY <3>2, <4>1 DEF Links
                <4>4. LinkIsSound(link') /\ Ordered(link') /\ Above(hdr, link') /\ Linked'
                    BY <4>1, <4>3 DEF LinkIsSound, Ordered, Above, Linked
                <4> QED
                    BY <4>2, <4>4
            <3> QED
                BY <2>1, <3>1, <3>2
        <2>5. SetUp(n, k + 1)'
            BY <1>1, <1>5, <1>7, <2>1, <2>4, SetUpAdvances
        <2>6. SetUp(stage, k + 1)'
            BY <1>4, <2>1, <2>5 DEF SetUp
        <2>7. Staged' /\ todo' \in Seq(Steps)
            BY <1>1, <1>2, <1>3, <1>7, <2>1, <2>6, CallIsMade
        <2>8. ClientOK'
            BY <1>1, <2>1, <2>7 DEF ClientOK, TypeOK
        <2> QED
            BY <1>1, <2>2, <2>3, <2>4, <2>7, <2>8, LinkStands
    <1> QED
        BY <1>8, <1>9

(* enet_peer_disconnect of a stop keeps the invariant.                     *)
LEMMA DisconnectKeeps ==
    ASSUME IInv, Disconnect
    PROVE  IInv'
    <1>1. /\ TypeOK /\ Staged /\ GoodbyeIsLast /\ NumbersGrow
          /\ app \in {"start", "stop"} /\ todo # <<>> /\ Op[1] \in {"disconnect", "close"} /\ Done
          /\ UNCHANGED <<plan, at, why, told, stopping, reporting, host, queues, got, showing, hdr, seen,
                         app, stage, renderer>>
        BY DEF IInv, Staged, Disconnect, Pending
    <1>2. app = "stop"
        <2> SUFFICES ASSUME app = "start"
                     PROVE  FALSE
            BY <1>1
        <2>1. PICK k \in Nat : AtCall(k) \/ AtAnswer(k)
            BY <1>1, NextCall DEF Staged
        <2>2. IsCall(stage, k + 1, Op)
            BY <1>1, <2>1 DEF AtAnswer, AtCall
        <2> QED
            BY <1>1, <2>2 DEF IsCall
    <1>3. \A t \in Running : ~Releases(Op, t)
        BY <1>1, <1>2, StopCall
    <1>4. Op = <<Op[1], Op[2]>>
        BY <1>1, HeadTailProperties, StepFields DEF TypeOK, ClientOK, Op
    <1>5. \A t \in Threads : Alive(t)' <=> Alive(t)
        BY <1>1 DEF Alive
    <1>6. Running' = Running /\ \A t \in Running : ~Joins(Op, t)
        BY <1>1, <1>5 DEF Running, Joins
    <1>7. alive' \subseteq Objects
        BY <1>1 DEF Disconnect, TypeOK, ClientOK
    <1>8. CASE Op = <<"close", "video">>
        <2>1. link' = link /\ alive' = alive \ {"socket"}
            BY <1>8 DEF Disconnect
        <2>2. \A t \in Running : t \notin {"vrecv", "vping"}
            BY <1>3, <1>8 DEF Releases
        <2>3. NothingOutlivesWhatItUses'
            <3>1. \A t \in Threads : Alive(t)' => t \in Running /\ Alive(t)
                BY <1>5 DEF Running
            <3>2. (Linked <=> Linked') /\ renderer' = renderer
                BY <1>1, <2>1 DEF Linked
            <3> QED
                BY <1>1, <2>1, <2>2, <3>1, <3>2, ThreadNames DEF Staged, NothingOutlivesWhatItUses
        <2>4. Staged' /\ todo' \in Seq(Steps)
            BY <1>1, <1>2, <1>6, <2>3, StopContinues
        <2>5. ClientOK'
            BY <1>1, <1>7, <2>4 DEF ClientOK, TypeOK
        <2>6. /\ link' \in Links /\ LinkIsSound(link') /\ Ordered(link') /\ Above(hdr, link')
              /\ got \in Said => Above(got.n, link')
              /\ at["recv"] = "linger" => link'.pending
            BY <1>1, <2>1, LinkIsFollowed DEF Sound, GoodbyeIsLast, NumbersGrow
        <2> QED
            BY <1>1, <2>4, <2>5, <2>6, LinkStands
    <1>9. CASE Op # <<"close", "video">>
        <2>1. link' = [NoLink EXCEPT !.lost = link.lost] /\ alive' = alive
            BY <1>9 DEF Disconnect
        <2>2. Op[1] = "disconnect" \/ (Op[1] = "close" /\ Op[2] # "video")
            BY <1>1, <1>4, <1>9
        <2>3. \A t \in Running : t \notin {"recv", "loss", "idr", "rfi", "input"}
            BY <1>3, <2>2 DEF Releases
        <2>4. NothingOutlivesWhatItUses'
            <3>1. \A t \in Threads : Alive(t)' => t \in Running /\ Alive(t)
                BY <1>5 DEF Running
            <3> QED
                BY <1>1, <2>1, <2>3, <3>1, ThreadNames DEF Staged, NothingOutlivesWhatItUses
        <2>5. Staged' /\ todo' \in Seq(Steps)
            BY <1>1, <1>2, <1>6, <2>4, StopContinues
        <2>6. ClientOK'
            BY <1>1, <1>7, <2>5 DEF ClientOK, TypeOK
        <2>7. link \in Links /\ LinkIsSound(link) /\ link.lost \in BOOLEAN
            BY <1>1, LinkIsFollowed, LinkFields DEF Sound
        <2>8. link' \in Links /\ LinkIsSound(link') /\ Ordered(link')
              /\ \A b : Above(b, link')
            <3>1. link' = [peer |-> "null", sock |-> "invalid", intercept |-> FALSE, pending |-> FALSE,
                           wire |-> <<>>, inbox |-> <<>>, lost |-> link.lost]
                BY <2>1 DEF NoLink
            <3>2. <<>> \in Seq(Said) /\ \A i \in 1 .. Len(<<>>) : FALSE
                OBVIOUS
            <3>3. link' \in Links
                BY <2>7, <3>1, <3>2 DEF Links
            <3>4. /\ link'.peer = "null" /\ ~link'.pending /\ link'.wire = <<>> /\ link'.inbox = <<>>
                  /\ link'.lost = link.lost
                BY <3>1
            <3>5. LinkIsSound(link')
                BY <2>7, <3>4 DEF LinkIsSound
            <3> QED
                BY <3>2, <3>3, <3>4, <3>5 DEF Ordered, Above
        <2>9. at["recv"] # "linger"
            <3>1. ~Alive("recv")
                BY <2>3, ThreadNames DEF Running
            <3> QED
                BY <3>1 DEF Alive
        <2> QED
            BY <1>1, <2>5, <2>6, <2>8, <2>9, LinkStands
    <1> QED
        BY <1>8, <1>9

(* PltCreateThread keeps the invariant.                                    *)
LEMMA CreateKeeps ==
    ASSUME IInv, Create
    PROVE  IInv'
    <1>1. /\ TypeOK /\ Staged /\ GoodbyeIsLast /\ NumbersGrow /\ NewestWaits
          /\ app \in {"start", "stop"} /\ todo # <<>> /\ Op[1] = "create" /\ Done
          /\ Goes(Op[2], FirstPlace(Op[2]))
          /\ UNCHANGED <<plan, why, told, stopping, reporting, link, host, queues, got, showing, hdr, seen,
                         app, stage, alive, renderer>>
        BY DEF IInv, Staged, Create, Pending
    <1>2. UNCHANGED <<interrupted, terminated, code, alarms, heard, event, rfiQ, asyncQ, held, taken, shown>>
        BY <1>1 DEF reporting, queues, showing
    <1>3. app = "start"
        BY <1>1, StopCall DEF Begins
    <1>4. PICK k \in Nat : AtCall(k)
        <2>1. PICK k \in Nat : AtCall(k) \/ AtAnswer(k)
            BY <1>1, <1>3, NextCall DEF Staged
        <2> QED
            BY <1>1, <2>1 DEF AtAnswer
    <1>5. PICK n \in 0 .. 10, op \in {Op} : n = stage /\ op = Op
        BY <1>1, <1>3, NextCall DEF Staged
    <1>6. plan \in Plans /\ IsCall(n, k + 1, op) /\ SetUp(n, k) /\ n \in 0 .. 11 /\ op[1] = "create"
        BY <1>1, <1>3, <1>4, <1>5, NextCall DEF Staged, AtCall
    <1>7. PICK t \in Threads : op = <<"create", t>>
        BY <1>6, ThreadNames DEF IsCall
    <1>8. Goes(t, FirstPlace(t)) /\ FirstPlace(t) \in {"poll", "send", "wait"} /\ (t = "async" => FirstPlace(t) = "wait")
        BY <1>1, <1>5, <1>7 DEF FirstPlace
    <1>9. AtOK' /\ at'[t] = FirstPlace(t) /\ \A s \in Threads : s # t => at'[s] = at[s]
        <2>1. FirstPlace(t) \in Places
            BY <1>8, PlacesToGo
        <2>2. AtOK'
            BY <1>1, <1>2, <1>8, <2>1, Moved
        <2> QED
            BY <1>1, <1>8, <2>1, <2>2 DEF Goes, TypeOK, AtOK
    <1>10. Staged' /\ todo' \in Seq(Steps)
        <2>1. \A s \in Running' : s \in Running \/ op = <<"create", s>>
            BY <1>7, <1>9 DEF Running, Alive
        <2>2. Linked => Linked'
            BY <1>1 DEF Linked
        <2>3. op # <<"open", "control">> /\ op # <<"bind", "video">> /\ op # <<"connect", "control">>
              /\ op[1] \notin {"renderer", "open", "bind", "connect"}
            BY <1>6
        <2>4. SetUp(n, k + 1)'
            BY <1>1, <1>6, <2>1, <2>2, <2>3, SetUpAdvances
        <2>5. SetUp(stage, k + 1)'
            BY <1>1, <1>5, <2>4 DEF SetUp
        <2> QED
            BY <1>1, <1>3, <1>4, <2>5, CallIsMade
    <1>11. Said' = Said /\ Links' = Links /\ SlotsOf(plan)' = SlotsOf(plan)
        BY <1>1, PlanStays
    <1>12. TypeOK'
        <2>1. FlagsOK' /\ QueuesOK' /\ MessagesOK' /\ link' \in Links'
            BY <1>1, <1>2, <1>11 DEF TypeOK, FlagsOK, QueuesOK, MessagesOK
        <2>2. ClientOK'
            BY <1>1, <1>10 DEF TypeOK, ClientOK
        <2> QED
            BY <1>1, <1>9, <2>1, <2>2 DEF TypeOK
    <1>13. GoodbyeIsLast'
        <2>1. at'["recv"] = "linger" => at["recv"] = "linger"
            BY <1>8, <1>9, ThreadNames
        <2>2. LinkIsSound(link)'
            BY <1>1 DEF LinkIsSound, GoodbyeIsLast
        <2> QED
            BY <1>1, <2>1, <2>2 DEF GoodbyeIsLast
    <1>14. NumbersGrow'
        BY <1>1, <1>2, <1>11 DEF NumbersGrow
    <1>15. NewestWaits'
        <2>1. CASE t # "async"
            BY <1>1, <1>2, <1>9, <2>1, CallbacksStay, ThreadNames
        <2>2. CASE t = "async"
            <3>1. "async" \notin Born(n, k)
                <4>1. n = 7 /\ k + 1 = 7
                    BY <1>6, <1>7, <2>2 DEF IsCall
                <4> QED
                    BY <4>1 DEF Born, Reached
            <3>2. at["async"] # "batch" /\ at'["async"] = "wait"
                BY <1>6, <1>8, <1>9, <2>2, <3>1, ThreadNames DEF SetUp, Running, Alive
            <3>3. Waiting' = Waiting
                BY <1>2, <3>2 DEF Waiting
            <3> QED
                BY <1>1, <1>2, <3>2, <3>3 DEF NewestWaits, Newest
        <2> QED
            BY <2>1, <2>2
    <1> QED
        BY <1>10, <1>12, <1>13, <1>14, <1>15 DEF IInv, Staged

(* Flags, queues and the socket of threads that are to end.                *)
LEMMA SignalKeeps ==
    ASSUME IInv, Signal
    PROVE  IInv'
    <1>1. /\ TypeOK /\ Staged /\ GoodbyeIsLast /\ NumbersGrow /\ NewestWaits
          /\ app \in {"start", "stop"} /\ todo # <<>> /\ Done
          /\ Op[1] \in {"set", "shutdown", "drain", "interrupt", "stop"}
          /\ UNCHANGED <<plan, at, why, code, alarms, heard, host, got, showing, hdr, seen, app, stage, alive,
                         renderer>>
        BY DEF IInv, Staged, Signal, Pending
    <1>2. UNCHANGED <<held, taken, shown>>
        BY <1>1 DEF showing
    <1>3. app = "stop"
        <2> SUFFICES ASSUME app = "start"
                     PROVE  FALSE
            BY <1>1
        <2>1. PICK k \in Nat : AtCall(k) \/ AtAnswer(k)
            BY <1>1, NextCall DEF Staged
        <2>2. IsCall(stage, k + 1, Op)
            BY <1>1, <2>1 DEF AtAnswer, AtCall
        <2> QED
            BY <1>1, <2>2 DEF IsCall
    <1>4. Op \in Steps
        BY <1>1, HeadTailProperties DEF TypeOK, ClientOK, Op
    <1>5. told' \subseteq Objects
        <2>1. CASE Op[1] = "interrupt"
            <3>1. told' = told \cup Op[2] /\ Op[2] \subseteq Threads
                BY <1>4, <2>1, StepFields DEF Signal, Verbs
            <3> QED
                BY <1>1, <3>1 DEF TypeOK, FlagsOK, Objects
        <2>2. CASE Op[1] # "interrupt"
            <3>1. Op[2] \in Objects /\ told' \in {told, told \cup {Op[2]}}
                BY <1>1, <1>4, <2>2, StepFields DEF Signal
            <3> QED
                BY <1>1, <3>1 DEF TypeOK, FlagsOK
        <2> QED
            BY <2>1, <2>2
    <1>6. stopping' \in BOOLEAN /\ terminated' \in BOOLEAN /\ interrupted' \in BOOLEAN /\ event' \in BOOLEAN
        BY <1>1 DEF Signal, TypeOK, FlagsOK
    <1>7. FlagsOK'
        BY <1>1, <1>5, <1>6 DEF TypeOK, FlagsOK
    <1>8. Said' = Said /\ Links' = Links /\ SlotsOf(plan)' = SlotsOf(plan)
        BY <1>1, PlanStays
    <1>9. /\ rfiQ' \in LbqOf({"range"}, RfiBound)
          /\ asyncQ' \in LbqOf(Said, AsyncBound) /\ ~asyncQ'.userWake /\ asyncQ'.items = asyncQ.items
          /\ (asyncQ.draining => asyncQ'.draining) /\ (asyncQ.shutdown => asyncQ'.shutdown)
        <2>1. rfiQ \in LbqOf({"range"}, RfiBound) /\ asyncQ \in LbqOf(Said, AsyncBound) /\ ~asyncQ.userWake
              /\ AsyncBound \in Nat \ {0}
            BY <1>1, ControlAssumption DEF TypeOK, QueuesOK
        <2>2. rfiQ' \in {rfiQ, LbqShutdown(rfiQ)} /\ LbqShutdown(rfiQ) \in LbqOf({"range"}, RfiBound)
            BY <2>1 DEF Signal, LbqShutdown, LbqOf
        <2>3. asyncQ' \in {asyncQ, LbqShutdown(asyncQ), LbqDrain(asyncQ)}
            BY DEF Signal
        <2>4. asyncQ' \in LbqOf(Said, AsyncBound) /\ ~asyncQ'.userWake
            BY <2>1, <2>3, QueueTypes
        <2>5. \A q \in {asyncQ, LbqShutdown(asyncQ), LbqDrain(asyncQ)} :
                 q.items = asyncQ.items /\ (asyncQ.draining => q.draining) /\ (asyncQ.shutdown => q.shutdown)
            BY <2>1 DEF LbqShutdown, LbqDrain, LbqOf
        <2>6. /\ asyncQ'.items = asyncQ.items
              /\ (asyncQ.draining => asyncQ'.draining) /\ (asyncQ.shutdown => asyncQ'.shutdown)
            <3> DEFINE three == {asyncQ, LbqShutdown(asyncQ), LbqDrain(asyncQ)}
            <3>1. asyncQ' \in three
                BY <2>3
            <3>2. \A q \in three : q.items = asyncQ.items /\ (asyncQ.draining => q.draining) /\ (asyncQ.shutdown => q.shutdown)
                BY <2>5
            <3> HIDE DEF three
            <3> QED
                BY <3>1, <3>2
        <2>7. rfiQ' \in LbqOf({"range"}, RfiBound)
            BY <2>1, <2>2
        <2> QED
            BY <2>4, <2>6, <2>7
    <1>10. /\ link' \in Links /\ link'.peer = link.peer /\ link'.intercept = link.intercept
           /\ link'.pending = link.pending /\ link'.wire = link.wire /\ link'.inbox = link.inbox
           /\ link'.lost = link.lost /\ link'.sock \in {link.sock, "shutdown"}
        <2>1. link \in Links /\ (link' = link \/ link' = [link EXCEPT !.sock = "shutdown"])
            BY <1>1 DEF Signal, TypeOK
        <2>2. CASE link' = link
            BY <2>1, <2>2
        <2>3. CASE link' = [link EXCEPT !.sock = "shutdown"]
            <3>1. link' \in Links
                BY <2>1, <2>3 DEF Links
            <3>2. /\ link'.peer = link.peer /\ link'.intercept = link.intercept
                  /\ link'.pending = link.pending /\ link'.wire = link.wire /\ link'.inbox = link.inbox
                  /\ link'.lost = link.lost /\ link'.sock = "shutdown"
                BY <2>1, <2>3 DEF Links
            <3> QED
                BY <3>1, <3>2
        <2> QED
            BY <2>1, <2>2, <2>3
    <1>11. Staged' /\ todo' \in Seq(Steps)
        <2>1. Running' = Running /\ \A t \in Running : ~Joins(Op, t)
            BY <1>1 DEF Running, Alive, Joins
        <2>2. \A t \in Threads : Alive(t)' <=> Alive(t)
            BY <1>1 DEF Alive
        <2>3. Linked => Linked'
            BY <1>10 DEF Linked
        <2>4. NothingOutlivesWhatItUses'
            BY <1>1, <2>2, <2>3, ThreadNames DEF Staged, NothingOutlivesWhatItUses
        <2> QED
            BY <1>1, <1>3, <2>1, <2>4, StopContinues
    <1>12. TypeOK'
        <2>1. AtOK' /\ QueuesOK' /\ MessagesOK'
            BY <1>1, <1>2, <1>8, <1>9 DEF TypeOK, AtOK, QueuesOK, MessagesOK
        <2>2. ClientOK'
            BY <1>1, <1>11 DEF TypeOK, ClientOK
        <2> QED
            BY <1>1, <1>7, <1>8, <1>10, <2>1, <2>2 DEF TypeOK
    <1>13. GoodbyeIsLast'
        BY <1>1, <1>10 DEF GoodbyeIsLast, LinkIsSound
    <1>14. NumbersGrow'
        BY <1>1, <1>2, <1>8, <1>10 DEF NumbersGrow, Ordered, Above
    <1>15. NewestWaits'
        <2>1. Waiting' = Waiting
            BY <1>1, <1>2, <1>9 DEF Waiting
        <2>2. Newest(Waiting, taken, shown)'
            BY <1>1, <1>2, <2>1 DEF NewestWaits, Newest
        <2>3. (at["async"] = "ended" /\ ~asyncQ.shutdown => asyncQ.draining /\ asyncQ.items = <<>>)'
            BY <1>1, <1>9 DEF NewestWaits
        <2> QED
            BY <2>2, <2>3 DEF NewestWaits
    <1> QED
        BY <1>11, <1>12, <1>13, <1>14, <1>15 DEF IInv, Staged

(* LiInterruptConnection keeps the invariant.                              *)
LEMMA InterruptKeeps ==
    ASSUME IInv, LiInterruptConnection
    PROVE  IInv'
    <1>1. /\ TypeOK /\ Staged /\ GoodbyeIsLast /\ NumbersGrow /\ NewestWaits /\ interrupted' = TRUE
          /\ UNCHANGED <<plan, at, why, told, stopping, terminated, code, alarms, heard, link, host, queues,
                         got, showing, hdr, seen, appVars>>
        BY DEF IInv, Staged, LiInterruptConnection
    <1>2. UNCHANGED <<event, rfiQ, asyncQ, held, taken, shown>>
        BY <1>1 DEF queues, showing
    <1>3. Said' = Said /\ Links' = Links /\ SlotsOf(plan)' = SlotsOf(plan)
        BY <1>1, PlanStays
    <1>4. Staged'
        <2>1. Running' = Running /\ (Linked => Linked')
            BY <1>1 DEF Running, Alive, Linked
        <2> QED
            BY <1>1, <2>1, OthersKeepStages
    <1>5. TypeOK'
        <2>1. FlagsOK'
            BY <1>1, <1>2 DEF TypeOK, FlagsOK
        <2>2. AtOK' /\ QueuesOK' /\ MessagesOK' /\ link' \in Links'
            BY <1>1, <1>2, <1>3 DEF TypeOK, AtOK, QueuesOK, MessagesOK
        <2>3. ClientOK'
            BY <1>1 DEF TypeOK, ClientOK, appVars
        <2> QED
            BY <1>1, <2>1, <2>2, <2>3 DEF TypeOK
    <1>6. GoodbyeIsLast'
        BY <1>1 DEF GoodbyeIsLast, LinkIsSound
    <1>7. NumbersGrow'
        BY <1>1, <1>2, <1>3 DEF NumbersGrow
    <1>8. NewestWaits'
        BY <1>1, <1>2, CallbacksStay
    <1> QED
        BY <1>4, <1>5, <1>6, <1>7, <1>8 DEF IInv, Staged

--------------------------------------------------------------------------------
(* The invariant holds, and what follows from it.                          *)
LEMMA InitIInv ==
    ASSUME Init
    PROVE  IInv
    <1>1. /\ ControlInit /\ app = "start" /\ stage = 0 /\ todo = StartOf[1] /\ alive = {} /\ renderer = "none"
          /\ plan \in Scenarios
        BY DEF Init, ControlInit
    <1>2. plan \in Plans
        BY <1>1, ScenarioAssumption
    <1>3. /\ at = [t \in Threads |-> "none"] /\ why = [t \in Threads |-> "none"] /\ told = {}
          /\ ~interrupted /\ ~stopping /\ ~terminated /\ code = "none" /\ alarms = 0 /\ heard = 0
          /\ link = NoLink /\ host = "here" /\ ~event /\ rfiQ = EmptyLbq(RfiBound) /\ asyncQ = EmptyLbq(AsyncBound)
          /\ got = Nothing /\ held = Nothing /\ hdr = 0 /\ ~seen
          /\ taken = [s \in SlotsOf(plan) |-> 0] /\ shown = taken
          /\ interrupted \in BOOLEAN /\ stopping \in BOOLEAN /\ terminated \in BOOLEAN /\ event \in BOOLEAN
          /\ seen \in BOOLEAN
        BY <1>1 DEF ControlInit
    <1>4. \A t \in Threads : at[t] = "none" /\ ~Alive(t)
        BY <1>3 DEF Alive
    <1>5. Running = {}
        BY <1>4 DEF Running
    <1>6. <<>> \in Seq(Said) /\ <<>> \in Seq({"range"}) /\ Len(<<>>) = 0 /\ \A i \in 1 .. Len(<<>>) : FALSE
        OBVIOUS
    <1>7. /\ link \in Links /\ link.peer = "null" /\ ~link.pending /\ link.wire = <<>> /\ link.inbox = <<>>
          /\ ~link.lost
        BY <1>3, <1>6 DEF NoLink, Links
    <1>8. /\ asyncQ.items = <<>> /\ asyncQ \in LbqOf(Said, AsyncBound) /\ ~asyncQ.userWake
          /\ rfiQ \in LbqOf({"range"}, RfiBound)
        BY <1>3, <1>6 DEF EmptyLbq, LbqOf
    <1>9. StartOf[1] \in Seq(Steps) /\ Suffix(StartOf[1], 0) = StartOf[1] /\ Len(StartOf[1]) = 1
        <2>1. 0 \in 0 .. 10 /\ 0 + 1 = 1 /\ 0 \notin {7, 8}
            OBVIOUS
        <2>2. StartOf[1] \in Seq(Steps) /\ Len(StartOf[1]) = 1
            BY <1>2, <2>1, StartCalls
        <2>3. 0 \in 0 .. Len(StartOf[1])
            BY <2>2
        <2> QED
            BY <2>2, <2>3, SuffixTail
    <1>10. TypeOK
        <2>1. AtOK
            BY <1>3, <1>4, PlacesToGo, ThreadNames DEF AtOK
        <2>2. FlagsOK
            BY <1>3 DEF FlagsOK, Errors
        <2>3. QueuesOK
            BY <1>3, <1>8 DEF QueuesOK
        <2>4. MessagesOK
            BY <1>3 DEF MessagesOK
        <2>5. ClientOK
            BY <1>1, <1>9 DEF ClientOK
        <2> QED
            BY <1>1, <1>7, <2>1, <2>2, <2>3, <2>4, <2>5 DEF TypeOK
    <1>11. Starts
        <2>1. SetUp(0, 0)
            <3>1. \A stg \in {4, 5, 6, 7, 8} : \A call \in {1, 2, 3} : ~Reached(0, 0, stg, call)
                BY DEF Reached
            <3> QED
                BY <1>3, <1>5, <3>1 DEF SetUp
        <2>2. Progressed(0, 0)
            BY <1>1, <1>9, <2>1 DEF Progressed
        <2>3. 0 \in 0 .. Len(StartOf[stage + 1]) /\ stage \in 0 .. 10
            BY <1>1, <1>9
        <2> QED
            BY <1>1, <2>2, <2>3 DEF Starts
    <1>12. Runs /\ Stops /\ NothingOutlivesWhatItUses
        BY <1>1, <1>4, ThreadNames DEF Runs, Stops, NothingOutlivesWhatItUses
    <1>13. GoodbyeIsLast
        BY <1>3, <1>4, <1>7, ThreadNames DEF GoodbyeIsLast, LinkIsSound
    <1>14. NumbersGrow
        <2>1. Nothing \notin Said
            BY <1>2, Messaging
        <2> QED
            BY <1>3, <1>6, <1>7, <2>1 DEF NumbersGrow, Ordered, Above
    <1>15. NewestWaits
        <2>1. Waiting = <<>>
            BY <1>4, <1>8, ThreadNames DEF Waiting
        <2> QED
            BY <1>3, <1>4, <1>6, <2>1, ThreadNames DEF NewestWaits, Newest
    <1> QED
        BY <1>10, <1>11, <1>12, <1>13, <1>14, <1>15 DEF IInv

(* A step that changes nothing keeps the invariant.                        *)
LEMMA StutterKeeps ==
    ASSUME IInv, UNCHANGED vars
    PROVE  IInv'
    <1>1. UNCHANGED controlVars /\ UNCHANGED <<app, stage, todo, alive, renderer>> /\ TypeOK /\ Staged
        BY DEF vars, appVars, IInv, Staged
    <1>2. plan' = plan /\ Running' = Running /\ (Linked => Linked') /\ UNCHANGED <<link, host, hdr, got>>
        BY <1>1, ControlStandsStill
    <1>3. Staged'
        BY <1>1, <1>2, OthersKeepStages DEF appVars
    <1>4. ClientOK'
        BY <1>1 DEF TypeOK, ClientOK
    <1> QED
        BY <1>1, <1>3, <1>4, ControlStands

(* Every step keeps the invariant.                                         *)
LEMMA NextIInv ==
    ASSUME IInv, [Next]_vars
    PROVE  IInv'
    <1>1. CASE Progress
        BY <1>1, StageCompleteKeeps, StageFailsKeeps, OpenKeeps, RenderKeeps, ConnectKeeps, CreateKeeps,
           SendStartKeeps, SignalKeeps, JoinKeeps, DisconnectKeeps, StoppingKeeps DEF Progress
    <1>2. CASE WaitForThread \/ UNCHANGED vars
        BY <1>2, StutterKeeps DEF WaitForThread
    <1>3. CASE LiStopConnection
        BY <1>3, StoppingKeeps
    <1>4. CASE LiInterruptConnection
        BY <1>4, InterruptKeeps
    <1>5. CASE (CallClient \/ Environment) /\ UNCHANGED appVars
        BY <1>5, EnvironmentKeeps
    <1>6. CASE \E t \in Threads : Thread(t) /\ UNCHANGED appVars
        BY <1>6, ThreadsKeep
    <1> QED
        BY <1>1, <1>2, <1>3, <1>4, <1>5, <1>6 DEF Next

(* The invariant by induction: a start, any thread, a stop, an            *)
(* interruption and the network each keep every conjunct of IInv.          *)
THEOREM Invariance == Spec => []IInv
    BY InitIInv, NextIInv, PTL DEF Spec

(* The state keeps its types: threads are where their code can be, links   *)
(* and queues hold messages of the host, and what is left to call is a row *)
(* of calls of LiStartConnection, of an undo or of LiStopConnection.       *)
THEOREM TypeCorrect == Spec => []TypeOK
    <1>1. IInv => TypeOK
        BY DEF IInv
    <1> QED
        BY <1>1, Invariance, PTL

(* Wherever a start fails, is interrupted or the client stops, whatever a  *)
(* thread may still touch is released only after the thread was joined.    *)
THEOREM ThreadsAreSafe == Spec => []NothingOutlivesWhatItUses
    <1>1. IInv => NothingOutlivesWhatItUses
        BY DEF IInv
    <1> QED
        BY <1>1, Invariance, PTL

(* ignoreDisconnectIntercept: no message the host sent before its goodbye  *)
(* is dropped by it, unless the goodbye shared a datagram with them.       *)
THEOREM MessagesComeFirst == Spec => []MessagesOutliveDisconnect
    <1>1. IInv => MessagesOutliveDisconnect
        <2>1. TypeOK => plan.bundled \in BOOLEAN
            BY PlansAreTyped
        <2> QED
            BY <2>1 DEF IInv, GoodbyeIsLast, LinkIsSound, MessagesOutliveDisconnect
    <1> QED
        BY <1>1, Invariance, PTL

(* asyncCallbackThreadFunc: when it has ended after a drain, the client    *)
(* was called for the newest message of every kind and controller.         *)
THEOREM CallbacksReachTheClient == Spec => []CallbacksSettle
    <1>1. IInv => CallbacksSettle
        <2> SUFFICES ASSUME IInv, at["async"] = "ended", ~asyncQ.shutdown, NEW s \in DOMAIN taken
                     PROVE  shown[s] >= taken[s]
            BY DEF CallbacksSettle
        <2>1. Waiting = <<>> /\ \A i \in 1 .. Len(<<>>) : FALSE
            BY DEF IInv, NewestWaits, Waiting
        <2>2. s \in SlotsOf(plan) /\ taken[s] \in Nat /\ shown[s] \in Nat
            BY DEF IInv, TypeOK, MessagesOK
        <2>3. taken[s] <= shown[s]
            BY <2>1, <2>2 DEF IInv, NewestWaits, Newest
        <2> QED
            BY <2>2, <2>3
    <1> QED
        BY <1>1, Invariance, PTL
===============================================================================
