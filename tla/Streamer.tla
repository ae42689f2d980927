------------------------------ MODULE Streamer ------------------------------
(***************************************************************************)
(* One streamer process after its Init (moonlight-web/streamer/src/        *)
(* main.rs): the primary peer connection that starts the Moonlight stream, *)
(* the IPC loop that attaches and detaches input-only peers, the watchdog  *)
(* of relay-only sessions, and the many ways into stop().                  *)
(*                                                                         *)
(* A task's location is where it awaits; a step takes it to its next       *)
(* await.  The parent keeps reading, so sending to it takes time but does  *)
(* end.  What the parent does with the process is in StreamLifecycle.      *)
(*                                                                         *)
(* RTCPeerConnection::close() is the library's: it has the state callback  *)
(* report Closed, and may or may not wait for that callback.               *)
(***************************************************************************)
EXTENDS Naturals, FiniteSets

CONSTANTS Phones,      \* client ids of input-only browsers
          PadHolders,  \* those that hold gamepad slots when they are detached
          RelayOnly,   \* ice_transport_policy == Relay
          None

ASSUME StreamerAssumption ==
    /\ IsFiniteSet(Phones)
    /\ PadHolders \subseteq Phones
    /\ RelayOnly \in BOOLEAN
    /\ None \notin Phones
    /\ "loop" \notin Phones

VARIABLES
    main,      \* main(): "stages" before, "wait" in, "exited" after terminate.notified()
    ice,       \* the primary peer as its callbacks report it
    initiated, \* stream_start_initiated
    start,     \* the start_stream that went past the guard
    stream,    \* self.stream: "none" or "some"
    relay,     \* primary_udp_relay_gathered
    deadline,  \* the three-second watchdog: "off", "armed", "armedUp" (ICE was up then), "over"
    fresh,     \* request_fresh_session: "no", "send", "sent"
    stops,     \* [caller]: where its stop() is
    told,      \* StreamerIpcMessage::Stop: "no", "queued" in the IPC channel, "written" to stdout
    phone,     \* [phone]: "new", "up" after its attach, "gone" after DetachInputClient
    peers,     \* the keys of secondary_peers
    closing,   \* the peer whose close() a stop() awaits under secondary_peers.write()
    callback,  \* [phone]: where the callback is that the close() of its peer waits for
    task,      \* ["loop"] the IPC loop, [phone] its peer's state callback
    shown      \* the InputClientsChanged count the primary browser got last

vars == <<main, ice, initiated, start, stream, relay, deadline, fresh,
          stops, told, phone, peers, closing, callback, task, shown>>
sessionVars == <<ice, initiated, start, relay, deadline, fresh>>
inputVars == <<phone, peers, closing, callback, task, shown>>

Tasks == {"loop"} \cup Phones
Stoppers == {"ipc", "peer", "start", "fresh"}
Location == {"idle", "insert", "config", "announce", "remove", "close", "counted", "release", "ended"}
Task(at, client, count) == [at |-> at, client |-> client, count |-> count]
Idle == Task("idle", None, 0)

TypeOK ==
    /\ main \in {"stages", "wait", "exited"}
    /\ ice \in {"checking", "connected", "disconnected", "failed", "closed"}
    /\ initiated \in BOOLEAN
    /\ start \in {"off", "stage", "launch", "store", "done", "failed"}
    /\ stream \in {"none", "some"}
    /\ relay \in BOOLEAN
    /\ deadline \in {"off", "armed", "armedUp", "over"}
    /\ fresh \in {"no", "send", "sent"}
    /\ stops \in [Stoppers -> {"no", "take", "drain", "close", "report", "notify", "done"}]
    /\ told \in {"no", "queued", "written"}
    /\ phone \in [Phones -> {"new", "up", "gone"}]
    /\ peers \in SUBSET Phones
    /\ closing \in Phones \cup {None}
    /\ callback \in [Phones -> {"no", "lock", "release"}]
    /\ task \in [Tasks -> [at : Location, client : Phones \cup {None}, count : 0 .. Cardinality(Phones)]]
    /\ shown \in 0 .. Cardinality(Phones)

Init ==
    /\ main = "stages" /\ ice = "checking"
    /\ initiated = FALSE /\ start = "off" /\ stream = "none"
    /\ relay = FALSE /\ deadline = "off" /\ fresh = "no"
    /\ stops = [x \in Stoppers |-> "no"] /\ told = "no"
    /\ phone = [c \in Phones |-> "new"] /\ peers = {}
    /\ closing = None /\ callback = [c \in Phones |-> "no"]
    /\ task = [t \in Tasks |-> Idle] /\ shown = 0

\* The tasks of a process that has exited are gone.
Alive == main # "exited"
-----------------------------------------------------------------------------
(* stop().                                                                 *)

\* A caller enters stop(); calls of the same caller that overlap count as one.
Stop(x) == stops' = IF stops[x] \in {"no", "done"} THEN [stops EXCEPT ![x] = "take"] ELSE stops

\* The stream is taken out and dropped, which stops the connection to Sunshine.
TakeStream(x) ==
    /\ Alive
    /\ stops[x] = "take"
    /\ stream' = "none"
    /\ stops' = [stops EXCEPT ![x] = "drain"]
    /\ UNCHANGED <<main, sessionVars, told, inputVars>>

\* close() of the peer of c, which reports Closed to the peer's callback.  A callback that
\* close() does not wait for finds the peer gone and changes nothing here.
Close(c) == callback' \in {callback, [callback EXCEPT ![c] = "lock"]}

HasClosed(c) == callback[c] = "no"

\* The guard of the drain is a temporary of the for loop: it is held across every close().
Locked == closing # None

\* The next round of that loop, or its end.
DrainNext(x) ==
    IF peers = {}
    THEN /\ closing' = None
         /\ stops' = [stops EXCEPT ![x] = "report"]
         /\ UNCHANGED <<peers, callback>>
    ELSE /\ \E c \in peers : closing' = c /\ peers' = peers \ {c} /\ Close(c)
         /\ stops' = [stops EXCEPT ![x] = "close"]

DrainPeers(x) ==
    /\ Alive
    /\ stops[x] = "drain"
    /\ ~Locked
    /\ DrainNext(x)
    /\ UNCHANGED <<main, sessionVars, stream, told, phone, task, shown>>

PeerClosed(x) ==
    /\ Alive
    /\ stops[x] = "close"
    /\ HasClosed(closing)
    /\ DrainNext(x)
    /\ UNCHANGED <<main, sessionVars, stream, told, phone, task, shown>>

\* Mutant: main is woken before the parent is told.
ReportLate(x) ==
    /\ Alive
    /\ stops[x] = "report"
    /\ stops' = [stops EXCEPT ![x] = "done"]
    /\ main' = IF main = "wait" THEN "exited" ELSE main
    /\ told' = IF main = "wait" THEN told ELSE "queued"
    /\ UNCHANGED <<sessionVars, stream, inputVars>>

\* StreamerIpcMessage::Stop is handed to the IPC sender.
Report(x) ==
    /\ Alive
    /\ stops[x] = "report"
    /\ told' = IF told = "no" THEN "queued" ELSE told
    /\ stops' = [stops EXCEPT ![x] = "notify"]
    /\ UNCHANGED <<main, sessionVars, stream, inputVars>>

\* ipc_sender puts the line on stdout, if exit(0) does not come first.
IpcWrites ==
    /\ Alive
    /\ told = "queued"
    /\ told' = "written"
    /\ UNCHANGED <<main, sessionVars, stream, stops, inputVars>>

\* notify_waiters wakes main only if it is already waiting.
Notify(x) ==
    /\ Alive
    /\ stops[x] = "notify"
    /\ stops' = [stops EXCEPT ![x] = "done"]
    /\ main' = IF main = "wait" THEN "exited" ELSE main
    /\ UNCHANGED <<sessionVars, stream, told, inputVars>>

StopGoesOn(x) ==
    TakeStream(x) \/ DrainPeers(x) \/ PeerClosed(x) \/ Report(x) \/ Notify(x)

Stopping == \E x \in Stoppers : StopGoesOn(x)

\* main() sends its last two stages and then waits.
MainWaits ==
    /\ main = "stages"
    /\ main' = "wait"
    /\ UNCHANGED <<sessionVars, stream, stops, told, inputVars>>
-----------------------------------------------------------------------------
(* The primary peer and start_stream.                                      *)

\* The swap of stream_start_initiated: only the first start_stream goes on.
Initiate ==
    /\ start' = IF initiated THEN start ELSE "stage"
    /\ initiated' = TRUE

\* A relay-only peer has no other candidates to connect with.
IceConnects ==
    /\ Alive
    /\ RelayOnly => relay
    /\ ice \in {"checking", "disconnected"}
    /\ ice' = "connected"
    /\ Initiate
    /\ UNCHANGED <<main, stream, relay, deadline, fresh, stops, told, inputVars>>

\* Four seconds without traffic: longer than the watchdog's three, so a connection that
\* came up after the watchdog was armed does not get here before it fires.
IceDisconnects ==
    /\ Alive
    /\ ice = "connected"
    /\ deadline # "armed"
    /\ ice' = "disconnected"
    /\ UNCHANGED <<main, initiated, start, stream, relay, deadline, fresh,
                   stops, told, inputVars>>

\* Failed, or Closed by the browser: both stop the session.
PeerEnds ==
    /\ Alive
    /\ \/ ice \in {"checking", "disconnected"} /\ ice' = "failed"
       \/ ice # "closed" /\ ice' = "closed"
    /\ Stop("peer")
    /\ UNCHANGED <<main, initiated, start, stream, relay, deadline, fresh,
                   told, inputVars>>

\* Mutant: the stream keeps the guard that its launch took.
MaskIsKept == start \in {"launch", "store", "done"}

\* active_gamepads is read-locked for the launch and nobody can change the mask.
MaskIsLocked == start = "launch"

\* The stage message, host.start_stream under active_gamepads.read(), and, with that
\* lock released, the store of the stream.
StartGoesOn ==
    /\ Alive
    /\ \/ start = "stage" /\ start' = "launch" /\ UNCHANGED stream
       \/ start = "launch" /\ start' = "store" /\ UNCHANGED stream
       \/ start = "store" /\ start' = "done" /\ stream' = "some"
    /\ UNCHANGED <<main, ice, initiated, relay, deadline, fresh, stops, told, inputVars>>

StartFails ==
    /\ Alive
    /\ start = "launch"
    /\ start' = "failed"
    /\ Stop("start")
    /\ UNCHANGED <<main, ice, initiated, stream, relay, deadline, fresh, told, inputVars>>
-----------------------------------------------------------------------------
(* The watchdog of relay-only sessions.                                    *)

RelayCandidate ==
    /\ Alive
    /\ deadline = "off"
    /\ ~relay
    /\ relay' = TRUE
    /\ UNCHANGED <<main, ice, initiated, start, stream, deadline, fresh, stops, told, inputVars>>

\* request_fresh_session, unless it was requested before.
RequestFresh == fresh' = IF fresh = "no" THEN "send" ELSE fresh

\* Gathering is complete: without a relay the session is hopeless, with one it has
\* three seconds.
GatheringEnds ==
    /\ Alive
    /\ RelayOnly
    /\ deadline = "off"
    /\ IF relay
       THEN deadline' = (IF ice = "connected" THEN "armedUp" ELSE "armed") /\ UNCHANGED fresh
       ELSE deadline' = "over" /\ RequestFresh
    /\ UNCHANGED <<main, ice, initiated, start, stream, relay, stops, told, inputVars>>

\* The three seconds are over and ICE does not report Connected at this moment.
DeadlinePasses ==
    /\ Alive
    /\ deadline \in {"armed", "armedUp"}
    /\ deadline' = "over"
    /\ IF ice = "connected" THEN UNCHANGED fresh ELSE RequestFresh
    /\ UNCHANGED <<main, ice, initiated, start, stream, relay, stops, told, inputVars>>

\* Mutant: the browser is told, the session goes on.
SendRetryOnly ==
    /\ Alive
    /\ fresh = "send"
    /\ fresh' = "sent"
    /\ UNCHANGED <<main, ice, initiated, start, stream, relay, deadline, stops, told, inputVars>>

\* RetryFreshSession goes to the primary browser, then stop().
SendRetry ==
    /\ Alive
    /\ fresh = "send"
    /\ fresh' = "sent"
    /\ Stop("fresh")
    /\ UNCHANGED <<main, ice, initiated, start, stream, relay, deadline, told, inputVars>>
-----------------------------------------------------------------------------
(* The IPC loop, and the state callbacks of the input-only peers.          *)

\* attach_input_peer has its peer and asks for the lock ...
Attach(c) ==
    /\ Alive
    /\ task["loop"] = Idle
    /\ phone[c] = "new"
    /\ task' = [task EXCEPT !["loop"] = Task("insert", c, 0)]
    /\ UNCHANGED <<main, sessionVars, stream, stops, told, phone, peers, closing, callback, shown>>

\* ... counts under it, and sends WebRtcConfig and the count after it.
InsertPeer(c) ==
    /\ Alive
    /\ task["loop"].at = "insert" /\ task["loop"].client = c
    /\ ~Locked
    /\ peers' = peers \cup {c}
    /\ task' = [task EXCEPT !["loop"] = Task("config", c, Cardinality(peers'))]
    /\ UNCHANGED <<main, sessionVars, stream, stops, told, phone, closing, callback, shown>>

\* The browser of c can negotiate once it has its WebRtcConfig.
SendConfig(c) ==
    /\ Alive
    /\ task["loop"].at = "config" /\ task["loop"].client = c
    /\ phone' = [phone EXCEPT ![c] = "up"]
    /\ task' = [task EXCEPT !["loop"].at = "announce"]
    /\ UNCHANGED <<main, sessionVars, stream, stops, told, peers, closing, callback, shown>>

\* DetachInputClient.
LoopDetaches(c) ==
    /\ Alive
    /\ task["loop"] = Idle
    /\ phone[c] = "up"
    /\ phone' = [phone EXCEPT ![c] = "gone"]
    /\ task' = [task EXCEPT !["loop"] = Task("remove", c, 0)]
    /\ UNCHANGED <<main, sessionVars, stream, stops, told, peers, closing, callback, shown>>

\* The peer of c reports Failed or Closed.
PeerDetaches(c) ==
    /\ Alive
    /\ task[c] = Idle
    /\ phone[c] # "new"
    /\ c \in peers
    /\ task' = [task EXCEPT ![c] = Task("remove", c, 0)]
    /\ UNCHANGED <<main, sessionVars, stream, stops, told, phone, peers, closing, callback, shown>>

\* detach_input_peer takes the peer out of the map and, without the lock, closes it ...
RemovePeer(t) ==
    LET c == task[t].client IN
    /\ Alive
    /\ task[t].at = "remove"
    /\ ~Locked
    /\ peers' = peers \ {c}
    /\ IF c \in peers THEN Close(c) ELSE UNCHANGED callback
    /\ task' = [task EXCEPT ![t].at = IF c \in peers THEN "close" ELSE "release"]
    /\ UNCHANGED <<main, sessionVars, stream, stops, told, phone, closing, shown>>

\* ... counts those that are left once it is closed ...
CountPeers(t) ==
    /\ Alive
    /\ task[t].at = "close"
    /\ HasClosed(task[t].client)
    /\ ~Locked
    /\ task' = [task EXCEPT ![t].at = "counted", ![t].count = Cardinality(peers)]
    /\ UNCHANGED <<main, sessionVars, stream, stops, told, phone, peers, closing, callback, shown>>

\* ... releases its gamepads, which waits while start_stream holds their mask ...
ReleaseGamepads(t) ==
    /\ Alive
    /\ task[t].at \in {"counted", "release"}
    /\ task[t].client \in PadHolders => ~MaskIsLocked
    /\ task' = [task EXCEPT ![t] = IF @.at = "counted" THEN [@ EXCEPT !.at = "announce"] ELSE Idle]
    /\ UNCHANGED <<main, sessionVars, stream, stops, told, phone, peers, closing, callback, shown>>

\* ... and tells the primary browser; so does an attach.
Announce(t) ==
    /\ Alive
    /\ task[t].at = "announce"
    /\ shown' = task[t].count
    /\ task' = [task EXCEPT ![t] = Idle]
    /\ UNCHANGED <<main, sessionVars, stream, stops, told, phone, peers, closing, callback>>

\* The callback of a closed peer enters detach_input_peer: it waits for the lock, finds its
\* peer gone ...
ClosedReported(c) ==
    /\ Alive
    /\ callback[c] = "lock"
    /\ ~Locked
    /\ callback' = [callback EXCEPT ![c] = "release"]
    /\ UNCHANGED <<main, sessionVars, stream, stops, told, phone, peers, closing, task, shown>>

\* ... and releases the gamepads.
ClosedReleases(c) ==
    /\ Alive
    /\ callback[c] = "release"
    /\ c \in PadHolders => ~MaskIsLocked
    /\ callback' = [callback EXCEPT ![c] = "no"]
    /\ UNCHANGED <<main, sessionVars, stream, stops, told, phone, peers, closing, task, shown>>

\* Stop: the loop runs stop() and returns.
LoopStops ==
    /\ Alive
    /\ task["loop"] = Idle
    /\ task' = [task EXCEPT !["loop"] = Task("ended", None, 0)]
    /\ Stop("ipc")
    /\ UNCHANGED <<main, sessionVars, stream, told, phone, peers, closing, callback, shown>>

TaskGoesOn(t) ==
    \/ t = "loop" /\ \E c \in Phones : InsertPeer(c) \/ SendConfig(c)
    \/ RemovePeer(t) \/ CountPeers(t) \/ ReleaseGamepads(t) \/ Announce(t)

InputPeers ==
    \/ \E c \in Phones :
          Attach(c) \/ LoopDetaches(c) \/ PeerDetaches(c) \/ ClosedReported(c) \/ ClosedReleases(c)
    \/ \E t \in Tasks : TaskGoesOn(t)
    \/ LoopStops

Next ==
    \/ Stopping \/ IpcWrites \/ MainWaits
    \/ IceConnects \/ IceDisconnects \/ PeerEnds
    \/ StartGoesOn \/ StartFails
    \/ RelayCandidate \/ GatheringEnds \/ DeadlinePasses \/ SendRetry
    \/ InputPeers

Spec == Init /\ [][Next]_vars

\* Tasks that can go on do.  Of the library: a close() that does not wait for its callback
\* ends.  The launch succeeds or fails (its requests have timeouts).
\* Nothing is assumed of browsers, of ICE or of the parent.
TasksRun ==
    /\ WF_vars(MainWaits) /\ WF_vars(SendRetry) /\ WF_vars(IpcWrites)
    /\ \A x \in Stoppers : WF_vars(StopGoesOn(x))
    /\ WF_vars(StartGoesOn \/ StartFails)
    /\ \A t \in Tasks : WF_vars(TaskGoesOn(t))
    /\ \A c \in Phones : WF_vars(ClosedReported(c) \/ ClosedReleases(c))

FairSpec == Spec /\ TasksRun
-----------------------------------------------------------------------------
\* "Guard: only start once (prevents double-start on ICE reconnection)": whatever ICE
\* reports, and however the first start ended, no second one begins.
StartsOnce == [][start' = "stage" => start \in {"off", "stage"}]_vars

\* The process never exits by itself before StreamerIpcMessage::Stop is on its way to the
\* parent, whoever stopped it and however the callers overlap.
ExitIsReported == main = "exited" => told # "no"

\* exit(0) does not wait for the IPC sender: Stop, and what is queued before it, may
\* be lost.  Not an invariant; the parent takes the end of stdout for Stop.
ReportGetsOut == main = "exited" => told = "written"

\* The callback of the peer that stop() closes waits for the lock that stop() holds, and the
\* close() for the callback: stop() never goes on, and whoever needs the lock waits with it.
Reentered ==
    /\ Locked
    /\ callback[closing] = "lock"

\* "Remove from the map and release the lock before closing the peer": stop() does not, and
\* with a close() that waits for its callback this fails.  Not an invariant.
NeverReentered == ~Reentered

\* The IPC loop comes back for the next message, the parent's Stop for one, though an
\* attach or a detach may wait for a launch, for a close() or for the lock of a stop():
\* only a stop() that waits for itself keeps it for good.
LoopComesBack ==
    task["loop"] # Idle
        ~> (task["loop"].at \in {"idle", "ended"} \/ main = "exited" \/ Reentered)

\* A failed or closed peer, a failed launch or a requested replacement reaches the
\* parent in the end, which reads either Stop or the end of stdout, unless stop() waits
\* for itself.
EndIsReported ==
    (ice \in {"failed", "closed"} \/ fresh = "send" \/ start = "failed")
        ~> (told = "written" \/ main = "exited" \/ Reentered)

\* A process that has stopped itself exits.
TerminationNoticed == (\E x \in Stoppers : stops[x] = "done") ~> main = "exited"

\* When no attach or detach is under way, the indicator of the primary browser shows
\* the number of attached input-only devices.
CountIsRight ==
    (\A t \in Tasks : task[t] = Idle) /\ (\A x \in Stoppers : stops[x] = "no")
        => shown = Cardinality(peers)

\* "Keep enough tolerance for a brief cellular interruption after a stream has
\* connected": ICE has eight seconds to come back, the deadline of the initial setup
\* does not replace the session meanwhile.
EstablishedSessionKept ==
    [][(fresh = "no" /\ fresh' = "send") => ice # "disconnected"]_vars
=============================================================================
