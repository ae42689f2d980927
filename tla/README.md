# TLA+ models of Tesla Moonlight for Ubuntu

The repository turns an Ubuntu desktop into something a car browser can drive:
Sunshine captures the desktop, a bridge derived from *moonlight-web-stream* receives it as a
Moonlight client, and a browser shows it over WebRTC. This directory holds TLA+ models of the
parts of that bridge whose correctness depends on the order of events, the TLC configurations
that check them, and proofs, checked by TLAPS, of what the bridge's parts guarantee for every
number of browsers, streams, gamepads, hosts and requests. The C library the bridge is built
on, moonlight-common-c with its ENet, is modelled too: its queues, threads, retransmissions and
error paths; its streams, its connection and the windows of ENet are proved about as well.

`R` below stands for `src/moonlight-web-stream-tsla`, `C` for
`R/moonlight-common-sys/moonlight-common-c`.

- [1. The system](#1-the-system)
- [2. Inventory](#2-inventory)
- [3. The modules](#3-the-modules)
- [4. The runs](#4-the-runs)
- [5. Where the code disagrees with its comments](#5-where-the-code-disagrees-with-its-comments)
- [6. The proofs](#6-the-proofs)
- [7. What is not modelled](#7-what-is-not-modelled)
- [8. Plan](#8-plan)

Running it, in this directory:

    tlc -config LifecycleMixed.cfg MCStreamLifecycle.tla
    tlc -config Connection.cfg MCConnection.tla
    tlapm StreamLifecycleProofs.tla

## 1. The system

    browser (TypeScript)                     R/moonlight-web/web-server/web
       |  WebSocket: signalling              |  WebRTC: video track, audio and
       v                                     |  input data channels
    web server (Rust, actix, tokio)          |  R/moonlight-web/web-server/src
       |  stdin/stdout: ServerIpcMessage,    |
       |  StreamerIpcMessage                 |  R/moonlight-web/common/src/ipc.rs
       v                                     v
    streamer, one process per Moonlight session   R/moonlight-web/streamer/src
       |  C callbacks
       v
    moonlight-common-c                       C/src, C/enet
       |  RTSP (set-up), ENet (control, input), RTP over UDP (video, audio)
       v
    Sunshine

Only one Moonlight session may run per host. The browser that watches it is the *primary*;
any number of *input-only* browsers (phones used as touch pads or gamepads) attach further
WebRTC peers to the same streamer. If no primary is there but Sunshine is running a game, the
first input-only browser starts a *placeholder* streamer that has no primary.

Four kinds of concurrency meet here: the tasks of the web server (one handler per WebSocket,
one router per streamer, one supervisor per placeholder, HTTP handlers, the file writer), the
tasks of a streamer (the IPC loop, WebRTC callbacks, `main`, the watchdogs) and its threads
(the video callback of moonlight-common-c blocks in a channel that a task drains), the dozen
threads of moonlight-common-c, and the host at the other end of a network that loses, repeats
and reorders. Processes die in the middle of anything, browsers reload, and tunnels drop.

## 2. Inventory

For every component: the state it keeps, its operations, what it talks to, what is hard about
it, and what makes it correct. The status of each is in `PROJECT.json`.

### Stream lifecycle (`R/moonlight-web/web-server/src/api/stream.rs`)
- *State*: per host `active_stream` (a `watch` of the running stream, or `None`) and the mutex
  `stream_lifecycle`; per stream `clients`, `next_client_id`, `started_at`, the child process.
- *Operations*: `run_primary_stream`, `run_attach_input`, `maybe_start_placeholder_stream`,
  `stop_existing_stream_and_wait`, `spawn_streamer_process` with its router task,
  `supervise_placeholder_stream`, `reap_streamer_child`, `cancel_host`.
- *Interacts* with browsers through `actix_ws` sessions, with the child through IPC.
- *Hard*: takeover by a second browser, reload debounce, a stream that is published before it
  is initialised, watchers that skip values, children that hang.
- *Correct when*: at most one handler starts or replaces a stream; Stop never overtakes Init; a
  child always has somebody who reaps it; an ended stream does not stay registered and does not
  unregister its successor; nobody sleeps through a registration; replies reach the browser
  they are for; the mutex is always given back.

### Host registry and persistence (`web-server/src/data.rs`), HTTP API (`api/mod.rs`)
- *State*: `hosts: RwLock<Slab<Mutex<RuntimeApiHost>>>`, a save channel of capacity one, the
  file.
- *Operations*: `get_host`, `put_host`, `delete_host`, `pair_host`, ...; `request_save`,
  `file_writer`, `save`, `load`.
- *Hard*: coalesced saves against a copy that is made host by host; two locks taken in two
  visits; ids that are reused after a delete.
- *Correct when*: no change is left out of the file for good; no order of the locks blocks.

### Streamer session (`R/moonlight-web/streamer/src/main.rs`)
- *State*: the primary peer, `stream`, `stream_start_initiated`, `secondary_peers`,
  `fresh_session_requested`, `primary_udp_relay_gathered`, the `Notify` that ends `main`.
- *Operations*: `on_ipc_message`, the peer's state callbacks, `start_stream`, `stop`,
  `attach_input_peer`, `detach_input_peer`, `request_fresh_session`, the ICE watchdogs.
- *Hard*: `stop` has four callers; the launch holds a lock that a detach needs; ICE reports the
  same states again.
- *Correct when*: the stream starts at most once; whatever ends the session is reported to the
  parent before the process exits; the IPC loop always comes back.

### Streamer input (`streamer/src/input.rs`)
- *State*: `gamepad_slots: HashMap<(client, local id), slot>`, `active_gamepads` (a mask).
- *Operations*: controller messages (`Add`, `Remove`, state), `release_client_gamepads`; mouse,
  keyboard and touch messages are forwarded without state.
- *Hard*: two locks, events sent to Sunshine after both are released, detaches that run twice.
- *Correct when*: no two gamepads share a slot, the mask is the image of the map, only the
  owner of a slot releases it.

### Streamer media senders (`sender.rs`, `video.rs`, `audio.rs`, `buffer.rs`)
- *State*: a bounded channel of samples; the pacer's queue, token budget and clock; `needs_idr`.
- *Operations*: `submit_decode_unit` (a C callback on its own thread), `send_single_frame`,
  `sample_sender` (the pacer), the RTCP reader that sets `needs_idr`.
- *Hard*: token-bucket arithmetic against time that passes elsewhere; a full queue; PLIs at any
  moment; the end of the stream while the pacer sleeps.
- *Correct when*: what leaves in any interval is bounded by rate and burst; the callback always
  returns; a keyframe that was asked for is asked of Sunshine; the pacer ends.

### Parent/child IPC (`common/src/ipc.rs`)
Line-framed JSON over pipes; a sender task behind a bounded channel, so a child that does not
read blocks whoever sends to it. Correct when messages stay in order and back pressure ends
with the child.

### Streamer codec readers, connection listener
`video/annexb.rs`, `h264`, `h265` cut decode units into packets (sequential);
`connection.rs` forwards the callbacks of moonlight-common-c to browser and parent.

### Authentication (`api/auth.rs`)
Session tokens in a map and a file, log-in failures, TOTP set-up in two requests that rewrite
`config.json`. Hard: map and file are written under two locks, the configuration is read,
changed and written without one. Correct when the file never loses a live session and memory
and configuration agree on TOTP.

### Browser stream session (`web/stream/index.ts`, `web/stream.ts`)
- *State*: the WebSocket and its attempt counter, one timer with two meanings, the peer and its
  generation, `remoteDescription`, candidate queues, `localDescriptionSent`, reload flags.
- *Operations*: `connectWebSocket`, `onWsOpen`, `onWsClose`, `onMessage`, `createPeer`,
  `onNegotiationNeeded`, `handleRemoteDescription`, `scheduleInPagePeerRetry`.
- *Hard*: late events of replaced sockets and peers, awaits inside the message queue, three
  independent reasons to reload.
- *Correct when*: one socket attempt is in use at a time, an offer or answer is sent once per
  round by the peer it describes, a page that lost its stream ends in a reload or an error.

### Browser audio and video (`audio_decode_worker.ts`, `audio_playback_worklet.js`, `video_render_worker.ts`)
A ring of 128 packets until the decoder is ready, a worker with a fall-back, a playback ring
with prime, soft and hard overrun thresholds. Correct when packets are decoded in order and the
playback position never passes what was written.

### Browser input (`web/stream/input.ts`, `gamepad.ts`, `keyboard.ts`)
Encodes input for data channels and numbers the gamepads of this browser.

### Moonlight host API and pairing (`R/moonlight-common/src`)
HTTP requests to Sunshine; the pairing handshake in five phases; the Rust bindings and their
process-wide callbacks.

### moonlight-common-c: queues (`C/src/LinkedBlockingQueue.c`)
- *State*: a list with a bound, `shutdown`, `draining`, `pendingUserWake`.
- *Operations*: offer, wait, poll, peek, flush, shutdown, drain, user wake-up, destroy.
- *Hard*: the signal is sent after the unlock and only for the first element.
- *Correct when*: whoever waits is woken by an element, a drain or a shutdown.

### moonlight-common-c: audio stream (`C/src/RtpAudioQueue.c`, `AudioStream.c`)
- *State*: FEC blocks ordered by 16-bit sequence number, the next number to play, whether the
  queue has synchronised; socket, ping, receive and decoder threads, a queue between the latter.
- *Operations*: `RtpaAddPacket`, `RtpaGetQueuedPacket`, `handleMissingPackets`; start, stop, destroy.
- *Hard*: packets and parity that come late, twice or never around the wrap; a start that fails.
- *Correct when*: packets are played in order, at most once, never on a renderer that is gone.

### moonlight-common-c: video stream (`RtpVideoQueue.c`, `VideoDepacketizer.c`, `VideoStream.c`)
- *State*: the FEC block and frame being collected; the depacketizer's three ways to wait
  (for the next frame, a frame after invalidation, an IDR frame); the decode unit queue.
- *Operations*: `RtpvAddPacket` with its staging and recovery; `processRtpPayload`, `dropFrameState`,
  `notifyFrameLost`, `requestDecoderRefresh`; requests to the control stream.
- *Hard*: which frames depend on which after a loss; a slow decoder whose queue is flushed; a
  request that is not repeated.
- *Correct when*: the decoder gets no frame without its reference, and a depacketizer that drops
  frames has asked for one that ends the wait.

### moonlight-common-c: connection stages (`Connection.c`)
- *State*: `stage`, `ConnectionInterrupted`, `alreadyTerminated`.
- *Operations*: `LiStartConnection`, `LiStopConnection`, `LiInterruptConnection`,
  `ClInternalConnectionTerminated` and its thread.
- *Hard*: any of some twenty calls may fail and the ones before it are undone; reports of a lost
  connection race with the client's stop.
- *Correct when*: start and stop return, no thread outlives what it uses, the client is told.

### moonlight-common-c: control stream (`ControlStream.c`)
- *State*: the ENet peer under `enetMutex` or a TCP socket, the queue of lost frame ranges, the IDR
  event, the queue of callbacks, `stopping`.
- *Operations*: receive, loss statistics, IDR, invalidation and callback threads; `startControlStream`,
  `stopControlStream`; `sendMessageAndForget`, `sendMessageAndDiscardReply`.
- *Hard*: a DISCONNECT that overtakes messages; batching of callbacks; unwinding six threads.
- *Correct when*: messages come before the goodbye, a callback is never lost to one of another kind.

### moonlight-common-c: input stream (`InputStream.c`)
- *State*: the packet queue, batched moves, positions and sensor readings with dirty bits, the
  scroll remainder, the pen's buttons.
- *Operations*: the client's `LiSend...` calls, the input thread, start, stop, initialise, destroy.
- *Hard*: batching in shared state and in the queue, by threads that unlock to send.
- *Correct when*: no part of a move is lost or sent twice, no change of a button is batched away, a
  stop sends what was accepted.

### moonlight-common-c: ENet (`C/enet`)
Vendored, but as the reliable transport of control and input it is modelled.
- *State*: per peer the connection state, outgoing, sent and incoming commands, acknowledgements,
  reliable windows, 16-bit sequence numbers.
- *Operations*: connect, disconnect, disconnect_later, disconnect_now, send, receive, service, reset.
- *Hard*: loss, repetition and reordering around the wrap of numbers and windows; time-outs.
- *Correct when*: a channel hands out what was sent in order, and every request ends.

### moonlight-common-c: RTSP, SDP, platform; Reed-Solomon
RTSP exchanges and SDP parsing are sequential; sockets and threads are platform wrappers. The
Reed-Solomon code is a third-party library.

### Services and extensions
`src/scripts/container-service.py` (one supervised worker per role, readiness probes, a TCP
origin), `src/extensions/youtube-remote` (a control queue in front of Chrome's debugging
socket), installers.

## 3. The modules

| Module | Models | Kind |
|---|---|---|
| `StreamLifecycle` | the streams of one host in the web server | component |
| `MCStreamLifecycle` | symmetry for TLC | model checking |
| `StreamLifecycleProofs` | | proofs |
| `Streamer` | one streamer process | component |
| `StreamerProofs` | the session, its video sender and its gamepads | proofs |
| `Gamepads` | controller slots inside the streamer | component |
| `VideoSender` | video callback, channel, pacer, PLI flag | component |
| `HostStore` | host list, locks, coalesced save | component |
| `HostStoreProofs` | | proofs |
| `LinkedBlockingQueue` | the bounded queue of moonlight-common-c, as operators | component |
| `RtpAudioQueue` | audio reordering and FEC, as operators | component |
| `AudioStream` | the threads of the audio stream, over both | component |
| `AudioStreamProofs` | | proofs |
| `RtpVideoQueue` | video FEC blocks and frames, as operators | component |
| `VideoDepacketizer` | waits after a loss, requests for help, as operators | component |
| `VideoStream` | the threads of the video stream, over all three | component |
| `VideoStreamProofs` | | proofs |
| `MCVideoStream` | the kinds of decoders | model checking |
| `EnetPeer` | one ENet peer: numbers, windows, queues, as operators | component |
| `Enet` | two hosts and the network between them | component |
| `OrderedChannel` | what an ENet channel promises | abstract specification |
| `MCEnet` | what the applications do | model checking |
| `EnetProofs` | | proofs |
| `ControlStream` | the threads of the control stream, the report of a lost connection | component |
| `Connection` | the stages, and the composition with control and video threads | component |
| `ConnectionProofs` | | proofs |
| `MCConnection` | what may happen in a run | model checking |
| `InputStream` | input calls, the input thread, start and stop | component |
| `InputStreamProofs` | | proofs |
| `MCInputStream` | what the client calls | model checking |

The modules of the bridge meet at the process boundary. `StreamLifecycle` has a child process per stream of
which it knows what its parent can see: it boots, reads messages in order, may stop by itself at
any time, reports Stop, exits, or panics. `Streamer` is that child from the inside: `ExitIsReported`
and `EndIsReported` are what `StreamLifecycle` relies on when it lets a stream that gives up say
Stop, and the lost wake-up of `Streamer` is why `StreamLifecycle` assumes no fairness for
`StreamerExits`. `Gamepads` and `VideoSender` refine two mechanisms of the streamer that share
only the existence of the stream with the rest. Every action is what one task does between two
awaits (or two lock operations); a lock that is taken and released without an await in between
is one step.

Operators whose comment says *Mutant* are broken versions of the definition after them; no
specification uses them. Each property of each run is known to fail when the definition that
`PROJECT.json` names is replaced by such a mutant.

### StreamLifecycle
`pc[c]` is where the handler of connection `c` is; the names follow `run_primary_stream`
(`lock`, `age`, `stop`, `tell`, `await`, `spawn`, `init`, `relay`, `sendStop`, `reap`) and
`run_attach_input` (`place` to `pinit` for `maybe_start_placeholder_stream`, `check` and `wait`
for `wait_for_active_stream`, `attach` to `closeMsg` for one attachment). `active` is
`active_stream`; `changed[i]` is the "changed" bit of the `watch` receiver of `i`: a receiver that
looks late sees only the last value. `inbox[s]` is everything between `IpcSender::send` and the
streamer's stdin: `Cap` messages, then the sender waits (`Deliver`). `clients[s]` and `nextId[s]` are
those of `ActiveStream`; id 0 is the primary. A router that ends sends each browser a Close frame; its
socket is closed when the browser answers, and the relay goes on until then. `young[s]` abstracts `started_at` to the one
comparison the code makes with it. A process is `unborn`, `boot` (has not read Init), `run`,
`stopping` (inside `stop()`), `stopped` (has reported Stop) or `exited`.

Timeouts (10 s for a takeover, 4 s for reaping) may fire at any moment: a longer wait only
removes interleavings. `deaf[s]` marks a streamer whose IPC loop is over: nobody reads its pipe any more. Authentication, the app list, TURN credentials and `current_game` are HTTP
work of which only success or failure matters.

### Streamer
`ice` is what the primary peer reports; `start` is the launch that `stream_start_initiated` guards;
`stops[x]` is one call of `stop()` by caller `x` (the IPC loop, the peer's callback, the failed start,
the request for a fresh session), step by step: take the stream, drain `secondary_peers`, close each peer,
report Stop, notify. The guard of the drain is held across every `close()` (`closing`), so attaches,
detaches and other calls of `stop()` wait for it. A `close()` has the library report Closed to the peer's callback,
which enters `detach_input_peer` (`callback[c]`); whether `close()` returns before that callback
has is the library's business, and the model allows both. `main` is where `main()` waits for that notification; `notify_waiters` wakes
only who is already waiting. `task[t]` is an attach or detach in progress, run by the IPC loop
or by a phone peer's own callback; `active_gamepads` is locked exactly during the launch
(`MaskIsLocked`), where a detach that releases gamepads waits. `told` follows Stop from the
IPC channel to stdout: `exit(0)` may come between. `RelayOnly`
says whether TURN is configured, `PadHolders` which phones have gamepads.

### Gamepads
`slots` is `gamepad_slots`, `active` is `active_gamepads`, `connected` the controllers that Sunshine,
from what it has been told, takes to be there; `session` is the Moonlight stream.
Arrival, removal and state messages run in one handler per data channel (`control[c]`, `feed[k]`),
`detach` in up to two tasks per phone (`DetachInputClient`, and the peer's callback). What a
handler read under the lock and uses after it (the slot, the mask) is part of its state.

### VideoSender
Bytes are counted in units, time in ticks; `frame` is what the callback still has to hand over,
`channel` the bounded channel, `queue` and `budget` those of the pacer, `waited` the time since its
last refill. `level` is an observer, not a variable of the code: the water level of a leaky bucket
into which every written byte goes and which leaks `Rate` per tick, so `level <= B` says that any
interval of length t carries at most `Rate * t + B`. The code's numbers (rate from the bitrate, a
burst, a queue limit) are constants with the relations the code has.

### HostStore
`readers`, `writer` and `waiting` are tokio's fair `RwLock`; `mutex[s]` the lock of a host; the
content of a host is the request that wrote it last. `put_host` takes the list twice (insert, drop,
look again), `pair_host` twice as well (the check, and the stream of the response). `token` is
the channel of capacity one, `saver` the `file_writer` task, which copies the hosts one by one into
`copy` and then writes them to `disk`, or fails to.

### How the modules of moonlight-common-c meet
A queue or a depacketizer is used by one thread, or under one lock, so its calls are operators on a
record (`LinkedBlockingQueue`, `RtpAudioQueue`, `RtpVideoQueue`, `VideoDepacketizer`, `EnetPeer`);
the modules that extend them give threads a place each (`rx`, `dec`, `at[t]`, `sender`) and make the
steps. `AudioStream` starts and stops itself; `Connection` takes audio as one step that may fail and
takes video and control apart into threads, because these have the orders that matter across
streams. In `Connection` the input thread is only one more sender that may see the control
connection fail; inside, it is `InputStream`. What `VideoStream` asks of the control stream
(`RequestIdr`, `DetectedLoss`) are the operators that stand for `LiRequestIdrFrame` and
`connectionDetectedFrameLoss`; its own steps stand for the two threads that send. `ControlStream`
uses ENet by its interface (what arrives, what is dispatched, what a disconnect does to what is
received and not dispatched), which `Enet` shows from the inside.

Packets carry the number the host gave them *before* the wrap to 16 bits, as an observer: the
operators only look at it modulo `SeqSpace`, and the properties compare the true numbers.

### LinkedBlockingQueue
The record is the list and its flags. An offer answers `interrupted`, `bound` or `success`, and says
whether it signals. The mutex is held from a call's first look to its last change, so the call is
atomic; the wait is the guard of the steps of its users, and a wake-up that is sent to nobody shows
as a thread that stays.

### RtpAudioQueue and AudioStream
A block is the set of its shards, its `nextDataPacketIndex` and its flags; a rebuilt shard is the
packet that was lost. `AudioStream` has the connection's thread (start, undo, stop, destroy, each
call a step), the receive thread (with the drop of the first packets, and the loop around
`RtpaGetQueuedPacket`) and the decoder thread, or none with `CAPABILITY_DIRECT_SUBMIT`. The network
delivers any packet within `Behind` and `Ahead` of the newest. A thread that is interrupted sees it
at its next turn of the loop: what its `recv` has at that moment still counts. Time is counted in packets
(`LateAfter`), which is what `handleMissingPackets` compares.

### RtpVideoQueue, VideoDepacketizer and VideoStream
`AddVideoPacket` answers with the queue and the calls to the depacketizer in order, which `VideoStream`
makes one by one: between two of them other threads run. A block that was rebuilt wrongly keeps the packets that
were rebuilt before the bad one (`KeepRebuilt`), as the code has queued them by then. The depacketizer is its three waits, the
next and the first frame of the run, the drop that is pending, whether an IDR frame was processed
and the counter of drops. A frame is a number and a type, `I`, `P`, or `R` for a P-frame
after an invalidation, with the frame it refers to (`ref`), which no code reads: the host is the
environment and `Encode` says what its answers refer to.

### EnetPeer, Enet, OrderedChannel
A peer has its states (`connecting`, `acknowledging_connect`, `connected`, `later`, ... after `ENET_PEER_STATE_*`),
the outgoing commands, those sent and not acknowledged, the incoming ones of a channel, acknowledgements,
and the windows. `Enet` puts two of them on a network that loses, repeats and reorders
datagrams. `Transmit` is a pass of `protocol_send_outgoing_commands` with the checks of
timeouts before it: which commands are late is any choice, since round-trip times are abstracted;
after `MaxTries` retries a peer may be given up. A pass looks at the commands a second time after a quiet ping interval, and
may throttle or expire commands without sending anything. `OrderedChannel` promises: reliable messages once,
whole, in order, none passed over; unreliable ones in order or not at all; unsequenced ones at
most once. `ImplementsChannel` maps it to what the server's application got.

### ControlStream and Connection
`at[t]` is where thread `t` next takes a lock or blocks; what happens under `enetMutex` is one
step. `Connection` writes a stage, the undo of a stage and the stop as a sequence of calls (`todo`),
which the client's thread makes one by one: `<<"join", ts>>` waits. A failure replaces what is left
by the undo of the code at that place. `plan` is the scenario: UDP or TCP (generation 3), direct
submit, and which of the troubles may come.

### InputStream
`mouse`, `position`, `sensors` are the batched states with their dirty bits; a *holder* in the queue is a
packet of which only the kind matters. `sender` is the input thread with the packet it holds and,
for a long move, the part it has cut off and is sending with the mutex released. `caller[c]` is a
call between allocation of a holder and its offer. `ghost` keeps what was accepted and sent, for
the properties only. Sending stands for `sendInputPacketOnControlStream`; `net` counts the reliable commands in
transit, up to `MaxInTransit`, and a text waits until there is none. The control stream adds a ping whenever it likes.

## 4. The runs

| Run | Constants | Shows |
|---|---|---|
| `lifecycle_primaries` | 2 primaries, 2 streams, pipe of 2, 2 relayed messages | takeover, reload debounce, stop and reap of both primaries; liveness |
| `lifecycle_mixed` | 1 primary, 1 phone, 2 streams | a placeholder racing with a primary that starts or ends; a phone that goes from stream to stream |
| `lifecycle_inputs` | 2 phones, 1 stream, 1 client id, 3 empty polls | the placeholder's whole life, with phones that come, go and get an id that was given out before |
| `streamer` | 1 phone with a gamepad, relay only | every caller of `stop`, its lock against attaches, detaches and callbacks, the launch against a detach; liveness |
| `gamepads` | 2 clients with 2 gamepads each, 1 slot | contention for the last slot, double detaches |
| `video_sender` | packets of 1 or 2, frames of 2, channel of 1, burst 2 | pacing with debts, drops, PLIs, the end |
| `host_store` | 3 requests of any kind, 2 hosts | coalescing against a copy in progress; lock order |
| `audio` | blocks of 2 + 1, packets 29 to 34 modulo 32, queue of 1 | FEC, losses and reordering around the wrap; start, undo, stop |
| `video` | 4 frames, 5 blocks of 3 + 2 modulo 28, queues of 1 | losses, recovery, invalidation, IDR waits, slow and strict decoders |
| `enet` | windows of 2 in a space of 12, 2 messages, 2 datagrams in flight, 6 scenarios | every kind of message, retries, time-outs, three disconnects; refinement, liveness |
| `connection` | 10 scenarios, queues of 1 and 2 | failing starts, interrupts, dead sockets, messages, goodbyes; liveness |
| `input_stream` | queue of 2, moves of at most 1 per packet, 2 gamepads, 2 commands in transit, 15 scenarios, 1 to 3 calls per thread | batching for three kinds of hosts, failing sends, stops; liveness |

**What the properties say.**

*Lifecycle.* `StopFollowsInit`: a process that has not read Init has no Stop before it (it would
throw the Stop away and start a stream nobody wants). `HealthyPrimaryKept`: nobody stops a
connected primary in its first ten seconds. `NewerStreamSurvives`: the end of an old stream does
not unregister a newer one. `PlaceholderNeverReplaces`: a placeholder is registered only where
nothing was. `NoMissedWakeup`: a phone that sleeps while a stream is active has a change that
will wake it. `RepliesReachTheirClient`: the id under which a reply is routed belongs to exactly the
connection that got it, also for a handler that leaves one stream for the next.
`LifecycleReleased`, `EndedSessionIsReaped`, `IdlePlaceholderEnds`: the
mutex comes back, the process of a browser that left is reaped, an idle placeholder ends. All three
except the sender that waits at a full pipe whose reader is gone for good (`Clogged`): with two relayed messages
behind the Stop of a takeover the pipe is full when the handler sends its own (`stream.rs:1020`), and the run meets
this case. Without the exception TLC refutes `EndedSessionIsReaped` under the same fairness.
`LifecycleExclusive`, `RegisteredHasRouter`, `LiveChildIsOwned` and `ClientZeroIsReserved` (no wrap of the ids makes an
input-only client the primary) are stated in the module and proved (section 6), and not looked at by a run again.

*Streamer.* `ExitIsReported`, `LoopComesBack`, `EndIsReported`, as their comments say; the last two except a
`stop()` that waits for itself (`Reentered`, section 5). `StartsOnce` is proved.

*Gamepads.* `SlotsAreDistinct`; `MaskIsTheMap`, which ties the two structures together, and
`OnlyOwnerReleases`, for steps, are proved.

*Video sender.* `PacedBound` bounds what leaves in any interval by the rate, two bursts and two
packets; `IdrIsAsked`: a PLI reaches Sunshine as long as frames keep coming; `CallbackReturns`: the
pacer never leaves the callback thread blocked.

*Hosts.* `NothingUnsaved`: when nothing is under way the file is the list, unless the last write
failed; `RequestsEnd`: no order of the locks blocks a request.

*Audio.* `BlocksAreConsistent` is what `validateFecBlockState` asserts, with the one exception of section 5;
`PlaysInOrder`: whatever arrives, the decoder's numbers only grow; `NoSampleAfterCleanup` and
`StopReturns`: starts that fail and stops meet threads anywhere.

*Video.* `BlockCountsAreSound` and `LossesAreNew` are assertions of the code; `DecoderHasReferences`: a frame
that reaches the decoder refers to one that did (`VideoFrames.cfg` asks it of longer histories of smaller frames); `NoSilentWait`: while frames are dropped, one
that ends the wait is on its way, was asked for, or will be when the next frame is whole. Both
have an exception, for the races of section 5 (`raced`, `revived`).

*ENet.* `ImplementsChannel` is the refinement; `WindowsCountTheUnacked`: `reliableWindows` counts exactly the
commands in flight, whatever is repeated or given up; `LaterDisconnectFlushes`: what was sent before
`enet_peer_disconnect_later` has arrived when the peer goes to DISCONNECTING; `RequestsEnd`.

*Connection.* `NothingOutlivesWhatItUses`, `CallsReturn`: unwinding at any place; `TerminationIsHeard`;
`MessagesOutliveDisconnect`: the DISCONNECT that is held back does not cost a message, unless it came bundled;
`CallbacksSettle`: a callback is replaced only by a newer one of its kind and controller.

*Input.* `PendingHasHolder` is the invariant of the batching; `MovesAddUp`, `EveryChangeArrives`,
`StopDrains`, `InputEnds`, as their comments say. `InputEnds` promises a stop that returns, and the end of every wait
but one: that of a text for a moment without a reliable packet in transit (`TextWaits`, section 5).
The scenario `QuietTexts`, in which no ping goes out, has no such exception.

**Bounds, and why they are enough.** Two streams are needed for a takeover, and a third would
only repeat it, because the lifecycle mutex admits one replacement at a time. A pipe of two
holds the two messages whose order matters (Init and Stop or Attach); relayed browser messages
(`MaxWs`) only occupy room in it, and two of them fill it. `MaxId = 1` makes the second attachment
take the id of the first, which is the wrap at `u32::MAX`. A third browser meets the full pipe with the mutex in its
hands, after a takeover that failed to spawn; `LifecycleThreeBrowsers.cfg`, kept beside the runs, checks
`LifecycleReleased` there.
`EmptyPollsBeforeStop` keeps its value 3 where a placeholder is looked at and is 1 elsewhere. One
gamepad slot for four gamepads makes every allocation a contest. For the pacer a packet
larger than the rest of the bucket makes debt, a channel of one makes the callback wait, and a
queue limit of three is reached by two frames. Three requests are one more than the save channel
and the copy can hide. In every model of the bridge a request, connection or stream is used once.

Audio packets 29 to 34 reach from the middle of one block over two whole ones, across the wrap at 32,
into a fourth, and `Ahead = 3` lets a whole block be missing; five packets of the host are the wait
for late ones. Video has a frame of two blocks between frames of one, a wrap inside the last,
up to two packets missing, which parity mends, or three in a row, which it does not until one of them comes late, and a
drop limit that is reached in four frames. `PacketModes` leaves out the strict decoder with a thread between (`VideoFrames.cfg` has it). With two packets to rebuild, the second may be bad when the first is queued. What the decoder refers to needs longer histories: an IDR frame, a loss, a refresh in the
middle of the next IDR frame and a P-frame behind it are seven frames, which `VideoFrames.cfg`, kept
beside the runs, gives a packet each (how packets make frames is the run's question). It finds the
second race of `raced` (section 5) and passes with it marked; the theorem of section 6 covers histories of any length. ENet starts at number 9 of 12,
so two messages of two fragments cross the wrap, and with windows of two and half of them to be
kept free a sender has to stop for a window. Times out of two tries separate a retry from a
give-up. Two callbacks fit into a queue that three messages want. Two input packets fill a
queue that two threads offer to; a move of four needs four packets of size one, between which
other calls come; three calls are the longest run of events that batching can merge wrongly
(the middle one differs).

**Scenarios.** `MCEnet`, `MCConnection` and `MCInputStream` choose an initial record that says which
troubles may come: all at once are out of reach, each pair that shares state is in one of them.

**Symmetry** (`MCStreamLifecycle`) is used only in runs without liveness properties.
**Deadlock** is not checked where the system may come to rest: every run of a component whose
work ends (all browsers gone, all requests served, both ENet sides quiet). `VideoSender`,
`AudioStream`, `VideoStream`, `Connection` and `InputStream` are checked for it: where they may
end, an explicit step says so.

**Fairness.** Weak fairness of the tasks of the server and the streamer: tokio polls every task
that was woken, its mutexes are fair, and the HTTP requests to Sunshine have timeouts. The request for TURN
credentials (`reqwest::Client::new()`, `stream.rs:369`) has none and is made under the lifecycle mutex:
that it is answered is assumed. Who waits to send to a child waits in a queue that tokio's channel serves in order,
so a handler that keeps waiting for room which keeps coming gets it (strong fairness of the three sends of a primary's handler). Nothing is assumed
of browsers, ICE, Sunshine or the clock, except: `StreamerIsAlive` (a streamer that is not hung
reads its stdin, and a `stop()` that began reports Stop), without which `EndedSessionIsReaped` is
false; and, for `IdrIsAsked`, that frames keep coming, since `needs_idr` is looked at only then.
That a stopped streamer exits is *not* assumed, because it is not true (section 5).

In moonlight-common-c every thread that can run runs (weak fairness per thread; the operating
system schedules it), the client finishes the call it has begun, and nothing is assumed of the
network. ENet: both applications keep calling `enet_host_service` and time goes on, so what
can be sent again or given up for ever is; dispatch is weakly fair. Connection: a host or peer that
is silent is noticed, by ENet's own time-out. Input: what is in transit is acknowledged
or given up; `TextMayGo` is only weakly fair, since a quiet moment may pass between two looks of the
10 ms poll. The run of `VideoStream` is for safety only: whether a lost picture ever comes back is
up to the host.

## 5. Where the code disagrees with its comments

The definitions of this table say what a comment, an assertion or a test of the repository
says. TLC finds each of them violated with the configuration named beside it, which is kept to
reproduce the counterexample and is no run of `PROJECT.json`.

| Definition | Configuration | What the code does |
|---|---|---|
| `FirstMessageIsInit` | `LifecycleLostAttach.cfg` | the stream is published before its Init is sent (`stream.rs:490`), so an `AttachInputClient` can reach the streamer first, which drops what comes before Init; the phone waits for a configuration that never comes |
| `EndedStreamIsLeft` | `LifecycleStaleAttachment.cfg` | a phone leaves an ended stream only if it sees `None` in the watch; if the next stream is registered before it looks, it stays with the dead one |
| `TerminationNoticed` | `StreamerLostWakeup.cfg` | `notify_waiters()` before `main()` waits wakes nobody; the process has stopped, has told its parent so, and stays |
| `RemovalMeansFree` | `GamepadsStaleRemoval.cfg` | the removal event is sent after the slot was given away; Sunshine removes the controller of the new owner |
| `DetachedHoldsNone` | `GamepadsLeak.cfg` | a gamepad that arrives while its browser is being detached takes a slot that nobody releases |
| `FecBlockStateIsValid` | `AudioResync.cfg` | the oldest awaited number 0 also means "nothing received yet" (`RtpAudioQueue.c:284`): a queue whose first block starts at the wrap synchronises again while it holds blocks, and the first block is before the oldest one, which `validateFecBlockState` asserts it is not |
| `RefreshedByIdrFrame` | `VideoRefresh.cfg` | `requestDecoderRefresh` "ensures the next frame submitted to the decoder will be an IDR frame", but the receive thread looks at `waitingForIdrFrame` before it queues the frame at hand (`VideoDepacketizer.c:712`, `1071`) |
| `PendingReceivesComeFirst` | `Connection.cfg` with this invariant | only a datagram that holds nothing but the DISCONNECT is intercepted (`ControlStream.c:860-866`); bundled with other commands it discards what was received before it |
| `PenButtonsAreReliable` | `InputPen.cfg` | a pen event that moves *and* changes a button is marked reliable when it is called (`InputStream.c:1376`); the input thread replaces it by a later move with the same buttons (`549-551`), whose own flag says that it may be lost |
| `NeverReentered` | `StreamerReentry.cfg` | "Remove from the map and release the lock *before* closing the peer", since holding it across a `close()` "would block every other call that needs this lock" (`main.rs:953-959`), is kept by `detach_input_peer` and not by `stop()`, which holds the lock across every `close()` (`1206`): a `close()` that waits for its Closed callback waits for itself, and Stop is not sent |

Further behaviours that TLC finds with the specifications as they are, and that no comment
contradicts plainly enough to call a divergence (each takes a configuration of a few lines):

| Definition | Constants | What happens |
|---|---|---|
| `EndedSessionIsReaped` under `ServerSpec`, or without `Clogged` | as `lifecycle_primaries` | a hung streamer, or one that has handled Stop and does not exit, lets its pipe fill; the handler waits in `send(Stop)` (`stream.rs:1020`) and never reaches the deadline that kills the child |
| `LifecycleReleased` without `Clogged` | `LifecycleThreeBrowsers.cfg` | the same wait in `stop_existing_stream_and_wait` (`stream.rs:606`), with the lifecycle mutex held |
| `RepliesReachTheirClient` | `lifecycle_inputs` (2 phones, `MaxId = 1`) | `next_client_id` wraps (`stream.rs:1240`) onto an id that is attached |
| `InputEnds` without `TextWaits` | as `input_stream` | pings overlap, the text never sees a quiet moment, and `stopInputStream` waits for the thread |
| `NoGhostController` (`Gamepads`) | `NumSlots = 1` | a gamepad that leaves between the launch's announcement and the store of the stream stays connected at Sunshine (`main.rs:1164`) |
| `CountIsRight` (`Streamer`) | 2 phones, `RelayOnly = FALSE` | counts are announced after the lock is released; the older one may be shown last (`main.rs:947`) |
| `ReportGetsOut` (`Streamer`) | no phones | `exit(0)` does not wait for the IPC sender: Stop, and a RetryFreshSession before it, may be lost; the parent takes the end of stdout for Stop (`main.rs:1214`) |
| `EstablishedSessionKept` (`Streamer`) | no phones, `RelayOnly = TRUE` | the deadline of the initial set-up, armed late, replaces an established session during a short interruption (`main.rs:808`) |

**Seen while modelling, and part of the models** unless said otherwise. They bound what the
properties promise.

*Audio.* A packet handled at once (`RTPQ_RET_HANDLE_NOW`) skips `completeFecBlock` (`RtpAudioQueue.c:537-543`).
A start that fails closes `rtpSocket` and keeps its number, and `destroyAudioStream` closes it again.
`firstReceiveTime` is never set.

*Video.* `FlushDecodeUnits` may throw away an IDR frame: when it begins between the flag that
`requestDecoderRefresh` sets (`VideoDepacketizer.c:714`) and its flush (`718`), it clears the flag and is queued; what
follows it is dropped until `dropStatePending` is acted upon, except a P-frame that the receive thread
had already passed on. `raced` marks this order and that of `RefreshedByIdrFrame`. A speculative report of a loss that turns out wrong clears the wait for it, and the
depacketizer may then wait for an IDR frame that nobody asks for until the limit of 120 drops
(`revived` marks these states for `NoSilentWait`). An R frame ends `waitingForNextSuccessfulFrame` while
`waitingForIdrFrame` still holds. `consecutiveFrameDrops` is not reset by the initialisation. A start that
fails closes `rtpSocket` without marking it. That an R frame refers to a frame before the reported
range is an assumption about the host.

*ENet.* A peer that leaves "later" acknowledges data that it discards. Data that was acknowledged and
not dispatched is dropped when a DISCONNECT arrives: an acknowledgement says received, not
delivered.

*Connection.* `sendMessageEnet` does not look at `ConnectionInterrupted`, so an interrupt during a late
stage lets the start succeed with a receive thread that has ended, and no callback (`TerminationIsHeard`
excludes `interrupted`); an interrupt before `Connection.c:283` is lost. `alreadyTerminated` is read and set without
a lock (`Connection.c:162`): two threads may both report, and a report may reach the client
after `LiStopConnection` has returned (`253-254`). A thread whose send fails may report a socket error before
the receive thread has the host's own reason. `startVideoStream` returns `LastSocketError()`, which may be 0.
The newest callback is dropped when the queue is full. Over TCP a host that never answers holds
START A and START B.

*Input.* A text waits until no reliable data is in transit (`InputStream.c:605-608`), which neither stop
nor drain interrupts. Pings are reliable and sent every 100 ms (`ControlStream.c:1396-1418`), so with
a round trip of 100 ms or more data is always in transit, and a text holds the input thread, and
`stopInputStream` with it, until there is a gap. Moves that are added to a holder queued earlier overtake
a click between them. The newest event is dropped when the queue is full; the move of a call that
failed is sent with the next one; `currentPenButtonState` is updated even if the offer fails. A call that
races with `stopInputStream` gets `LBQ_INTERRUPTED` where a debug build asserts `LBQ_BOUND_EXCEEDED`.

**Hazards known and not covered by a run** (`PROJECT.json` lists the foremost). Those of the tables above: they happen. A pairing that waits for its PIN holds the host list
for reading (`api/mod.rs:250`), and a put or delete behind it keeps everybody out; `RequestsEnd` assumes that requests to Sunshine end. A TURN request
that is never answered (`stream.rs:369`). A failed last write of the host file (`data.rs:281`), which nothing repeats. A crash in the middle of the truncating write of
`data.rs:281` (no model of the file's bytes); what detaches that run with a list read before leave behind
(`input.rs:93`, `103`, `104`: that no slot has two owners is checked, not that every slot comes back); a consumer of a queue that
is not woken for a packet (`LinkedBlockingQueue.c:128`: only a stop that hangs is caught); the browser's late socket events and interleaved
negotiation (`web/stream/index.ts:1481`, `968`) and the order of relayed messages behind them
(`stream.rs:1114`), for which the plan has modules.

## 6. The proofs

The bridge's five components are proved about, and of moonlight-common-c the connection with its
control stream, the input, video and audio streams, and what a peer of ENet is sending. Every safety
invariant that a run checks is a theorem. Every theorem below is proved for all
values of the constants that satisfy the module's `ASSUME`; no lemma is taken on trust. Each
inductive invariant was an invariant of the component's run before it was proved.

**StreamLifecycleProofs.** `Invariance` proves the inductive invariant `IInv`; from it follow
`TypeCorrect`, `LifecycleIsExclusive`, `StopNeverOvertakesInit`, `ChildrenAreOwned`,
`RegistrationIsCleared`, `WakeupsArrive`, `HealthyPrimaryStays`, `PlaceholderOnlyWhenIdle`,
`NewerStreamStays` and `ZeroIsReserved`, and with more about ids `RepliesArrive`. The argument is one of ownership. `StopFollowsInit` is not inductive by itself:
whether a Stop may be queued depends on who may send it. A spawned process belongs to exactly
one task, the handler that spawned it (`Owns`, unique by `SoleOwner`) or the supervisor it was handed
to (`keeper`, exclusive by `OwnerNotKept`). The owner sends Init before it sends anything else; the
only other sender of Stop, a takeover, finds its victim under `stream_lifecycle`, and a handler
whose Init is pending holds that mutex. `PlaceholderWanted` and `StopIsDue` carry the two
looks that are made under the mutex to the step that uses them; they hold because
`active_stream` is only ever set by a holder of the mutex, while routers only clear it. `RepliesArrive` (`RepliesReachTheirClient`) assumes
that no more input-only connections come than there are client ids, that is 2^32 - 1; beyond that the
property is false (section 5). A connection attaches to a stream at most once, since it leaves a
stream that has not ended only to go for good (`LeftIsOver`, `AttachedOnce`), so those who may still attach (`Joiners`) and the
ids used so far are together no more than there are ids (`IdsSuffice`), the ids to come are free
(`IdsAreFresh`), and the map and its handlers agree (`IdsAreHeld`).

**StreamerProofs, the gamepads.** `PadsInv` adds to the types that a map entry names a distinct slot and that the
mask is exactly the set of slots in the map; what the handlers remember (`pad`, `slot`, `mask`)
appears in it only with its type, which is the point: no property may depend on values that
were read before the lock was released.

**StreamerProofs, the video sender.** `Paced` bounds the water level through the invariant `Balance`: what was
written (`level`), what may be written now (`budget`) and what the next refill would add (`Gain`)
together never exceed two bursts and a packet. Writing moves bytes from the second to the
first, a tick from the first to the third, a refill from the third to the second; the cap of
the bucket only loses. The step from the balance to the bound uses that the budget is never
overdrawn by a whole packet (`SenderTypeCorrect`).

**HostStoreProofs.** `ChangesAreSaved` (`NothingUnsaved`) rests on `SaveIsComing`: whatever the file, or
the copy that will become the file, lacks is *covered*, by the request that made the change and
has not asked yet (`Unasked`), or by the token in the channel. A request covers its slot only while
its host is in the list, so a `put_host` that finds its host deleted may leave without asking: the
delete covers the slot. `Locks` ties the locks to where each task is, for `TypeCorrect`.

**StreamerProofs, the session.** `ExitComesAfterReport` needs `StopsReport`: a call of `stop()` that has got as far
as `notify_waiters` has handed Stop over, whichever call it was that wakes `main`.
`StreamStartsOnce` needs `StartIsGuarded`: a start that went past the guard has set it, so a
start that failed does not open it again. Both hold for any finite set of phones.

**ConnectionProofs.** `Invariance` proves `IInv`, for any scenarios (`Scenarios`) and any
messages of the host. `ThreadsAreSafe` (`NothingOutlivesWhatItUses`) is about the row of calls that is left, `todo`.
While the connection starts, `Starts` says how far it is: the stage has made its first k calls, so
that the threads that live are among those created until then (`Born`) and what these calls set up
is there (`SetUp`). When a call fails, is interrupted, or the client stops, `todo` becomes the undo of that
place followed by the terminations of the stages below, and `Stops` takes over: nothing in the row
begins anything, and for each living thread the row is *safe*: every call that releases what the
thread uses (`Releases`) comes after one that joins it. `FailureIsUndone` and `AnswerFailureIsUndone` prove this for
every call of every stage, which is the statement a reader of `Connection.c` and of the `goto`s of
`startControlStream` has to check by eye. `MessagesComeFirst` (`MessagesOutliveDisconnect`) rests on
`LinkIsSound`: as long as the DISCONNECT is held back nothing is on the wire behind it, and a link
that intercepts none has nothing to lose. `CallbacksReachTheClient` (`CallbacksSettle`) needs that the numbers
of messages grow from the client's last one over those in hand and queued to those on the wire
(`NumbersGrow`), and that the last message of a slot that waits is the last that was taken
(`NewestWaits`). `ScenarioAssumption` numbers the host's messages in the order they are sent, which
is what the numbers mean; `ControlAssumption` is that the queues have room for one element.

**InputStreamProofs.** `HoldersAreThere` (`PendingHasHolder`) needs `CallsAreAlone`: a call that is about to queue a
holder has the mutex and its source is clean, so nobody else can have queued one; and
`DirtyHasHolder`, which says who has the holder of a dirty source. `NoMoveIsLost` (`MovesAddUp`) is a
conjunct of the invariant, kept by the split of a long move while the mutex is released.
`ChangesArrive` (`EveryChangeArrives`) and `StopIsClean` (`StopDrains`) follow the packets by number: the queue holds
those accepted last (`QueueIsRecent`), the thread the one before (`HolderIsNext`), what was sent is in
order (`SentInOrder`) and everything before the thread's place is settled (`PastIsSettled`). `InputAssumption`
asks of the sizes only that they are positive; `ClientAssumption` that the threads of the client call
functions of `Limelight.h` and none is called *nobody*, the mark of a free mutex.

**VideoStreamProofs.** The safety of the decoder has two layers. `Reception` (`ReceptionHolds`) is that of the receive thread, and
holds always. It ties the queue's counts to the set of packets it holds (`Tallied`): `missing` is the gap
up to the highest index less the packets counted, and on the fast path the packets are an interval. Packets that were rebuilt and kept after a bad
one are in the list without being counted, which is why the counts are bounds unless the block has enough packets for a recovery.
The calls that are left grow in their frames, and behind the queue (`CallsGrow`); the depacketizer is at most one
frame further than the call (`Following`). From it follow `TypeCorrect`, `CountsAreRight` (`BlockCountsAreSound`), for which
it matters that a block without its frame's loss reported misses no more than parity can
mend, and `LostFramesAreNew` (`LossesAreNew`). The second layer is about what the decoder can
refer to. `PipeInOrder`: what is queued, in the decoder's hands and shown is in order, and below `start`.
`RangesKnown`: every range reported, taken or at the host begins at or before `start`. `References`: what is on
its way refers to something shown or on its way; and the next frame will, unless one
that can be decoded is waited for or a refresh is going on. `RangesFit`: the frame before a
reported range is one the decoder has, or will be replaced by an IDR frame; this is what makes an
R frame decodable, and it is needed at every moment of the request's way to the host.
`FlushIsSafe`: between the flag of a refresh and its flush, the flag still holds, or the
IDR frame that cleared it is not in the queue. The last three are claimed only while `raced` is false, and `DecoderSafety`
(`DecoderHasReferences`) follows. The proof found that with `raced` marking only the late P-frame
the property is false: an IDR frame queued before the flush is the second race (section 5), out of reach
of a run with four frames. `VideoQueueAssumption` asks that four blocks take up less than the
whole sequence space, which 16 bits and blocks of at most 255 shards leave ample room for.

A third invariant, `Waits`, is about help, for `WaitsEnd` (`NoSilentWait`). Help is *due* (`IdrIsDue`, `RangeIsDue`) when it is
requested, with the host, encoded and still to come, or bound to be requested by a thread that is
on its way to do so. Who waits for a frame after a range has help due (`RangeIsAsked`), and so has who
drops frames for a refresh (`DropIsRefreshed`). Who waits for an IDR frame may not have asked yet: `dropFrameState` sets
the flag and the request follows only when the first whole frame behind the gap is given up. So
`IdrIsComing` allows for `waitNext`, and for a frame the queue has *passed*: it is behind the queue, or a part
of it is held after a speculative report of its loss, and the next frame will show the gap. That
the depacketizer is never ahead of what the queue has passed is `Follows`. A frame that was
reported lost and comes after all breaks both, since the depacketizer then drops a whole frame as an
old one; it can break nothing else, which is why `revived` excuses these two parts and no other. `CanAsk` is
that a range is asked for only once an IDR frame was decoded, so that it starts behind a frame
and the request is not mistaken for none.

**AudioStreamProofs.** The code knows a packet by a number that wraps; the proof follows the
host's number `n` of the next packet behind it. `Lined`: every block lies where `n` and its own number put it, in
order, and only the block of `n` may have been begun. `Open`: if one was begun it is the first. `Spans`: none is so far
from `n` that half of the numbers would not tell them apart. `Reach`: the newest packet of the network is less than a block,
and what may be late, beyond the last block. With these the wrapped comparisons of `RtpAudioQueue.c` decide
as the true ones would (`WrapIs` and the lemmas behind it), through the search for a block, its insertion, the release of a
finished one, and `handleMissingPackets`. `TypeCorrect` and `SamplesReachTheRenderer` (`NoSampleAfterCleanup`) need
none of this, only which threads live at each place of the connection's (`ThreadsLive`).
`BlocksStayConsistent` (`BlocksAreConsistent`) is read off `Lined` and `Open`. `DecoderNeverGoesBack`
(`PlaysInOrder`) adds `Ordered`: what was played, what the decoder holds, what is queued and what the receive
thread has at hand grow in this order and stay below `n`; and `Quiet`: as long as the queue may still choose the block it
begins with, nothing was handed on. Two assumptions make it true. `NumbersSuffice`: what the network delays and loses in a row
is less than half of the numbers, since the code cannot tell a packet that is later from a new one. `SpanIsShort`, a hypothesis
of the two theorems that use numbers: the backlog, from the first block to the last, is at
most half of the numbers. The code does not count its backlog, it bounds it by time and by what was lost. `HandleMissing` steps over
one gap in a call, so lasting losses of most packets let the backlog grow; but with 16 bits it takes about
32,000 packets to break the hypothesis, minutes of audio. In the run it holds by arithmetic (blocks 28 to 34 of 32, `Slack` 8). The
exceptions are those of the properties: `resync` (section 5), and for the order a host whose blocks
are incompatible.

**EnetProofs.** `WindowsAreRight` (`WindowsCountTheUnacked`): through losses, retries, give-ups, late and repeated
acknowledgements and any number of wraps, `reliableWindows` counts what is in flight. The code counts a command
when it is first transmitted and discounts a window when a number of it is acknowledged, without asking
whether the number found is the one that was counted; the count is right because a number is never in flight
twice. That is `Once`, and it is kept by the check that a command may not begin a window that is in use or near one
(`WindowBlocked`), which the code makes for the first number of a window only. So `NextIsNew` says
what this check is enough for: of the next number's window all that is in flight comes before it, unless it is to
begin the window, and then the window has to be empty. `InRow` is what makes it inductive: retried commands stand
in front of the unsent ones, and those are numbered in a row that ends with the last number given out, so the command that is sent
next is the next number. With `Once`, `Counts` speaks of a set of numbers, and a step adds one to it
or takes one away (`CountsBoth` turns it into the sum over both lists that the property is). Where the network comes in, nothing is
assumed of it: an acknowledgement of anything may arrive at any time, for which `ForgetFine` and its like are proved, and what a
peer receives touches none of the lists it sends from. Two consequences are theorems of their own: an acknowledgement, which
says no more than a number, is for one command only (`AcknowledgementsAreClear`), and no window counts more than it has
numbers (`WindowsNeverOverflow`). `EnetPeerAssumption` asks that there are three windows more than are kept
free; the code has 16 and 8.

The code's loops over lists (a pass over the outgoing commands, the commands of a datagram, what is picked out of a list)
are recursive functions over a prefix of the list. What they return is proved from the library's
theorem that numbers are well-founded: a set that contains 0 and with a number its successor
contains every number (`Induction`); what one round of a loop keeps, the loop keeps (`LoopKeeps`). The induction is about a set, so
that no operator has to be instantiated.

**Model-checked only.** All liveness properties (they need ENABLED). Of ENet, `LaterDisconnectFlushes` and that `Enet` implements
`OrderedChannel`: both are about the two ends together. They are true only while every datagram on the network
lies within half of the number space of its receiver, and none of an earlier connection, whose session number (of two bits) has come
round again, is left. The code relies on time for that; the run has it by its scenarios (`MCEnet`), and
for arbitrary ones both are false: windows of one number in a space of six, eight reliable messages and one
datagram that comes twice are enough for TLC to find either violated. A proof would have to carry these two conditions as hypotheses about
every datagram through each operation of two peers. The bound of `LinkedBlockingQueue` is part of the types of the
streams that use it, as far as they need it.

## 7. What is not modelled

- *Lifecycle*: `cancel_host`, the pause of the YouTube player after a disconnect,
  `kill_on_drop` when a handler is cancelled by the runtime, a host that is deleted while it
  streams, the contents of messages.
- *Streamer*: SDP and candidates (only whether a relay candidate was found), set-up of data
  channels, the primary's own data, configuration.
- *Gamepads*: rumble and controller state; mouse, keyboard and touch, which have no state.
- *Senders*: packet contents and sequence numbers; the Ogg audio sender.
- *Hosts*: names, addresses, keys and the file's format; requests to Sunshine (they succeed, fail
  or find nothing new); the load at start, which is the initial state.
- *moonlight-common-c, everywhere*: packet formats, encryption, statistics, logging, allocation
  failures, the platform's sockets, threads and clocks.
- *Audio*: RTP header fields, the cache of free blocks, Opus, jitter-dependent packet durations; a
  renderer that fails is one outcome.
- *Video*: NAL units, codecs, the frame header, time stamps (a cool-down is counted in frames), the
  statistics; the FEC of a corrupt first packet only as `RejectFrame`.
- *ENet*: unreliable fragments, bandwidth limits and throttling, compression, checksums,
  more than one peer, real round-trip times (which command is late is a choice); datagrams
  later than half the number space, which the code cannot tell from new ones; an acknowledgement that
  was taken before a give-up and lost with it.
- *Connection and control*: RTSP and SDP (a stage that works or fails), the hysteresis of
  `connectionSawFrame`, the queue of per-frame FEC status, loss statistics beyond their sending, the failure of
  the termination callback's thread, name resolution.
- *Input*: the cipher, that `batchedScrollDelta` is read and written without a lock (each access is atomic here, but calls may come between two of one call), the reuse of holders from the free list, calls that go on after
  `destroyInputStream` (the client has to end them).
- *Not yet*: section 8. *Not at all*: wire formats, crypto, sockets, the Reed-Solomon arithmetic,
  installers, tray, certificates, user-interface widgets: I/O, calculation and formatting
  without ordering of their own. `RtspConnection.c` and `SdpGenerator.c` are sequential.

## 8. Plan

Done: `StreamLifecycle`, `Gamepads`, `Streamer`, `VideoSender`, `HostStore`, with proofs for each;
of moonlight-common-c, the queues, and, with proofs, ENet and its abstract specification (the proof is of
its windows), the audio and video streams, the connection with its control stream and the input stream. The order was that of
importance: who owns a stream, what a stream does, what the server remembers, then the library
below, from its queues up to the stages that compose them. Next, in this order:

1. Proofs: what ENet's late disconnect flushes, and its refinement, under hypotheses about the age of datagrams.
2. `BrowserSession` (`web/stream/index.ts` 684-1200 and 1440-1640): socket attempts with late events
   of their predecessors, the shared timer, the peer generation, offer and answer with
   awaits, in-page retry, reloads. Abstract specification: *SignalingRound*, in which each round one
   side offers and the other answers, at most once. Liveness: a page without a stream reloads or
   shows an error.
3. `Signaling`: composition of `BrowserSession` with `StreamLifecycle`'s relay and `Streamer`'s peer.
4. That `Streamer` implements the child that `StreamLifecycle` assumes (abstract specification
   *ChildProcess*, by refinement).
5. `Rtsp` (`RtspConnection.c`): the handshake with its retries over TCP and ENet.
6. `Authentication` (`api/auth.rs`): session file and TOTP configuration, with crashes between
   the steps; crash recovery of `HostStore`'s file belongs here too.
7. `Pairing` (`moonlight-common/src/pair.rs`) and `BrowserAudio`.
