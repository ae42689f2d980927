--------------------------- MODULE StreamLifecycle ---------------------------
(***************************************************************************)
(* The life of the streams of ONE host in the web server                   *)
(* (moonlight-web/web-server/src/api/stream.rs, data.rs): the handlers of  *)
(* primary (audio/video) browser sockets, the handlers of input-only       *)
(* sockets, the router task and the placeholder supervisor of every        *)
(* streamer child, and that child as the server sees it                    *)
(* (moonlight-web/streamer/src/main.rs).                                   *)
(*                                                                         *)
(* Every action is what one task does between two of its awaits.           *)
(* Authentication, the host's app list and the TURN request are HTTP work  *)
(* that only decides between "go on" and "refuse".                         *)
(***************************************************************************)
EXTENDS Naturals, Sequences, FiniteSets

CONSTANTS Primaries,   \* WebSockets that open with AuthenticateAndInit
          Inputs,      \* WebSockets that open with AuthenticateAndAttachInput
          Streams,     \* the streamer processes that may be spawned
          MaxId,       \* u32::MAX, the largest client id
          Cap,         \* IPC messages that fit in the channel and the stdin pipe
          EmptyPollsBeforeStop, \* 3: polls without a client that end a placeholder
          MaxWs,       \* bound of the model: unread browser messages per connection
          None

ASSUME LifecycleAssumption ==
    /\ Primaries \cap Inputs = {}
    /\ None \notin Primaries \cup Inputs \cup Streams
    /\ MaxId \in Nat \ {0}
    /\ Cap \in Nat \ {0}
    /\ EmptyPollsBeforeStop \in Nat \ {0}
    /\ MaxWs \in Nat

Conns == Primaries \cup Inputs

VARIABLES
    active,    \* RuntimeApiHost.active_stream: the watched stream, or None
    changed,   \* [i]: i's watch receiver has a change it has not seen
    lifecycle, \* the holder of the stream_lifecycle mutex, or None
    pc,        \* [c]: where the handler of connection c is
    ws,        \* [c]: the WebSocket of c is "open" or "closed"
    mine,      \* [c]: the stream c is about to stop or owns (primary), or found (input)
    clientId,  \* [i]: the client id i got when it last attached
    child,     \* [s]: the streamer process; "stopped": it sent StreamerIpcMessage::Stop
    inbox,     \* [s]: ServerIpcMessages on their way to the streamer's stdin
    deaf,      \* [s]: the streamer's IPC loop has returned, after Stop
    router,    \* [s]: the router task
    young,     \* [s]: it has a client 0 and started_at.elapsed() < 10s
    clients,   \* [s][k]: ActiveStream.clients, the connection with client id k
    nextId,    \* [s]: ActiveStream.next_client_id
    keeper,    \* [s]: the supervisor of a placeholder stream
    polls      \* [s]: its empty_polls

vars == <<active, changed, lifecycle, pc, ws, mine, clientId, child, inbox,
          deaf, router, young, clients, nextId, keeper, polls>>

hostVars   == <<active, changed>>
streamVars == <<child, inbox, deaf, router, young, clients, nextId, keeper, polls>>

Ids == 0..MaxId
IpcMessage == [kind : {"Init", "WebSocket", "Attach", "Detach", "Stop"}, client : Ids]
Msg(k, n) == [kind |-> k, client |-> n]

\* Where a handler is: run_primary_stream first, then run_attach_input.
Location ==
    {"start", "lock", "age", "stop", "tell", "await", "spawn", "init", "relay", "sendStop",
     "reap", "done", "place", "plock", "probe", "pspawn", "pinit", "check", "announce", "wait",
     "recheck", "attach", "attachMsg", "detach", "detachMsg", "close", "closeMsg"}

ChildState == {"unborn", "boot", "run", "stopping", "stopped", "exited"}

TypeOK ==
    /\ active \in Streams \cup {None}
    /\ changed \in [Inputs -> BOOLEAN]
    /\ lifecycle \in Conns \cup {None}
    /\ pc \in [Conns -> Location]
    /\ ws \in [Conns -> {"open", "closed"}]
    /\ mine \in [Conns -> Streams \cup {None}]
    /\ clientId \in [Inputs -> Ids]
    /\ child \in [Streams -> ChildState]
    /\ inbox \in [Streams -> Seq(IpcMessage)]
    /\ deaf \in [Streams -> BOOLEAN]
    /\ router \in [Streams -> {"off", "recv", "clear", "close", "done"}]
    /\ young \in [Streams -> BOOLEAN]
    /\ clients \in [Streams -> [Ids -> Conns \cup {None}]]
    /\ nextId \in [Streams -> 1..MaxId]
    /\ keeper \in [Streams -> {"off", "poll", "sendStop", "reap", "done"}]
    /\ polls \in [Streams -> 0..EmptyPollsBeforeStop]

Init ==
    /\ active = None
    /\ changed = [i \in Inputs |-> FALSE]
    /\ lifecycle = None
    /\ pc = [c \in Conns |-> "start"]
    /\ ws = [c \in Conns |-> "open"]
    /\ mine = [c \in Conns |-> None]
    /\ clientId = [i \in Inputs |-> 0]
    /\ child = [s \in Streams |-> "unborn"]
    /\ inbox = [s \in Streams |-> <<>>]
    /\ deaf = [s \in Streams |-> FALSE]
    /\ router = [s \in Streams |-> "off"]
    /\ young = [s \in Streams |-> FALSE]
    /\ clients = [s \in Streams |-> [k \in Ids |-> None]]
    /\ nextId = [s \in Streams |-> 1]
    /\ keeper = [s \in Streams |-> "off"]
    /\ polls = [s \in Streams |-> 0]

Goto(c, from, to) == pc[c] = from /\ pc' = [pc EXCEPT ![c] = to]

\* Mutant: the new value is stored without notifying the receivers.
SilentReplace(value) == active' = value /\ UNCHANGED changed

\* watch::Sender::send_replace: every subscribed receiver now has an unseen change.
SendReplace(value) ==
    /\ active' = value
    /\ changed' = [i \in Inputs |-> pc[i] # "start"]

\* IpcSender::send: waits for room, and only warns once the child is gone.
Deliver(s, m) ==
    \/ /\ child[s] = "exited"
       /\ UNCHANGED inbox
    \/ /\ child[s] # "exited"
       /\ Len(inbox[s]) < Cap
       /\ inbox' = [inbox EXCEPT ![s] = Append(@, m)]

\* spawn_streamer_process up to its registration: the child, its router and the
\* ActiveStream with `first' as client 0 (None for a placeholder).
Spawn(s, first) ==
    /\ child[s] = "unborn"
    /\ child' = [child EXCEPT ![s] = "boot"]
    /\ router' = [router EXCEPT ![s] = "recv"]
    /\ young' = [young EXCEPT ![s] = (first # None)]
    /\ clients' = [clients EXCEPT ![s][0] = first]
    /\ SendReplace(s)
    /\ UNCHANGED <<inbox, deaf, nextId, polls>>
-----------------------------------------------------------------------------
(* The handler of a primary connection: run_primary_stream.                *)

\* Authentication, host_connection_info and the app check all succeed.
AdmitPrimary(p) ==
    /\ Goto(p, "start", "lock")
    /\ UNCHANGED <<hostVars, lifecycle, ws, mine, clientId, streamVars>>

\* One of them fails: the socket is closed (or simply dropped).
RefusePrimary(p) ==
    /\ Goto(p, "start", "done")
    /\ ws' = [ws EXCEPT ![p] = "closed"]
    /\ UNCHANGED <<hostVars, lifecycle, mine, clientId, streamVars>>

TakeLifecycle(p) ==
    /\ Goto(p, "lock", "age")
    /\ lifecycle = None
    /\ lifecycle' = p
    /\ UNCHANGED <<hostVars, ws, mine, clientId, streamVars>>

\* active_primary_age(..) is less than 10 seconds.
YoungPrimary(s) == clients[s][0] # None /\ young[s]

\* Mutant: the mutex stays locked when the duplicate is turned away.
RejectDuplicateLocked(p) ==
    /\ Goto(p, "age", "done")
    /\ active # None
    /\ YoungPrimary(active)
    /\ ws' = [ws EXCEPT ![p] = "closed"]
    /\ UNCHANGED <<hostVars, lifecycle, mine, clientId, streamVars>>

RejectDuplicate(p) ==
    /\ Goto(p, "age", "done")
    /\ active # None
    /\ YoungPrimary(active)
    /\ ws' = [ws EXCEPT ![p] = "closed"]
    /\ lifecycle' = None
    /\ UNCHANGED <<hostVars, mine, clientId, streamVars>>

\* Mutant: the age of the active primary is not looked at.
MayReplaceAnyAge(p) ==
    /\ Goto(p, "age", "stop")
    /\ UNCHANGED <<hostVars, lifecycle, ws, mine, clientId, streamVars>>

MayReplace(p) ==
    /\ Goto(p, "age", "stop")
    /\ active # None => ~YoungPrimary(active)
    /\ UNCHANGED <<hostVars, lifecycle, ws, mine, clientId, streamVars>>

\* stop_existing_stream_and_wait
NothingToStop(p) ==
    /\ Goto(p, "stop", "spawn")
    /\ active = None
    /\ UNCHANGED <<hostVars, lifecycle, ws, mine, clientId, streamVars>>

\* The stream is captured, and later told to stop, whatever is registered by then.
CaptureExisting(p) ==
    /\ Goto(p, "stop", "tell")
    /\ active # None
    /\ mine' = [mine EXCEPT ![p] = active]
    /\ UNCHANGED <<hostVars, lifecycle, ws, clientId, streamVars>>

StopExisting(p) ==
    /\ Goto(p, "tell", "await")
    /\ Deliver(mine[p], Msg("Stop", 0))
    /\ mine' = [mine EXCEPT ![p] = None]
    /\ UNCHANGED <<hostVars, lifecycle, ws, clientId,
                   child, deaf, router, young, clients, nextId, keeper, polls>>

\* Either the watch became None, or the 10 s timeout fired first.
StopWaitEnds(p) ==
    /\ Goto(p, "await", "spawn")
    /\ UNCHANGED <<hostVars, lifecycle, ws, mine, clientId, streamVars>>

\* Mutant: the mutex is released before Init is sent.
SpawnPrimaryUnlocks(p, s) ==
    /\ Goto(p, "spawn", "init")
    /\ Spawn(s, p)
    /\ mine' = [mine EXCEPT ![p] = s]
    /\ lifecycle' = None
    /\ UNCHANGED <<ws, clientId, keeper>>

SpawnPrimary(p, s) ==
    /\ Goto(p, "spawn", "init")
    /\ Spawn(s, p)
    /\ mine' = [mine EXCEPT ![p] = s]
    /\ UNCHANGED <<lifecycle, ws, clientId, keeper>>

\* No TURN credentials, or the process cannot be started.
SpawnPrimaryFails(p) ==
    /\ Goto(p, "spawn", "done")
    /\ ws' = [ws EXCEPT ![p] = "closed"]
    /\ lifecycle' = None
    /\ UNCHANGED <<hostVars, mine, clientId, streamVars>>

SendInit(p) ==
    /\ Goto(p, "init", "relay")
    /\ Deliver(mine[p], Msg("Init", 0))
    /\ lifecycle' = None
    /\ UNCHANGED <<hostVars, ws, mine, clientId,
                   child, deaf, router, young, clients, nextId, keeper, polls>>

\* relay_ws_to_ipc / relay_ws_to_ipc_while_attached: one browser message.
RelayMessage(c) ==
    /\ pc[c] = "relay"
    /\ ws[c] = "open"
    /\ LET m == Msg("WebSocket", IF c \in Inputs THEN clientId[c] ELSE 0) IN
       /\ Cardinality({n \in DOMAIN inbox[mine[c]] : inbox[mine[c]][n] = m}) < MaxWs
       /\ Deliver(mine[c], m)
    /\ UNCHANGED <<hostVars, lifecycle, pc, ws, mine, clientId,
                   child, deaf, router, young, clients, nextId, keeper, polls>>

\* Mutant: the handler returns as soon as its browser has gone.
RelayEndsAtOnce(p) ==
    /\ Goto(p, "relay", "done")
    /\ ws[p] = "closed"
    /\ UNCHANGED <<hostVars, lifecycle, ws, mine, clientId, streamVars>>

\* The select: the browser's socket ended first, or the child was reaped first.
RelayEnds(p) ==
    /\ Goto(p, "relay", "sendStop")
    /\ ws[p] = "closed"
    /\ UNCHANGED <<hostVars, lifecycle, ws, mine, clientId, streamVars>>

ChildEndsFirst(p) ==
    /\ Goto(p, "relay", "done")
    /\ child[mine[p]] = "exited"
    /\ mine' = [mine EXCEPT ![p] = None]
    /\ ws' = [ws EXCEPT ![p] = "closed"]
    /\ UNCHANGED <<hostVars, lifecycle, clientId, streamVars>>

SendStop(p) ==
    /\ Goto(p, "sendStop", "reap")
    /\ Deliver(mine[p], Msg("Stop", 0))
    /\ UNCHANGED <<hostVars, lifecycle, ws, mine, clientId,
                   child, deaf, router, young, clients, nextId, keeper, polls>>

\* reap_streamer_child: it exits within 4 s, or it is killed.
Reap(s) ==
    /\ child' = [child EXCEPT ![s] = "exited"]
    /\ inbox' = [inbox EXCEPT ![s] = <<>>]      \* its stdin pipe is gone

ReapPrimary(p) ==
    /\ Goto(p, "reap", "done")
    /\ Reap(mine[p])
    /\ mine' = [mine EXCEPT ![p] = None]
    /\ UNCHANGED <<hostVars, lifecycle, ws, clientId,
                   deaf, router, young, clients, nextId, keeper, polls>>

Primary(p) ==
    \/ AdmitPrimary(p) \/ RefusePrimary(p) \/ TakeLifecycle(p)
    \/ RejectDuplicate(p) \/ MayReplace(p)
    \/ NothingToStop(p) \/ CaptureExisting(p) \/ StopExisting(p) \/ StopWaitEnds(p)
    \/ (\E s \in Streams : SpawnPrimary(p, s)) \/ SpawnPrimaryFails(p)
    \/ SendInit(p) \/ RelayEnds(p) \/ ChildEndsFirst(p)
    \/ SendStop(p) \/ ReapPrimary(p)
-----------------------------------------------------------------------------
(* The handler of an input-only connection: run_attach_input.              *)

AdmitInput(i) ==
    /\ Goto(i, "start", "place")
    /\ changed' = [changed EXCEPT ![i] = FALSE]        \* subscribe()
    /\ UNCHANGED <<active, lifecycle, ws, mine, clientId, streamVars>>

RefuseInput(i) ==
    /\ Goto(i, "start", "done")
    /\ ws' = [ws EXCEPT ![i] = "closed"]
    /\ UNCHANGED <<hostVars, lifecycle, mine, clientId, streamVars>>

\* maybe_start_placeholder_stream: a first look without the lifecycle lock.
LookForStream(i) ==
    /\ Goto(i, "place", IF active # None THEN "check" ELSE "plock")
    /\ UNCHANGED <<hostVars, lifecycle, ws, mine, clientId, streamVars>>

TakeLifecycleForPlaceholder(i) ==
    /\ Goto(i, "plock", "probe")
    /\ lifecycle = None
    /\ lifecycle' = i
    /\ UNCHANGED <<hostVars, ws, mine, clientId, streamVars>>

\* Under the lock: a stream appeared meanwhile, or current_game() is 0, fails
\* or times out, or the pairing data is missing.
NoPlaceholder(i) ==
    /\ Goto(i, "probe", "check")
    /\ lifecycle' = None
    /\ UNCHANGED <<hostVars, ws, mine, clientId, streamVars>>

\* Mutant: active_stream is not looked at again under the lock.
GameIsRunningUnchecked(i) ==
    /\ Goto(i, "probe", "pspawn")
    /\ UNCHANGED <<hostVars, lifecycle, ws, mine, clientId, streamVars>>

GameIsRunning(i) ==
    /\ Goto(i, "probe", "pspawn")
    /\ active = None
    /\ UNCHANGED <<hostVars, lifecycle, ws, mine, clientId, streamVars>>

SpawnPlaceholder(i, s) ==
    /\ Goto(i, "pspawn", "pinit")
    /\ Spawn(s, None)
    /\ mine' = [mine EXCEPT ![i] = s]
    /\ UNCHANGED <<lifecycle, ws, clientId, keeper>>

SpawnPlaceholderFails(i) ==
    /\ Goto(i, "pspawn", "check")
    /\ lifecycle' = None
    /\ UNCHANGED <<hostVars, ws, mine, clientId, streamVars>>

\* Init is sent, the supervisor takes the child over, the lock is released.
SendPlaceholderInit(i) ==
    /\ Goto(i, "pinit", "check")
    /\ Deliver(mine[i], Msg("Init", 0))
    /\ keeper' = [keeper EXCEPT ![mine[i]] = "poll"]
    /\ lifecycle' = None
    /\ mine' = [mine EXCEPT ![i] = None]
    /\ UNCHANGED <<hostVars, ws, clientId,
                   child, deaf, router, young, clients, nextId, polls>>

\* wait_for_active_stream: look at the watch; the first time it is None the browser is told ...
FindStream(i) ==
    /\ \/ Goto(i, "check", IF active # None THEN "attach" ELSE "announce")
       \/ Goto(i, "recheck", IF active # None THEN "attach" ELSE "wait")
    /\ mine' = [mine EXCEPT ![i] = active]
    /\ UNCHANGED <<hostVars, lifecycle, ws, clientId, streamVars>>

\* ... that it waits, unless its socket has gone ...
AnnounceWait(i) ==
    /\ \/ Goto(i, "announce", "wait")
       \/ Goto(i, "announce", "done") /\ ws[i] = "closed"
    /\ UNCHANGED <<hostVars, lifecycle, ws, mine, clientId, streamVars>>

\* ... and then sleeps until the watch changes or the socket ends.
WatchChanges(i) ==
    /\ Goto(i, "wait", "recheck")
    /\ changed[i]
    /\ changed' = [changed EXCEPT ![i] = FALSE]
    /\ UNCHANGED <<active, lifecycle, ws, mine, clientId, streamVars>>

WaitingSocketEnds(i) ==
    /\ Goto(i, "wait", "done")
    /\ ws[i] = "closed"
    /\ UNCHANGED <<hostVars, lifecycle, ws, mine, clientId, streamVars>>

\* Under the ActiveStream lock: take the next id (u32::MAX wraps to 1).
Attach(i) ==
    LET s == mine[i]  k == nextId[s] IN
    /\ Goto(i, "attach", "attachMsg")
    /\ clientId' = [clientId EXCEPT ![i] = k]
    /\ nextId' = [nextId EXCEPT ![s] = IF k = MaxId THEN 1 ELSE k + 1]
    /\ clients' = [clients EXCEPT ![s][k] = i]
    /\ UNCHANGED <<hostVars, lifecycle, ws, mine,
                   child, inbox, deaf, router, young, keeper, polls>>

SendAttach(i) ==
    /\ Goto(i, "attachMsg", "relay")
    /\ Deliver(mine[i], Msg("Attach", clientId[i]))
    /\ UNCHANGED <<hostVars, lifecycle, ws, mine, clientId,
                   child, deaf, router, young, clients, nextId, keeper, polls>>

\* relay_ws_to_ipc_while_attached: changed() resolves, and only None counts.
StreamChanges(i) ==
    /\ Goto(i, "relay", IF active = None THEN "detach" ELSE "relay")
    /\ changed[i]
    /\ changed' = [changed EXCEPT ![i] = FALSE]
    /\ UNCHANGED <<active, lifecycle, ws, mine, clientId, streamVars>>

InputSocketEnds(i) ==
    /\ Goto(i, "relay", "close")
    /\ ws[i] = "closed"
    /\ UNCHANGED <<hostVars, lifecycle, ws, mine, clientId, streamVars>>

\* Mutant: the entry is removed from the stream that is registered now.
DetachRegistered(i) ==
    /\ \/ Goto(i, "detach", "detachMsg")
       \/ Goto(i, "close", "closeMsg")
    /\ clients' = IF active = None THEN clients ELSE
                [clients EXCEPT ![active][clientId[i]] = None]
    /\ UNCHANGED <<hostVars, lifecycle, ws, mine, clientId,
                   child, inbox, deaf, router, young, nextId, keeper, polls>>

\* active.clients.remove(&client_id), on the stream i attached to.
Detach(i) ==
    /\ \/ Goto(i, "detach", "detachMsg")
       \/ Goto(i, "close", "closeMsg")
    /\ clients' = [clients EXCEPT ![mine[i]][clientId[i]] = None]
    /\ UNCHANGED <<hostVars, lifecycle, ws, mine, clientId,
                   child, inbox, deaf, router, young, nextId, keeper, polls>>

\* Then wait for the next stream, or leave.
SendDetach(i) ==
    /\ \/ Goto(i, "detachMsg", "place")
       \/ Goto(i, "closeMsg", "done")
    /\ Deliver(mine[i], Msg("Detach", clientId[i]))
    /\ mine' = [mine EXCEPT ![i] = None]
    /\ clientId' = [clientId EXCEPT ![i] = 0]
    /\ UNCHANGED <<hostVars, lifecycle, ws,
                   child, deaf, router, young, clients, nextId, keeper, polls>>

Input(i) ==
    \/ AdmitInput(i) \/ RefuseInput(i) \/ LookForStream(i)
    \/ TakeLifecycleForPlaceholder(i) \/ NoPlaceholder(i) \/ GameIsRunning(i)
    \/ (\E s \in Streams : SpawnPlaceholder(i, s)) \/ SpawnPlaceholderFails(i)
    \/ SendPlaceholderInit(i)
    \/ FindStream(i) \/ AnnounceWait(i) \/ WatchChanges(i) \/ WaitingSocketEnds(i)
    \/ Attach(i) \/ SendAttach(i) \/ StreamChanges(i) \/ InputSocketEnds(i)
    \/ Detach(i) \/ SendDetach(i)
-----------------------------------------------------------------------------
(* The router task of a stream, and the supervisor of a placeholder.       *)

\* ipc_receiver.recv() yields Stop, or None at the end of the child's stdout.
RouterEnds(s) ==
    /\ router[s] = "recv"
    /\ child[s] \in {"stopped", "exited"}
    /\ router' = [router EXCEPT ![s] = "clear"]
    /\ UNCHANGED <<hostVars, lifecycle, pc, ws, mine, clientId,
                   child, inbox, deaf, young, clients, nextId, keeper, polls>>

\* Mutant: whatever stream is registered is cleared.
RouterClearsAny(s) ==
    /\ router[s] = "clear"
    /\ router' = [router EXCEPT ![s] = "close"]
    /\ SendReplace(None)
    /\ UNCHANGED <<lifecycle, pc, ws, mine, clientId,
                   child, inbox, deaf, young, clients, nextId, keeper, polls>>

\* Only the stream that is still registered is cleared.
RouterClears(s) ==
    /\ router[s] = "clear"
    /\ router' = [router EXCEPT ![s] = "close"]
    /\ IF active = s THEN SendReplace(None) ELSE UNCHANGED hostVars
    /\ UNCHANGED <<lifecycle, pc, ws, mine, clientId,
                   child, inbox, deaf, young, clients, nextId, keeper, polls>>

\* The primary session, if any, is removed and sent a Close frame: its handler relays on
\* until the browser answers (BrowserCloses) or the child has exited.
RouterCloses(s) ==
    /\ router[s] = "close"
    /\ router' = [router EXCEPT ![s] = "done"]
    /\ clients' = [clients EXCEPT ![s][0] = None]
    /\ young' = [young EXCEPT ![s] = FALSE]
    /\ UNCHANGED <<hostVars, lifecycle, pc, ws, mine, clientId,
                   child, inbox, deaf, nextId, keeper, polls>>

\* Mutant: empty polls are not counted.
KeeperPollsUncounted(s) ==
    /\ keeper[s] = "poll"
    /\ keeper' = [keeper EXCEPT ![s] = IF child[s] = "exited" THEN "done" ELSE "poll"]
    /\ UNCHANGED <<hostVars, lifecycle, pc, ws, mine, clientId,
                   child, inbox, deaf, router, young, clients, nextId, polls>>

\* supervise_placeholder_stream: one poll every 10 s.
KeeperPolls(s) ==
    /\ keeper[s] = "poll"
    /\ IF child[s] = "exited"
       THEN keeper' = [keeper EXCEPT ![s] = "done"] /\ UNCHANGED polls
       ELSE IF \E k \in Ids : clients[s][k] # None
       THEN polls' = [polls EXCEPT ![s] = 0] /\ UNCHANGED keeper
       ELSE /\ polls' = [polls EXCEPT ![s] = @ + 1]
            /\ keeper' = [keeper EXCEPT ![s] =
                              IF polls[s] + 1 < EmptyPollsBeforeStop THEN "poll" ELSE "sendStop"]
    /\ UNCHANGED <<hostVars, lifecycle, pc, ws, mine, clientId,
                   child, inbox, deaf, router, young, clients, nextId>>

KeeperSendsStop(s) ==
    /\ keeper[s] = "sendStop"
    /\ keeper' = [keeper EXCEPT ![s] = "reap"]
    /\ Deliver(s, Msg("Stop", 0))
    /\ UNCHANGED <<hostVars, lifecycle, pc, ws, mine, clientId,
                   child, deaf, router, young, clients, nextId, polls>>

KeeperReaps(s) ==
    /\ keeper[s] = "reap"
    /\ keeper' = [keeper EXCEPT ![s] = "done"]
    /\ Reap(s)
    /\ UNCHANGED <<hostVars, lifecycle, pc, ws, mine, clientId,
                   deaf, router, young, clients, nextId, polls>>

Router(s) == RouterEnds(s) \/ RouterClears(s) \/ RouterCloses(s)
Keeper(s) == KeeperPolls(s) \/ KeeperSendsStop(s) \/ KeeperReaps(s)
-----------------------------------------------------------------------------
(* The streamer process, as far as its parent sees it.                     *)

\* Before Init arrives main() drops every other message.
StreamerBoots(s) ==
    /\ child[s] = "boot"
    /\ inbox[s] # <<>>
    /\ inbox' = [inbox EXCEPT ![s] = Tail(@)]
    /\ child' = [child EXCEPT ![s] = IF Head(inbox[s]).kind = "Init" THEN "run" ELSE "boot"]
    /\ UNCHANGED <<hostVars, lifecycle, pc, ws, mine, clientId,
                   deaf, router, young, clients, nextId, keeper, polls>>

\* on_ipc_message: everything is handled in order; Stop ends the loop. After a
\* stop() of its own the loop goes on until the process exits.
StreamerReads(s) ==
    /\ child[s] \in {"run", "stopping", "stopped"}
    /\ ~deaf[s]
    /\ inbox[s] # <<>>
    /\ inbox' = [inbox EXCEPT ![s] = Tail(@)]
    /\ IF Head(inbox[s]).kind = "Stop"
       THEN /\ deaf' = [deaf EXCEPT ![s] = TRUE]
            /\ child' = [child EXCEPT ![s] = IF @ = "run" THEN "stopping" ELSE @]
       ELSE UNCHANGED <<child, deaf>>
    /\ UNCHANGED <<hostVars, lifecycle, pc, ws, mine, clientId,
                   router, young, clients, nextId, keeper, polls>>

\* The WebRTC peer failed or a fresh session is requested: stop() by itself.
StreamerGivesUp(s) ==
    /\ child[s] = "run"
    /\ child' = [child EXCEPT ![s] = "stopping"]
    /\ UNCHANGED <<hostVars, lifecycle, pc, ws, mine, clientId,
                   inbox, deaf, router, young, clients, nextId, keeper, polls>>

\* stop(): the Moonlight stream is dropped, then Stop goes to the parent ...
StreamerSaysStop(s) ==
    /\ child[s] = "stopping"
    /\ child' = [child EXCEPT ![s] = "stopped"]
    /\ UNCHANGED <<hostVars, lifecycle, pc, ws, mine, clientId,
                   inbox, deaf, router, young, clients, nextId, keeper, polls>>

\* ... and main() exits.
StreamerExits(s) ==
    /\ child[s] = "stopped"
    /\ Reap(s)
    /\ UNCHANGED <<hostVars, lifecycle, pc, ws, mine, clientId,
                   deaf, router, young, clients, nextId, keeper, polls>>

\* The panic hook exits from anywhere.
StreamerPanics(s) ==
    /\ child[s] \in {"boot", "run", "stopping"}
    /\ Reap(s)
    /\ UNCHANGED <<hostVars, lifecycle, pc, ws, mine, clientId,
                   deaf, router, young, clients, nextId, keeper, polls>>

Streamer(s) ==
    \/ StreamerBoots(s) \/ StreamerReads(s) \/ StreamerGivesUp(s)
    \/ StreamerSaysStop(s) \/ StreamerExits(s) \/ StreamerPanics(s)
-----------------------------------------------------------------------------
(* The browser and the clock.                                              *)

BrowserCloses(c) ==
    /\ pc[c] \notin {"start", "done"}
    /\ ws[c] = "open"
    /\ ws' = [ws EXCEPT ![c] = "closed"]
    /\ UNCHANGED <<hostVars, lifecycle, pc, mine, clientId, streamVars>>

TenSecondsPass(s) ==
    /\ young[s]
    /\ young' = [young EXCEPT ![s] = FALSE]
    /\ UNCHANGED <<hostVars, lifecycle, pc, ws, mine, clientId,
                   child, inbox, deaf, router, clients, nextId, keeper, polls>>

Next ==
    \/ \E p \in Primaries : Primary(p)
    \/ \E i \in Inputs : Input(i)
    \/ \E s \in Streams : Router(s) \/ Keeper(s) \/ Streamer(s) \/ TenSecondsPass(s)
    \/ \E c \in Conns : RelayMessage(c) \/ BrowserCloses(c)

Spec == Init /\ [][Next]_vars

\* The tasks of the server run whenever they can (tokio polls every woken task).
\* The channel to the child serves those who wait for room in it in their order, so that a
\* handler's send is not overtaken for ever by what a browser relays. Nothing is assumed of
\* the browser, or of the streamer process.
ServerFairness ==
    /\ \A p \in Primaries : WF_vars(Primary(p))
    /\ \A i \in Inputs : WF_vars(Input(i))
    /\ \A s \in Streams : WF_vars(Router(s)) /\ WF_vars(Keeper(s))
    /\ \A p \in Primaries : SF_vars(StopExisting(p) \/ SendInit(p) \/ SendStop(p))

\* A streamer that is not hung: its IPC loop takes messages off its stdin, and a
\* stop() that has begun reports Stop. That the process then exits is not assumed:
\* its Notify can be lost (module Streamer).
StreamerIsAlive ==
    \A s \in Streams :
        /\ WF_vars(StreamerBoots(s) \/ StreamerReads(s))
        /\ WF_vars(StreamerSaysStop(s))

ServerSpec == Spec /\ ServerFairness
FairSpec == ServerSpec /\ StreamerIsAlive
-----------------------------------------------------------------------------
(* Safety.                                                                 *)

\* The code between `let _lifecycle_guard = ...' and the end of its block.
LifecycleSection == {"age", "stop", "tell", "await", "spawn", "init", "probe", "pspawn", "pinit"}

\* The stream_lifecycle mutex serializes starting and replacing a stream: a
\* handler is inside its guarded block exactly while it holds the mutex.
LifecycleExclusive ==
    \A c \in Conns : pc[c] \in LifecycleSection <=> lifecycle = c

\* A streamer never finds Stop in front of Init: main() would throw the Stop away
\* and then start the stream that nobody wants any more.
StopFollowsInit ==
    \A s \in Streams : child[s] = "boot" =>
        \A n \in DOMAIN inbox[s] : inbox[s][n].kind = "Stop" =>
            \E m \in 1..n : inbox[s][m].kind = "Init"

\* The registered stream has a router that will still clear the registration; a
\* stream whose router is through would stay registered for ever, and every
\* waiting input client would attach to a dead pipe.
RegisteredHasRouter == active # None => router[active] \in {"recv", "clear"}

\* Every live streamer process has a task that will reap it: its primary's handler,
\* the placeholder supervisor, or the handler that is about to start that.
LiveChildIsOwned ==
    \A s \in Streams : child[s] \notin {"unborn", "exited"} =>
        \/ \E p \in Primaries :
              mine[p] = s /\ pc[p] \in {"init", "relay", "sendStop", "reap"}
        \/ keeper[s] \in {"poll", "sendStop", "reap"}
        \/ \E i \in Inputs : mine[i] = s /\ pc[i] = "pinit"

\* An input-only handler never sleeps through a registration: if it tells its browser to
\* wait, or waits, while a stream is active, its watch receiver has a change to wake it.
NoMissedWakeup ==
    \A i \in Inputs : pc[i] \in {"announce", "wait"} /\ active # None => changed[i]

Attached == {"attachMsg", "relay", "detach", "detachMsg", "close", "closeMsg"}

\* The router sends a reply tagged with client id k only to the connection that
\* attached to that stream as k (ids are handed out, removed and never shared).
RepliesReachTheirClient ==
    \A s \in Streams, i \in Inputs :
        LET held == {k \in Ids : clients[s][k] = i} IN
        /\ held # {} => pc[i] \in Attached /\ mine[i] = s /\ held = {clientId[i]}
        /\ pc[i] \in {"attachMsg", "relay", "detach", "close"} /\ mine[i] = s
              => held = {clientId[i]}

\* Client id 0 stays the primary's ("0 is reserved for the primary AV client"): however often
\* the counter has wrapped, no input-only client is handed it, whose attach would take the
\* primary's replies over and whose detach would end them. (Other ids do collide after a
\* wrap: what RepliesReachTheirClient says needs as many ids as there are attachments.)
ClientZeroIsReserved == \A s \in Streams : clients[s][0] \notin Inputs

\* A primary that is younger than 10 s and still connected is never told to stop
\* by another handler ("a second tab/reload must never pre-empt a healthy primary").
HealthyPrimaryKept ==
    [][\A s \in Streams, p \in Primaries :
          (clients[s][0] = p /\ young[s] /\ ws[p] = "open" /\ active = s)
             => inbox'[s] # Append(inbox[s], Msg("Stop", 0))]_vars

\* A placeholder stream is only ever registered where no stream was active.
PlaceholderNeverReplaces ==
    [][(active' # active /\ active' # None /\ clients'[active'][0] = None)
          => active = None]_vars

\* The exit of an old streamer never unregisters a newer stream.
NewerStreamSurvives ==
    [][\A s \in Streams : (active = s /\ active' = None) => router'[s] # router[s]]_vars
-----------------------------------------------------------------------------
(* Liveness.                                                               *)

\* The streamer's IPC loop is over and its pipe is full: whoever sends to it waits until the
\* process ends, which stop() does not guarantee (module Streamer).
Clogged(s) == deaf[s] /\ child[s] # "exited" /\ Len(inbox[s]) = Cap

\* Nobody keeps the lifecycle mutex, so other browsers of the host are not locked out,
\* except a takeover that has yet to tell Stop to a streamer that was told before, does not
\* exit and has its pipe full (a third browser, after a takeover that failed to spawn).
LifecycleReleased ==
    \A c \in Conns : lifecycle = c ~> (lifecycle # c \/ (pc[c] = "tell" /\ Clogged(mine[c])))

\* Once the browser of a primary is gone its streamer is stopped and reaped, except behind
\* such a pipe: the handler then waits in send(Stop) and never gets to the deadline that
\* kills the child.
EndedSessionIsReaped ==
    \A p \in Primaries, s \in Streams :
        (pc[p] = "relay" /\ mine[p] = s /\ ws[p] = "closed")
            ~> (child[s] = "exited" \/ (pc[p] = "sendStop" /\ Clogged(s)))

\* A placeholder without clients is stopped and reaped, with the same exception: a takeover
\* may have told it to stop before, and its pipe may be full.
IdlePlaceholderEnds ==
    \A s \in Streams :
        keeper[s] = "poll" ~>
            \/ child[s] = "exited"
            \/ \E k \in Ids : clients[s][k] # None
            \/ keeper[s] = "sendStop" /\ Clogged(s)

\* An input client attached to a stream that has ended detaches from it.
EndedStreamIsLeft ==
    \A i \in Inputs, s \in Streams :
        (pc[i] = "relay" /\ mine[i] = s /\ router[s] = "done") ~> mine[i] # s

\* Every AttachInputClient reaches a streamer that handles it: the first message
\* a booting streamer finds is its Init.
FirstMessageIsInit ==
    \A s \in Streams : child[s] = "boot" /\ inbox[s] # <<>> => Head(inbox[s]).kind = "Init"
=============================================================================
