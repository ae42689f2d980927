------------------------------- MODULE Connection -------------------------------
(***************************************************************************)
(* Connection.c: LiStartConnection takes a connection through its stages,  *)
(* undoes them when one fails, and LiStopConnection takes it down again.   *)
(* The control stream (ControlStream.c) and the video stream               *)
(* (VideoStream.c) are started and stopped thread by thread; the other     *)
(* stages are one step each, audio is AudioStream.tla and input is         *)
(* InputStream.tla.                                                        *)
(*                                                                         *)
(* A start, an undo or a stop is a sequence of calls; the client's thread  *)
(* makes one call a step and waits in the calls that join a thread.        *)
(***************************************************************************)
EXTENDS ControlStream

VARIABLES
    app,      \* the client's thread: "start", "run", "stop", "done"
    stage,    \* stage
    todo,     \* the calls left of the stage, the undo or the stop
    alive,    \* streams that are initialized, and the video socket
    renderer  \* VideoCallbacks: "none", "setup", "started", "stopped", "cleaned"

appVars == <<app, stage, todo, alive, renderer>>
vars == <<controlVars, appVars>>

(***************************************************************************)
(* The calls of each stage.                                                *)
(***************************************************************************)
\* Threads are interrupted by calls in a row, and then joined in a row.
EndAll(ts) == <<<<"interrupt", ts>>, <<"join", ts>>>>
\* One thread after the other is interrupted and joined.
End(ts)  == [i \in 1 .. 2 * Len(ts) |->
                <<IF i % 2 = 1 THEN "interrupt" ELSE "join", {ts[(i + 1) \div 2]}>>]
When(c, s) == IF c THEN s ELSE <<>>

Decoders == IF plan.direct THEN {} ELSE {"vdec"}
HangUp == <<IF plan.tcp THEN <<"shutdown", "socket">> ELSE <<"set", "interrupted">>>>
Leave  == <<IF plan.tcp THEN <<"close", "socket">> ELSE <<"disconnect", "now">>>>

\* startControlStream
ControlStart ==
    <<<<"connect", "control">>, <<"create", "recv">>, <<"send", "startA">>, <<"send", "startB">>,
      <<"create", "loss">>, <<"create", "idr">>, <<"create", "async">>>>
    \o When(plan.rfi, <<<<"create", "rfi">>>>)
\* ... what it does when thread or message x fails: the threads it has created end
\* one after the other, then the connection is cut.
Created(x) ==
    CASE x \in {"startA", "startB", "loss"} -> <<"recv">>
      [] x = "idr"   -> <<"loss", "recv">>
      [] x = "async" -> <<"loss", "recv", "idr">>
      [] x = "rfi"   -> <<"loss", "recv", "idr", "async">>
      [] OTHER       -> <<>>
\* Mutant: when the invalidation thread cannot be created, the event is not set.
WakesAsyncOnly(x) ==
    CASE x = "async" -> <<<<"set", "event">>>> [] x = "rfi" -> <<<<"shutdown", "async">>>> [] OTHER -> <<>>
Wakes(x) ==
    CASE x = "async" -> <<<<"set", "event">>>>
      [] x = "rfi"   -> <<<<"set", "event">>, <<"shutdown", "async">>>>
      [] OTHER       -> <<>>
ControlUndo(x) ==
    <<<<"set", "stopping">>>> \o Wakes(x) \o When(Created(x) # <<>>, HangUp) \o End(Created(x))
    \o When(x # "control", Leave)

\* Mutant: the invalidation thread is not joined.
ControlStopEarly ==
    <<<<"set", "stopping">>, <<"shutdown", "rfi">>, <<"drain", "async">>, <<"set", "event">>>>
    \o When(plan.tcp, HangUp)
    \o EndAll({"loss", "idr", "recv", "async"})
    \o When(~plan.tcp, <<<<"disconnect", "gracefully">>>>) \o When(plan.tcp, Leave)
\* stopControlStream
ControlStop ==
    <<<<"set", "stopping">>, <<"shutdown", "rfi">>, <<"drain", "async">>, <<"set", "event">>>>
    \o When(plan.tcp, HangUp)
    \o EndAll({"loss", "idr", "recv", "async"})
    \o When(plan.rfi, End(<<"rfi">>))
    \o When(~plan.tcp, <<<<"disconnect", "gracefully">>>>) \o When(plan.tcp, Leave)

\* startVideoStream; generation 3 opens a socket that starts the video
VideoStart ==
    <<<<"renderer", "setup">>, <<"bind", "video">>, <<"renderer", "started">>, <<"create", "vrecv">>>>
    \o When(~plan.direct, <<<<"create", "vdec">>>>) \o When(plan.tcp, <<<<"connect", "video">>>>)
    \o <<<<"create", "vping">>>>
VideoRelease == <<<<"close", "video">>, <<"renderer", "cleaned">>>>
VideoUndo(x) ==
    CASE x = "setup" -> <<>>
      [] x = "bind"  -> <<<<"renderer", "cleaned">>>>
      [] x = "vrecv" -> <<<<"renderer", "stopped">>>> \o VideoRelease
      [] x = "vdec"  -> <<<<"renderer", "stopped">>>> \o End(<<"vrecv">>) \o VideoRelease
      [] OTHER -> <<<<"renderer", "stopped">>, <<"stop", "depacketizer">>>>
                  \o EndAll({"vrecv"} \cup Decoders) \o VideoRelease
\* stopVideoStream
VideoStop ==
    <<<<"renderer", "stopped">>, <<"stop", "depacketizer">>>>
    \o EndAll({"vping", "vrecv"} \cup Decoders) \o VideoRelease

\* LiStartConnection, stage by stage
StartOf ==
    <<<<<<"open", "platform">>>>, <<<<"resolve", "name">>>>, <<<<"open", "audio">>>>,
      <<<<"handshake", "RTSP">>>>, <<<<"open", "control">>>>, <<<<"open", "video">>>>,
      <<<<"open", "input">>>>, ControlStart, VideoStart, <<<<"open", "playback">>>>,
      <<<<"create", "input">>>>>>
\* LiStopConnection undoes every stage from the one that was reached.
InputStop == <<<<"drain", "input">>, <<"join", {"input"}>>>>
StopFrom(k) ==
    <<<<"set", "terminated">>, <<"set", "interrupted">>>>
    \o When(k >= 11, InputStop) \o When(k >= 10, <<<<"free", "playback">>>>)
    \o When(k >= 9, VideoStop) \o When(k >= 8, ControlStop)
    \o When(k >= 7, <<<<"free", "input">>>>) \o When(k >= 6, <<<<"free", "video">>>>)
    \o When(k >= 5, <<<<"free", "control">>>>) \o When(k >= 3, <<<<"free", "audio">>>>)
    \o When(k >= 1, <<<<"free", "platform">>>>)

\* What can fail, and what the stage itself undoes then.
Fallible == {"create", "send", "connect", "bind", "resolve", "handshake"}
UndoOf(op) ==
    CASE op[2] \in {"recv", "startA", "startB", "loss", "idr", "async", "rfi", "control"} ->
            ControlUndo(op[2])
      [] op[2] \in {"vrecv", "vdec", "vping"} -> VideoUndo(op[2])
      [] op = <<"bind", "video">> -> VideoUndo("bind")
      [] op = <<"connect", "video">> -> VideoUndo("first")
      [] OTHER -> <<>>
CanFail(op) == op[1] \in Fallible \/ op \in {<<"renderer", "setup">>, <<"open", "platform">>,
                                             <<"open", "audio">>, <<"open", "playback">>,
                                             <<"open", "control">>}

--------------------------------------------------------------------------------
Init ==
    /\ ControlInit
    /\ app = "start" /\ stage = 0 /\ todo = StartOf[1] /\ alive = {} /\ renderer = "none"

Op == Head(todo)
Pending == app \in {"start", "stop"} /\ todo # <<>>
Done == todo' = Tail(todo)
\* A stage that fails is undone, and LiStopConnection undoes the ones before it.
Fails == app' = "stop" /\ todo' = UndoOf(Op) \o StopFrom(stage) /\ UNCHANGED stage

StageComplete ==
    /\ app = "start" /\ todo = <<>>
    /\ stage' = stage + 1
    /\ IF stage' = Len(StartOf) THEN app' = "run" /\ UNCHANGED todo
       ELSE todo' = StartOf[stage' + 1] /\ UNCHANGED app
    /\ UNCHANGED <<controlVars, alive, renderer>>

StageFails ==
    /\ Pending /\ app = "start" /\ plan.fails /\ CanFail(Op)
    /\ Fails
    /\ UNCHANGED <<controlVars, alive, renderer>>

\* The calls that only set something up or take it down.
Open ==
    /\ Pending /\ Op[1] \in {"open", "resolve", "handshake", "bind", "free"}
    /\ alive' = CASE Op[1] \in {"open", "bind"} -> alive \cup {IF Op[1] = "bind" THEN "socket" ELSE Op[2]}
                  [] Op[1] = "free" -> alive \ {Op[2]}
                  [] OTHER -> alive
    /\ Done /\ UNCHANGED <<controlVars, app, stage, renderer>>
Render ==
    /\ Pending /\ Op[1] = "renderer"
    /\ renderer' = Op[2] /\ Done
    /\ UNCHANGED <<controlVars, app, stage, alive>>

\* enet_host_connect and the wait for its event, or connectTcpSocket; an
\* interruption is seen in the wait.
Connect ==
    /\ Pending /\ Op[1] = "connect"
    /\ IF Op[2] = "control" /\ ~plan.tcp /\ interrupted THEN Fails /\ UNCHANGED link
       ELSE /\ Done /\ UNCHANGED <<app, stage>>
            /\ link' = CASE Op = <<"connect", "video">> -> link
                         [] Op # <<"connect", "video">> /\ plan.tcp -> [link EXCEPT !.sock = "open"]
                         [] OTHER -> [link EXCEPT !.peer = "connected", !.intercept = TRUE,
                                                  !.wire = plan.msgs]
    /\ UNCHANGED <<plan, at, why, told, stopping, reporting, host, queues, got, showing, hdr, seen,
                   alive, renderer>>

FirstPlace(t) == CASE t = "recv" -> "poll" [] t = "loss" -> "send" [] OTHER -> "wait"
Create ==
    /\ Pending /\ Op[1] = "create"
    /\ Goes(Op[2], FirstPlace(Op[2])) /\ Done
    /\ UNCHANGED <<plan, why, told, stopping, reporting, link, host, queues, got, showing, hdr, seen,
                   app, stage, alive, renderer>>

\* START A and START B by the client's own thread
SendStart ==
    /\ Pending /\ Op[1] = "send"
    /\ \E r \in Sends("app") :
          /\ link' = r.link
          /\ IF r.to = "failed" THEN Fails
             ELSE todo' = (CASE r.to = "reply"  -> <<<<"reply", Op[2]>>>> \o Tail(todo)
                             [] r.to = "resend" -> <<<<"resend", Op[2]>>>> \o Tail(todo)
                             [] OTHER           -> Tail(todo))
                  /\ UNCHANGED <<app, stage>>
    /\ UNCHANGED <<plan, at, why, told, stopping, reporting, host, queues, got, showing, hdr, seen,
                   alive, renderer>>
FinishStart ==
    /\ Pending /\ Op[1] \in {"reply", "resend"}
    /\ \E r \in IF Op[1] = "reply" THEN Replies ELSE Resends :
          /\ link' = r.link
          /\ IF r.to = "failed" THEN Fails ELSE Done /\ UNCHANGED <<app, stage>>
    /\ UNCHANGED <<plan, at, why, told, stopping, reporting, host, queues, got, showing, hdr, seen,
                   alive, renderer>>

\* Flags, events and queues of the threads that are to end
Signal ==
    /\ Pending /\ Op[1] \in {"set", "shutdown", "drain", "interrupt", "stop"}
    /\ stopping' = (stopping \/ Op = <<"set", "stopping">>)
    /\ terminated' = (terminated \/ Op = <<"set", "terminated">>)
    /\ interrupted' = (interrupted \/ Op = <<"set", "interrupted">>)
    /\ event' = (event \/ Op = <<"set", "event">>)
    /\ rfiQ' = IF Op = <<"shutdown", "rfi">> THEN LbqShutdown(rfiQ) ELSE rfiQ
    /\ asyncQ' = CASE Op = <<"shutdown", "async">> -> LbqShutdown(asyncQ)
                   [] Op = <<"drain", "async">>    -> LbqDrain(asyncQ)
                   [] OTHER                        -> asyncQ
    /\ link' = IF Op = <<"shutdown", "socket">> THEN [link EXCEPT !.sock = "shutdown"] ELSE link
    /\ told' = CASE Op[1] = "interrupt" -> told \cup Op[2]
                 [] Op[1] = "stop" \/ Op = <<"drain", "input">> -> told \cup {Op[2]}
                 [] OTHER -> told
    /\ Done
    /\ UNCHANGED <<plan, at, why, code, alarms, heard, host, got, showing, hdr, seen, app, stage, alive, renderer>>

JoinThread ==
    /\ Pending /\ Op[1] = "join" /\ \A t \in Op[2] : ~Alive(t)
    /\ Done
    /\ UNCHANGED <<controlVars, app, stage, alive, renderer>>

WaitForThread ==
    /\ Pending /\ Op[1] = "join" /\ \E t \in Op[2] : Alive(t)
    /\ UNCHANGED vars

\* enet_peer_disconnect_now or gracefullyDisconnectEnetPeer and
\* enet_host_destroy; closeSocket
Disconnect ==
    /\ Pending /\ Op[1] \in {"disconnect", "close"}
    /\ link' = IF Op = <<"close", "video">> THEN link ELSE [NoLink EXCEPT !.lost = link.lost]
    /\ alive' = IF Op = <<"close", "video">> THEN alive \ {"socket"} ELSE alive
    /\ Done
    /\ UNCHANGED <<plan, at, why, told, stopping, reporting, host, queues, got, showing, hdr, seen,
                   app, stage, renderer>>

Stopped ==
    /\ app = "stop" /\ todo = <<>>
    /\ app' = "done" /\ stage' = 0
    /\ UNCHANGED <<controlVars, todo, alive, renderer>>

\* The client stops a connection that has started, or interrupts one that starts.
LiStopConnection ==
    /\ app = "run" /\ (plan.stops \/ heard > 0)
    /\ app' = "stop" /\ todo' = StopFrom(stage)
    /\ UNCHANGED <<controlVars, stage, alive, renderer>>
LiInterruptConnection ==
    /\ app = "start" /\ plan.interrupts
    /\ interrupted' = TRUE
    /\ UNCHANGED <<plan, at, why, told, stopping, terminated, code, alarms, heard, link, host, queues,
                   got, showing, hdr, seen, appVars>>

Progress ==
    \/ StageComplete \/ StageFails \/ Open \/ Render \/ Connect \/ Create \/ SendStart
    \/ FinishStart \/ Signal \/ JoinThread \/ Disconnect \/ Stopped
Next ==
    \/ Progress \/ WaitForThread \/ LiStopConnection \/ LiInterruptConnection
    \/ (CallClient \/ Environment \/ \E t \in Threads : Thread(t)) /\ UNCHANGED appVars
    \/ app \in {"run", "done"} /\ UNCHANGED vars

\* Every thread that can run does, the client finishes what it has begun, and
\* silence is noticed.
Fairness ==
    /\ WF_vars(Progress) /\ \A t \in Threads : WF_vars(Thread(t) /\ UNCHANGED appVars)
    /\ WF_vars((CallClient \/ HostGivesUp \/ PeerExpires) /\ UNCHANGED appVars)
Spec == Init /\ [][Next]_vars /\ Fairness

--------------------------------------------------------------------------------
Linked == link.peer # "null" \/ link.sock # "invalid"
\* A thread never outlives what it uses: enetMutex's peer and host or the TCP
\* socket, the control stream's queues and event, the video socket, the decoder.
\* Wherever a start fails and whenever the client stops, what a thread may
\* still touch is released only after the thread was joined.
NothingOutlivesWhatItUses ==
    /\ \A t \in {"recv", "loss", "idr", "rfi", "input"} : Alive(t) => Linked
    /\ \A t \in Threads \ {"vping"} : Alive(t) => "control" \in alive
    /\ \A t \in {"vrecv", "vping"} : Alive(t) => "socket" \in alive
    /\ \A t \in {"vrecv", "vdec"} : Alive(t) => "video" \in alive /\ renderer \in {"started", "stopped"}
    /\ Alive("input") => "input" \in alive

\* LiStartConnection and LiStopConnection return: whatever fails, is lost or
\* interrupted, no thread that has to be joined keeps waiting for an event, a
\* queue, an answer or a datagram.
CallsReturn == app \in {"start", "stop"} ~> app \in {"run", "done"}

\* When the host ends the stream, says goodbye or falls silent, the client of a
\* started connection is told, unless it stops the connection itself.
LinkLost == app = "run" /\ ~interrupted /\
            (host # "here" \/ link.peer = "disconnected" \/ got.kind \in {"ended", "failed"})
TerminationIsHeard == LinkLost ~> heard > 0 \/ app # "run"

\* What the host sent before it said goodbye is dispatched before the goodbye
\* is (the purpose of ignoreDisconnectIntercept), unless the DISCONNECT came in
\* one datagram with other commands, which the intercept does not recognize.
MessagesOutliveDisconnect == link.lost => plan.bundled
\* ... as the comment on ignoreDisconnectIntercept states it, without that exception
PendingReceivesComeFirst == ~link.lost

\* A callback is made for every message that was queued or for a newer one of
\* the same kind for the same controller; a stop drains the queue first.
CallbacksSettle ==
    at["async"] = "ended" /\ ~asyncQ.shutdown => \A s \in DOMAIN taken : shown[s] >= taken[s]
================================================================================
