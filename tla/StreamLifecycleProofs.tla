------------------------ MODULE StreamLifecycleProofs ------------------------
EXTENDS StreamLifecycle, FiniteSetTheorems, TLAPS

(***************************************************************************)
(* What the stream lifecycle of api/stream.rs guarantees for any number of *)
(* sockets, streams and client ids.                                        *)
(*                                                                         *)
(* The safety properties of StreamLifecycle are not inductive: whether a   *)
(* Stop may follow an Init, for example, depends on who is entitled to     *)
(* send either.  The argument is one of ownership.  A spawned process      *)
(* belongs to exactly one task, the handler that spawned it (Owns) or the  *)
(* supervisor it was handed to (keeper); the owner sends Init before       *)
(* anything else, and the only other sender of Stop, a takeover, looks for *)
(* its victim under stream_lifecycle, when no Init can be pending.  IInv   *)
(* collects those facts; each has a lemma that says a step preserves it.   *)
(***************************************************************************)

\* Where a handler's local stream handle is in use.
HasStream == {"tell", "init", "relay", "sendStop", "reap", "pinit", "attach"} \cup Attached

\* A handle is taken only of a stream that was spawned.
MineBorn ==
    \A c \in Conns : pc[c] \in HasStream => mine[c] \in Streams /\ child[mine[c]] # "unborn"

\* active_stream only ever holds spawned streams.
ActiveBorn == active # None => child[active] # "unborn"

\* Nobody writes to, or supervises, a process before its spawn.
UnbornIdle == \A s \in Streams : child[s] = "unborn" => inbox[s] = <<>> /\ keeper[s] = "off"

\* Handler c is the task that must stop and reap the process of s.
Owns(c, s) ==
    /\ mine[c] = s
    /\ \/ pc[c] \in {"init", "sendStop", "reap", "pinit"}
       \/ pc[c] = "relay" /\ c \in Primaries

\* No process has two owning handlers.
SoleOwner == \A c, d \in Conns, s \in Streams : Owns(c, s) /\ Owns(d, s) => c = d

\* A process is handed to a supervisor only by the handler that owned it.
OwnerNotKept == \A c \in Conns, s \in Streams : Owns(c, s) => keeper[s] = "off"

\* A supervisor that still polls has not seen EMPTY_POLLS_BEFORE_STOP empty polls.
KeeperCounts ==
    \A s \in Streams : keeper[s] \in {"off", "poll"} => polls[s] < EmptyPollsBeforeStop

\* The second look under the mutex is still true when the placeholder is spawned.
PlaceholderWanted == \A i \in Inputs : pc[i] = "pspawn" => active = None

\* The next message of a process that was spawned but not yet told to start is on
\* its way, or its spawner is about to send it.
HasInit(s) == \E n \in DOMAIN inbox[s] : inbox[s][n].kind = "Init"
InitPending(s) == \E c \in Conns : Owns(c, s) /\ pc[c] \in {"init", "pinit"}
BootHasInit == \A s \in Streams : child[s] = "boot" => HasInit(s) \/ InitPending(s)

\* A takeover that will send Stop has found the stream past its debounce age.
StopIsDue ==
    \A c \in Conns :
        /\ pc[c] = "stop" /\ active # None => ~YoungPrimary(active)
        /\ pc[c] = "tell" => ~YoungPrimary(mine[c])

\* A primary handler asks its own stream to stop only once its socket is gone.
ClosedFirst == \A p \in Primaries : pc[p] = "sendStop" => ws[p] = "closed"

\* client 0 is the primary that spawned the stream, and no supervised stream has one.
ClientZero ==
    \A s \in Streams :
        /\ clients[s][0] \notin Inputs
        /\ keeper[s] # "off" => clients[s][0] = None
        /\ \A c \in Conns : Owns(c, s) => clients[s][0] \in {None, c}

\* Input i has an id of stream mine[i] and has not given it back.
HoldsId(i) == pc[i] \in {"attachMsg", "relay", "detach", "close"}

\* Input i may still attach to stream s: it has found s, or it has not been
\* attached to s and s is, or may yet become, the host's active stream.
MayJoin(i, s) ==
    \/ pc[i] = "attach" /\ mine[i] = s
    \/ /\ child[s] = "unborn" \/ active = s
       /\ pc[i] \notin {"close", "closeMsg", "done"}
       /\ ~(mine[i] = s /\ pc[i] \in Attached)
Joiners(s) == {i \in Inputs : MayJoin(i, s)}

\* Who leaves a stream to look for the next one leaves it for good.
LeftIsOver == \A i \in Inputs : pc[i] \in {"detach", "detachMsg"} => active # mine[i]

\* There is an id left for everyone who may still attach to s.
IdsSuffice ==
    \A s \in Streams : Joiners(s) # {} => nextId[s] + Cardinality(Joiners(s)) <= MaxId + 1

\* As long as somebody may attach, the ids from next_client_id on are free.
IdsAreFresh ==
    \A s \in Streams, k \in Ids :
        Joiners(s) # {} /\ k >= nextId[s] => clients[s][k] = None

\* The entries of ActiveStream.clients and what the handlers remember agree.
IdsAreHeld ==
    /\ \A s \in Streams, k \in Ids, i \in Inputs :
          clients[s][k] = i => HoldsId(i) /\ mine[i] = s /\ clientId[i] = k
    /\ \A i \in Inputs : HoldsId(i) => clients[mine[i]][clientId[i]] = i

\* A step that leaves the ids, and who holds which, alone.
Quiet ==
    /\ nextId' = nextId /\ clientId' = clientId
    /\ \A s \in Streams, k \in Ids \ {0} : clients'[s][k] = clients[s][k]
    /\ \A i \in Inputs : (HoldsId(i)' <=> HoldsId(i)) /\ (HoldsId(i) => mine'[i] = mine[i])

Kinds == {"Init", "WebSocket", "Attach", "Detach", "Stop"}

\* Every step keeps the mutex and the guarded block together.
LEMMA LifecycleExclusiveStep ==
  ASSUME TypeOK, LifecycleExclusive, [Next]_vars
  PROVE  LifecycleExclusive'
<1>0. /\ pc \in [Conns -> Location]
      /\ lifecycle \in Conns \cup {None}
  BY DEF TypeOK
<1>1. CASE \E p \in Primaries : Primary(p)
  <2> PICK p \in Primaries : Primary(p)
    BY <1>1
  <2>1. CASE AdmitPrimary(p) \/ RefusePrimary(p) \/ TakeLifecycle(p) \/ RejectDuplicate(p) \/
    MayReplace(p)
    BY <2>1, <1>0, LifecycleAssumption DEF LifecycleExclusive, LifecycleSection, Conns,
      AdmitPrimary, RefusePrimary, TakeLifecycle, RejectDuplicate, MayReplace, Goto, hostVars,
      streamVars, YoungPrimary, Deliver, Msg, Spawn, SendReplace, Reap
  <2>2. CASE NothingToStop(p) \/ CaptureExisting(p) \/ StopExisting(p) \/ StopWaitEnds(p)
    BY <2>2, <1>0, LifecycleAssumption DEF LifecycleExclusive, LifecycleSection, Conns,
      NothingToStop, CaptureExisting, StopExisting, StopWaitEnds, Goto, hostVars, streamVars,
      YoungPrimary, Deliver, Msg, Spawn, SendReplace, Reap
  <2>3. CASE (\E s \in Streams : SpawnPrimary(p, s)) \/ SpawnPrimaryFails(p) \/ SendInit(p)
    BY <2>3, <1>0, LifecycleAssumption DEF LifecycleExclusive, LifecycleSection, Conns,
      SpawnPrimary, SpawnPrimaryFails, SendInit, Goto, hostVars, streamVars, YoungPrimary, Deliver,
      Msg, Spawn, SendReplace, Reap
  <2>4. CASE RelayEnds(p) \/ ChildEndsFirst(p) \/ SendStop(p) \/ ReapPrimary(p)
    BY <2>4, <1>0, LifecycleAssumption DEF LifecycleExclusive, LifecycleSection, Conns, RelayEnds,
      ChildEndsFirst, SendStop, ReapPrimary, Goto, hostVars, streamVars, YoungPrimary, Deliver, Msg,
      Spawn, SendReplace, Reap
  <2> QED BY <2>1, <2>2, <2>3, <2>4 DEF Primary
<1>2. CASE \E i \in Inputs : Input(i)
  <2> PICK i \in Inputs : Input(i)
    BY <1>2
  <2>1. CASE AdmitInput(i) \/ RefuseInput(i) \/ LookForStream(i) \/ TakeLifecycleForPlaceholder(i)
    \/ NoPlaceholder(i) \/ GameIsRunning(i)
    BY <2>1, <1>0, LifecycleAssumption DEF LifecycleExclusive, LifecycleSection, Conns, AdmitInput,
      RefuseInput, LookForStream, TakeLifecycleForPlaceholder, NoPlaceholder, GameIsRunning, Goto,
      streamVars, hostVars, Spawn, SendReplace, Deliver, Msg
  <2>2. CASE (\E s \in Streams : SpawnPlaceholder(i, s)) \/ SpawnPlaceholderFails(i) \/
    SendPlaceholderInit(i)
    BY <2>2, <1>0, LifecycleAssumption DEF LifecycleExclusive, LifecycleSection, Conns,
      SpawnPlaceholder, SpawnPlaceholderFails, SendPlaceholderInit, Goto, streamVars, hostVars,
      Spawn, SendReplace, Deliver, Msg
  <2>3. CASE FindStream(i) \/ AnnounceWait(i) \/ WatchChanges(i) \/ WaitingSocketEnds(i) \/
    StreamChanges(i) \/ InputSocketEnds(i)
    BY <2>3, <1>0, LifecycleAssumption DEF LifecycleExclusive, LifecycleSection, Conns, FindStream,
      AnnounceWait, AnnounceWait, WatchChanges, WaitingSocketEnds, StreamChanges, InputSocketEnds,
      Goto, streamVars, hostVars, Spawn, SendReplace, Deliver, Msg
  <2>4. CASE Attach(i) \/ SendAttach(i) \/ Detach(i) \/ SendDetach(i)
    BY <2>4, <1>0, LifecycleAssumption DEF LifecycleExclusive, LifecycleSection, Conns, Attach,
      SendAttach, Detach, SendDetach, Goto, streamVars, hostVars, Spawn, SendReplace, Deliver, Msg
  <2> QED BY <2>1, <2>2, <2>3, <2>4 DEF Input
<1>3. CASE \E t \in Streams : Router(t) \/ Keeper(t) \/ Streamer(t) \/ TenSecondsPass(t)
  <2> PICK t \in Streams : Router(t) \/ Keeper(t) \/ Streamer(t) \/ TenSecondsPass(t)
    BY <1>3
  <2>1. CASE RouterEnds(t) \/ RouterClears(t) \/ RouterCloses(t)
    BY <2>1, <1>0, LifecycleAssumption DEF LifecycleExclusive, LifecycleSection, Conns, RouterEnds,
      RouterClears, RouterCloses, hostVars, SendReplace, Deliver, Msg, Reap
  <2>2. CASE KeeperPolls(t) \/ KeeperSendsStop(t) \/ KeeperReaps(t) \/ TenSecondsPass(t)
    BY <2>2, <1>0, LifecycleAssumption DEF LifecycleExclusive, LifecycleSection, Conns, KeeperPolls,
      KeeperSendsStop, KeeperReaps, TenSecondsPass, hostVars, SendReplace, Deliver, Msg, Reap
  <2>3. CASE StreamerBoots(t) \/ StreamerReads(t) \/ StreamerGivesUp(t)
    BY <2>3, <1>0, LifecycleAssumption DEF LifecycleExclusive, LifecycleSection, Conns,
      StreamerBoots, StreamerReads, StreamerGivesUp, hostVars, SendReplace, Deliver, Msg, Reap
  <2>4. CASE StreamerSaysStop(t) \/ StreamerExits(t) \/ StreamerPanics(t)
    BY <2>4, <1>0, LifecycleAssumption DEF LifecycleExclusive, LifecycleSection, Conns,
      StreamerSaysStop, StreamerExits, StreamerPanics, hostVars, SendReplace, Deliver, Msg, Reap
  <2> QED BY <2>1, <2>2, <2>3, <2>4 DEF Router, Keeper, Streamer
<1>4. CASE \E c \in Conns : RelayMessage(c) \/ BrowserCloses(c)
  BY <1>4, <1>0, LifecycleAssumption DEF LifecycleExclusive, LifecycleSection, Conns, RelayMessage,
    BrowserCloses, Deliver, Msg, hostVars, streamVars
<1>5. CASE UNCHANGED vars
  BY <1>5, <1>0 DEF LifecycleExclusive, LifecycleSection, Conns, vars
<1> QED BY <1>1, <1>2, <1>3, <1>4, <1>5 DEF Next

\* No step leaves a handler with a stream that was never spawned.
LEMMA MineBornStep ==
  ASSUME TypeOK, MineBorn, ActiveBorn, [Next]_vars
  PROVE  MineBorn'
<1>0. /\ active \in Streams \cup {None}
      /\ pc \in [Conns -> Location]
      /\ mine \in [Conns -> Streams \cup {None}]
      /\ child \in [Streams -> ChildState]
  BY DEF TypeOK
<1>1. CASE \E p \in Primaries : Primary(p)
  <2> PICK p \in Primaries : Primary(p)
    BY <1>1
  <2>1. CASE AdmitPrimary(p) \/ RefusePrimary(p) \/ TakeLifecycle(p) \/ RejectDuplicate(p) \/
    MayReplace(p)
    BY <2>1, <1>0, LifecycleAssumption DEF MineBorn, HasStream, Attached, Conns, AdmitPrimary,
      RefusePrimary, TakeLifecycle, RejectDuplicate, MayReplace, Goto, hostVars, streamVars,
      YoungPrimary, Deliver, Msg, Spawn, SendReplace, Reap
  <2>2. CASE NothingToStop(p) \/ CaptureExisting(p) \/ StopExisting(p) \/ StopWaitEnds(p)
    BY <2>2, <1>0, LifecycleAssumption DEF MineBorn, HasStream, Attached, ActiveBorn, Conns,
      NothingToStop, CaptureExisting, StopExisting, StopWaitEnds, Goto, hostVars, streamVars,
      YoungPrimary, Deliver, Msg, Spawn, SendReplace, Reap
  <2>3. CASE (\E s \in Streams : SpawnPrimary(p, s)) \/ SpawnPrimaryFails(p) \/ SendInit(p)
    BY <2>3, <1>0, LifecycleAssumption DEF MineBorn, HasStream, Attached, Conns, SpawnPrimary,
      SpawnPrimaryFails, SendInit, Goto, hostVars, streamVars, YoungPrimary, Deliver, Msg, Spawn,
      SendReplace, Reap
  <2>4. CASE RelayEnds(p) \/ ChildEndsFirst(p) \/ SendStop(p) \/ ReapPrimary(p)
    BY <2>4, <1>0, LifecycleAssumption DEF MineBorn, HasStream, Attached, Conns, RelayEnds,
      ChildEndsFirst, SendStop, ReapPrimary, Goto, hostVars, streamVars, YoungPrimary, Deliver, Msg,
      Spawn, SendReplace, Reap
  <2> QED BY <2>1, <2>2, <2>3, <2>4 DEF Primary
<1>2. CASE \E i \in Inputs : Input(i)
  <2> PICK i \in Inputs : Input(i)
    BY <1>2
  <2>1. CASE AdmitInput(i) \/ RefuseInput(i) \/ LookForStream(i) \/ TakeLifecycleForPlaceholder(i)
    \/ NoPlaceholder(i) \/ GameIsRunning(i)
    BY <2>1, <1>0, LifecycleAssumption DEF MineBorn, HasStream, Attached, Conns, ActiveBorn,
      AdmitInput, RefuseInput, LookForStream, TakeLifecycleForPlaceholder, NoPlaceholder,
      GameIsRunning, Goto, streamVars, hostVars, Spawn, SendReplace, Deliver, Msg
  <2>2. CASE (\E s \in Streams : SpawnPlaceholder(i, s)) \/ SpawnPlaceholderFails(i) \/
    SendPlaceholderInit(i)
    BY <2>2, <1>0, LifecycleAssumption DEF MineBorn, HasStream, Attached, Conns, ActiveBorn,
      SpawnPlaceholder, SpawnPlaceholderFails, SendPlaceholderInit, Goto, streamVars, hostVars,
      Spawn, SendReplace, Deliver, Msg
  <2>3. CASE FindStream(i) \/ AnnounceWait(i) \/ WatchChanges(i) \/ WaitingSocketEnds(i) \/
    StreamChanges(i) \/ InputSocketEnds(i)
    BY <2>3, <1>0, LifecycleAssumption DEF MineBorn, HasStream, Attached, Conns, ActiveBorn,
      FindStream, AnnounceWait, WatchChanges, WaitingSocketEnds, StreamChanges, InputSocketEnds,
      Goto, streamVars, hostVars, Spawn, SendReplace, Deliver, Msg
  <2>4. CASE Attach(i) \/ SendAttach(i) \/ Detach(i) \/ SendDetach(i)
    BY <2>4, <1>0, LifecycleAssumption DEF MineBorn, HasStream, Attached, Conns, ActiveBorn, Attach,
      SendAttach, Detach, SendDetach, Goto, streamVars, hostVars, Spawn, SendReplace, Deliver, Msg
  <2> QED BY <2>1, <2>2, <2>3, <2>4 DEF Input
<1>3. CASE \E t \in Streams : Router(t) \/ Keeper(t) \/ Streamer(t) \/ TenSecondsPass(t)
  <2> PICK t \in Streams : Router(t) \/ Keeper(t) \/ Streamer(t) \/ TenSecondsPass(t)
    BY <1>3
  <2>1. CASE RouterEnds(t) \/ RouterClears(t) \/ RouterCloses(t)
    BY <2>1, <1>0, LifecycleAssumption DEF MineBorn, HasStream, Attached, Conns, RouterEnds,
      RouterClears, RouterCloses, hostVars, SendReplace, Deliver, Msg, Reap
  <2>2. CASE KeeperPolls(t) \/ KeeperSendsStop(t) \/ KeeperReaps(t) \/ TenSecondsPass(t)
    BY <2>2, <1>0, LifecycleAssumption DEF MineBorn, HasStream, Attached, Conns, KeeperPolls,
      KeeperSendsStop, KeeperReaps, TenSecondsPass, hostVars, SendReplace, Deliver, Msg, Reap
  <2>3. CASE StreamerBoots(t) \/ StreamerReads(t) \/ StreamerGivesUp(t)
    BY <2>3, <1>0, LifecycleAssumption DEF MineBorn, HasStream, Attached, Conns, StreamerBoots,
      StreamerReads, StreamerGivesUp, hostVars, SendReplace, Deliver, Msg, Reap
  <2>4. CASE StreamerSaysStop(t) \/ StreamerExits(t) \/ StreamerPanics(t)
    BY <2>4, <1>0, LifecycleAssumption DEF MineBorn, HasStream, Attached, Conns, StreamerSaysStop,
      StreamerExits, StreamerPanics, hostVars, SendReplace, Deliver, Msg, Reap
  <2> QED BY <2>1, <2>2, <2>3, <2>4 DEF Router, Keeper, Streamer
<1>4. CASE \E c \in Conns : RelayMessage(c) \/ BrowserCloses(c)
  BY <1>4, <1>0, LifecycleAssumption DEF MineBorn, HasStream, Attached, Conns, RelayMessage,
    BrowserCloses, Deliver, Msg, hostVars, streamVars
<1>5. CASE UNCHANGED vars
  BY <1>5, <1>0 DEF MineBorn, HasStream, Attached, Conns, vars
<1> QED BY <1>1, <1>2, <1>3, <1>4, <1>5 DEF Next

\* Only a spawned streamer is registered.
LEMMA ActiveBornStep ==
  ASSUME TypeOK, ActiveBorn, [Next]_vars
  PROVE  ActiveBorn'
<1>0. /\ active \in Streams \cup {None}
      /\ mine \in [Conns -> Streams \cup {None}]
      /\ child \in [Streams -> ChildState]
  BY DEF TypeOK
<1>1. CASE \E p \in Primaries : Primary(p)
  <2> PICK p \in Primaries : Primary(p)
    BY <1>1
  <2>1. CASE AdmitPrimary(p) \/ RefusePrimary(p) \/ TakeLifecycle(p) \/ RejectDuplicate(p) \/
    MayReplace(p)
    BY <2>1, <1>0, LifecycleAssumption DEF ActiveBorn, AdmitPrimary, RefusePrimary, TakeLifecycle,
      RejectDuplicate, MayReplace, Goto, hostVars, streamVars, YoungPrimary, Deliver, Msg, Spawn,
      SendReplace, Reap
  <2>2. CASE NothingToStop(p) \/ CaptureExisting(p) \/ StopExisting(p) \/ StopWaitEnds(p)
    BY <2>2, <1>0, LifecycleAssumption DEF ActiveBorn, NothingToStop, CaptureExisting, StopExisting,
      StopWaitEnds, Goto, hostVars, streamVars, YoungPrimary, Deliver, Msg, Spawn, SendReplace, Reap
  <2>3. CASE (\E s \in Streams : SpawnPrimary(p, s)) \/ SpawnPrimaryFails(p) \/ SendInit(p)
    BY <2>3, <1>0, LifecycleAssumption DEF ActiveBorn, SpawnPrimary, SpawnPrimaryFails, SendInit,
      Goto, hostVars, streamVars, YoungPrimary, Deliver, Msg, Spawn, SendReplace, Reap
  <2>4. CASE RelayEnds(p) \/ ChildEndsFirst(p) \/ SendStop(p) \/ ReapPrimary(p)
    BY <2>4, <1>0, LifecycleAssumption DEF ActiveBorn, RelayEnds, ChildEndsFirst, SendStop,
      ReapPrimary, Goto, hostVars, streamVars, YoungPrimary, Deliver, Msg, Spawn, SendReplace, Reap
  <2> QED BY <2>1, <2>2, <2>3, <2>4 DEF Primary
<1>2. CASE \E i \in Inputs : Input(i)
  <2> PICK i \in Inputs : Input(i)
    BY <1>2
  <2>1. CASE AdmitInput(i) \/ RefuseInput(i) \/ LookForStream(i) \/ TakeLifecycleForPlaceholder(i)
    \/ NoPlaceholder(i) \/ GameIsRunning(i)
    BY <2>1, <1>0, LifecycleAssumption DEF ActiveBorn, AdmitInput, RefuseInput, LookForStream,
      TakeLifecycleForPlaceholder, NoPlaceholder, GameIsRunning, Goto, streamVars, hostVars, Spawn,
      SendReplace, Deliver, Msg
  <2>2. CASE (\E s \in Streams : SpawnPlaceholder(i, s)) \/ SpawnPlaceholderFails(i) \/
    SendPlaceholderInit(i)
    BY <2>2, <1>0, LifecycleAssumption DEF ActiveBorn, SpawnPlaceholder, SpawnPlaceholderFails,
      SendPlaceholderInit, Goto, streamVars, hostVars, Spawn, SendReplace, Deliver, Msg
  <2>3. CASE FindStream(i) \/ AnnounceWait(i) \/ WatchChanges(i) \/ WaitingSocketEnds(i) \/
    StreamChanges(i) \/ InputSocketEnds(i)
    BY <2>3, <1>0, LifecycleAssumption DEF ActiveBorn, FindStream, AnnounceWait, WatchChanges,
      WaitingSocketEnds, StreamChanges, InputSocketEnds, Goto, streamVars, hostVars, Spawn,
      SendReplace, Deliver, Msg
  <2>4. CASE Attach(i) \/ SendAttach(i) \/ Detach(i) \/ SendDetach(i)
    BY <2>4, <1>0, LifecycleAssumption DEF ActiveBorn, Attach, SendAttach, Detach, SendDetach, Goto,
      streamVars, hostVars, Spawn, SendReplace, Deliver, Msg
  <2> QED BY <2>1, <2>2, <2>3, <2>4 DEF Input
<1>3. CASE \E t \in Streams : Router(t) \/ Keeper(t) \/ Streamer(t) \/ TenSecondsPass(t)
  <2> PICK t \in Streams : Router(t) \/ Keeper(t) \/ Streamer(t) \/ TenSecondsPass(t)
    BY <1>3
  <2>1. CASE RouterEnds(t) \/ RouterClears(t) \/ RouterCloses(t)
    BY <2>1, <1>0, LifecycleAssumption DEF ActiveBorn, RouterEnds, RouterClears, RouterCloses,
      hostVars, SendReplace, Deliver, Msg, Reap
  <2>2. CASE KeeperPolls(t) \/ KeeperSendsStop(t) \/ KeeperReaps(t) \/ TenSecondsPass(t)
    BY <2>2, <1>0, LifecycleAssumption DEF ActiveBorn, KeeperPolls, KeeperSendsStop, KeeperReaps,
      TenSecondsPass, hostVars, SendReplace, Deliver, Msg, Reap
  <2>3. CASE StreamerBoots(t) \/ StreamerReads(t) \/ StreamerGivesUp(t)
    BY <2>3, <1>0, LifecycleAssumption DEF ActiveBorn, StreamerBoots, StreamerReads,
      StreamerGivesUp, hostVars, SendReplace, Deliver, Msg, Reap
  <2>4. CASE StreamerSaysStop(t) \/ StreamerExits(t) \/ StreamerPanics(t)
    BY <2>4, <1>0, LifecycleAssumption DEF ActiveBorn, StreamerSaysStop, StreamerExits,
      StreamerPanics, hostVars, SendReplace, Deliver, Msg, Reap
  <2> QED BY <2>1, <2>2, <2>3, <2>4 DEF Router, Keeper, Streamer
<1>4. CASE \E c \in Conns : RelayMessage(c) \/ BrowserCloses(c)
  BY <1>4, <1>0, LifecycleAssumption DEF ActiveBorn, RelayMessage, BrowserCloses, Deliver, Msg,
    hostVars, streamVars
<1>5. CASE UNCHANGED vars
  BY <1>5, <1>0 DEF ActiveBorn, vars
<1> QED BY <1>1, <1>2, <1>3, <1>4, <1>5 DEF Next

\* Nobody writes to, or supervises, a process that was not spawned.
LEMMA UnbornIdleStep ==
  ASSUME TypeOK, MineBorn, ActiveBorn, UnbornIdle, [Next]_vars
  PROVE  UnbornIdle'
<1>0. /\ active \in Streams \cup {None}
      /\ mine \in [Conns -> Streams \cup {None}]
      /\ child \in [Streams -> ChildState]
      /\ inbox \in [Streams -> Seq(IpcMessage)]
      /\ keeper \in [Streams -> {"off", "poll", "sendStop", "reap", "done"}]
  BY DEF TypeOK
<1>1. CASE \E p \in Primaries : Primary(p)
  <2> PICK p \in Primaries : Primary(p)
    BY <1>1
  <2>1. CASE AdmitPrimary(p) \/ RefusePrimary(p) \/ TakeLifecycle(p) \/ RejectDuplicate(p) \/
    MayReplace(p)
    BY <2>1, <1>0, LifecycleAssumption DEF UnbornIdle, MineBorn, HasStream, Attached, ActiveBorn,
      Conns, AdmitPrimary, RefusePrimary, TakeLifecycle, RejectDuplicate, MayReplace, Goto,
      hostVars, streamVars, YoungPrimary, Deliver, Msg, Spawn, SendReplace, Reap
  <2>2. CASE NothingToStop(p) \/ CaptureExisting(p) \/ StopExisting(p) \/ StopWaitEnds(p)
    BY <2>2, <1>0, LifecycleAssumption DEF UnbornIdle, MineBorn, HasStream, Attached, ActiveBorn,
      Conns, NothingToStop, CaptureExisting, StopExisting, StopWaitEnds, Goto, hostVars, streamVars,
      YoungPrimary, Deliver, Msg, Spawn, SendReplace, Reap
  <2>3. CASE (\E s \in Streams : SpawnPrimary(p, s)) \/ SpawnPrimaryFails(p) \/ SendInit(p)
    BY <2>3, <1>0, LifecycleAssumption DEF UnbornIdle, MineBorn, HasStream, Attached, ActiveBorn,
      Conns, SpawnPrimary, SpawnPrimaryFails, SendInit, Goto, hostVars, streamVars, YoungPrimary,
      Deliver, Msg, Spawn, SendReplace, Reap
  <2>4. CASE RelayEnds(p) \/ ChildEndsFirst(p) \/ SendStop(p) \/ ReapPrimary(p)
    BY <2>4, <1>0, LifecycleAssumption DEF UnbornIdle, MineBorn, HasStream, Attached, ActiveBorn,
      Conns, RelayEnds, ChildEndsFirst, SendStop, ReapPrimary, Goto, hostVars, streamVars,
      YoungPrimary, Deliver, Msg, Spawn, SendReplace, Reap
  <2> QED BY <2>1, <2>2, <2>3, <2>4 DEF Primary
<1>2. CASE \E i \in Inputs : Input(i)
  <2> PICK i \in Inputs : Input(i)
    BY <1>2
  <2>1. CASE AdmitInput(i) \/ RefuseInput(i) \/ LookForStream(i) \/ TakeLifecycleForPlaceholder(i)
    \/ NoPlaceholder(i) \/ GameIsRunning(i)
    BY <2>1, <1>0, LifecycleAssumption DEF UnbornIdle, MineBorn, HasStream, Attached, ActiveBorn,
      Conns, AdmitInput, RefuseInput, LookForStream, TakeLifecycleForPlaceholder, NoPlaceholder,
      GameIsRunning, Goto, streamVars, hostVars, Spawn, SendReplace, Deliver, Msg
  <2>2. CASE (\E s \in Streams : SpawnPlaceholder(i, s)) \/ SpawnPlaceholderFails(i) \/
    SendPlaceholderInit(i)
    BY <2>2, <1>0, LifecycleAssumption DEF UnbornIdle, MineBorn, HasStream, Attached, ActiveBorn,
      Conns, SpawnPlaceholder, SpawnPlaceholderFails, SendPlaceholderInit, Goto, streamVars,
      hostVars, Spawn, SendReplace, Deliver, Msg
  <2>3. CASE FindStream(i) \/ AnnounceWait(i) \/ WatchChanges(i) \/ WaitingSocketEnds(i) \/
    StreamChanges(i) \/ InputSocketEnds(i)
    BY <2>3, <1>0, LifecycleAssumption DEF UnbornIdle, MineBorn, HasStream, Attached, ActiveBorn,
      Conns, FindStream, AnnounceWait, WatchChanges, WaitingSocketEnds, StreamChanges,
      InputSocketEnds, Goto, streamVars, hostVars, Spawn, SendReplace, Deliver, Msg
  <2>4. CASE Attach(i) \/ SendAttach(i) \/ Detach(i) \/ SendDetach(i)
    BY <2>4, <1>0, LifecycleAssumption DEF UnbornIdle, MineBorn, HasStream, Attached, ActiveBorn,
      Conns, Attach, SendAttach, Detach, SendDetach, Goto, streamVars, hostVars, Spawn, SendReplace,
      Deliver, Msg
  <2> QED BY <2>1, <2>2, <2>3, <2>4 DEF Input
<1>3. CASE \E t \in Streams : Router(t) \/ Keeper(t) \/ Streamer(t) \/ TenSecondsPass(t)
  <2> PICK t \in Streams : Router(t) \/ Keeper(t) \/ Streamer(t) \/ TenSecondsPass(t)
    BY <1>3
  <2>1. CASE RouterEnds(t) \/ RouterClears(t) \/ RouterCloses(t)
    BY <2>1, <1>0, LifecycleAssumption DEF UnbornIdle, MineBorn, HasStream, Attached, ActiveBorn,
      Conns, RouterEnds, RouterClears, RouterCloses, hostVars, SendReplace, Deliver, Msg, Reap
  <2>2. CASE KeeperPolls(t) \/ KeeperSendsStop(t) \/ KeeperReaps(t) \/ TenSecondsPass(t)
    BY <2>2, <1>0, LifecycleAssumption DEF UnbornIdle, MineBorn, HasStream, Attached, ActiveBorn,
      Conns, KeeperPolls, KeeperSendsStop, KeeperReaps, TenSecondsPass, hostVars, SendReplace,
      Deliver, Msg, Reap
  <2>3. CASE StreamerBoots(t) \/ StreamerReads(t) \/ StreamerGivesUp(t)
    BY <2>3, <1>0, LifecycleAssumption DEF UnbornIdle, MineBorn, HasStream, Attached, ActiveBorn,
      Conns, StreamerBoots, StreamerReads, StreamerGivesUp, hostVars, SendReplace, Deliver, Msg,
      Reap
  <2>4. CASE StreamerSaysStop(t) \/ StreamerExits(t) \/ StreamerPanics(t)
    BY <2>4, <1>0, LifecycleAssumption DEF UnbornIdle, MineBorn, HasStream, Attached, ActiveBorn,
      Conns, StreamerSaysStop, StreamerExits, StreamerPanics, hostVars, SendReplace, Deliver, Msg,
      Reap
  <2> QED BY <2>1, <2>2, <2>3, <2>4 DEF Router, Keeper, Streamer
<1>4. CASE \E c \in Conns : RelayMessage(c) \/ BrowserCloses(c)
  BY <1>4, <1>0, LifecycleAssumption DEF UnbornIdle, MineBorn, HasStream, Attached, ActiveBorn,
    Conns, RelayMessage, BrowserCloses, Deliver, Msg, hostVars, streamVars
<1>5. CASE UNCHANGED vars
  BY <1>5, <1>0 DEF UnbornIdle, MineBorn, HasStream, Attached, ActiveBorn, Conns, vars
<1> QED BY <1>1, <1>2, <1>3, <1>4, <1>5 DEF Next

\* A handler becomes an owner only by spawning, under the mutex.
LEMMA OwnsStep ==
  ASSUME TypeOK, LifecycleExclusive, [Next]_vars
  PROVE  \A c \in Conns, s \in Streams :
             Owns(c, s)' => Owns(c, s) \/ (child[s] = "unborn" /\ lifecycle = c)
<1>0. /\ pc \in [Conns -> Location]
      /\ mine \in [Conns -> Streams \cup {None}]
      /\ child \in [Streams -> ChildState]
  BY DEF TypeOK
<1>1. CASE \E p \in Primaries : Primary(p)
  <2> PICK p \in Primaries : Primary(p)
    BY <1>1
  <2>1. CASE AdmitPrimary(p) \/ RefusePrimary(p) \/ TakeLifecycle(p) \/ RejectDuplicate(p) \/
    MayReplace(p)
    BY <2>1, <1>0, LifecycleAssumption DEF Owns, Conns, LifecycleExclusive, LifecycleSection,
      AdmitPrimary, RefusePrimary, TakeLifecycle, RejectDuplicate, MayReplace, Goto, hostVars,
      streamVars, YoungPrimary, Deliver, Msg, Spawn, SendReplace, Reap
  <2>2. CASE NothingToStop(p) \/ CaptureExisting(p) \/ StopExisting(p) \/ StopWaitEnds(p)
    BY <2>2, <1>0, LifecycleAssumption DEF Owns, Conns, LifecycleExclusive, LifecycleSection,
      NothingToStop, CaptureExisting, StopExisting, StopWaitEnds, Goto, hostVars, streamVars,
      YoungPrimary, Deliver, Msg, Spawn, SendReplace, Reap
  <2>3. CASE (\E s \in Streams : SpawnPrimary(p, s)) \/ SpawnPrimaryFails(p) \/ SendInit(p)
    BY <2>3, <1>0, LifecycleAssumption DEF Owns, Conns, LifecycleExclusive, LifecycleSection,
      SpawnPrimary, SpawnPrimaryFails, SendInit, Goto, hostVars, streamVars, YoungPrimary, Deliver,
      Msg, Spawn, SendReplace, Reap
  <2>4. CASE RelayEnds(p) \/ ChildEndsFirst(p) \/ SendStop(p) \/ ReapPrimary(p)
    BY <2>4, <1>0, LifecycleAssumption DEF Owns, Conns, LifecycleExclusive, LifecycleSection,
      RelayEnds, ChildEndsFirst, SendStop, ReapPrimary, Goto, hostVars, streamVars, YoungPrimary,
      Deliver, Msg, Spawn, SendReplace, Reap
  <2> QED BY <2>1, <2>2, <2>3, <2>4 DEF Primary
<1>2. CASE \E i \in Inputs : Input(i)
  <2> PICK i \in Inputs : Input(i)
    BY <1>2
  <2>1. CASE AdmitInput(i) \/ RefuseInput(i) \/ LookForStream(i) \/ TakeLifecycleForPlaceholder(i)
    \/ NoPlaceholder(i) \/ GameIsRunning(i)
    BY <2>1, <1>0, LifecycleAssumption DEF Owns, Conns, LifecycleExclusive, LifecycleSection,
      AdmitInput, RefuseInput, LookForStream, TakeLifecycleForPlaceholder, NoPlaceholder,
      GameIsRunning, Goto, streamVars, hostVars, Spawn, SendReplace, Deliver, Msg
  <2>2. CASE (\E s \in Streams : SpawnPlaceholder(i, s)) \/ SpawnPlaceholderFails(i) \/
    SendPlaceholderInit(i)
    BY <2>2, <1>0, LifecycleAssumption DEF Owns, Conns, LifecycleExclusive, LifecycleSection,
      SpawnPlaceholder, SpawnPlaceholderFails, SendPlaceholderInit, Goto, streamVars, hostVars,
      Spawn, SendReplace, Deliver, Msg
  <2>3. CASE FindStream(i) \/ AnnounceWait(i) \/ WatchChanges(i) \/ WaitingSocketEnds(i) \/
    StreamChanges(i) \/ InputSocketEnds(i)
    BY <2>3, <1>0, LifecycleAssumption DEF Owns, Conns, LifecycleExclusive, LifecycleSection,
      FindStream, AnnounceWait, WatchChanges, WaitingSocketEnds, StreamChanges, InputSocketEnds,
      Goto, streamVars, hostVars, Spawn, SendReplace, Deliver, Msg
  <2>4. CASE Attach(i) \/ SendAttach(i) \/ Detach(i) \/ SendDetach(i)
    BY <2>4, <1>0, LifecycleAssumption DEF Owns, Conns, LifecycleExclusive, LifecycleSection,
      Attach, SendAttach, Detach, SendDetach, Goto, streamVars, hostVars, Spawn, SendReplace,
      Deliver, Msg
  <2> QED BY <2>1, <2>2, <2>3, <2>4 DEF Input
<1>3. CASE \E t \in Streams : Router(t) \/ Keeper(t) \/ Streamer(t) \/ TenSecondsPass(t)
  <2> PICK t \in Streams : Router(t) \/ Keeper(t) \/ Streamer(t) \/ TenSecondsPass(t)
    BY <1>3
  <2>1. CASE RouterEnds(t) \/ RouterClears(t) \/ RouterCloses(t)
    BY <2>1, <1>0, LifecycleAssumption DEF Owns, Conns, RouterEnds, RouterClears, RouterCloses,
      hostVars, SendReplace, Deliver, Msg, Reap
  <2>2. CASE KeeperPolls(t) \/ KeeperSendsStop(t) \/ KeeperReaps(t) \/ TenSecondsPass(t)
    BY <2>2, <1>0, LifecycleAssumption DEF Owns, Conns, KeeperPolls, KeeperSendsStop, KeeperReaps,
      TenSecondsPass, hostVars, SendReplace, Deliver, Msg, Reap
  <2>3. CASE StreamerBoots(t) \/ StreamerReads(t) \/ StreamerGivesUp(t)
    BY <2>3, <1>0, LifecycleAssumption DEF Owns, Conns, StreamerBoots, StreamerReads,
      StreamerGivesUp, hostVars, SendReplace, Deliver, Msg, Reap
  <2>4. CASE StreamerSaysStop(t) \/ StreamerExits(t) \/ StreamerPanics(t)
    BY <2>4, <1>0, LifecycleAssumption DEF Owns, Conns, StreamerSaysStop, StreamerExits,
      StreamerPanics, hostVars, SendReplace, Deliver, Msg, Reap
  <2> QED BY <2>1, <2>2, <2>3, <2>4 DEF Router, Keeper, Streamer
<1>4. CASE \E c \in Conns : RelayMessage(c) \/ BrowserCloses(c)
  BY <1>4, <1>0, LifecycleAssumption DEF Owns, Conns, RelayMessage, BrowserCloses, Deliver, Msg,
    hostVars, streamVars
<1>5. CASE UNCHANGED vars
  BY <1>5, <1>0 DEF Owns, Conns, vars
<1> QED BY <1>1, <1>2, <1>3, <1>4, <1>5 DEF Next

\* A supervisor is started only by the owner of the process, who gives it up.
LEMMA KeeperStep ==
  ASSUME TypeOK, MineBorn, [Next]_vars
  PROVE  \A s \in Streams : keeper[s] = "off" =>
             \/ keeper'[s] = "off"
             \/ child[s] # "unborn" /\ \E i \in Inputs : Owns(i, s) /\ ~Owns(i, s)'
<1>0. /\ pc \in [Conns -> Location]
      /\ mine \in [Conns -> Streams \cup {None}]
      /\ keeper \in [Streams -> {"off", "poll", "sendStop", "reap", "done"}]
  BY DEF TypeOK
<1>1. CASE \E p \in Primaries : Primary(p)
  <2> PICK p \in Primaries : Primary(p)
    BY <1>1
  <2>1. CASE AdmitPrimary(p) \/ RefusePrimary(p) \/ TakeLifecycle(p) \/ RejectDuplicate(p) \/
    MayReplace(p)
    BY <2>1, <1>0, LifecycleAssumption DEF Conns, AdmitPrimary, RefusePrimary, TakeLifecycle,
      RejectDuplicate, MayReplace, Goto, hostVars, streamVars, YoungPrimary, Deliver, Msg, Spawn,
      SendReplace, Reap
  <2>2. CASE NothingToStop(p) \/ CaptureExisting(p) \/ StopExisting(p) \/ StopWaitEnds(p)
    BY <2>2, <1>0, LifecycleAssumption DEF Conns, NothingToStop, CaptureExisting, StopExisting,
      StopWaitEnds, Goto, hostVars, streamVars, YoungPrimary, Deliver, Msg, Spawn, SendReplace, Reap
  <2>3. CASE (\E s \in Streams : SpawnPrimary(p, s)) \/ SpawnPrimaryFails(p) \/ SendInit(p)
    BY <2>3, <1>0, LifecycleAssumption DEF Conns, SpawnPrimary, SpawnPrimaryFails, SendInit, Goto,
      hostVars, streamVars, YoungPrimary, Deliver, Msg, Spawn, SendReplace, Reap
  <2>4. CASE RelayEnds(p) \/ ChildEndsFirst(p) \/ SendStop(p) \/ ReapPrimary(p)
    BY <2>4, <1>0, LifecycleAssumption DEF Conns, RelayEnds, ChildEndsFirst, SendStop, ReapPrimary,
      Goto, hostVars, streamVars, YoungPrimary, Deliver, Msg, Spawn, SendReplace, Reap
  <2> QED BY <2>1, <2>2, <2>3, <2>4 DEF Primary
<1>2. CASE \E i \in Inputs : Input(i)
  <2> PICK i \in Inputs : Input(i)
    BY <1>2
  <2>1. CASE AdmitInput(i) \/ RefuseInput(i) \/ LookForStream(i) \/ TakeLifecycleForPlaceholder(i)
    \/ NoPlaceholder(i) \/ GameIsRunning(i)
    BY <2>1, <1>0, LifecycleAssumption DEF Conns, Owns, MineBorn, HasStream, AdmitInput,
      RefuseInput, LookForStream, TakeLifecycleForPlaceholder, NoPlaceholder, GameIsRunning, Goto,
      streamVars, hostVars, Spawn, SendReplace, Deliver, Msg
  <2>2. CASE (\E s \in Streams : SpawnPlaceholder(i, s)) \/ SpawnPlaceholderFails(i) \/
    SendPlaceholderInit(i)
    BY <2>2, <1>0, LifecycleAssumption DEF Conns, Owns, MineBorn, HasStream, SpawnPlaceholder,
      SpawnPlaceholderFails, SendPlaceholderInit, Goto, streamVars, hostVars, Spawn, SendReplace,
      Deliver, Msg
  <2>3. CASE FindStream(i) \/ AnnounceWait(i) \/ WatchChanges(i) \/ WaitingSocketEnds(i) \/
    StreamChanges(i) \/ InputSocketEnds(i)
    BY <2>3, <1>0, LifecycleAssumption DEF Conns, Owns, MineBorn, HasStream, FindStream,
      AnnounceWait, AnnounceWait, WatchChanges, WaitingSocketEnds, StreamChanges, InputSocketEnds,
      Goto, streamVars, hostVars, Spawn, SendReplace, Deliver, Msg
  <2>4. CASE Attach(i) \/ SendAttach(i) \/ Detach(i) \/ SendDetach(i)
    BY <2>4, <1>0, LifecycleAssumption DEF Conns, Owns, MineBorn, HasStream, Attach, SendAttach,
      Detach, SendDetach, Goto, streamVars, hostVars, Spawn, SendReplace, Deliver, Msg
  <2> QED BY <2>1, <2>2, <2>3, <2>4 DEF Input
<1>3. CASE \E t \in Streams : Router(t) \/ Keeper(t) \/ Streamer(t) \/ TenSecondsPass(t)
  <2> PICK t \in Streams : Router(t) \/ Keeper(t) \/ Streamer(t) \/ TenSecondsPass(t)
    BY <1>3
  <2>1. CASE RouterEnds(t) \/ RouterClears(t) \/ RouterCloses(t)
    BY <2>1, <1>0, LifecycleAssumption DEF Conns, RouterEnds, RouterClears, RouterCloses, hostVars,
      SendReplace, Deliver, Msg, Reap
  <2>2. CASE KeeperPolls(t) \/ KeeperSendsStop(t) \/ KeeperReaps(t) \/ TenSecondsPass(t)
    BY <2>2, <1>0, LifecycleAssumption DEF Conns, KeeperPolls, KeeperSendsStop, KeeperReaps,
      TenSecondsPass, hostVars, SendReplace, Deliver, Msg, Reap
  <2>3. CASE StreamerBoots(t) \/ StreamerReads(t) \/ StreamerGivesUp(t)
    BY <2>3, <1>0, LifecycleAssumption DEF Conns, StreamerBoots, StreamerReads, StreamerGivesUp,
      hostVars, SendReplace, Deliver, Msg, Reap
  <2>4. CASE StreamerSaysStop(t) \/ StreamerExits(t) \/ StreamerPanics(t)
    BY <2>4, <1>0, LifecycleAssumption DEF Conns, StreamerSaysStop, StreamerExits, StreamerPanics,
      hostVars, SendReplace, Deliver, Msg, Reap
  <2> QED BY <2>1, <2>2, <2>3, <2>4 DEF Router, Keeper, Streamer
<1>4. CASE \E c \in Conns : RelayMessage(c) \/ BrowserCloses(c)
  BY <1>4, <1>0, LifecycleAssumption DEF Conns, RelayMessage, BrowserCloses, Deliver, Msg, hostVars,
    streamVars
<1>5. CASE UNCHANGED vars
  BY <1>5, <1>0 DEF Conns, vars
<1> QED BY <1>1, <1>2, <1>3, <1>4, <1>5 DEF Next

\* A streamer process keeps having one owner at most, ...
LEMMA SoleOwnerStep ==
  ASSUME TypeOK, LifecycleExclusive, MineBorn, SoleOwner, [Next]_vars
  PROVE  SoleOwner'
<1> SUFFICES ASSUME NEW c \in Conns, NEW d \in Conns, NEW s \in Streams,
                    Owns(c, s)', Owns(d, s)'
             PROVE  c = d
  BY DEF SoleOwner
<1>1. Owns(c, s) \/ (child[s] = "unborn" /\ lifecycle = c)
  BY OwnsStep
<1>2. Owns(d, s) \/ (child[s] = "unborn" /\ lifecycle = d)
  BY OwnsStep
<1>3. Owns(c, s) \/ Owns(d, s) => child[s] # "unborn"
  BY DEF Owns, MineBorn, HasStream, Attached
<1> QED BY <1>1, <1>2, <1>3 DEF SoleOwner

\* ... and never a handler and a supervisor at once.
LEMMA OwnerNotKeptStep ==
  ASSUME TypeOK, LifecycleExclusive, MineBorn, UnbornIdle, SoleOwner, OwnerNotKept, [Next]_vars
  PROVE  OwnerNotKept'
<1> SUFFICES ASSUME NEW c \in Conns, NEW s \in Streams, Owns(c, s)'
             PROVE  keeper'[s] = "off"
  BY DEF OwnerNotKept
<1>1. Owns(c, s) \/ (child[s] = "unborn" /\ lifecycle = c)
  BY OwnsStep
<1>2. keeper[s] = "off"
  BY <1>1 DEF OwnerNotKept, UnbornIdle
<1>3. ASSUME child[s] # "unborn", NEW i \in Inputs, Owns(i, s), ~Owns(i, s)'
      PROVE  FALSE
  <2>1. Owns(c, s)
    BY <1>1, <1>3
  <2>2. c = i
    BY <2>1, <1>3 DEF SoleOwner, Conns
  <2> QED BY <2>2, <1>3
<1> QED BY <1>2, <1>3, KeeperStep

\* A supervisor that still polls has counted less than its limit.
LEMMA KeeperCountsStep ==
  ASSUME TypeOK, OwnerNotKept, KeeperCounts, [Next]_vars
  PROVE  KeeperCounts'
<1>0. /\ mine \in [Conns -> Streams \cup {None}]
      /\ keeper \in [Streams -> {"off", "poll", "sendStop", "reap", "done"}]
      /\ polls \in [Streams -> 0..EmptyPollsBeforeStop]
  BY DEF TypeOK
<1>1. CASE \E p \in Primaries : Primary(p)
  <2> PICK p \in Primaries : Primary(p)
    BY <1>1
  <2>1. CASE AdmitPrimary(p) \/ RefusePrimary(p) \/ TakeLifecycle(p) \/ RejectDuplicate(p) \/
    MayReplace(p)
    BY <2>1, <1>0, LifecycleAssumption DEF KeeperCounts, Conns, AdmitPrimary, RefusePrimary,
      TakeLifecycle, RejectDuplicate, MayReplace, Goto, hostVars, streamVars, YoungPrimary, Deliver,
      Msg, Spawn, SendReplace, Reap
  <2>2. CASE NothingToStop(p) \/ CaptureExisting(p) \/ StopExisting(p) \/ StopWaitEnds(p)
    BY <2>2, <1>0, LifecycleAssumption DEF KeeperCounts, Conns, NothingToStop, CaptureExisting,
      StopExisting, StopWaitEnds, Goto, hostVars, streamVars, YoungPrimary, Deliver, Msg, Spawn,
      SendReplace, Reap
  <2>3. CASE (\E s \in Streams : SpawnPrimary(p, s)) \/ SpawnPrimaryFails(p) \/ SendInit(p)
    BY <2>3, <1>0, LifecycleAssumption DEF KeeperCounts, Conns, SpawnPrimary, SpawnPrimaryFails,
      SendInit, Goto, hostVars, streamVars, YoungPrimary, Deliver, Msg, Spawn, SendReplace, Reap
  <2>4. CASE RelayEnds(p) \/ ChildEndsFirst(p) \/ SendStop(p) \/ ReapPrimary(p)
    BY <2>4, <1>0, LifecycleAssumption DEF KeeperCounts, Conns, RelayEnds, ChildEndsFirst, SendStop,
      ReapPrimary, Goto, hostVars, streamVars, YoungPrimary, Deliver, Msg, Spawn, SendReplace, Reap
  <2> QED BY <2>1, <2>2, <2>3, <2>4 DEF Primary
<1>2. CASE \E i \in Inputs : Input(i)
  <2> PICK i \in Inputs : Input(i)
    BY <1>2
  <2>1. CASE AdmitInput(i) \/ RefuseInput(i) \/ LookForStream(i) \/ TakeLifecycleForPlaceholder(i)
    \/ NoPlaceholder(i) \/ GameIsRunning(i)
    BY <2>1, <1>0, LifecycleAssumption DEF KeeperCounts, Conns, OwnerNotKept, Owns, AdmitInput,
      RefuseInput, LookForStream, TakeLifecycleForPlaceholder, NoPlaceholder, GameIsRunning, Goto,
      streamVars, hostVars, Spawn, SendReplace, Deliver, Msg
  <2>2. CASE (\E s \in Streams : SpawnPlaceholder(i, s)) \/ SpawnPlaceholderFails(i) \/
    SendPlaceholderInit(i)
    BY <2>2, <1>0, LifecycleAssumption DEF KeeperCounts, Conns, OwnerNotKept, Owns,
      SpawnPlaceholder, SpawnPlaceholderFails, SendPlaceholderInit, Goto, streamVars, hostVars,
      Spawn, SendReplace, Deliver, Msg
  <2>3. CASE FindStream(i) \/ AnnounceWait(i) \/ WatchChanges(i) \/ WaitingSocketEnds(i) \/
    StreamChanges(i) \/ InputSocketEnds(i)
    BY <2>3, <1>0, LifecycleAssumption DEF KeeperCounts, Conns, OwnerNotKept, Owns, FindStream,
      AnnounceWait, AnnounceWait, WatchChanges, WaitingSocketEnds, StreamChanges, InputSocketEnds,
      Goto, streamVars, hostVars, Spawn, SendReplace, Deliver, Msg
  <2>4. CASE Attach(i) \/ SendAttach(i) \/ Detach(i) \/ SendDetach(i)
    BY <2>4, <1>0, LifecycleAssumption DEF KeeperCounts, Conns, OwnerNotKept, Owns, Attach,
      SendAttach, Detach, SendDetach, Goto, streamVars, hostVars, Spawn, SendReplace, Deliver, Msg
  <2> QED BY <2>1, <2>2, <2>3, <2>4 DEF Input
<1>3. CASE \E t \in Streams : Router(t) \/ Keeper(t) \/ Streamer(t) \/ TenSecondsPass(t)
  <2> PICK t \in Streams : Router(t) \/ Keeper(t) \/ Streamer(t) \/ TenSecondsPass(t)
    BY <1>3
  <2>1. CASE RouterEnds(t) \/ RouterClears(t) \/ RouterCloses(t)
    BY <2>1, <1>0, LifecycleAssumption DEF KeeperCounts, Conns, RouterEnds, RouterClears,
      RouterCloses, hostVars, SendReplace, Deliver, Msg, Reap
  <2>2. CASE KeeperPolls(t) \/ KeeperSendsStop(t) \/ KeeperReaps(t) \/ TenSecondsPass(t)
    BY <2>2, <1>0, LifecycleAssumption DEF KeeperCounts, Conns, KeeperPolls, KeeperSendsStop,
      KeeperReaps, TenSecondsPass, hostVars, SendReplace, Deliver, Msg, Reap
  <2>3. CASE StreamerBoots(t) \/ StreamerReads(t) \/ StreamerGivesUp(t)
    BY <2>3, <1>0, LifecycleAssumption DEF KeeperCounts, Conns, StreamerBoots, StreamerReads,
      StreamerGivesUp, hostVars, SendReplace, Deliver, Msg, Reap
  <2>4. CASE StreamerSaysStop(t) \/ StreamerExits(t) \/ StreamerPanics(t)
    BY <2>4, <1>0, LifecycleAssumption DEF KeeperCounts, Conns, StreamerSaysStop, StreamerExits,
      StreamerPanics, hostVars, SendReplace, Deliver, Msg, Reap
  <2> QED BY <2>1, <2>2, <2>3, <2>4 DEF Router, Keeper, Streamer
<1>4. CASE \E c \in Conns : RelayMessage(c) \/ BrowserCloses(c)
  BY <1>4, <1>0, LifecycleAssumption DEF KeeperCounts, Conns, RelayMessage, BrowserCloses, Deliver,
    Msg, hostVars, streamVars
<1>5. CASE UNCHANGED vars
  BY <1>5, <1>0 DEF KeeperCounts, Conns, vars
<1> QED BY <1>1, <1>2, <1>3, <1>4, <1>5 DEF Next

\* Whoever lets a live process go has handed it to a supervisor or has ended it.
LEMMA LiveChildIsOwnedStep ==
  ASSUME TypeOK, MineBorn, LiveChildIsOwned, [Next]_vars
  PROVE  LiveChildIsOwned'
<1>0. /\ pc \in [Conns -> Location]
      /\ mine \in [Conns -> Streams \cup {None}]
      /\ child \in [Streams -> ChildState]
      /\ keeper \in [Streams -> {"off", "poll", "sendStop", "reap", "done"}]
  BY DEF TypeOK
<1>1. CASE \E p \in Primaries : Primary(p)
  <2> PICK p \in Primaries : Primary(p)
    BY <1>1
  <2>1. CASE AdmitPrimary(p) \/ RefusePrimary(p) \/ TakeLifecycle(p) \/ RejectDuplicate(p) \/
    MayReplace(p)
    BY <2>1, <1>0, LifecycleAssumption DEF LiveChildIsOwned, Conns, AdmitPrimary, RefusePrimary,
      TakeLifecycle, RejectDuplicate, MayReplace, Goto, hostVars, streamVars, YoungPrimary, Deliver,
      Msg, Spawn, SendReplace, Reap
  <2>2. CASE NothingToStop(p) \/ CaptureExisting(p) \/ StopExisting(p) \/ StopWaitEnds(p)
    BY <2>2, <1>0, LifecycleAssumption DEF LiveChildIsOwned, Conns, NothingToStop, CaptureExisting,
      StopExisting, StopWaitEnds, Goto, hostVars, streamVars, YoungPrimary, Deliver, Msg, Spawn,
      SendReplace, Reap
  <2>3. CASE (\E s \in Streams : SpawnPrimary(p, s)) \/ SpawnPrimaryFails(p) \/ SendInit(p)
    BY <2>3, <1>0, LifecycleAssumption DEF LiveChildIsOwned, Conns, SpawnPrimary, SpawnPrimaryFails,
      SendInit, Goto, hostVars, streamVars, YoungPrimary, Deliver, Msg, Spawn, SendReplace, Reap
  <2>4. CASE RelayEnds(p) \/ ChildEndsFirst(p) \/ SendStop(p) \/ ReapPrimary(p)
    BY <2>4, <1>0, LifecycleAssumption DEF LiveChildIsOwned, Conns, RelayEnds, ChildEndsFirst,
      SendStop, ReapPrimary, Goto, hostVars, streamVars, YoungPrimary, Deliver, Msg, Spawn,
      SendReplace, Reap
  <2> QED BY <2>1, <2>2, <2>3, <2>4 DEF Primary
<1>2. CASE \E i \in Inputs : Input(i)
  <2> PICK i \in Inputs : Input(i)
    BY <1>2
  <2>1. CASE AdmitInput(i) \/ RefuseInput(i) \/ LookForStream(i) \/ TakeLifecycleForPlaceholder(i)
    \/ NoPlaceholder(i) \/ GameIsRunning(i)
    BY <2>1, <1>0, LifecycleAssumption DEF LiveChildIsOwned, Conns, AdmitInput, RefuseInput,
      LookForStream, TakeLifecycleForPlaceholder, NoPlaceholder, GameIsRunning, Goto, streamVars,
      hostVars, Spawn, SendReplace, Deliver, Msg
  <2>2. CASE (\E s \in Streams : SpawnPlaceholder(i, s)) \/ SpawnPlaceholderFails(i) \/
    SendPlaceholderInit(i)
    BY <2>2, <1>0, LifecycleAssumption DEF LiveChildIsOwned, Conns, SpawnPlaceholder,
      SpawnPlaceholderFails, SendPlaceholderInit, Goto, streamVars, hostVars, Spawn, SendReplace,
      Deliver, Msg
  <2>3. CASE FindStream(i) \/ AnnounceWait(i) \/ WatchChanges(i) \/ WaitingSocketEnds(i) \/
    StreamChanges(i) \/ InputSocketEnds(i)
    BY <2>3, <1>0, LifecycleAssumption DEF LiveChildIsOwned, Conns, FindStream, AnnounceWait,
      WatchChanges, WaitingSocketEnds, StreamChanges, InputSocketEnds, Goto, streamVars, hostVars,
      Spawn, SendReplace, Deliver, Msg
  <2>4. CASE Attach(i) \/ SendAttach(i) \/ Detach(i) \/ SendDetach(i)
    BY <2>4, <1>0, LifecycleAssumption DEF LiveChildIsOwned, Conns, Attach, SendAttach, Detach,
      SendDetach, Goto, streamVars, hostVars, Spawn, SendReplace, Deliver, Msg
  <2> QED BY <2>1, <2>2, <2>3, <2>4 DEF Input
<1>3. CASE \E t \in Streams : Router(t) \/ Keeper(t) \/ Streamer(t) \/ TenSecondsPass(t)
  <2> PICK t \in Streams : Router(t) \/ Keeper(t) \/ Streamer(t) \/ TenSecondsPass(t)
    BY <1>3
  <2>1. CASE RouterEnds(t) \/ RouterClears(t) \/ RouterCloses(t)
    BY <2>1, <1>0, LifecycleAssumption DEF LiveChildIsOwned, Conns, RouterEnds, RouterClears,
      RouterCloses, hostVars, SendReplace, Deliver, Msg, Reap
  <2>2. CASE KeeperPolls(t) \/ KeeperSendsStop(t) \/ KeeperReaps(t) \/ TenSecondsPass(t)
    BY <2>2, <1>0, LifecycleAssumption DEF LiveChildIsOwned, Conns, KeeperPolls, KeeperSendsStop,
      KeeperReaps, TenSecondsPass, hostVars, SendReplace, Deliver, Msg, Reap
  <2>3. CASE StreamerBoots(t) \/ StreamerReads(t) \/ StreamerGivesUp(t)
    BY <2>3, <1>0, LifecycleAssumption DEF LiveChildIsOwned, Conns, StreamerBoots, StreamerReads,
      StreamerGivesUp, hostVars, SendReplace, Deliver, Msg, Reap
  <2>4. CASE StreamerSaysStop(t) \/ StreamerExits(t) \/ StreamerPanics(t)
    BY <2>4, <1>0, LifecycleAssumption DEF LiveChildIsOwned, Conns, StreamerSaysStop, StreamerExits,
      StreamerPanics, hostVars, SendReplace, Deliver, Msg, Reap
  <2> QED BY <2>1, <2>2, <2>3, <2>4 DEF Router, Keeper, Streamer
<1>4. CASE \E c \in Conns : RelayMessage(c) \/ BrowserCloses(c)
  BY <1>4, <1>0, LifecycleAssumption DEF LiveChildIsOwned, Conns, RelayMessage, BrowserCloses,
    Deliver, Msg, hostVars, streamVars
<1>5. CASE UNCHANGED vars
  BY <1>5, <1>0 DEF LiveChildIsOwned, Conns, vars
<1> QED BY <1>1, <1>2, <1>3, <1>4, <1>5 DEF Next

\* The router of the registered stream has not passed its clean-up.
LEMMA RegisteredHasRouterStep ==
  ASSUME TypeOK, RegisteredHasRouter, [Next]_vars
  PROVE  RegisteredHasRouter'
<1>0. /\ active \in Streams \cup {None}
      /\ router \in [Streams -> {"off", "recv", "clear", "close", "done"}]
  BY DEF TypeOK
<1>1. CASE \E p \in Primaries : Primary(p)
  <2> PICK p \in Primaries : Primary(p)
    BY <1>1
  <2>1. CASE AdmitPrimary(p) \/ RefusePrimary(p) \/ TakeLifecycle(p) \/ RejectDuplicate(p) \/
    MayReplace(p)
    BY <2>1, <1>0, LifecycleAssumption DEF RegisteredHasRouter, AdmitPrimary, RefusePrimary,
      TakeLifecycle, RejectDuplicate, MayReplace, Goto, hostVars, streamVars, YoungPrimary, Deliver,
      Msg, Spawn, SendReplace, Reap
  <2>2. CASE NothingToStop(p) \/ CaptureExisting(p) \/ StopExisting(p) \/ StopWaitEnds(p)
    BY <2>2, <1>0, LifecycleAssumption DEF RegisteredHasRouter, NothingToStop, CaptureExisting,
      StopExisting, StopWaitEnds, Goto, hostVars, streamVars, YoungPrimary, Deliver, Msg, Spawn,
      SendReplace, Reap
  <2>3. CASE (\E s \in Streams : SpawnPrimary(p, s)) \/ SpawnPrimaryFails(p) \/ SendInit(p)
    BY <2>3, <1>0, LifecycleAssumption DEF RegisteredHasRouter, SpawnPrimary, SpawnPrimaryFails,
      SendInit, Goto, hostVars, streamVars, YoungPrimary, Deliver, Msg, Spawn, SendReplace, Reap
  <2>4. CASE RelayEnds(p) \/ ChildEndsFirst(p) \/ SendStop(p) \/ ReapPrimary(p)
    BY <2>4, <1>0, LifecycleAssumption DEF RegisteredHasRouter, RelayEnds, ChildEndsFirst, SendStop,
      ReapPrimary, Goto, hostVars, streamVars, YoungPrimary, Deliver, Msg, Spawn, SendReplace, Reap
  <2> QED BY <2>1, <2>2, <2>3, <2>4 DEF Primary
<1>2. CASE \E i \in Inputs : Input(i)
  <2> PICK i \in Inputs : Input(i)
    BY <1>2
  <2>1. CASE AdmitInput(i) \/ RefuseInput(i) \/ LookForStream(i) \/ TakeLifecycleForPlaceholder(i)
    \/ NoPlaceholder(i) \/ GameIsRunning(i)
    BY <2>1, <1>0, LifecycleAssumption DEF RegisteredHasRouter, AdmitInput, RefuseInput,
      LookForStream, TakeLifecycleForPlaceholder, NoPlaceholder, GameIsRunning, Goto, streamVars,
      hostVars, Spawn, SendReplace, Deliver, Msg
  <2>2. CASE (\E s \in Streams : SpawnPlaceholder(i, s)) \/ SpawnPlaceholderFails(i) \/
    SendPlaceholderInit(i)
    BY <2>2, <1>0, LifecycleAssumption DEF RegisteredHasRouter, SpawnPlaceholder,
      SpawnPlaceholderFails, SendPlaceholderInit, Goto, streamVars, hostVars, Spawn, SendReplace,
      Deliver, Msg
  <2>3. CASE FindStream(i) \/ AnnounceWait(i) \/ WatchChanges(i) \/ WaitingSocketEnds(i) \/
    StreamChanges(i) \/ InputSocketEnds(i)
    BY <2>3, <1>0, LifecycleAssumption DEF RegisteredHasRouter, FindStream, AnnounceWait,
      WatchChanges, WaitingSocketEnds, StreamChanges, InputSocketEnds, Goto, streamVars, hostVars,
      Spawn, SendReplace, Deliver, Msg
  <2>4. CASE Attach(i) \/ SendAttach(i) \/ Detach(i) \/ SendDetach(i)
    BY <2>4, <1>0, LifecycleAssumption DEF RegisteredHasRouter, Attach, SendAttach, Detach,
      SendDetach, Goto, streamVars, hostVars, Spawn, SendReplace, Deliver, Msg
  <2> QED BY <2>1, <2>2, <2>3, <2>4 DEF Input
<1>3. CASE \E t \in Streams : Router(t) \/ Keeper(t) \/ Streamer(t) \/ TenSecondsPass(t)
  <2> PICK t \in Streams : Router(t) \/ Keeper(t) \/ Streamer(t) \/ TenSecondsPass(t)
    BY <1>3
  <2>1. CASE RouterEnds(t) \/ RouterClears(t) \/ RouterCloses(t)
    BY <2>1, <1>0, LifecycleAssumption DEF RegisteredHasRouter, RouterEnds, RouterClears,
      RouterCloses, hostVars, SendReplace, Deliver, Msg, Reap
  <2>2. CASE KeeperPolls(t) \/ KeeperSendsStop(t) \/ KeeperReaps(t) \/ TenSecondsPass(t)
    BY <2>2, <1>0, LifecycleAssumption DEF RegisteredHasRouter, KeeperPolls, KeeperSendsStop,
      KeeperReaps, TenSecondsPass, hostVars, SendReplace, Deliver, Msg, Reap
  <2>3. CASE StreamerBoots(t) \/ StreamerReads(t) \/ StreamerGivesUp(t)
    BY <2>3, <1>0, LifecycleAssumption DEF RegisteredHasRouter, StreamerBoots, StreamerReads,
      StreamerGivesUp, hostVars, SendReplace, Deliver, Msg, Reap
  <2>4. CASE StreamerSaysStop(t) \/ StreamerExits(t) \/ StreamerPanics(t)
    BY <2>4, <1>0, LifecycleAssumption DEF RegisteredHasRouter, StreamerSaysStop, StreamerExits,
      StreamerPanics, hostVars, SendReplace, Deliver, Msg, Reap
  <2> QED BY <2>1, <2>2, <2>3, <2>4 DEF Router, Keeper, Streamer
<1>4. CASE \E c \in Conns : RelayMessage(c) \/ BrowserCloses(c)
  BY <1>4, <1>0, LifecycleAssumption DEF RegisteredHasRouter, RelayMessage, BrowserCloses, Deliver,
    Msg, hostVars, streamVars
<1>5. CASE UNCHANGED vars
  BY <1>5, <1>0 DEF RegisteredHasRouter, vars
<1> QED BY <1>1, <1>2, <1>3, <1>4, <1>5 DEF Next

\* A registration marks every waiting receiver.
LEMMA NoMissedWakeupStep ==
  ASSUME TypeOK, NoMissedWakeup, [Next]_vars
  PROVE  NoMissedWakeup'
<1>0. /\ active \in Streams \cup {None}
      /\ changed \in [Inputs -> BOOLEAN]
      /\ pc \in [Conns -> Location]
  BY DEF TypeOK
<1>1. CASE \E p \in Primaries : Primary(p)
  <2> PICK p \in Primaries : Primary(p)
    BY <1>1
  <2>1. CASE AdmitPrimary(p) \/ RefusePrimary(p) \/ TakeLifecycle(p) \/ RejectDuplicate(p) \/
    MayReplace(p)
    BY <2>1, <1>0, LifecycleAssumption DEF NoMissedWakeup, Conns, AdmitPrimary, RefusePrimary,
      TakeLifecycle, RejectDuplicate, MayReplace, Goto, hostVars, streamVars, YoungPrimary, Deliver,
      Msg, Spawn, SendReplace, Reap
  <2>2. CASE NothingToStop(p) \/ CaptureExisting(p) \/ StopExisting(p) \/ StopWaitEnds(p)
    BY <2>2, <1>0, LifecycleAssumption DEF NoMissedWakeup, Conns, NothingToStop, CaptureExisting,
      StopExisting, StopWaitEnds, Goto, hostVars, streamVars, YoungPrimary, Deliver, Msg, Spawn,
      SendReplace, Reap
  <2>3. CASE (\E s \in Streams : SpawnPrimary(p, s)) \/ SpawnPrimaryFails(p) \/ SendInit(p)
    BY <2>3, <1>0, LifecycleAssumption DEF NoMissedWakeup, Conns, SpawnPrimary, SpawnPrimaryFails,
      SendInit, Goto, hostVars, streamVars, YoungPrimary, Deliver, Msg, Spawn, SendReplace, Reap
  <2>4. CASE RelayEnds(p) \/ ChildEndsFirst(p) \/ SendStop(p) \/ ReapPrimary(p)
    BY <2>4, <1>0, LifecycleAssumption DEF NoMissedWakeup, Conns, RelayEnds, ChildEndsFirst,
      SendStop, ReapPrimary, Goto, hostVars, streamVars, YoungPrimary, Deliver, Msg, Spawn,
      SendReplace, Reap
  <2> QED BY <2>1, <2>2, <2>3, <2>4 DEF Primary
<1>2. CASE \E i \in Inputs : Input(i)
  <2> PICK i \in Inputs : Input(i)
    BY <1>2
  <2>1. CASE \E s \in Streams : SpawnPlaceholder(i, s)
    BY <2>1, <1>0, LifecycleAssumption DEF NoMissedWakeup, Conns, SpawnPlaceholder, Goto, Spawn,
      SendReplace
  <2>2. CASE FindStream(i)
    BY <2>2, <1>0, LifecycleAssumption DEF NoMissedWakeup, Conns, FindStream, Goto, hostVars,
      streamVars
  <2>3. CASE AdmitInput(i) \/ RefuseInput(i) \/ LookForStream(i) \/ TakeLifecycleForPlaceholder(i)
    \/ NoPlaceholder(i) \/ GameIsRunning(i) \/ SpawnPlaceholderFails(i) \/ SendPlaceholderInit(i) \/
    AnnounceWait(i) \/ WatchChanges(i) \/ WaitingSocketEnds(i) \/ Attach(i) \/ SendAttach(i) \/
    StreamChanges(i) \/ InputSocketEnds(i) \/ Detach(i) \/ SendDetach(i)
    BY <2>3, <1>0, LifecycleAssumption DEF NoMissedWakeup, Conns, AdmitInput, RefuseInput,
      LookForStream, TakeLifecycleForPlaceholder, NoPlaceholder, GameIsRunning,
      SpawnPlaceholderFails, SendPlaceholderInit, AnnounceWait, WatchChanges, WaitingSocketEnds,
      Attach, SendAttach, StreamChanges, InputSocketEnds, Detach, SendDetach, Goto, streamVars,
      hostVars, Deliver, Msg
  <2> QED BY <2>1, <2>2, <2>3 DEF Input
<1>3. CASE \E t \in Streams : Router(t) \/ Keeper(t) \/ Streamer(t) \/ TenSecondsPass(t)
  <2> PICK t \in Streams : Router(t) \/ Keeper(t) \/ Streamer(t) \/ TenSecondsPass(t)
    BY <1>3
  <2>1. CASE RouterEnds(t) \/ RouterClears(t) \/ RouterCloses(t)
    BY <2>1, <1>0, LifecycleAssumption DEF NoMissedWakeup, Conns, RouterEnds, RouterClears,
      RouterCloses, hostVars, SendReplace, Deliver, Msg, Reap
  <2>2. CASE KeeperPolls(t) \/ KeeperSendsStop(t) \/ KeeperReaps(t) \/ TenSecondsPass(t)
    BY <2>2, <1>0, LifecycleAssumption DEF NoMissedWakeup, Conns, KeeperPolls, KeeperSendsStop,
      KeeperReaps, TenSecondsPass, hostVars, SendReplace, Deliver, Msg, Reap
  <2>3. CASE StreamerBoots(t) \/ StreamerReads(t) \/ StreamerGivesUp(t)
    BY <2>3, <1>0, LifecycleAssumption DEF NoMissedWakeup, Conns, StreamerBoots, StreamerReads,
      StreamerGivesUp, hostVars, SendReplace, Deliver, Msg, Reap
  <2>4. CASE StreamerSaysStop(t) \/ StreamerExits(t) \/ StreamerPanics(t)
    BY <2>4, <1>0, LifecycleAssumption DEF NoMissedWakeup, Conns, StreamerSaysStop, StreamerExits,
      StreamerPanics, hostVars, SendReplace, Deliver, Msg, Reap
  <2> QED BY <2>1, <2>2, <2>3, <2>4 DEF Router, Keeper, Streamer
<1>4. CASE \E c \in Conns : RelayMessage(c) \/ BrowserCloses(c)
  BY <1>4, <1>0, LifecycleAssumption DEF NoMissedWakeup, Conns, RelayMessage, BrowserCloses,
    Deliver, Msg, hostVars, streamVars
<1>5. CASE UNCHANGED vars
  BY <1>5, <1>0 DEF NoMissedWakeup, Conns, vars
<1> QED BY <1>1, <1>2, <1>3, <1>4, <1>5 DEF Next

\* While a handler is about to spawn a placeholder nobody can register a stream.
LEMMA PlaceholderWantedStep ==
  ASSUME TypeOK, LifecycleExclusive, PlaceholderWanted, [Next]_vars
  PROVE  PlaceholderWanted'
<1>0. /\ active \in Streams \cup {None}
      /\ pc \in [Conns -> Location]
      /\ lifecycle \in Conns \cup {None}
  BY DEF TypeOK
<1>1. CASE \E p \in Primaries : Primary(p)
  <2> PICK p \in Primaries : Primary(p)
    BY <1>1
  <2>1. CASE AdmitPrimary(p) \/ RefusePrimary(p) \/ TakeLifecycle(p) \/ RejectDuplicate(p) \/
    MayReplace(p)
    BY <2>1, <1>0, LifecycleAssumption DEF PlaceholderWanted, Conns, LifecycleExclusive,
      LifecycleSection, AdmitPrimary, RefusePrimary, TakeLifecycle, RejectDuplicate, MayReplace,
      Goto, hostVars, streamVars, YoungPrimary, Deliver, Msg, Spawn, SendReplace, Reap
  <2>2. CASE NothingToStop(p) \/ CaptureExisting(p) \/ StopExisting(p) \/ StopWaitEnds(p)
    BY <2>2, <1>0, LifecycleAssumption DEF PlaceholderWanted, Conns, LifecycleExclusive,
      LifecycleSection, NothingToStop, CaptureExisting, StopExisting, StopWaitEnds, Goto, hostVars,
      streamVars, YoungPrimary, Deliver, Msg, Spawn, SendReplace, Reap
  <2>3. CASE (\E s \in Streams : SpawnPrimary(p, s)) \/ SpawnPrimaryFails(p) \/ SendInit(p)
    BY <2>3, <1>0, LifecycleAssumption DEF PlaceholderWanted, Conns, LifecycleExclusive,
      LifecycleSection, SpawnPrimary, SpawnPrimaryFails, SendInit, Goto, hostVars, streamVars,
      YoungPrimary, Deliver, Msg, Spawn, SendReplace, Reap
  <2>4. CASE RelayEnds(p) \/ ChildEndsFirst(p) \/ SendStop(p) \/ ReapPrimary(p)
    BY <2>4, <1>0, LifecycleAssumption DEF PlaceholderWanted, Conns, LifecycleExclusive,
      LifecycleSection, RelayEnds, ChildEndsFirst, SendStop, ReapPrimary, Goto, hostVars,
      streamVars, YoungPrimary, Deliver, Msg, Spawn, SendReplace, Reap
  <2> QED BY <2>1, <2>2, <2>3, <2>4 DEF Primary
<1>2. CASE \E i \in Inputs : Input(i)
  <2> PICK i \in Inputs : Input(i)
    BY <1>2
  <2>1. CASE AdmitInput(i) \/ RefuseInput(i) \/ LookForStream(i) \/ TakeLifecycleForPlaceholder(i)
    \/ NoPlaceholder(i) \/ GameIsRunning(i)
    BY <2>1, <1>0, LifecycleAssumption DEF PlaceholderWanted, Conns, LifecycleExclusive,
      LifecycleSection, AdmitInput, RefuseInput, LookForStream, TakeLifecycleForPlaceholder,
      NoPlaceholder, GameIsRunning, Goto, streamVars, hostVars, Spawn, SendReplace, Deliver, Msg
  <2>2. CASE (\E s \in Streams : SpawnPlaceholder(i, s)) \/ SpawnPlaceholderFails(i) \/
    SendPlaceholderInit(i)
    BY <2>2, <1>0, LifecycleAssumption DEF PlaceholderWanted, Conns, LifecycleExclusive,
      LifecycleSection, SpawnPlaceholder, SpawnPlaceholderFails, SendPlaceholderInit, Goto,
      streamVars, hostVars, Spawn, SendReplace, Deliver, Msg
  <2>3. CASE FindStream(i) \/ AnnounceWait(i) \/ WatchChanges(i) \/ WaitingSocketEnds(i) \/
    StreamChanges(i) \/ InputSocketEnds(i)
    BY <2>3, <1>0, LifecycleAssumption DEF PlaceholderWanted, Conns, LifecycleExclusive,
      LifecycleSection, FindStream, AnnounceWait, WatchChanges, WaitingSocketEnds, StreamChanges,
      InputSocketEnds, Goto, streamVars, hostVars, Spawn, SendReplace, Deliver, Msg
  <2>4. CASE Attach(i) \/ SendAttach(i) \/ Detach(i) \/ SendDetach(i)
    BY <2>4, <1>0, LifecycleAssumption DEF PlaceholderWanted, Conns, LifecycleExclusive,
      LifecycleSection, Attach, SendAttach, Detach, SendDetach, Goto, streamVars, hostVars, Spawn,
      SendReplace, Deliver, Msg
  <2> QED BY <2>1, <2>2, <2>3, <2>4 DEF Input
<1>3. CASE \E t \in Streams : Router(t) \/ Keeper(t) \/ Streamer(t) \/ TenSecondsPass(t)
  <2> PICK t \in Streams : Router(t) \/ Keeper(t) \/ Streamer(t) \/ TenSecondsPass(t)
    BY <1>3
  <2>1. CASE RouterEnds(t) \/ RouterClears(t) \/ RouterCloses(t)
    BY <2>1, <1>0, LifecycleAssumption DEF PlaceholderWanted, Conns, RouterEnds, RouterClears,
      RouterCloses, hostVars, SendReplace, Deliver, Msg, Reap
  <2>2. CASE KeeperPolls(t) \/ KeeperSendsStop(t) \/ KeeperReaps(t) \/ TenSecondsPass(t)
    BY <2>2, <1>0, LifecycleAssumption DEF PlaceholderWanted, Conns, KeeperPolls, KeeperSendsStop,
      KeeperReaps, TenSecondsPass, hostVars, SendReplace, Deliver, Msg, Reap
  <2>3. CASE StreamerBoots(t) \/ StreamerReads(t) \/ StreamerGivesUp(t)
    BY <2>3, <1>0, LifecycleAssumption DEF PlaceholderWanted, Conns, StreamerBoots, StreamerReads,
      StreamerGivesUp, hostVars, SendReplace, Deliver, Msg, Reap
  <2>4. CASE StreamerSaysStop(t) \/ StreamerExits(t) \/ StreamerPanics(t)
    BY <2>4, <1>0, LifecycleAssumption DEF PlaceholderWanted, Conns, StreamerSaysStop,
      StreamerExits, StreamerPanics, hostVars, SendReplace, Deliver, Msg, Reap
  <2> QED BY <2>1, <2>2, <2>3, <2>4 DEF Router, Keeper, Streamer
<1>4. CASE \E c \in Conns : RelayMessage(c) \/ BrowserCloses(c)
  BY <1>4, <1>0, LifecycleAssumption DEF PlaceholderWanted, Conns, RelayMessage, BrowserCloses,
    Deliver, Msg, hostVars, streamVars
<1>5. CASE UNCHANGED vars
  BY <1>5, <1>0 DEF PlaceholderWanted, Conns, vars
<1> QED BY <1>1, <1>2, <1>3, <1>4, <1>5 DEF Next

\* Every Msg is an IpcMessage; 0, the primary's client id, is one.
LEMMA MsgType ==
  /\ 0 \in Ids
  /\ \A k \in Kinds, n \in Ids : Msg(k, n) \in IpcMessage
<1>1. 0 \in Ids
  BY LifecycleAssumption DEF Ids
<1> QED BY <1>1 DEF Msg, IpcMessage, Kinds

\* What IpcSender::send does to the pipes keeps them sequences of messages.
LEMMA DeliverType ==
  ASSUME inbox \in [Streams -> Seq(IpcMessage)],
         NEW s \in Streams, NEW m \in IpcMessage, Deliver(s, m)
  PROVE  inbox' \in [Streams -> Seq(IpcMessage)]
<1>1. Append(inbox[s], m) \in Seq(IpcMessage)
  OBVIOUS
<1> QED BY <1>1 DEF Deliver

LEMMA TailType ==
  ASSUME inbox \in [Streams -> Seq(IpcMessage)],
         NEW s \in Streams, inbox[s] # <<>>
  PROVE  [inbox EXCEPT ![s] = Tail(@)] \in [Streams -> Seq(IpcMessage)]
<1>1. Tail(inbox[s]) \in Seq(IpcMessage)
  OBVIOUS
<1> QED BY <1>1

\* Every message that is sent is an IpcMessage.
LEMMA InboxTypeStep ==
  ASSUME TypeOK, MineBorn, [Next]_vars
  PROVE  inbox' \in [Streams -> Seq(IpcMessage)]
<1>0. /\ active \in Streams \cup {None}
      /\ clientId \in [Inputs -> Ids]
      /\ pc \in [Conns -> Location]
      /\ mine \in [Conns -> Streams \cup {None}]
      /\ inbox \in [Streams -> Seq(IpcMessage)]
  BY DEF TypeOK
<1>c. \A c \in Conns : pc[c] \in HasStream => mine[c] \in Streams
  BY DEF MineBorn
<1>d. \A s \in Streams : [inbox EXCEPT ![s] = <<>>] \in [Streams -> Seq(IpcMessage)]
  BY <1>0
<1>1. CASE \E p \in Primaries : Primary(p)
  <2> PICK p \in Primaries : Primary(p)
    BY <1>1
  <2>1. CASE StopExisting(p)
    BY <2>1, <1>0, LifecycleAssumption, MsgType, <1>c, DeliverType DEF Conns, HasStream, Attached,
      Kinds, StopExisting, Goto, Deliver, Msg, hostVars
  <2>2. CASE SendInit(p)
    BY <2>2, <1>0, LifecycleAssumption, MsgType, <1>c, DeliverType DEF Conns, HasStream, Attached,
      Kinds, SendInit, Goto, Deliver, Msg, hostVars
  <2>3. CASE SendStop(p)
    BY <2>3, <1>0, LifecycleAssumption, MsgType, <1>c, DeliverType DEF Conns, HasStream, Attached,
      Kinds, SendStop, Goto, Deliver, Msg, hostVars
  <2>4. CASE ReapPrimary(p)
    BY <2>4, <1>0, LifecycleAssumption, <1>c, <1>d DEF Conns, HasStream, Attached, ReapPrimary,
      Goto, Reap, hostVars
  <2>5. CASE AdmitPrimary(p) \/ RefusePrimary(p) \/ TakeLifecycle(p) \/ RejectDuplicate(p) \/
    MayReplace(p) \/ NothingToStop(p) \/ CaptureExisting(p) \/ StopWaitEnds(p) \/ (\E s \in Streams
    : SpawnPrimary(p, s)) \/ SpawnPrimaryFails(p) \/ RelayEnds(p) \/ ChildEndsFirst(p)
    BY <2>5, <1>0, LifecycleAssumption DEF Conns, AdmitPrimary, RefusePrimary, TakeLifecycle,
      RejectDuplicate, MayReplace, NothingToStop, CaptureExisting, StopWaitEnds, SpawnPrimary,
      SpawnPrimaryFails, RelayEnds, ChildEndsFirst, Goto, hostVars, streamVars, YoungPrimary, Spawn,
      SendReplace
  <2> QED BY <2>1, <2>2, <2>3, <2>4, <2>5 DEF Primary
<1>2. CASE \E i \in Inputs : Input(i)
  <2> PICK i \in Inputs : Input(i)
    BY <1>2
  <2>1. CASE SendPlaceholderInit(i)
    BY <2>1, <1>0, LifecycleAssumption, MsgType, <1>c, DeliverType DEF Conns, HasStream, Attached,
      Kinds, SendPlaceholderInit, Goto, Deliver, Msg, hostVars
  <2>2. CASE SendAttach(i)
    BY <2>2, <1>0, LifecycleAssumption, MsgType, <1>c, DeliverType DEF Conns, HasStream, Attached,
      Kinds, SendAttach, Goto, Deliver, Msg, hostVars
  <2>3. CASE SendDetach(i)
    BY <2>3, <1>0, LifecycleAssumption, MsgType, <1>c, DeliverType DEF Conns, HasStream, Attached,
      Kinds, SendDetach, Goto, Deliver, Msg, hostVars
  <2>4. CASE AdmitInput(i) \/ RefuseInput(i) \/ LookForStream(i) \/ TakeLifecycleForPlaceholder(i)
    \/ NoPlaceholder(i) \/ GameIsRunning(i) \/ (\E s \in Streams : SpawnPlaceholder(i, s)) \/
    SpawnPlaceholderFails(i) \/ FindStream(i) \/ AnnounceWait(i) \/ WatchChanges(i) \/
    WaitingSocketEnds(i) \/ Attach(i) \/ StreamChanges(i) \/ InputSocketEnds(i) \/ Detach(i)
    BY <2>4, <1>0, LifecycleAssumption DEF Conns, AdmitInput, RefuseInput, LookForStream,
      TakeLifecycleForPlaceholder, NoPlaceholder, GameIsRunning, SpawnPlaceholder,
      SpawnPlaceholderFails, FindStream, AnnounceWait, WatchChanges, WaitingSocketEnds, Attach,
      StreamChanges, InputSocketEnds, Detach, Goto, streamVars, hostVars, Spawn, SendReplace
  <2> QED BY <2>1, <2>2, <2>3, <2>4 DEF Input
<1>3. CASE \E t \in Streams : Router(t) \/ Keeper(t) \/ Streamer(t) \/ TenSecondsPass(t)
  <2> PICK t \in Streams : Router(t) \/ Keeper(t) \/ Streamer(t) \/ TenSecondsPass(t)
    BY <1>3
  <2>1. CASE KeeperSendsStop(t)
    BY <2>1, <1>0, LifecycleAssumption, MsgType, <1>c, DeliverType DEF Conns, HasStream, Attached,
      Kinds, KeeperSendsStop, Deliver, Msg, hostVars
  <2>2. CASE KeeperReaps(t)
    BY <2>2, <1>0, LifecycleAssumption, <1>d DEF Conns, KeeperReaps, Reap, hostVars
  <2>3. CASE StreamerBoots(t)
    BY <2>3, <1>0, LifecycleAssumption, TailType DEF Conns, StreamerBoots, hostVars
  <2>4. CASE StreamerReads(t)
    BY <2>4, <1>0, LifecycleAssumption, TailType DEF Conns, StreamerReads, hostVars
  <2>5. CASE StreamerExits(t)
    BY <2>5, <1>0, LifecycleAssumption, <1>d DEF Conns, StreamerExits, Reap, hostVars
  <2>6. CASE StreamerPanics(t)
    BY <2>6, <1>0, LifecycleAssumption, <1>d DEF Conns, StreamerPanics, Reap, hostVars
  <2>7. CASE RouterEnds(t) \/ RouterClears(t) \/ RouterCloses(t) \/ KeeperPolls(t) \/
    StreamerGivesUp(t) \/ StreamerSaysStop(t) \/ TenSecondsPass(t)
    BY <2>7, <1>0, LifecycleAssumption DEF Conns, RouterEnds, RouterClears, RouterCloses,
      KeeperPolls, StreamerGivesUp, StreamerSaysStop, TenSecondsPass, hostVars, SendReplace
  <2> QED BY <2>1, <2>2, <2>3, <2>4, <2>5, <2>6, <2>7 DEF Router, Keeper, Streamer
<1>4. CASE \E c \in Conns : RelayMessage(c) \/ BrowserCloses(c)
  BY <1>4, <1>0, LifecycleAssumption, MsgType, <1>c, DeliverType DEF Conns, HasStream, Attached,
    Kinds, RelayMessage, BrowserCloses, Deliver, Msg, hostVars, streamVars
<1>5. CASE UNCHANGED vars
  BY <1>5, <1>0 DEF Conns, vars
<1> QED BY <1>1, <1>2, <1>3, <1>4, <1>5 DEF Next

\* The shared part of the host: the watch and the mutex.
LEMMA HostTypeStep ==
  ASSUME TypeOK, [Next]_vars
  PROVE  /\ active' \in Streams \cup {None}
         /\ changed' \in [Inputs -> BOOLEAN]
         /\ lifecycle' \in Conns \cup {None}
<1>0. /\ active \in Streams \cup {None}
      /\ changed \in [Inputs -> BOOLEAN]
      /\ lifecycle \in Conns \cup {None}
  BY DEF TypeOK
<1>1. CASE \E p \in Primaries : Primary(p)
  <2> PICK p \in Primaries : Primary(p)
    BY <1>1
  <2>1. CASE AdmitPrimary(p) \/ RefusePrimary(p) \/ TakeLifecycle(p) \/ RejectDuplicate(p) \/
    MayReplace(p)
    BY <2>1, <1>0, LifecycleAssumption DEF Conns, AdmitPrimary, RefusePrimary, TakeLifecycle,
      RejectDuplicate, MayReplace, Goto, hostVars, streamVars, YoungPrimary, Deliver, Msg, Spawn,
      SendReplace, Reap
  <2>2. CASE NothingToStop(p) \/ CaptureExisting(p) \/ StopExisting(p) \/ StopWaitEnds(p)
    BY <2>2, <1>0, LifecycleAssumption DEF Conns, NothingToStop, CaptureExisting, StopExisting,
      StopWaitEnds, Goto, hostVars, streamVars, YoungPrimary, Deliver, Msg, Spawn, SendReplace, Reap
  <2>3. CASE (\E s \in Streams : SpawnPrimary(p, s)) \/ SpawnPrimaryFails(p) \/ SendInit(p)
    BY <2>3, <1>0, LifecycleAssumption DEF Conns, SpawnPrimary, SpawnPrimaryFails, SendInit, Goto,
      hostVars, streamVars, YoungPrimary, Deliver, Msg, Spawn, SendReplace, Reap
  <2>4. CASE RelayEnds(p) \/ ChildEndsFirst(p) \/ SendStop(p) \/ ReapPrimary(p)
    BY <2>4, <1>0, LifecycleAssumption DEF Conns, RelayEnds, ChildEndsFirst, SendStop, ReapPrimary,
      Goto, hostVars, streamVars, YoungPrimary, Deliver, Msg, Spawn, SendReplace, Reap
  <2> QED BY <2>1, <2>2, <2>3, <2>4 DEF Primary
<1>2. CASE \E i \in Inputs : Input(i)
  <2> PICK i \in Inputs : Input(i)
    BY <1>2
  <2>1. CASE AdmitInput(i) \/ RefuseInput(i) \/ LookForStream(i) \/ TakeLifecycleForPlaceholder(i)
    \/ NoPlaceholder(i) \/ GameIsRunning(i)
    BY <2>1, <1>0, LifecycleAssumption DEF Conns, AdmitInput, RefuseInput, LookForStream,
      TakeLifecycleForPlaceholder, NoPlaceholder, GameIsRunning, Goto, streamVars, hostVars, Spawn,
      SendReplace, Deliver, Msg
  <2>2. CASE (\E s \in Streams : SpawnPlaceholder(i, s)) \/ SpawnPlaceholderFails(i) \/
    SendPlaceholderInit(i)
    BY <2>2, <1>0, LifecycleAssumption DEF Conns, SpawnPlaceholder, SpawnPlaceholderFails,
      SendPlaceholderInit, Goto, streamVars, hostVars, Spawn, SendReplace, Deliver, Msg
  <2>3. CASE FindStream(i) \/ AnnounceWait(i) \/ WatchChanges(i) \/ WaitingSocketEnds(i) \/
    StreamChanges(i) \/ InputSocketEnds(i)
    BY <2>3, <1>0, LifecycleAssumption DEF Conns, FindStream, AnnounceWait, WatchChanges,
      WaitingSocketEnds, StreamChanges, InputSocketEnds, Goto, streamVars, hostVars, Spawn,
      SendReplace, Deliver, Msg
  <2>4. CASE Attach(i) \/ SendAttach(i) \/ Detach(i) \/ SendDetach(i)
    BY <2>4, <1>0, LifecycleAssumption DEF Conns, Attach, SendAttach, Detach, SendDetach, Goto,
      streamVars, hostVars, Spawn, SendReplace, Deliver, Msg
  <2> QED BY <2>1, <2>2, <2>3, <2>4 DEF Input
<1>3. CASE \E t \in Streams : Router(t) \/ Keeper(t) \/ Streamer(t) \/ TenSecondsPass(t)
  <2> PICK t \in Streams : Router(t) \/ Keeper(t) \/ Streamer(t) \/ TenSecondsPass(t)
    BY <1>3
  <2>1. CASE RouterEnds(t) \/ RouterClears(t) \/ RouterCloses(t)
    BY <2>1, <1>0, LifecycleAssumption DEF Conns, RouterEnds, RouterClears, RouterCloses, hostVars,
      SendReplace, Deliver, Msg, Reap
  <2>2. CASE KeeperPolls(t) \/ KeeperSendsStop(t) \/ KeeperReaps(t) \/ TenSecondsPass(t)
    BY <2>2, <1>0, LifecycleAssumption DEF Conns, KeeperPolls, KeeperSendsStop, KeeperReaps,
      TenSecondsPass, hostVars, SendReplace, Deliver, Msg, Reap
  <2>3. CASE StreamerBoots(t) \/ StreamerReads(t) \/ StreamerGivesUp(t)
    BY <2>3, <1>0, LifecycleAssumption DEF Conns, StreamerBoots, StreamerReads, StreamerGivesUp,
      hostVars, SendReplace, Deliver, Msg, Reap
  <2>4. CASE StreamerSaysStop(t) \/ StreamerExits(t) \/ StreamerPanics(t)
    BY <2>4, <1>0, LifecycleAssumption DEF Conns, StreamerSaysStop, StreamerExits, StreamerPanics,
      hostVars, SendReplace, Deliver, Msg, Reap
  <2> QED BY <2>1, <2>2, <2>3, <2>4 DEF Router, Keeper, Streamer
<1>4. CASE \E c \in Conns : RelayMessage(c) \/ BrowserCloses(c)
  BY <1>4, <1>0, LifecycleAssumption DEF Conns, RelayMessage, BrowserCloses, Deliver, Msg, hostVars,
    streamVars
<1>5. CASE UNCHANGED vars
  BY <1>5, <1>0 DEF Conns, vars
<1> QED BY <1>1, <1>2, <1>3, <1>4, <1>5 DEF Next

\* The handlers.
LEMMA HandlerTypeStep ==
  ASSUME TypeOK, [Next]_vars
  PROVE  /\ pc' \in [Conns -> Location]
         /\ ws' \in [Conns -> {"open", "closed"}]
         /\ mine' \in [Conns -> Streams \cup {None}]
<1>0. /\ pc \in [Conns -> Location]
      /\ ws \in [Conns -> {"open", "closed"}]
      /\ mine \in [Conns -> Streams \cup {None}]
      /\ active \in Streams \cup {None}
  BY DEF TypeOK
<1>1. CASE \E p \in Primaries : Primary(p)
  <2> PICK p \in Primaries : Primary(p)
    BY <1>1
  <2>1. CASE AdmitPrimary(p) \/ RefusePrimary(p) \/ TakeLifecycle(p) \/ RejectDuplicate(p) \/
    MayReplace(p)
    BY <2>1, <1>0, LifecycleAssumption DEF Conns, Location, AdmitPrimary, RefusePrimary,
      TakeLifecycle, RejectDuplicate, MayReplace, Goto, hostVars, streamVars, YoungPrimary, Deliver,
      Msg, Spawn, SendReplace, Reap
  <2>2. CASE NothingToStop(p) \/ CaptureExisting(p) \/ StopExisting(p) \/ StopWaitEnds(p)
    BY <2>2, <1>0, LifecycleAssumption DEF Conns, Location, NothingToStop, CaptureExisting,
      StopExisting, StopWaitEnds, Goto, hostVars, streamVars, YoungPrimary, Deliver, Msg, Spawn,
      SendReplace, Reap
  <2>3. CASE (\E s \in Streams : SpawnPrimary(p, s)) \/ SpawnPrimaryFails(p) \/ SendInit(p)
    BY <2>3, <1>0, LifecycleAssumption DEF Conns, Location, SpawnPrimary, SpawnPrimaryFails,
      SendInit, Goto, hostVars, streamVars, YoungPrimary, Deliver, Msg, Spawn, SendReplace, Reap
  <2>4. CASE RelayEnds(p) \/ ChildEndsFirst(p) \/ SendStop(p) \/ ReapPrimary(p)
    BY <2>4, <1>0, LifecycleAssumption DEF Conns, Location, RelayEnds, ChildEndsFirst, SendStop,
      ReapPrimary, Goto, hostVars, streamVars, YoungPrimary, Deliver, Msg, Spawn, SendReplace, Reap
  <2> QED BY <2>1, <2>2, <2>3, <2>4 DEF Primary
<1>2. CASE \E i \in Inputs : Input(i)
  <2> PICK i \in Inputs : Input(i)
    BY <1>2
  <2>1. CASE AdmitInput(i) \/ RefuseInput(i) \/ LookForStream(i) \/ TakeLifecycleForPlaceholder(i)
    \/ NoPlaceholder(i) \/ GameIsRunning(i)
    BY <2>1, <1>0, LifecycleAssumption DEF Conns, Location, AdmitInput, RefuseInput, LookForStream,
      TakeLifecycleForPlaceholder, NoPlaceholder, GameIsRunning, Goto, streamVars, hostVars, Spawn,
      SendReplace, Deliver, Msg
  <2>2. CASE (\E s \in Streams : SpawnPlaceholder(i, s)) \/ SpawnPlaceholderFails(i) \/
    SendPlaceholderInit(i)
    BY <2>2, <1>0, LifecycleAssumption DEF Conns, Location, SpawnPlaceholder, SpawnPlaceholderFails,
      SendPlaceholderInit, Goto, streamVars, hostVars, Spawn, SendReplace, Deliver, Msg
  <2>3. CASE FindStream(i) \/ AnnounceWait(i) \/ WatchChanges(i) \/ WaitingSocketEnds(i) \/
    StreamChanges(i) \/ InputSocketEnds(i)
    BY <2>3, <1>0, LifecycleAssumption DEF Conns, Location, FindStream, AnnounceWait, WatchChanges,
      WaitingSocketEnds, StreamChanges, InputSocketEnds, Goto, streamVars, hostVars, Spawn,
      SendReplace, Deliver, Msg
  <2>4. CASE Attach(i) \/ SendAttach(i) \/ Detach(i) \/ SendDetach(i)
    BY <2>4, <1>0, LifecycleAssumption DEF Conns, Location, Attach, SendAttach, Detach, SendDetach,
      Goto, streamVars, hostVars, Spawn, SendReplace, Deliver, Msg
  <2> QED BY <2>1, <2>2, <2>3, <2>4 DEF Input
<1>3. CASE \E t \in Streams : Router(t) \/ Keeper(t) \/ Streamer(t) \/ TenSecondsPass(t)
  <2> PICK t \in Streams : Router(t) \/ Keeper(t) \/ Streamer(t) \/ TenSecondsPass(t)
    BY <1>3
  <2>1. CASE RouterEnds(t) \/ RouterClears(t) \/ RouterCloses(t)
    BY <2>1, <1>0, LifecycleAssumption DEF Conns, Location, RouterEnds, RouterClears, RouterCloses,
      hostVars, SendReplace, Deliver, Msg, Reap
  <2>2. CASE KeeperPolls(t) \/ KeeperSendsStop(t) \/ KeeperReaps(t) \/ TenSecondsPass(t)
    BY <2>2, <1>0, LifecycleAssumption DEF Conns, Location, KeeperPolls, KeeperSendsStop,
      KeeperReaps, TenSecondsPass, hostVars, SendReplace, Deliver, Msg, Reap
  <2>3. CASE StreamerBoots(t) \/ StreamerReads(t) \/ StreamerGivesUp(t)
    BY <2>3, <1>0, LifecycleAssumption DEF Conns, Location, StreamerBoots, StreamerReads,
      StreamerGivesUp, hostVars, SendReplace, Deliver, Msg, Reap
  <2>4. CASE StreamerSaysStop(t) \/ StreamerExits(t) \/ StreamerPanics(t)
    BY <2>4, <1>0, LifecycleAssumption DEF Conns, Location, StreamerSaysStop, StreamerExits,
      StreamerPanics, hostVars, SendReplace, Deliver, Msg, Reap
  <2> QED BY <2>1, <2>2, <2>3, <2>4 DEF Router, Keeper, Streamer
<1>4. CASE \E c \in Conns : RelayMessage(c) \/ BrowserCloses(c)
  BY <1>4, <1>0, LifecycleAssumption DEF Conns, Location, RelayMessage, BrowserCloses, Deliver, Msg,
    hostVars, streamVars
<1>5. CASE UNCHANGED vars
  BY <1>5, <1>0 DEF Conns, Location, vars
<1> QED BY <1>1, <1>2, <1>3, <1>4, <1>5 DEF Next

\* The client ids; u32::MAX wraps.
LEMMA ClientTypeStep ==
  ASSUME TypeOK, MineBorn, [Next]_vars
  PROVE  /\ clientId' \in [Inputs -> Ids]
         /\ clients' \in [Streams -> [Ids -> Conns \cup {None}]]
         /\ nextId' \in [Streams -> 1..MaxId]
<1>0. /\ clientId \in [Inputs -> Ids]
      /\ clients \in [Streams -> [Ids -> Conns \cup {None}]]
      /\ nextId \in [Streams -> 1..MaxId]
      /\ mine \in [Conns -> Streams \cup {None}]
  BY DEF TypeOK
<1>1. CASE \E p \in Primaries : Primary(p)
  <2> PICK p \in Primaries : Primary(p)
    BY <1>1
  <2>1. CASE \E s \in Streams : SpawnPrimary(p, s)
    BY <2>1, <1>0, LifecycleAssumption DEF Conns, Ids, SpawnPrimary, Goto, Spawn, SendReplace
  <2>2. CASE AdmitPrimary(p) \/ RefusePrimary(p) \/ TakeLifecycle(p) \/ RejectDuplicate(p) \/
    MayReplace(p) \/ NothingToStop(p) \/ CaptureExisting(p) \/ StopExisting(p) \/ StopWaitEnds(p) \/
    SpawnPrimaryFails(p) \/ SendInit(p) \/ RelayEnds(p) \/ ChildEndsFirst(p) \/ SendStop(p) \/
    ReapPrimary(p)
    BY <2>2, <1>0, LifecycleAssumption DEF Conns, Ids, AdmitPrimary, RefusePrimary, TakeLifecycle,
      RejectDuplicate, MayReplace, NothingToStop, CaptureExisting, StopExisting, StopWaitEnds,
      SpawnPrimaryFails, SendInit, RelayEnds, ChildEndsFirst, SendStop, ReapPrimary, Goto, hostVars,
      streamVars, YoungPrimary, Deliver, Msg, Reap
  <2> QED BY <2>1, <2>2 DEF Primary
<1>2. CASE \E i \in Inputs : Input(i)
  <2> PICK i \in Inputs : Input(i)
    BY <1>2
  <2>1. CASE \E s \in Streams : SpawnPlaceholder(i, s)
    BY <2>1, <1>0, LifecycleAssumption DEF Conns, Ids, SpawnPlaceholder, Goto, Spawn, SendReplace
  <2>2. CASE Attach(i)
    BY <2>2, <1>0, LifecycleAssumption DEF Conns, Ids, MineBorn, HasStream, Attach, Goto, hostVars
  <2>3. CASE Detach(i)
    BY <2>3, <1>0, LifecycleAssumption DEF Conns, Ids, Detach, Goto, hostVars
  <2>4. CASE SendDetach(i)
    BY <2>4, <1>0, LifecycleAssumption DEF Conns, Ids, SendDetach, Goto, Deliver, Msg, hostVars
  <2>5. CASE AdmitInput(i) \/ RefuseInput(i) \/ LookForStream(i) \/ TakeLifecycleForPlaceholder(i)
    \/ NoPlaceholder(i) \/ GameIsRunning(i) \/ SpawnPlaceholderFails(i) \/ SendPlaceholderInit(i) \/
    FindStream(i) \/ AnnounceWait(i) \/ WatchChanges(i) \/ WaitingSocketEnds(i) \/ SendAttach(i) \/
    StreamChanges(i) \/ InputSocketEnds(i)
    BY <2>5, <1>0, LifecycleAssumption DEF Conns, Ids, AdmitInput, RefuseInput, LookForStream,
      TakeLifecycleForPlaceholder, NoPlaceholder, GameIsRunning, SpawnPlaceholderFails,
      SendPlaceholderInit, FindStream, AnnounceWait, WatchChanges, WaitingSocketEnds, SendAttach,
      StreamChanges, InputSocketEnds, Goto, streamVars, hostVars, Deliver, Msg
  <2> QED BY <2>1, <2>2, <2>3, <2>4, <2>5 DEF Input
<1>3. CASE \E t \in Streams : Router(t) \/ Keeper(t) \/ Streamer(t) \/ TenSecondsPass(t)
  <2> PICK t \in Streams : Router(t) \/ Keeper(t) \/ Streamer(t) \/ TenSecondsPass(t)
    BY <1>3
  <2>1. CASE RouterCloses(t)
    BY <2>1, <1>0, LifecycleAssumption DEF Conns, Ids, RouterCloses, hostVars
  <2>2. CASE RouterEnds(t) \/ RouterClears(t) \/ KeeperPolls(t) \/ KeeperSendsStop(t) \/
    KeeperReaps(t) \/ StreamerBoots(t) \/ StreamerReads(t) \/ StreamerGivesUp(t) \/
    StreamerSaysStop(t) \/ StreamerExits(t) \/ StreamerPanics(t) \/ TenSecondsPass(t)
    BY <2>2, <1>0, LifecycleAssumption DEF Conns, Ids, RouterEnds, RouterClears, KeeperPolls,
      KeeperSendsStop, KeeperReaps, StreamerBoots, StreamerReads, StreamerGivesUp, StreamerSaysStop,
      StreamerExits, StreamerPanics, TenSecondsPass, hostVars, SendReplace, Deliver, Msg, Reap
  <2> QED BY <2>1, <2>2 DEF Router, Keeper, Streamer
<1>4. CASE \E c \in Conns : RelayMessage(c) \/ BrowserCloses(c)
  BY <1>4, <1>0, LifecycleAssumption DEF Conns, Ids, RelayMessage, BrowserCloses, Deliver, Msg,
    hostVars, streamVars
<1>5. CASE UNCHANGED vars
  BY <1>5, <1>0 DEF Conns, Ids, vars
<1> QED BY <1>1, <1>2, <1>3, <1>4, <1>5 DEF Next

\* The process, its router and the age of its primary.
LEMMA ProcessTypeStep ==
  ASSUME TypeOK, [Next]_vars
  PROVE  /\ child' \in [Streams -> ChildState]
         /\ router' \in [Streams -> {"off", "recv", "clear", "close", "done"}]
         /\ young' \in [Streams -> BOOLEAN]
<1>0. /\ child \in [Streams -> ChildState]
      /\ router \in [Streams -> {"off", "recv", "clear", "close", "done"}]
      /\ young \in [Streams -> BOOLEAN]
  BY DEF TypeOK
<1>1. CASE \E p \in Primaries : Primary(p)
  <2> PICK p \in Primaries : Primary(p)
    BY <1>1
  <2>1. CASE AdmitPrimary(p) \/ RefusePrimary(p) \/ TakeLifecycle(p) \/ RejectDuplicate(p) \/
    MayReplace(p)
    BY <2>1, <1>0, LifecycleAssumption DEF ChildState, AdmitPrimary, RefusePrimary, TakeLifecycle,
      RejectDuplicate, MayReplace, Goto, hostVars, streamVars, YoungPrimary, Deliver, Msg, Spawn,
      SendReplace, Reap
  <2>2. CASE NothingToStop(p) \/ CaptureExisting(p) \/ StopExisting(p) \/ StopWaitEnds(p)
    BY <2>2, <1>0, LifecycleAssumption DEF ChildState, NothingToStop, CaptureExisting, StopExisting,
      StopWaitEnds, Goto, hostVars, streamVars, YoungPrimary, Deliver, Msg, Spawn, SendReplace, Reap
  <2>3. CASE (\E s \in Streams : SpawnPrimary(p, s)) \/ SpawnPrimaryFails(p) \/ SendInit(p)
    BY <2>3, <1>0, LifecycleAssumption DEF ChildState, SpawnPrimary, SpawnPrimaryFails, SendInit,
      Goto, hostVars, streamVars, YoungPrimary, Deliver, Msg, Spawn, SendReplace, Reap
  <2>4. CASE RelayEnds(p) \/ ChildEndsFirst(p) \/ SendStop(p) \/ ReapPrimary(p)
    BY <2>4, <1>0, LifecycleAssumption DEF ChildState, RelayEnds, ChildEndsFirst, SendStop,
      ReapPrimary, Goto, hostVars, streamVars, YoungPrimary, Deliver, Msg, Spawn, SendReplace, Reap
  <2> QED BY <2>1, <2>2, <2>3, <2>4 DEF Primary
<1>2. CASE \E i \in Inputs : Input(i)
  <2> PICK i \in Inputs : Input(i)
    BY <1>2
  <2>1. CASE AdmitInput(i) \/ RefuseInput(i) \/ LookForStream(i) \/ TakeLifecycleForPlaceholder(i)
    \/ NoPlaceholder(i) \/ GameIsRunning(i)
    BY <2>1, <1>0, LifecycleAssumption DEF ChildState, AdmitInput, RefuseInput, LookForStream,
      TakeLifecycleForPlaceholder, NoPlaceholder, GameIsRunning, Goto, streamVars, hostVars, Spawn,
      SendReplace, Deliver, Msg
  <2>2. CASE (\E s \in Streams : SpawnPlaceholder(i, s)) \/ SpawnPlaceholderFails(i) \/
    SendPlaceholderInit(i)
    BY <2>2, <1>0, LifecycleAssumption DEF ChildState, SpawnPlaceholder, SpawnPlaceholderFails,
      SendPlaceholderInit, Goto, streamVars, hostVars, Spawn, SendReplace, Deliver, Msg
  <2>3. CASE FindStream(i) \/ AnnounceWait(i) \/ WatchChanges(i) \/ WaitingSocketEnds(i) \/
    StreamChanges(i) \/ InputSocketEnds(i)
    BY <2>3, <1>0, LifecycleAssumption DEF ChildState, FindStream, AnnounceWait, WatchChanges,
      WaitingSocketEnds, StreamChanges, InputSocketEnds, Goto, streamVars, hostVars, Spawn,
      SendReplace, Deliver, Msg
  <2>4. CASE Attach(i) \/ SendAttach(i) \/ Detach(i) \/ SendDetach(i)
    BY <2>4, <1>0, LifecycleAssumption DEF ChildState, Attach, SendAttach, Detach, SendDetach, Goto,
      streamVars, hostVars, Spawn, SendReplace, Deliver, Msg
  <2> QED BY <2>1, <2>2, <2>3, <2>4 DEF Input
<1>3. CASE \E t \in Streams : Router(t) \/ Keeper(t) \/ Streamer(t) \/ TenSecondsPass(t)
  <2> PICK t \in Streams : Router(t) \/ Keeper(t) \/ Streamer(t) \/ TenSecondsPass(t)
    BY <1>3
  <2>1. CASE RouterEnds(t) \/ RouterClears(t) \/ RouterCloses(t)
    BY <2>1, <1>0, LifecycleAssumption DEF ChildState, RouterEnds, RouterClears, RouterCloses,
      hostVars, SendReplace, Deliver, Msg, Reap
  <2>2. CASE KeeperPolls(t) \/ KeeperSendsStop(t) \/ KeeperReaps(t) \/ TenSecondsPass(t)
    BY <2>2, <1>0, LifecycleAssumption DEF ChildState, KeeperPolls, KeeperSendsStop, KeeperReaps,
      TenSecondsPass, hostVars, SendReplace, Deliver, Msg, Reap
  <2>3. CASE StreamerBoots(t) \/ StreamerReads(t) \/ StreamerGivesUp(t)
    BY <2>3, <1>0, LifecycleAssumption DEF ChildState, StreamerBoots, StreamerReads,
      StreamerGivesUp, hostVars, SendReplace, Deliver, Msg, Reap
  <2>4. CASE StreamerSaysStop(t) \/ StreamerExits(t) \/ StreamerPanics(t)
    BY <2>4, <1>0, LifecycleAssumption DEF ChildState, StreamerSaysStop, StreamerExits,
      StreamerPanics, hostVars, SendReplace, Deliver, Msg, Reap
  <2> QED BY <2>1, <2>2, <2>3, <2>4 DEF Router, Keeper, Streamer
<1>4. CASE \E c \in Conns : RelayMessage(c) \/ BrowserCloses(c)
  BY <1>4, <1>0, LifecycleAssumption DEF ChildState, RelayMessage, BrowserCloses, Deliver, Msg,
    hostVars, streamVars
<1>5. CASE UNCHANGED vars
  BY <1>5, <1>0 DEF ChildState, vars
<1> QED BY <1>1, <1>2, <1>3, <1>4, <1>5 DEF Next

\* The supervisor and its count.
LEMMA KeeperTypeStep ==
  ASSUME TypeOK, KeeperCounts, [Next]_vars
  PROVE  /\ keeper' \in [Streams -> {"off", "poll", "sendStop", "reap", "done"}]
         /\ polls' \in [Streams -> 0..EmptyPollsBeforeStop]
<1>0. /\ keeper \in [Streams -> {"off", "poll", "sendStop", "reap", "done"}]
      /\ polls \in [Streams -> 0..EmptyPollsBeforeStop]
  BY DEF TypeOK
<1>1. CASE \E p \in Primaries : Primary(p)
  <2> PICK p \in Primaries : Primary(p)
    BY <1>1
  <2>1. CASE AdmitPrimary(p) \/ RefusePrimary(p) \/ TakeLifecycle(p) \/ RejectDuplicate(p) \/
    MayReplace(p)
    BY <2>1, <1>0, LifecycleAssumption DEF AdmitPrimary, RefusePrimary, TakeLifecycle,
      RejectDuplicate, MayReplace, Goto, hostVars, streamVars, YoungPrimary, Deliver, Msg, Spawn,
      SendReplace, Reap
  <2>2. CASE NothingToStop(p) \/ CaptureExisting(p) \/ StopExisting(p) \/ StopWaitEnds(p)
    BY <2>2, <1>0, LifecycleAssumption DEF NothingToStop, CaptureExisting, StopExisting,
      StopWaitEnds, Goto, hostVars, streamVars, YoungPrimary, Deliver, Msg, Spawn, SendReplace, Reap
  <2>3. CASE (\E s \in Streams : SpawnPrimary(p, s)) \/ SpawnPrimaryFails(p) \/ SendInit(p)
    BY <2>3, <1>0, LifecycleAssumption DEF SpawnPrimary, SpawnPrimaryFails, SendInit, Goto,
      hostVars, streamVars, YoungPrimary, Deliver, Msg, Spawn, SendReplace, Reap
  <2>4. CASE RelayEnds(p) \/ ChildEndsFirst(p) \/ SendStop(p) \/ ReapPrimary(p)
    BY <2>4, <1>0, LifecycleAssumption DEF RelayEnds, ChildEndsFirst, SendStop, ReapPrimary, Goto,
      hostVars, streamVars, YoungPrimary, Deliver, Msg, Spawn, SendReplace, Reap
  <2> QED BY <2>1, <2>2, <2>3, <2>4 DEF Primary
<1>2. CASE \E i \in Inputs : Input(i)
  <2> PICK i \in Inputs : Input(i)
    BY <1>2
  <2>1. CASE AdmitInput(i) \/ RefuseInput(i) \/ LookForStream(i) \/ TakeLifecycleForPlaceholder(i)
    \/ NoPlaceholder(i) \/ GameIsRunning(i)
    BY <2>1, <1>0, LifecycleAssumption DEF AdmitInput, RefuseInput, LookForStream,
      TakeLifecycleForPlaceholder, NoPlaceholder, GameIsRunning, Goto, streamVars, hostVars, Spawn,
      SendReplace, Deliver, Msg
  <2>2. CASE (\E s \in Streams : SpawnPlaceholder(i, s)) \/ SpawnPlaceholderFails(i) \/
    SendPlaceholderInit(i)
    BY <2>2, <1>0, LifecycleAssumption DEF SpawnPlaceholder, SpawnPlaceholderFails,
      SendPlaceholderInit, Goto, streamVars, hostVars, Spawn, SendReplace, Deliver, Msg
  <2>3. CASE FindStream(i) \/ AnnounceWait(i) \/ WatchChanges(i) \/ WaitingSocketEnds(i) \/
    StreamChanges(i) \/ InputSocketEnds(i)
    BY <2>3, <1>0, LifecycleAssumption DEF FindStream, AnnounceWait, WatchChanges,
      WaitingSocketEnds, StreamChanges, InputSocketEnds, Goto, streamVars, hostVars, Spawn,
      SendReplace, Deliver, Msg
  <2>4. CASE Attach(i) \/ SendAttach(i) \/ Detach(i) \/ SendDetach(i)
    BY <2>4, <1>0, LifecycleAssumption DEF Attach, SendAttach, Detach, SendDetach, Goto, streamVars,
      hostVars, Spawn, SendReplace, Deliver, Msg
  <2> QED BY <2>1, <2>2, <2>3, <2>4 DEF Input
<1>3. CASE \E t \in Streams : Router(t) \/ Keeper(t) \/ Streamer(t) \/ TenSecondsPass(t)
  <2> PICK t \in Streams : Router(t) \/ Keeper(t) \/ Streamer(t) \/ TenSecondsPass(t)
    BY <1>3
  <2>1. CASE RouterEnds(t) \/ RouterClears(t) \/ RouterCloses(t)
    BY <2>1, <1>0, LifecycleAssumption DEF KeeperCounts, RouterEnds, RouterClears, RouterCloses,
      hostVars, SendReplace, Deliver, Msg, Reap
  <2>2. CASE KeeperPolls(t) \/ KeeperSendsStop(t) \/ KeeperReaps(t) \/ TenSecondsPass(t)
    BY <2>2, <1>0, LifecycleAssumption DEF KeeperCounts, KeeperPolls, KeeperSendsStop, KeeperReaps,
      TenSecondsPass, hostVars, SendReplace, Deliver, Msg, Reap
  <2>3. CASE StreamerBoots(t) \/ StreamerReads(t) \/ StreamerGivesUp(t)
    BY <2>3, <1>0, LifecycleAssumption DEF KeeperCounts, StreamerBoots, StreamerReads,
      StreamerGivesUp, hostVars, SendReplace, Deliver, Msg, Reap
  <2>4. CASE StreamerSaysStop(t) \/ StreamerExits(t) \/ StreamerPanics(t)
    BY <2>4, <1>0, LifecycleAssumption DEF KeeperCounts, StreamerSaysStop, StreamerExits,
      StreamerPanics, hostVars, SendReplace, Deliver, Msg, Reap
  <2> QED BY <2>1, <2>2, <2>3, <2>4 DEF Router, Keeper, Streamer
<1>4. CASE \E c \in Conns : RelayMessage(c) \/ BrowserCloses(c)
  BY <1>4, <1>0, LifecycleAssumption DEF RelayMessage, BrowserCloses, Deliver, Msg, hostVars,
    streamVars
<1>5. CASE UNCHANGED vars
  BY <1>5, <1>0 DEF vars
<1> QED BY <1>1, <1>2, <1>3, <1>4, <1>5 DEF Next

\* The flag of the IPC loop.
LEMMA DeafTypeStep ==
  ASSUME TypeOK, [Next]_vars
  PROVE  deaf' \in [Streams -> BOOLEAN]
<1>0. /\ deaf \in [Streams -> BOOLEAN]
  BY DEF TypeOK
<1>1. CASE \E p \in Primaries : Primary(p)
  <2> PICK p \in Primaries : Primary(p)
    BY <1>1
  <2>1. CASE AdmitPrimary(p) \/ RefusePrimary(p) \/ TakeLifecycle(p) \/ RejectDuplicate(p) \/
    MayReplace(p)
    BY <2>1, <1>0, LifecycleAssumption DEF AdmitPrimary, RefusePrimary, TakeLifecycle,
      RejectDuplicate, MayReplace, Goto, hostVars, streamVars, YoungPrimary, Deliver, Msg, Spawn,
      SendReplace, Reap
  <2>2. CASE NothingToStop(p) \/ CaptureExisting(p) \/ StopExisting(p) \/ StopWaitEnds(p)
    BY <2>2, <1>0, LifecycleAssumption DEF NothingToStop, CaptureExisting, StopExisting,
      StopWaitEnds, Goto, hostVars, streamVars, YoungPrimary, Deliver, Msg, Spawn, SendReplace, Reap
  <2>3. CASE (\E s \in Streams : SpawnPrimary(p, s)) \/ SpawnPrimaryFails(p) \/ SendInit(p)
    BY <2>3, <1>0, LifecycleAssumption DEF SpawnPrimary, SpawnPrimaryFails, SendInit, Goto,
      hostVars, streamVars, YoungPrimary, Deliver, Msg, Spawn, SendReplace, Reap
  <2>4. CASE RelayEnds(p) \/ ChildEndsFirst(p) \/ SendStop(p) \/ ReapPrimary(p)
    BY <2>4, <1>0, LifecycleAssumption DEF RelayEnds, ChildEndsFirst, SendStop, ReapPrimary, Goto,
      hostVars, streamVars, YoungPrimary, Deliver, Msg, Spawn, SendReplace, Reap
  <2> QED BY <2>1, <2>2, <2>3, <2>4 DEF Primary
<1>2. CASE \E i \in Inputs : Input(i)
  <2> PICK i \in Inputs : Input(i)
    BY <1>2
  <2>1. CASE AdmitInput(i) \/ RefuseInput(i) \/ LookForStream(i) \/ TakeLifecycleForPlaceholder(i)
    \/ NoPlaceholder(i) \/ GameIsRunning(i)
    BY <2>1, <1>0, LifecycleAssumption DEF AdmitInput, RefuseInput, LookForStream,
      TakeLifecycleForPlaceholder, NoPlaceholder, GameIsRunning, Goto, streamVars, hostVars, Spawn,
      SendReplace, Deliver, Msg
  <2>2. CASE (\E s \in Streams : SpawnPlaceholder(i, s)) \/ SpawnPlaceholderFails(i) \/
    SendPlaceholderInit(i)
    BY <2>2, <1>0, LifecycleAssumption DEF SpawnPlaceholder, SpawnPlaceholderFails,
      SendPlaceholderInit, Goto, streamVars, hostVars, Spawn, SendReplace, Deliver, Msg
  <2>3. CASE FindStream(i) \/ AnnounceWait(i) \/ WatchChanges(i) \/ WaitingSocketEnds(i) \/
    StreamChanges(i) \/ InputSocketEnds(i)
    BY <2>3, <1>0, LifecycleAssumption DEF FindStream, AnnounceWait, WatchChanges,
      WaitingSocketEnds, StreamChanges, InputSocketEnds, Goto, streamVars, hostVars, Spawn,
      SendReplace, Deliver, Msg
  <2>4. CASE Attach(i) \/ SendAttach(i) \/ Detach(i) \/ SendDetach(i)
    BY <2>4, <1>0, LifecycleAssumption DEF Attach, SendAttach, Detach, SendDetach, Goto, streamVars,
      hostVars, Spawn, SendReplace, Deliver, Msg
  <2> QED BY <2>1, <2>2, <2>3, <2>4 DEF Input
<1>3. CASE \E t \in Streams : Router(t) \/ Keeper(t) \/ Streamer(t) \/ TenSecondsPass(t)
  <2> PICK t \in Streams : Router(t) \/ Keeper(t) \/ Streamer(t) \/ TenSecondsPass(t)
    BY <1>3
  <2>1. CASE RouterEnds(t) \/ RouterClears(t) \/ RouterCloses(t)
    BY <2>1, <1>0, LifecycleAssumption DEF RouterEnds, RouterClears, RouterCloses, hostVars,
      SendReplace, Deliver, Msg, Reap
  <2>2. CASE KeeperPolls(t) \/ KeeperSendsStop(t) \/ KeeperReaps(t) \/ TenSecondsPass(t)
    BY <2>2, <1>0, LifecycleAssumption DEF KeeperPolls, KeeperSendsStop, KeeperReaps,
      TenSecondsPass, hostVars, SendReplace, Deliver, Msg, Reap
  <2>3. CASE StreamerBoots(t) \/ StreamerReads(t) \/ StreamerGivesUp(t)
    BY <2>3, <1>0, LifecycleAssumption DEF StreamerBoots, StreamerReads, StreamerGivesUp, hostVars,
      SendReplace, Deliver, Msg, Reap
  <2>4. CASE StreamerSaysStop(t) \/ StreamerExits(t) \/ StreamerPanics(t)
    BY <2>4, <1>0, LifecycleAssumption DEF StreamerSaysStop, StreamerExits, StreamerPanics,
      hostVars, SendReplace, Deliver, Msg, Reap
  <2> QED BY <2>1, <2>2, <2>3, <2>4 DEF Router, Keeper, Streamer
<1>4. CASE \E c \in Conns : RelayMessage(c) \/ BrowserCloses(c)
  BY <1>4, <1>0, LifecycleAssumption DEF RelayMessage, BrowserCloses, Deliver, Msg, hostVars,
    streamVars
<1>5. CASE UNCHANGED vars
  BY <1>5, <1>0 DEF vars
<1> QED BY <1>1, <1>2, <1>3, <1>4, <1>5 DEF Next

\* Types are preserved.
LEMMA TypeOKStep ==
  ASSUME TypeOK, MineBorn, KeeperCounts, [Next]_vars
  PROVE  TypeOK'
BY HostTypeStep, HandlerTypeStep, ClientTypeStep, ProcessTypeStep, KeeperTypeStep,
   DeafTypeStep, InboxTypeStep DEF TypeOK

\* What a step can do to a pipe; a Stop never enters it while Init is still pending.
LEMMA InboxStep ==
  ASSUME TypeOK, LifecycleExclusive, MineBorn, SoleOwner, OwnerNotKept, [Next]_vars
  PROVE  \A s \in Streams :
             \/ inbox'[s] = inbox[s]
             \/ child'[s] = "exited"
             \/ \E k \in Kinds, n \in Ids :
                   /\ inbox'[s] = Append(inbox[s], Msg(k, n))
                   /\ k = "Stop" => ~InitPending(s)
             \/ /\ inbox[s] # <<>> /\ inbox'[s] = Tail(inbox[s])
                /\ child'[s] = "boot" => Head(inbox[s]).kind # "Init"
<1>0. /\ active \in Streams \cup {None}
      /\ clientId \in [Inputs -> Ids]
      /\ pc \in [Conns -> Location]
      /\ mine \in [Conns -> Streams \cup {None}]
      /\ inbox \in [Streams -> Seq(IpcMessage)]
      /\ child \in [Streams -> ChildState]
  BY DEF TypeOK
<1>c. \A c \in Conns : pc[c] \in HasStream => mine[c] \in Streams
  BY DEF MineBorn
<1>d. \A c \in Conns : pc[c] = "tell" => \A s \in Streams : ~InitPending(s)
  BY DEF LifecycleExclusive, LifecycleSection, InitPending
<1>e. \A p \in Primaries, s \in Streams : pc[p] = "sendStop" /\ mine[p] = s => ~InitPending(s)
  BY DEF SoleOwner, InitPending, Owns, Conns
<1>f. \A s \in Streams : keeper[s] = "sendStop" => ~InitPending(s)
  BY DEF OwnerNotKept, InitPending
<1>1. CASE \E p \in Primaries : Primary(p)
  <2> PICK p \in Primaries : Primary(p)
    BY <1>1
  <2>1. CASE StopExisting(p)
    BY <2>1, <1>0, LifecycleAssumption, MsgType, <1>c, <1>d DEF Conns, HasStream, Kinds,
      StopExisting, Goto, Deliver, Msg, hostVars
  <2>2. CASE \E s \in Streams : SpawnPrimary(p, s)
    BY <2>2, <1>0, LifecycleAssumption DEF Conns, SpawnPrimary, Goto, Spawn, SendReplace
  <2>3. CASE SendInit(p)
    BY <2>3, <1>0, LifecycleAssumption, MsgType, <1>c DEF Conns, HasStream, Attached, Kinds,
      SendInit, Goto, Deliver, Msg, hostVars
  <2>4. CASE SendStop(p)
    BY <2>4, <1>0, LifecycleAssumption, MsgType, <1>c, <1>e DEF Conns, HasStream, Kinds, SendStop,
      Goto, Deliver, Msg, hostVars
  <2>5. CASE ReapPrimary(p)
    BY <2>5, <1>0, LifecycleAssumption, <1>c DEF Conns, HasStream, ReapPrimary, Goto, Reap, hostVars
  <2>6. CASE AdmitPrimary(p) \/ RefusePrimary(p) \/ TakeLifecycle(p) \/ RejectDuplicate(p) \/
    MayReplace(p) \/ NothingToStop(p) \/ CaptureExisting(p) \/ StopWaitEnds(p) \/
    SpawnPrimaryFails(p) \/ RelayEnds(p) \/ ChildEndsFirst(p)
    BY <2>6, <1>0, LifecycleAssumption DEF Conns, AdmitPrimary, RefusePrimary, TakeLifecycle,
      RejectDuplicate, MayReplace, NothingToStop, CaptureExisting, StopWaitEnds, SpawnPrimaryFails,
      RelayEnds, ChildEndsFirst, Goto, hostVars, streamVars, YoungPrimary
  <2> QED BY <2>1, <2>2, <2>3, <2>4, <2>5, <2>6 DEF Primary
<1>2. CASE \E i \in Inputs : Input(i)
  <2> PICK i \in Inputs : Input(i)
    BY <1>2
  <2>1. CASE \E s \in Streams : SpawnPlaceholder(i, s)
    BY <2>1, <1>0, LifecycleAssumption DEF Conns, SpawnPlaceholder, Goto, Spawn, SendReplace
  <2>2. CASE SendPlaceholderInit(i)
    BY <2>2, <1>0, LifecycleAssumption, MsgType, <1>c DEF Conns, HasStream, Attached, Kinds,
      SendPlaceholderInit, Goto, Deliver, Msg, hostVars
  <2>3. CASE SendAttach(i)
    BY <2>3, <1>0, LifecycleAssumption, MsgType, <1>c DEF Conns, HasStream, Attached, Kinds,
      SendAttach, Goto, Deliver, Msg, hostVars
  <2>4. CASE SendDetach(i)
    <3>1. mine[i] \in Streams /\ clientId[i] \in Ids
      BY <2>4, <1>0, <1>c DEF SendDetach, Goto, HasStream, Attached, Conns
    <3>2. Deliver(mine[i], Msg("Detach", clientId[i]))
      BY <2>4 DEF SendDetach
    <3> QED BY <1>0, <3>1, <3>2 DEF Deliver, Kinds
  <2>5. CASE AdmitInput(i) \/ RefuseInput(i) \/ LookForStream(i) \/ TakeLifecycleForPlaceholder(i)
    \/ NoPlaceholder(i) \/ GameIsRunning(i) \/ SpawnPlaceholderFails(i) \/ FindStream(i) \/
    AnnounceWait(i) \/ WatchChanges(i) \/ WaitingSocketEnds(i) \/ Attach(i) \/ StreamChanges(i) \/
    InputSocketEnds(i) \/ Detach(i)
    BY <2>5, <1>0, LifecycleAssumption DEF Conns, AdmitInput, RefuseInput, LookForStream,
      TakeLifecycleForPlaceholder, NoPlaceholder, GameIsRunning, SpawnPlaceholderFails, FindStream,
      AnnounceWait, AnnounceWait, WatchChanges, WaitingSocketEnds, Attach, StreamChanges,
      InputSocketEnds, Detach, Goto, streamVars, hostVars
  <2> QED BY <2>1, <2>2, <2>3, <2>4, <2>5 DEF Input
<1>3. CASE \E t \in Streams : Router(t) \/ Keeper(t) \/ Streamer(t) \/ TenSecondsPass(t)
  <2> PICK t \in Streams : Router(t) \/ Keeper(t) \/ Streamer(t) \/ TenSecondsPass(t)
    BY <1>3
  <2>1. CASE KeeperSendsStop(t)
    BY <2>1, <1>0, LifecycleAssumption, MsgType, <1>f DEF Conns, Kinds, KeeperSendsStop, Deliver,
      Msg, hostVars
  <2>2. CASE KeeperReaps(t)
    BY <2>2, <1>0, LifecycleAssumption DEF Conns, KeeperReaps, Reap, hostVars
  <2>3. CASE StreamerBoots(t)
    BY <2>3, <1>0, LifecycleAssumption DEF Conns, ChildState, StreamerBoots, hostVars
  <2>4. CASE StreamerReads(t)
    BY <2>4, <1>0, LifecycleAssumption DEF Conns, ChildState, StreamerReads, hostVars
  <2>5. CASE StreamerExits(t)
    BY <2>5, <1>0, LifecycleAssumption DEF Conns, StreamerExits, Reap, hostVars
  <2>6. CASE StreamerPanics(t)
    BY <2>6, <1>0, LifecycleAssumption DEF Conns, StreamerPanics, Reap, hostVars
  <2>7. CASE RouterEnds(t) \/ RouterClears(t) \/ RouterCloses(t) \/ KeeperPolls(t) \/
    StreamerGivesUp(t) \/ StreamerSaysStop(t) \/ TenSecondsPass(t)
    BY <2>7, <1>0, LifecycleAssumption DEF Conns, RouterEnds, RouterClears, RouterCloses,
      KeeperPolls, StreamerGivesUp, StreamerSaysStop, TenSecondsPass, hostVars, SendReplace
  <2> QED BY <2>1, <2>2, <2>3, <2>4, <2>5, <2>6, <2>7 DEF Router, Keeper, Streamer
<1>4. CASE \E c \in Conns : RelayMessage(c) \/ BrowserCloses(c)
  <2> PICK c \in Conns : RelayMessage(c) \/ BrowserCloses(c)
    BY <1>4
  <2>1. CASE RelayMessage(c)
    <3>1. PICK n \in Ids : Deliver(mine[c], Msg("WebSocket", n))
      BY <2>1, <1>0, MsgType DEF RelayMessage
    <3>2. mine[c] \in Streams
      BY <2>1, <1>c DEF RelayMessage, HasStream, Attached
    <3> QED BY <1>0, <3>1, <3>2 DEF Deliver, Kinds
  <2>2. CASE BrowserCloses(c)
    BY <2>2, <1>0, LifecycleAssumption DEF Conns, BrowserCloses, hostVars, streamVars
  <2> QED BY <2>1, <2>2
<1>5. CASE UNCHANGED vars
  BY <1>5, <1>0 DEF Conns, vars
<1> QED BY <1>1, <1>2, <1>3, <1>4, <1>5 DEF Next

\* A pending Init is sent, unless the process is gone.
LEMMA PendingStep ==
  ASSUME TypeOK, [Next]_vars
  PROVE  \A s \in Streams : InitPending(s) =>
             \/ InitPending(s)'
             \/ child'[s] = "exited"
             \/ inbox'[s] = Append(inbox[s], Msg("Init", 0))
<1>0. /\ pc \in [Conns -> Location]
      /\ mine \in [Conns -> Streams \cup {None}]
      /\ inbox \in [Streams -> Seq(IpcMessage)]
      /\ child \in [Streams -> ChildState]
  BY DEF TypeOK
<1>1. CASE \E p \in Primaries : Primary(p)
  <2> PICK p \in Primaries : Primary(p)
    BY <1>1
  <2>1. CASE \E s \in Streams : SpawnPrimary(p, s)
    BY <2>1, <1>0, LifecycleAssumption DEF Conns, InitPending, Owns, SpawnPrimary, Goto, Spawn,
      SendReplace
  <2>2. CASE SendInit(p)
    BY <2>2, <1>0, LifecycleAssumption DEF Conns, InitPending, Owns, SendInit, Goto, Deliver, Msg,
      hostVars
  <2>3. CASE AdmitPrimary(p) \/ RefusePrimary(p) \/ TakeLifecycle(p) \/ RejectDuplicate(p) \/
    MayReplace(p) \/ NothingToStop(p) \/ CaptureExisting(p) \/ StopExisting(p) \/ StopWaitEnds(p) \/
    SpawnPrimaryFails(p) \/ RelayEnds(p) \/ ChildEndsFirst(p) \/ SendStop(p) \/ ReapPrimary(p)
    BY <2>3, <1>0, LifecycleAssumption DEF Conns, InitPending, Owns, AdmitPrimary, RefusePrimary,
      TakeLifecycle, RejectDuplicate, MayReplace, NothingToStop, CaptureExisting, StopExisting,
      StopWaitEnds, SpawnPrimaryFails, RelayEnds, ChildEndsFirst, SendStop, ReapPrimary, Goto,
      hostVars, streamVars, YoungPrimary, Deliver, Msg, Reap
  <2> QED BY <2>1, <2>2, <2>3 DEF Primary
<1>2. CASE \E i \in Inputs : Input(i)
  <2> PICK i \in Inputs : Input(i)
    BY <1>2
  <2>1. CASE \E s \in Streams : SpawnPlaceholder(i, s)
    BY <2>1, <1>0, LifecycleAssumption DEF Conns, InitPending, Owns, SpawnPlaceholder, Goto, Spawn,
      SendReplace
  <2>2. CASE SendPlaceholderInit(i)
    BY <2>2, <1>0, LifecycleAssumption DEF Conns, InitPending, Owns, SendPlaceholderInit, Goto,
      Deliver, Msg, hostVars
  <2>3. CASE FindStream(i)
    BY <2>3, <1>0, LifecycleAssumption DEF Conns, InitPending, Owns, FindStream, Goto, hostVars,
      streamVars
  <2>4. CASE AdmitInput(i) \/ RefuseInput(i) \/ LookForStream(i) \/ TakeLifecycleForPlaceholder(i)
    \/ NoPlaceholder(i) \/ GameIsRunning(i) \/ SpawnPlaceholderFails(i) \/ AnnounceWait(i) \/
    WatchChanges(i) \/ WaitingSocketEnds(i) \/ Attach(i) \/ SendAttach(i) \/ StreamChanges(i) \/
    InputSocketEnds(i) \/ Detach(i) \/ SendDetach(i)
    BY <2>4, <1>0, LifecycleAssumption DEF Conns, InitPending, Owns, AdmitInput, RefuseInput,
      LookForStream, TakeLifecycleForPlaceholder, NoPlaceholder, GameIsRunning,
      SpawnPlaceholderFails, AnnounceWait, WatchChanges, WaitingSocketEnds, Attach, SendAttach,
      StreamChanges, InputSocketEnds, Detach, SendDetach, Goto, streamVars, hostVars, Deliver, Msg
  <2> QED BY <2>1, <2>2, <2>3, <2>4 DEF Input
<1>3. CASE \E t \in Streams : Router(t) \/ Keeper(t) \/ Streamer(t) \/ TenSecondsPass(t)
  <2> PICK t \in Streams : Router(t) \/ Keeper(t) \/ Streamer(t) \/ TenSecondsPass(t)
    BY <1>3
  <2>1. CASE RouterEnds(t) \/ RouterClears(t) \/ RouterCloses(t)
    BY <2>1, <1>0, LifecycleAssumption DEF Conns, InitPending, Owns, RouterEnds, RouterClears,
      RouterCloses, hostVars, SendReplace, Deliver, Msg, Reap
  <2>2. CASE KeeperPolls(t) \/ KeeperSendsStop(t) \/ KeeperReaps(t) \/ TenSecondsPass(t)
    BY <2>2, <1>0, LifecycleAssumption DEF Conns, InitPending, Owns, KeeperPolls, KeeperSendsStop,
      KeeperReaps, TenSecondsPass, hostVars, SendReplace, Deliver, Msg, Reap
  <2>3. CASE StreamerBoots(t) \/ StreamerReads(t) \/ StreamerGivesUp(t)
    BY <2>3, <1>0, LifecycleAssumption DEF Conns, InitPending, Owns, StreamerBoots, StreamerReads,
      StreamerGivesUp, hostVars, SendReplace, Deliver, Msg, Reap
  <2>4. CASE StreamerSaysStop(t) \/ StreamerExits(t) \/ StreamerPanics(t)
    BY <2>4, <1>0, LifecycleAssumption DEF Conns, InitPending, Owns, StreamerSaysStop,
      StreamerExits, StreamerPanics, hostVars, SendReplace, Deliver, Msg, Reap
  <2> QED BY <2>1, <2>2, <2>3, <2>4 DEF Router, Keeper, Streamer
<1>4. CASE \E c \in Conns : RelayMessage(c) \/ BrowserCloses(c)
  BY <1>4, <1>0, LifecycleAssumption DEF Conns, InitPending, Owns, RelayMessage, BrowserCloses,
    Deliver, Msg, hostVars, streamVars
<1>5. CASE UNCHANGED vars
  BY <1>5, <1>0 DEF Conns, InitPending, Owns, vars
<1> QED BY <1>1, <1>2, <1>3, <1>4, <1>5 DEF Next

\* A process boots when it is spawned.
LEMMA BootStep ==
  ASSUME TypeOK, [Next]_vars
  PROVE  \A s \in Streams : child'[s] = "boot" =>
             child[s] = "boot" \/ (child[s] = "unborn" /\ inbox'[s] = inbox[s] /\ InitPending(s)')
<1>0. /\ pc \in [Conns -> Location]
      /\ mine \in [Conns -> Streams \cup {None}]
      /\ inbox \in [Streams -> Seq(IpcMessage)]
      /\ child \in [Streams -> ChildState]
  BY DEF TypeOK
<1>1. CASE \E p \in Primaries : Primary(p)
  <2> PICK p \in Primaries : Primary(p)
    BY <1>1
  <2>1. CASE \E s \in Streams : SpawnPrimary(p, s)
    BY <2>1, <1>0, LifecycleAssumption DEF Conns, InitPending, Owns, SpawnPrimary, Goto, Spawn,
      SendReplace
  <2>2. CASE AdmitPrimary(p) \/ RefusePrimary(p) \/ TakeLifecycle(p) \/ RejectDuplicate(p) \/
    MayReplace(p) \/ NothingToStop(p) \/ CaptureExisting(p) \/ StopExisting(p) \/ StopWaitEnds(p) \/
    SpawnPrimaryFails(p) \/ SendInit(p) \/ RelayEnds(p) \/ ChildEndsFirst(p) \/ SendStop(p) \/
    ReapPrimary(p)
    BY <2>2, <1>0, LifecycleAssumption DEF Conns, AdmitPrimary, RefusePrimary, TakeLifecycle,
      RejectDuplicate, MayReplace, NothingToStop, CaptureExisting, StopExisting, StopWaitEnds,
      SpawnPrimaryFails, SendInit, RelayEnds, ChildEndsFirst, SendStop, ReapPrimary, Goto, hostVars,
      streamVars, YoungPrimary, Deliver, Msg, Reap
  <2> QED BY <2>1, <2>2 DEF Primary
<1>2. CASE \E i \in Inputs : Input(i)
  <2> PICK i \in Inputs : Input(i)
    BY <1>2
  <2>1. CASE \E s \in Streams : SpawnPlaceholder(i, s)
    BY <2>1, <1>0, LifecycleAssumption DEF Conns, InitPending, Owns, SpawnPlaceholder, Goto, Spawn,
      SendReplace
  <2>2. CASE AdmitInput(i) \/ RefuseInput(i) \/ LookForStream(i) \/ TakeLifecycleForPlaceholder(i)
    \/ NoPlaceholder(i) \/ GameIsRunning(i) \/ SpawnPlaceholderFails(i) \/ SendPlaceholderInit(i) \/
    FindStream(i) \/ AnnounceWait(i) \/ WatchChanges(i) \/ WaitingSocketEnds(i) \/ Attach(i) \/
    SendAttach(i) \/ StreamChanges(i) \/ InputSocketEnds(i) \/ Detach(i) \/ SendDetach(i)
    BY <2>2, <1>0, LifecycleAssumption DEF Conns, AdmitInput, RefuseInput, LookForStream,
      TakeLifecycleForPlaceholder, NoPlaceholder, GameIsRunning, SpawnPlaceholderFails,
      SendPlaceholderInit, FindStream, AnnounceWait, WatchChanges, WaitingSocketEnds, Attach,
      SendAttach, StreamChanges, InputSocketEnds, Detach, SendDetach, Goto, streamVars, hostVars,
      Deliver, Msg
  <2> QED BY <2>1, <2>2 DEF Input
<1>3. CASE \E t \in Streams : Router(t) \/ Keeper(t) \/ Streamer(t) \/ TenSecondsPass(t)
  <2> PICK t \in Streams : Router(t) \/ Keeper(t) \/ Streamer(t) \/ TenSecondsPass(t)
    BY <1>3
  <2>1. CASE RouterEnds(t) \/ RouterClears(t) \/ RouterCloses(t)
    BY <2>1, <1>0, LifecycleAssumption DEF Conns, RouterEnds, RouterClears, RouterCloses, hostVars,
      SendReplace, Deliver, Msg, Reap
  <2>2. CASE KeeperPolls(t) \/ KeeperSendsStop(t) \/ KeeperReaps(t) \/ TenSecondsPass(t)
    BY <2>2, <1>0, LifecycleAssumption DEF Conns, KeeperPolls, KeeperSendsStop, KeeperReaps,
      TenSecondsPass, hostVars, SendReplace, Deliver, Msg, Reap
  <2>3. CASE StreamerBoots(t) \/ StreamerReads(t) \/ StreamerGivesUp(t)
    BY <2>3, <1>0, LifecycleAssumption DEF Conns, StreamerBoots, StreamerReads, StreamerGivesUp,
      hostVars, SendReplace, Deliver, Msg, Reap
  <2>4. CASE StreamerSaysStop(t) \/ StreamerExits(t) \/ StreamerPanics(t)
    BY <2>4, <1>0, LifecycleAssumption DEF Conns, StreamerSaysStop, StreamerExits, StreamerPanics,
      hostVars, SendReplace, Deliver, Msg, Reap
  <2> QED BY <2>1, <2>2, <2>3, <2>4 DEF Router, Keeper, Streamer
<1>4. CASE \E c \in Conns : RelayMessage(c) \/ BrowserCloses(c)
  BY <1>4, <1>0, LifecycleAssumption DEF Conns, RelayMessage, BrowserCloses, Deliver, Msg, hostVars,
    streamVars
<1>5. CASE UNCHANGED vars
  BY <1>5, <1>0 DEF Conns, vars
<1> QED BY <1>1, <1>2, <1>3, <1>4, <1>5 DEF Next

\* Init stays on its way until the process takes it.
LEMMA BootHasInitStep ==
  ASSUME TypeOK, LifecycleExclusive, MineBorn, UnbornIdle, SoleOwner, OwnerNotKept,
         BootHasInit, [Next]_vars
  PROVE  BootHasInit'
<1> SUFFICES ASSUME NEW s \in Streams, child'[s] = "boot", ~InitPending(s)'
             PROVE  HasInit(s)'
  BY DEF BootHasInit
<1>1. child[s] = "boot"
  BY BootStep
<1>2. inbox[s] \in Seq(IpcMessage)
  BY DEF TypeOK
<1>3. CASE inbox'[s] = Append(inbox[s], Msg("Init", 0))
  <2>1. Len(inbox[s]) + 1 \in DOMAIN inbox'[s]
    BY <1>2, <1>3
  <2>2. inbox'[s][Len(inbox[s]) + 1].kind = "Init"
    BY <1>2, <1>3 DEF Msg
  <2> QED BY <2>1, <2>2 DEF HasInit
<1>4. CASE HasInit(s)
  <2>1. PICK n \in DOMAIN inbox[s] : inbox[s][n].kind = "Init"
    BY <1>4 DEF HasInit
  <2>2. CASE inbox'[s] = inbox[s]
    BY <2>1, <2>2 DEF HasInit
  <2>3. ASSUME NEW k \in Kinds, NEW i \in Ids, inbox'[s] = Append(inbox[s], Msg(k, i))
        PROVE  HasInit(s)'
    <3>1. n \in DOMAIN inbox'[s] /\ inbox'[s][n] = inbox[s][n]
      BY <1>2, <2>1, <2>3
    <3> QED BY <3>1, <2>1 DEF HasInit
  <2>4. CASE inbox[s] # <<>> /\ inbox'[s] = Tail(inbox[s]) /\ Head(inbox[s]).kind # "Init"
    <3>1. n # 1 /\ n \in 1..Len(inbox[s])
      BY <1>2, <2>1, <2>4
    <3>2. n - 1 \in DOMAIN inbox'[s] /\ inbox'[s][n - 1] = inbox[s][n]
      BY <1>2, <2>4, <3>1
    <3> QED BY <3>2, <2>1 DEF HasInit
  <2> QED BY <2>2, <2>3, <2>4, InboxStep
<1> QED BY <1>1, <1>3, <1>4, PendingStep DEF BootHasInit

\* A Stop enters the pipe behind the Init, and leaves it behind the Init.
LEMMA StopFollowsInitStep ==
  ASSUME TypeOK, LifecycleExclusive, MineBorn, UnbornIdle, SoleOwner, OwnerNotKept,
         BootHasInit, StopFollowsInit, [Next]_vars
  PROVE  StopFollowsInit'
<1> SUFFICES ASSUME NEW s \in Streams, child'[s] = "boot",
                    NEW n \in DOMAIN inbox'[s], inbox'[s][n].kind = "Stop"
             PROVE  \E m \in 1..n : inbox'[s][m].kind = "Init"
  BY DEF StopFollowsInit
<1>1. inbox[s] \in Seq(IpcMessage)
  BY DEF TypeOK
<1>2. CASE child[s] = "unborn"
  BY <1>1, <1>2, BootStep DEF UnbornIdle
<1>3. CASE child[s] = "boot"
  <2>1. CASE inbox'[s] = inbox[s]
    BY <1>3, <2>1 DEF StopFollowsInit
  <2>2. ASSUME NEW k \in Kinds, NEW i \in Ids, inbox'[s] = Append(inbox[s], Msg(k, i)),
               k = "Stop" => ~InitPending(s)
        PROVE  \E m \in 1..n : inbox'[s][m].kind = "Init"
    <3>1. CASE n \in DOMAIN inbox[s]
      <4>1. inbox[s][n].kind = "Stop"
        BY <1>1, <2>2, <3>1
      <4>2. PICK m \in 1..n : inbox[s][m].kind = "Init"
        BY <1>3, <3>1, <4>1 DEF StopFollowsInit
      <4>3. m \in DOMAIN inbox[s]
        BY <1>1, <3>1
      <4>4. inbox'[s][m] = inbox[s][m]
        BY <1>1, <2>2, <4>3
      <4> QED BY <4>2, <4>4
    <3>2. CASE n = Len(inbox[s]) + 1
      <4>1. k = "Stop"
        BY <1>1, <2>2, <3>2 DEF Msg
      <4>2. PICK m \in DOMAIN inbox[s] : inbox[s][m].kind = "Init"
        BY <1>3, <2>2, <4>1 DEF BootHasInit, HasInit
      <4>3. m \in 1..n /\ inbox'[s][m] = inbox[s][m]
        BY <1>1, <2>2, <3>2, <4>2
      <4> QED BY <4>2, <4>3
    <3> QED BY <1>1, <2>2, <3>1, <3>2
  <2>3. CASE inbox[s] # <<>> /\ inbox'[s] = Tail(inbox[s]) /\ Head(inbox[s]).kind # "Init"
    <3>1. n \in 1..(Len(inbox[s]) - 1)
      BY <1>1, <2>3
    <3>2. n + 1 \in DOMAIN inbox[s] /\ inbox[s][n + 1].kind = "Stop"
      BY <1>1, <2>3, <3>1
    <3>3. PICK m \in 1..(n + 1) : inbox[s][m].kind = "Init"
      BY <1>3, <3>2 DEF StopFollowsInit
    <3>4. m # 1
      BY <1>1, <2>3, <3>3
    <3>5. m - 1 \in 1..n /\ inbox'[s][m - 1] = inbox[s][m]
      BY <1>1, <2>3, <3>1, <3>3, <3>4
    <3> QED BY <3>3, <3>5
  <2> QED BY <2>1, <2>2, <2>3, InboxStep
<1> QED BY <1>2, <1>3, BootStep

\* Under the mutex no other handler can register a young primary.
LEMMA StopIsDueStep ==
  ASSUME TypeOK, LifecycleExclusive, MineBorn, StopIsDue, [Next]_vars
  PROVE  StopIsDue'
<1>0. /\ active \in Streams \cup {None}
      /\ pc \in [Conns -> Location]
      /\ lifecycle \in Conns \cup {None}
      /\ young \in [Streams -> BOOLEAN]
      /\ clients \in [Streams -> [Ids -> Conns \cup {None}]]
      /\ nextId \in [Streams -> 1..MaxId]
      /\ mine \in [Conns -> Streams \cup {None}]
  BY DEF TypeOK
<1>m. \A c \in Conns : pc[c] = "tell" => mine[c] \in Streams /\ child[mine[c]] # "unborn"
  BY DEF MineBorn, HasStream
<1>1. CASE \E p \in Primaries : Primary(p)
  <2> PICK p \in Primaries : Primary(p)
    BY <1>1
  <2>1. CASE AdmitPrimary(p) \/ RefusePrimary(p) \/ TakeLifecycle(p)
    BY <2>1, <1>0, <1>m, LifecycleAssumption DEF StopIsDue, Conns, LifecycleExclusive,
      LifecycleSection, AdmitPrimary, RefusePrimary, TakeLifecycle, YoungPrimary, Goto, hostVars,
      streamVars
  <2>2. CASE RejectDuplicate(p)
    BY <2>2, <1>0, <1>m, LifecycleAssumption DEF StopIsDue, Conns, LifecycleExclusive,
      LifecycleSection, RejectDuplicate, YoungPrimary, Goto, hostVars, streamVars
  <2>3. CASE MayReplace(p)
    BY <2>3, <1>0, <1>m, LifecycleAssumption DEF StopIsDue, Conns, LifecycleExclusive,
      LifecycleSection, MayReplace, YoungPrimary, Goto, hostVars, streamVars
  <2>4. CASE NothingToStop(p) \/ CaptureExisting(p) \/ StopExisting(p) \/ StopWaitEnds(p)
    BY <2>4, <1>0, <1>m, LifecycleAssumption DEF StopIsDue, Conns, LifecycleExclusive,
      LifecycleSection, NothingToStop, CaptureExisting, StopExisting, StopWaitEnds, YoungPrimary,
      Goto, hostVars, streamVars, Deliver, Msg, Spawn, SendReplace, Reap
  <2>5. CASE \E s \in Streams : SpawnPrimary(p, s)
    BY <2>5, <1>0, <1>m, LifecycleAssumption DEF StopIsDue, Conns, LifecycleExclusive,
      LifecycleSection, SpawnPrimary, YoungPrimary, Goto, hostVars, streamVars, Spawn, SendReplace
  <2>6. CASE SpawnPrimaryFails(p) \/ SendInit(p)
    BY <2>6, <1>0, <1>m, LifecycleAssumption DEF StopIsDue, Conns, LifecycleExclusive,
      LifecycleSection, SpawnPrimaryFails, SendInit, YoungPrimary, Goto, hostVars, streamVars,
      Deliver, Msg, Spawn, SendReplace, Reap
  <2>7. CASE RelayEnds(p) \/ ChildEndsFirst(p) \/ SendStop(p) \/ ReapPrimary(p)
    BY <2>7, <1>0, <1>m, LifecycleAssumption DEF StopIsDue, Conns, LifecycleExclusive,
      LifecycleSection, RelayEnds, ChildEndsFirst, SendStop, ReapPrimary, YoungPrimary, Goto,
      hostVars, streamVars, Deliver, Msg, Spawn, SendReplace, Reap
  <2> QED BY <2>1, <2>2, <2>3, <2>4, <2>5, <2>6, <2>7 DEF Primary
<1>2. CASE \E i \in Inputs : Input(i)
  <2> PICK i \in Inputs : Input(i)
    BY <1>2
  <2>1. CASE AdmitInput(i) \/ RefuseInput(i) \/ LookForStream(i) \/ TakeLifecycleForPlaceholder(i)
    \/ NoPlaceholder(i) \/ GameIsRunning(i)
    BY <2>1, <1>0, <1>m, LifecycleAssumption DEF StopIsDue, Conns, LifecycleExclusive,
      LifecycleSection, Ids, AdmitInput, RefuseInput, LookForStream, TakeLifecycleForPlaceholder,
      NoPlaceholder, GameIsRunning, YoungPrimary, Goto, streamVars, hostVars, Spawn, SendReplace,
      Deliver, Msg
  <2>2. CASE \E s \in Streams : SpawnPlaceholder(i, s)
    <3> PICK s \in Streams : SpawnPlaceholder(i, s)
      BY <2>2
    <3>1. \A c \in Conns : pc'[c] # "stop"
      BY <1>0, LifecycleAssumption DEF SpawnPlaceholder, Goto, LifecycleExclusive, LifecycleSection,
        Conns
    <3>2. \A c \in Conns : pc'[c] = "tell" => pc[c] = "tell" /\ mine'[c] = mine[c] /\ mine[c] # s
      BY <1>0, <1>m, LifecycleAssumption DEF SpawnPlaceholder, Goto, Spawn, Conns
    <3>3. \A t \in Streams \ {s} : young'[t] = young[t] /\ clients'[t][0] = clients[t][0]
      BY <1>0 DEF SpawnPlaceholder, Spawn
    <3> QED BY <1>m, <3>1, <3>2, <3>3 DEF StopIsDue, YoungPrimary
  <2>5. CASE SpawnPlaceholderFails(i) \/ SendPlaceholderInit(i)
    BY <2>5, <1>0, <1>m, LifecycleAssumption DEF StopIsDue, Conns, SpawnPlaceholderFails,
      SendPlaceholderInit, YoungPrimary, Goto, streamVars, hostVars, Deliver, Msg
  <2>3. CASE FindStream(i) \/ AnnounceWait(i) \/ WatchChanges(i) \/ WaitingSocketEnds(i) \/
    StreamChanges(i) \/ InputSocketEnds(i)
    BY <2>3, <1>0, <1>m, LifecycleAssumption DEF StopIsDue, Conns, LifecycleExclusive,
      LifecycleSection, Ids, FindStream, AnnounceWait, WatchChanges, WaitingSocketEnds,
      StreamChanges, InputSocketEnds, YoungPrimary, Goto, streamVars, hostVars, Spawn, SendReplace,
      Deliver, Msg
  <2>4. CASE SendAttach(i) \/ SendDetach(i)
    BY <2>4, <1>0, <1>m, LifecycleAssumption DEF StopIsDue, Conns, SendAttach, SendDetach,
      YoungPrimary, Goto, streamVars, hostVars, Deliver, Msg
  <2>6. CASE Attach(i) \/ Detach(i)
    <3>1. /\ \A c \in Conns : pc'[c] \in {"stop", "tell"} => pc'[c] = pc[c]
          /\ mine' = mine /\ active' = active /\ young' = young
      BY <2>6, <1>0 DEF Attach, Detach, Goto, hostVars
    <3>2. \A t \in Streams : clients'[t][0] # None => clients[t][0] # None
      <4>1. CASE Attach(i)
        <5>1. mine[i] \in Streams => nextId[mine[i]] # 0
          BY <1>0, LifecycleAssumption
        <5> QED BY <4>1, <5>1, <1>0, LifecycleAssumption DEF Attach, Ids
      <4>2. CASE Detach(i)
        BY <4>2, <1>0 DEF Detach, Ids
      <4> QED BY <2>6, <4>1, <4>2
    <3> QED BY <1>0, <1>m, <3>1, <3>2 DEF StopIsDue, YoungPrimary
  <2> QED BY <2>1, <2>2, <2>3, <2>4, <2>5, <2>6 DEF Input
<1>3. CASE \E t \in Streams : Router(t) \/ Keeper(t) \/ Streamer(t) \/ TenSecondsPass(t)
  <2> PICK t \in Streams : Router(t) \/ Keeper(t) \/ Streamer(t) \/ TenSecondsPass(t)
    BY <1>3
  <2>1. CASE RouterEnds(t) \/ RouterClears(t) \/ RouterCloses(t)
    BY <2>1, <1>0, <1>m, LifecycleAssumption DEF StopIsDue, YoungPrimary, Conns, RouterEnds,
      RouterClears, RouterCloses, hostVars, SendReplace, Deliver, Msg, Reap
  <2>2. CASE KeeperPolls(t) \/ KeeperSendsStop(t) \/ KeeperReaps(t) \/ TenSecondsPass(t)
    BY <2>2, <1>0, <1>m, LifecycleAssumption DEF StopIsDue, YoungPrimary, Conns, KeeperPolls,
      KeeperSendsStop, KeeperReaps, TenSecondsPass, hostVars, SendReplace, Deliver, Msg, Reap
  <2>3. CASE StreamerBoots(t) \/ StreamerReads(t) \/ StreamerGivesUp(t)
    BY <2>3, <1>0, <1>m, LifecycleAssumption DEF StopIsDue, YoungPrimary, Conns, StreamerBoots,
      StreamerReads, StreamerGivesUp, hostVars, SendReplace, Deliver, Msg, Reap
  <2>4. CASE StreamerSaysStop(t) \/ StreamerExits(t) \/ StreamerPanics(t)
    BY <2>4, <1>0, <1>m, LifecycleAssumption DEF StopIsDue, YoungPrimary, Conns, StreamerSaysStop,
      StreamerExits, StreamerPanics, hostVars, SendReplace, Deliver, Msg, Reap
  <2> QED BY <2>1, <2>2, <2>3, <2>4 DEF Router, Keeper, Streamer
<1>4. CASE \E c \in Conns : RelayMessage(c) \/ BrowserCloses(c)
  BY <1>4, <1>0, <1>m, LifecycleAssumption DEF StopIsDue, YoungPrimary, Conns, RelayMessage,
    BrowserCloses, Deliver, Msg, hostVars, streamVars
<1>5. CASE UNCHANGED vars
  BY <1>5, <1>0, <1>m DEF StopIsDue, YoungPrimary, Conns, vars
<1> QED BY <1>1, <1>2, <1>3, <1>4, <1>5 DEF Next

\* A WebSocket never reopens.
LEMMA ClosedFirstStep ==
  ASSUME TypeOK, ClosedFirst, [Next]_vars
  PROVE  ClosedFirst'
<1>0. /\ pc \in [Conns -> Location]
      /\ ws \in [Conns -> {"open", "closed"}]
  BY DEF TypeOK
<1>1. CASE \E p \in Primaries : Primary(p)
  <2> PICK p \in Primaries : Primary(p)
    BY <1>1
  <2>1. CASE AdmitPrimary(p) \/ RefusePrimary(p) \/ TakeLifecycle(p) \/ RejectDuplicate(p) \/
    MayReplace(p)
    BY <2>1, <1>0, LifecycleAssumption DEF ClosedFirst, Conns, AdmitPrimary, RefusePrimary,
      TakeLifecycle, RejectDuplicate, MayReplace, Goto, hostVars, streamVars, YoungPrimary, Deliver,
      Msg, Spawn, SendReplace, Reap
  <2>2. CASE NothingToStop(p) \/ CaptureExisting(p) \/ StopExisting(p) \/ StopWaitEnds(p)
    BY <2>2, <1>0, LifecycleAssumption DEF ClosedFirst, Conns, NothingToStop, CaptureExisting,
      StopExisting, StopWaitEnds, Goto, hostVars, streamVars, YoungPrimary, Deliver, Msg, Spawn,
      SendReplace, Reap
  <2>3. CASE (\E s \in Streams : SpawnPrimary(p, s)) \/ SpawnPrimaryFails(p) \/ SendInit(p)
    BY <2>3, <1>0, LifecycleAssumption DEF ClosedFirst, Conns, SpawnPrimary, SpawnPrimaryFails,
      SendInit, Goto, hostVars, streamVars, YoungPrimary, Deliver, Msg, Spawn, SendReplace, Reap
  <2>4. CASE RelayEnds(p) \/ ChildEndsFirst(p) \/ SendStop(p) \/ ReapPrimary(p)
    BY <2>4, <1>0, LifecycleAssumption DEF ClosedFirst, Conns, RelayEnds, ChildEndsFirst, SendStop,
      ReapPrimary, Goto, hostVars, streamVars, YoungPrimary, Deliver, Msg, Spawn, SendReplace, Reap
  <2> QED BY <2>1, <2>2, <2>3, <2>4 DEF Primary
<1>2. CASE \E i \in Inputs : Input(i)
  <2> PICK i \in Inputs : Input(i)
    BY <1>2
  <2>1. CASE AdmitInput(i) \/ RefuseInput(i) \/ LookForStream(i) \/ TakeLifecycleForPlaceholder(i)
    \/ NoPlaceholder(i) \/ GameIsRunning(i)
    BY <2>1, <1>0, LifecycleAssumption DEF ClosedFirst, Conns, AdmitInput, RefuseInput,
      LookForStream, TakeLifecycleForPlaceholder, NoPlaceholder, GameIsRunning, Goto, streamVars,
      hostVars, Spawn, SendReplace, Deliver, Msg
  <2>2. CASE (\E s \in Streams : SpawnPlaceholder(i, s)) \/ SpawnPlaceholderFails(i) \/
    SendPlaceholderInit(i)
    BY <2>2, <1>0, LifecycleAssumption DEF ClosedFirst, Conns, SpawnPlaceholder,
      SpawnPlaceholderFails, SendPlaceholderInit, Goto, streamVars, hostVars, Spawn, SendReplace,
      Deliver, Msg
  <2>3. CASE FindStream(i) \/ AnnounceWait(i) \/ WatchChanges(i) \/ WaitingSocketEnds(i) \/
    StreamChanges(i) \/ InputSocketEnds(i)
    BY <2>3, <1>0, LifecycleAssumption DEF ClosedFirst, Conns, FindStream, AnnounceWait,
      WatchChanges, WaitingSocketEnds, StreamChanges, InputSocketEnds, Goto, streamVars, hostVars,
      Spawn, SendReplace, Deliver, Msg
  <2>4. CASE Attach(i) \/ SendAttach(i) \/ Detach(i) \/ SendDetach(i)
    BY <2>4, <1>0, LifecycleAssumption DEF ClosedFirst, Conns, Attach, SendAttach, Detach,
      SendDetach, Goto, streamVars, hostVars, Spawn, SendReplace, Deliver, Msg
  <2> QED BY <2>1, <2>2, <2>3, <2>4 DEF Input
<1>3. CASE \E t \in Streams : Router(t) \/ Keeper(t) \/ Streamer(t) \/ TenSecondsPass(t)
  <2> PICK t \in Streams : Router(t) \/ Keeper(t) \/ Streamer(t) \/ TenSecondsPass(t)
    BY <1>3
  <2>1. CASE RouterEnds(t) \/ RouterClears(t) \/ RouterCloses(t)
    BY <2>1, <1>0, LifecycleAssumption DEF ClosedFirst, Conns, RouterEnds, RouterClears,
      RouterCloses, hostVars, SendReplace, Deliver, Msg, Reap
  <2>2. CASE KeeperPolls(t) \/ KeeperSendsStop(t) \/ KeeperReaps(t) \/ TenSecondsPass(t)
    BY <2>2, <1>0, LifecycleAssumption DEF ClosedFirst, Conns, KeeperPolls, KeeperSendsStop,
      KeeperReaps, TenSecondsPass, hostVars, SendReplace, Deliver, Msg, Reap
  <2>3. CASE StreamerBoots(t) \/ StreamerReads(t) \/ StreamerGivesUp(t)
    BY <2>3, <1>0, LifecycleAssumption DEF ClosedFirst, Conns, StreamerBoots, StreamerReads,
      StreamerGivesUp, hostVars, SendReplace, Deliver, Msg, Reap
  <2>4. CASE StreamerSaysStop(t) \/ StreamerExits(t) \/ StreamerPanics(t)
    BY <2>4, <1>0, LifecycleAssumption DEF ClosedFirst, Conns, StreamerSaysStop, StreamerExits,
      StreamerPanics, hostVars, SendReplace, Deliver, Msg, Reap
  <2> QED BY <2>1, <2>2, <2>3, <2>4 DEF Router, Keeper, Streamer
<1>4. CASE \E c \in Conns : RelayMessage(c) \/ BrowserCloses(c)
  BY <1>4, <1>0, LifecycleAssumption DEF ClosedFirst, Conns, RelayMessage, BrowserCloses, Deliver,
    Msg, hostVars, streamVars
<1>5. CASE UNCHANGED vars
  BY <1>5, <1>0 DEF ClosedFirst, Conns, vars
<1> QED BY <1>1, <1>2, <1>3, <1>4, <1>5 DEF Next

\* Client 0 of a process is its owner, or nobody.
LEMMA ClientZeroStep ==
  ASSUME TypeOK, LifecycleExclusive, MineBorn, ActiveBorn, UnbornIdle, ClientZero, [Next]_vars
  PROVE  ClientZero'
<1>0. /\ pc \in [Conns -> Location]
      /\ lifecycle \in Conns \cup {None}
      /\ mine \in [Conns -> Streams \cup {None}]
      /\ keeper \in [Streams -> {"off", "poll", "sendStop", "reap", "done"}]
      /\ clients \in [Streams -> [Ids -> Conns \cup {None}]]
      /\ nextId \in [Streams -> 1..MaxId]
      /\ child \in [Streams -> ChildState]
  BY DEF TypeOK
<1>a. \A c \in Conns, s \in Streams : Owns(c, s)' =>
           /\ child'[s] # "unborn"
           /\ \/ Owns(c, s) /\ child[s] # "unborn"
              \/ child[s] = "unborn" /\ lifecycle = c
  BY OwnsStep, MineBornStep DEF Owns, MineBorn, HasStream, Attached
<1>b. \A i \in Inputs : pc[i] = "pinit" => Owns(i, mine[i]) /\ mine[i] \in Streams
  BY DEF Owns, MineBorn, HasStream, Conns
<1>1. CASE \E p \in Primaries : Primary(p)
  <2> PICK p \in Primaries : Primary(p)
    BY <1>1
  <2>1. CASE \E s \in Streams : SpawnPrimary(p, s)
    BY <2>1, <1>0, <1>a, LifecycleAssumption DEF ClientZero, Conns, LifecycleExclusive,
      LifecycleSection, UnbornIdle, Ids, SpawnPrimary, Goto, Spawn, SendReplace
  <2>2. CASE ReapPrimary(p)
    BY <2>2, <1>0, <1>a, LifecycleAssumption DEF ClientZero, Conns, MineBorn, HasStream,
      ReapPrimary, Goto, Reap, hostVars
  <2>3. CASE AdmitPrimary(p) \/ RefusePrimary(p) \/ TakeLifecycle(p) \/ RejectDuplicate(p) \/
    MayReplace(p) \/ NothingToStop(p) \/ CaptureExisting(p) \/ StopExisting(p) \/ StopWaitEnds(p) \/
    SpawnPrimaryFails(p) \/ SendInit(p) \/ RelayEnds(p) \/ ChildEndsFirst(p) \/ SendStop(p)
    BY <2>3, <1>0, <1>a, LifecycleAssumption DEF ClientZero, Conns, AdmitPrimary, RefusePrimary,
      TakeLifecycle, RejectDuplicate, MayReplace, NothingToStop, CaptureExisting, StopExisting,
      StopWaitEnds, SpawnPrimaryFails, SendInit, RelayEnds, ChildEndsFirst, SendStop, Goto,
      hostVars, streamVars, YoungPrimary, Deliver, Msg
  <2> QED BY <2>1, <2>2, <2>3 DEF Primary
<1>2. CASE \E i \in Inputs : Input(i)
  <2> PICK i \in Inputs : Input(i)
    BY <1>2
  <2>1. CASE \E s \in Streams : SpawnPlaceholder(i, s)
    BY <2>1, <1>0, <1>a, LifecycleAssumption DEF ClientZero, Conns, LifecycleExclusive,
      LifecycleSection, UnbornIdle, Ids, SpawnPlaceholder, Goto, Spawn, SendReplace
  <2>2. CASE SendPlaceholderInit(i)
    BY <2>2, <1>0, <1>a, LifecycleAssumption, <1>b DEF ClientZero, Conns, SendPlaceholderInit, Goto,
      Deliver, Msg, hostVars
  <2>3. CASE Attach(i)
    BY <2>3, <1>0, <1>a, LifecycleAssumption DEF ClientZero, Conns, Ids, Attach, Goto, hostVars
  <2>4. CASE Detach(i)
    BY <2>4, <1>0, <1>a, LifecycleAssumption DEF ClientZero, Conns, Ids, Detach, Goto, hostVars
  <2>5. CASE AdmitInput(i) \/ RefuseInput(i) \/ LookForStream(i) \/ TakeLifecycleForPlaceholder(i)
    \/ NoPlaceholder(i) \/ GameIsRunning(i) \/ SpawnPlaceholderFails(i) \/ FindStream(i) \/
    AnnounceWait(i) \/ WatchChanges(i) \/ WaitingSocketEnds(i) \/ SendAttach(i) \/ StreamChanges(i)
    \/ InputSocketEnds(i) \/ SendDetach(i)
    BY <2>5, <1>0, <1>a, LifecycleAssumption DEF ClientZero, Conns, AdmitInput, RefuseInput,
      LookForStream, TakeLifecycleForPlaceholder, NoPlaceholder, GameIsRunning,
      SpawnPlaceholderFails, FindStream, AnnounceWait, WatchChanges, WaitingSocketEnds, SendAttach,
      StreamChanges, InputSocketEnds, SendDetach, Goto, streamVars, hostVars, Deliver, Msg
  <2> QED BY <2>1, <2>2, <2>3, <2>4, <2>5 DEF Input
<1>3. CASE \E t \in Streams : Router(t) \/ Keeper(t) \/ Streamer(t) \/ TenSecondsPass(t)
  <2> PICK t \in Streams : Router(t) \/ Keeper(t) \/ Streamer(t) \/ TenSecondsPass(t)
    BY <1>3
  <2>1. CASE RouterEnds(t) \/ RouterClears(t) \/ RouterCloses(t)
    BY <2>1, <1>0, <1>a, LifecycleAssumption DEF ClientZero, Conns, RouterEnds, RouterClears,
      RouterCloses, hostVars, SendReplace, Deliver, Msg, Reap
  <2>2. CASE KeeperPolls(t) \/ KeeperSendsStop(t) \/ KeeperReaps(t) \/ TenSecondsPass(t)
    BY <2>2, <1>0, <1>a, LifecycleAssumption DEF ClientZero, Conns, KeeperPolls, KeeperSendsStop,
      KeeperReaps, TenSecondsPass, hostVars, SendReplace, Deliver, Msg, Reap
  <2>3. CASE StreamerBoots(t) \/ StreamerReads(t) \/ StreamerGivesUp(t)
    BY <2>3, <1>0, <1>a, LifecycleAssumption DEF ClientZero, Conns, StreamerBoots, StreamerReads,
      StreamerGivesUp, hostVars, SendReplace, Deliver, Msg, Reap
  <2>4. CASE StreamerSaysStop(t) \/ StreamerExits(t) \/ StreamerPanics(t)
    BY <2>4, <1>0, <1>a, LifecycleAssumption DEF ClientZero, Conns, StreamerSaysStop, StreamerExits,
      StreamerPanics, hostVars, SendReplace, Deliver, Msg, Reap
  <2> QED BY <2>1, <2>2, <2>3, <2>4 DEF Router, Keeper, Streamer
<1>4. CASE \E c \in Conns : RelayMessage(c) \/ BrowserCloses(c)
  BY <1>4, <1>0, <1>a, LifecycleAssumption DEF ClientZero, Conns, RelayMessage, BrowserCloses,
    Deliver, Msg, hostVars, streamVars
<1>5. CASE UNCHANGED vars
  BY <1>5, <1>0, <1>a DEF ClientZero, Conns, vars
<1> QED BY <1>1, <1>2, <1>3, <1>4, <1>5 DEF Next

\* The three places of the web server that send Stop.
LEMMA StopSentStep ==
  ASSUME TypeOK, MineBorn, [Next]_vars
  PROVE  \A s \in Streams : inbox'[s] = Append(inbox[s], Msg("Stop", 0)) =>
             \/ \E p \in Primaries : mine[p] = s /\ pc[p] = "tell"
             \/ \E p \in Primaries : mine[p] = s /\ pc[p] = "sendStop"
             \/ keeper[s] = "sendStop"
<1>0. /\ active \in Streams \cup {None}
      /\ clientId \in [Inputs -> Ids]
      /\ pc \in [Conns -> Location]
      /\ mine \in [Conns -> Streams \cup {None}]
      /\ inbox \in [Streams -> Seq(IpcMessage)]
  BY DEF TypeOK
<1>a. \A s \in Streams :
         /\ inbox[s] # Append(inbox[s], Msg("Stop", 0))
         /\ <<>> # Append(inbox[s], Msg("Stop", 0))
         /\ inbox[s] # <<>> => Tail(inbox[s]) # Append(inbox[s], Msg("Stop", 0))
  <2> SUFFICES ASSUME NEW s \in Streams
               PROVE  /\ inbox[s] # Append(inbox[s], Msg("Stop", 0))
                      /\ <<>> # Append(inbox[s], Msg("Stop", 0))
                      /\ inbox[s] # <<>> => Tail(inbox[s]) # Append(inbox[s], Msg("Stop", 0))
    OBVIOUS
  <2>1. inbox[s] \in Seq(IpcMessage) /\ Msg("Stop", 0) \in IpcMessage
    BY <1>0, MsgType DEF Kinds
  <2>2. Len(Append(inbox[s], Msg("Stop", 0))) = Len(inbox[s]) + 1
    BY <2>1
  <2>3. Len(inbox[s]) \in Nat /\ Len(<<>>) = 0
    BY <2>1
  <2>4. inbox[s] # <<>> => Len(Tail(inbox[s])) = Len(inbox[s]) - 1
    BY <2>1
  <2>5. inbox[s] # Append(inbox[s], Msg("Stop", 0))
    BY <2>2, <2>3
  <2>6. <<>> # Append(inbox[s], Msg("Stop", 0))
    BY <2>1
  <2>7. inbox[s] # <<>> => Tail(inbox[s]) # Append(inbox[s], Msg("Stop", 0))
    BY <2>2, <2>3, <2>4
  <2> QED BY <2>5, <2>6, <2>7
<1>b. \A s \in Streams, k \in Kinds \ {"Stop"}, n \in Ids :
         Append(inbox[s], Msg(k, n)) # Append(inbox[s], Msg("Stop", 0))
  <2> SUFFICES ASSUME NEW s \in Streams, NEW k \in Kinds \ {"Stop"}, NEW n \in Ids
               PROVE  Append(inbox[s], Msg(k, n)) # Append(inbox[s], Msg("Stop", 0))
    OBVIOUS
  <2>1. /\ inbox[s] \in Seq(IpcMessage)
        /\ Msg("Stop", 0) \in IpcMessage /\ Msg(k, n) \in IpcMessage
    BY <1>0, MsgType DEF Kinds
  <2>2. Append(inbox[s], Msg(k, n))[Len(inbox[s]) + 1] = Msg(k, n)
    BY <2>1
  <2>3. Append(inbox[s], Msg("Stop", 0))[Len(inbox[s]) + 1] = Msg("Stop", 0)
    BY <2>1
  <2>4. Msg(k, n) # Msg("Stop", 0)
    BY DEF Msg
  <2> QED BY <2>2, <2>3, <2>4
<1>c. \A c \in Conns : pc[c] \in HasStream => mine[c] \in Streams
  BY DEF MineBorn
<1>1. CASE \E p \in Primaries : Primary(p)
  <2> PICK p \in Primaries : Primary(p)
    BY <1>1
  <2>1. CASE StopExisting(p)
    BY <2>1, <1>0, <1>a, LifecycleAssumption, <1>b, <1>c DEF Conns, HasStream, Attached, Kinds,
      StopExisting, Goto, Deliver, Msg, hostVars
  <2>2. CASE SendInit(p)
    <3>1. mine[p] \in Streams /\ 0 \in Ids
      BY <2>2, <1>c, MsgType DEF SendInit, Goto, HasStream, Conns
    <3>2. Deliver(mine[p], Msg("Init", 0))
      BY <2>2 DEF SendInit
    <3>3. \A s \in Streams : inbox'[s] # Append(inbox[s], Msg("Stop", 0))
      BY <1>0, <1>a, <1>b, <3>1, <3>2 DEF Deliver, Kinds
    <3> QED BY <3>3
  <2>3. CASE SendStop(p)
    BY <2>3, <1>0, <1>a, LifecycleAssumption, <1>b, <1>c DEF Conns, HasStream, Attached, Kinds,
      SendStop, Goto, Deliver, Msg, hostVars
  <2>4. CASE ReapPrimary(p)
    BY <2>4, <1>0, <1>a, LifecycleAssumption, <1>b, <1>c DEF Conns, HasStream, Attached, Kinds,
      ReapPrimary, Goto, Reap, hostVars
  <2>5. CASE AdmitPrimary(p) \/ RefusePrimary(p) \/ TakeLifecycle(p) \/ RejectDuplicate(p) \/
    MayReplace(p) \/ NothingToStop(p) \/ CaptureExisting(p) \/ StopWaitEnds(p) \/ (\E s \in Streams
    : SpawnPrimary(p, s)) \/ SpawnPrimaryFails(p) \/ RelayEnds(p) \/ ChildEndsFirst(p)
    BY <2>5, <1>0, <1>a, LifecycleAssumption DEF Conns, AdmitPrimary, RefusePrimary, TakeLifecycle,
      RejectDuplicate, MayReplace, NothingToStop, CaptureExisting, StopWaitEnds, SpawnPrimary,
      SpawnPrimaryFails, RelayEnds, ChildEndsFirst, Goto, hostVars, streamVars, YoungPrimary, Spawn,
      SendReplace
  <2> QED BY <2>1, <2>2, <2>3, <2>4, <2>5 DEF Primary
<1>2. CASE \E i \in Inputs : Input(i)
  <2> PICK i \in Inputs : Input(i)
    BY <1>2
  <2>1. CASE SendPlaceholderInit(i)
    <3>1. mine[i] \in Streams
      BY <2>1, <1>0, <1>c DEF SendPlaceholderInit, Goto, HasStream, Conns
    <3>2. Deliver(mine[i], Msg("Init", 0))
      BY <2>1 DEF SendPlaceholderInit
    <3>3. \A s \in Streams : inbox'[s] # Append(inbox[s], Msg("Stop", 0))
      BY <1>0, <1>a, <1>b, <3>1, <3>2, MsgType DEF Deliver, Kinds
    <3> QED BY <3>3
  <2>2. CASE SendAttach(i)
    <3>1. mine[i] \in Streams /\ clientId[i] \in Ids
      BY <2>2, <1>0, <1>c DEF SendAttach, Goto, HasStream, Attached, Conns
    <3>2. Deliver(mine[i], Msg("Attach", clientId[i]))
      BY <2>2 DEF SendAttach
    <3>3. \A s \in Streams : inbox'[s] # Append(inbox[s], Msg("Stop", 0))
      BY <1>0, <1>a, <1>b, <3>1, <3>2 DEF Deliver, Kinds
    <3> QED BY <3>3
  <2>3. CASE SendDetach(i)
    <3>1. mine[i] \in Streams /\ clientId[i] \in Ids
      BY <2>3, <1>0, <1>c DEF SendDetach, Goto, HasStream, Attached, Conns
    <3>2. Deliver(mine[i], Msg("Detach", clientId[i]))
      BY <2>3 DEF SendDetach
    <3>3. \A s \in Streams : inbox'[s] # Append(inbox[s], Msg("Stop", 0))
      BY <1>0, <1>a, <1>b, <3>1, <3>2 DEF Deliver, Kinds
    <3> QED BY <3>3
  <2>4. CASE AdmitInput(i) \/ RefuseInput(i) \/ LookForStream(i) \/ TakeLifecycleForPlaceholder(i)
    \/ NoPlaceholder(i) \/ GameIsRunning(i) \/ (\E s \in Streams : SpawnPlaceholder(i, s)) \/
    SpawnPlaceholderFails(i) \/ FindStream(i) \/ AnnounceWait(i) \/ WatchChanges(i) \/
    WaitingSocketEnds(i) \/ Attach(i) \/ StreamChanges(i) \/ InputSocketEnds(i) \/ Detach(i)
    BY <2>4, <1>0, <1>a, LifecycleAssumption DEF Conns, AdmitInput, RefuseInput, LookForStream,
      TakeLifecycleForPlaceholder, NoPlaceholder, GameIsRunning, SpawnPlaceholder,
      SpawnPlaceholderFails, FindStream, AnnounceWait, WatchChanges, WaitingSocketEnds, Attach,
      StreamChanges, InputSocketEnds, Detach, Goto, streamVars, hostVars, Spawn, SendReplace
  <2> QED BY <2>1, <2>2, <2>3, <2>4 DEF Input
<1>3. CASE \E t \in Streams : Router(t) \/ Keeper(t) \/ Streamer(t) \/ TenSecondsPass(t)
  <2> PICK t \in Streams : Router(t) \/ Keeper(t) \/ Streamer(t) \/ TenSecondsPass(t)
    BY <1>3
  <2>1. CASE KeeperSendsStop(t)
    BY <2>1, <1>0, <1>a, LifecycleAssumption, <1>b, <1>c DEF Conns, HasStream, Attached, Kinds,
      KeeperSendsStop, Deliver, Msg, hostVars
  <2>2. CASE KeeperReaps(t)
    BY <2>2, <1>0, <1>a, LifecycleAssumption, <1>b, <1>c DEF Conns, HasStream, Attached, Kinds,
      KeeperReaps, Reap, hostVars
  <2>3. CASE StreamerBoots(t)
    BY <2>3, <1>0, <1>a, LifecycleAssumption, <1>b, <1>c DEF Conns, HasStream, Attached, Kinds,
      StreamerBoots, hostVars
  <2>4. CASE StreamerReads(t)
    BY <2>4, <1>0, <1>a, LifecycleAssumption, <1>b, <1>c DEF Conns, HasStream, Attached, Kinds,
      StreamerReads, hostVars
  <2>5. CASE StreamerExits(t)
    BY <2>5, <1>0, <1>a, LifecycleAssumption, <1>b, <1>c DEF Conns, HasStream, Attached, Kinds,
      StreamerExits, Reap, hostVars
  <2>6. CASE StreamerPanics(t)
    BY <2>6, <1>0, <1>a, LifecycleAssumption, <1>b, <1>c DEF Conns, HasStream, Attached, Kinds,
      StreamerPanics, Reap, hostVars
  <2>7. CASE RouterEnds(t) \/ RouterClears(t) \/ RouterCloses(t) \/ KeeperPolls(t) \/
    StreamerGivesUp(t) \/ StreamerSaysStop(t) \/ TenSecondsPass(t)
    BY <2>7, <1>0, <1>a, LifecycleAssumption DEF Conns, RouterEnds, RouterClears, RouterCloses,
      KeeperPolls, StreamerGivesUp, StreamerSaysStop, TenSecondsPass, hostVars, SendReplace
  <2> QED BY <2>1, <2>2, <2>3, <2>4, <2>5, <2>6, <2>7 DEF Router, Keeper, Streamer
<1>4. CASE \E c \in Conns : RelayMessage(c) \/ BrowserCloses(c)
  <2> PICK c \in Conns : RelayMessage(c) \/ BrowserCloses(c)
    BY <1>4
  <2>1. CASE RelayMessage(c)
    <3>1. PICK n \in Ids : Deliver(mine[c], Msg("WebSocket", n))
      <4>1. (IF c \in Inputs THEN clientId[c] ELSE 0) \in Ids
        BY <1>0, MsgType
      <4> QED BY <2>1, <4>1 DEF RelayMessage
    <3>2. mine[c] \in Streams
      <4>1. pc[c] \in HasStream
        BY <2>1 DEF RelayMessage, HasStream, Attached
      <4> QED BY <1>c, <4>1
    <3>3. \A s \in Streams : inbox'[s] # Append(inbox[s], Msg("Stop", 0))
      BY <1>0, <1>a, <1>b, <3>1, <3>2 DEF Deliver, Kinds
    <3> QED BY <3>3
  <2>2. CASE BrowserCloses(c)
    BY <2>2, <1>0, <1>a DEF BrowserCloses, streamVars
  <2> QED BY <2>1, <2>2
<1>5. CASE UNCHANGED vars
  BY <1>5, <1>0, <1>a DEF Conns, vars
<1> QED BY <1>1, <1>2, <1>3, <1>4, <1>5 DEF Next

\* Each of the three spares a healthy young primary: the takeover looked at its age
\* under the mutex, its own handler stops only after its socket has closed, and a
\* supervised stream has no client 0.
LEMMA HealthyPrimaryStep ==
  ASSUME TypeOK, MineBorn, StopIsDue, ClosedFirst, ClientZero, [Next]_vars
  PROVE  \A s \in Streams, p \in Primaries :
            (clients[s][0] = p /\ young[s] /\ ws[p] = "open" /\ active = s)
               => inbox'[s] # Append(inbox[s], Msg("Stop", 0))
<1> SUFFICES ASSUME NEW s \in Streams, NEW p \in Primaries,
                    clients[s][0] = p, young[s], ws[p] = "open", active = s,
                    inbox'[s] = Append(inbox[s], Msg("Stop", 0))
             PROVE  FALSE
  OBVIOUS
<1>1. p # None
  BY LifecycleAssumption
<1>2. ASSUME NEW q \in Primaries, mine[q] = s, pc[q] = "tell"
      PROVE  FALSE
  BY <1>1, <1>2, LifecycleAssumption DEF StopIsDue, YoungPrimary, Conns
<1>3. ASSUME NEW q \in Primaries, mine[q] = s, pc[q] = "sendStop"
      PROVE  FALSE
  <2>1. Owns(q, s)
    BY <1>3 DEF Owns
  <2>2. q = p
    BY <2>1, <1>1 DEF ClientZero, Conns
  <2> QED BY <2>2, <1>3 DEF ClosedFirst
<1>4. CASE keeper[s] = "sendStop"
  BY <1>1, <1>4 DEF ClientZero
<1> QED BY <1>2, <1>3, <1>4, StopSentStep

\* The only step that registers a stream without client 0 found none active.
LEMMA PlaceholderStep ==
  ASSUME TypeOK, PlaceholderWanted, [Next]_vars
  PROVE  (active' # active /\ active' # None /\ clients'[active'][0] = None) => active = None
<1>0. /\ active \in Streams \cup {None}
      /\ pc \in [Conns -> Location]
      /\ clients \in [Streams -> [Ids -> Conns \cup {None}]]
  BY DEF TypeOK
<1>1. CASE \E p \in Primaries : Primary(p)
  <2> PICK p \in Primaries : Primary(p)
    BY <1>1
  <2>1. CASE AdmitPrimary(p) \/ RefusePrimary(p) \/ TakeLifecycle(p) \/ RejectDuplicate(p) \/
    MayReplace(p)
    BY <2>1, <1>0, LifecycleAssumption DEF Conns, Ids, AdmitPrimary, RefusePrimary, TakeLifecycle,
      RejectDuplicate, MayReplace, Goto, hostVars, streamVars, YoungPrimary, Deliver, Msg, Spawn,
      SendReplace, Reap
  <2>2. CASE NothingToStop(p) \/ CaptureExisting(p) \/ StopExisting(p) \/ StopWaitEnds(p)
    BY <2>2, <1>0, LifecycleAssumption DEF Conns, Ids, NothingToStop, CaptureExisting, StopExisting,
      StopWaitEnds, Goto, hostVars, streamVars, YoungPrimary, Deliver, Msg, Spawn, SendReplace, Reap
  <2>3. CASE (\E s \in Streams : SpawnPrimary(p, s)) \/ SpawnPrimaryFails(p) \/ SendInit(p)
    BY <2>3, <1>0, LifecycleAssumption DEF Conns, Ids, SpawnPrimary, SpawnPrimaryFails, SendInit,
      Goto, hostVars, streamVars, YoungPrimary, Deliver, Msg, Spawn, SendReplace, Reap
  <2>4. CASE RelayEnds(p) \/ ChildEndsFirst(p) \/ SendStop(p) \/ ReapPrimary(p)
    BY <2>4, <1>0, LifecycleAssumption DEF Conns, Ids, RelayEnds, ChildEndsFirst, SendStop,
      ReapPrimary, Goto, hostVars, streamVars, YoungPrimary, Deliver, Msg, Spawn, SendReplace, Reap
  <2> QED BY <2>1, <2>2, <2>3, <2>4 DEF Primary
<1>2. CASE \E i \in Inputs : Input(i)
  <2> PICK i \in Inputs : Input(i)
    BY <1>2
  <2>1. CASE AdmitInput(i) \/ RefuseInput(i) \/ LookForStream(i) \/ TakeLifecycleForPlaceholder(i)
    \/ NoPlaceholder(i) \/ GameIsRunning(i)
    BY <2>1, <1>0, LifecycleAssumption DEF Conns, PlaceholderWanted, AdmitInput, RefuseInput,
      LookForStream, TakeLifecycleForPlaceholder, NoPlaceholder, GameIsRunning, Goto, streamVars,
      hostVars, Spawn, SendReplace, Deliver, Msg
  <2>2. CASE (\E s \in Streams : SpawnPlaceholder(i, s)) \/ SpawnPlaceholderFails(i) \/
    SendPlaceholderInit(i)
    BY <2>2, <1>0, LifecycleAssumption DEF Conns, PlaceholderWanted, SpawnPlaceholder,
      SpawnPlaceholderFails, SendPlaceholderInit, Goto, streamVars, hostVars, Spawn, SendReplace,
      Deliver, Msg
  <2>3. CASE FindStream(i) \/ AnnounceWait(i) \/ WatchChanges(i) \/ WaitingSocketEnds(i) \/
    StreamChanges(i) \/ InputSocketEnds(i)
    BY <2>3, <1>0, LifecycleAssumption DEF Conns, PlaceholderWanted, FindStream, AnnounceWait,
      WatchChanges, WaitingSocketEnds, StreamChanges, InputSocketEnds, Goto, streamVars, hostVars,
      Spawn, SendReplace, Deliver, Msg
  <2>4. CASE Attach(i) \/ SendAttach(i) \/ Detach(i) \/ SendDetach(i)
    BY <2>4, <1>0, LifecycleAssumption DEF Conns, PlaceholderWanted, Attach, SendAttach, Detach,
      SendDetach, Goto, streamVars, hostVars, Spawn, SendReplace, Deliver, Msg
  <2> QED BY <2>1, <2>2, <2>3, <2>4 DEF Input
<1>3. CASE \E t \in Streams : Router(t) \/ Keeper(t) \/ Streamer(t) \/ TenSecondsPass(t)
  <2> PICK t \in Streams : Router(t) \/ Keeper(t) \/ Streamer(t) \/ TenSecondsPass(t)
    BY <1>3
  <2>1. CASE RouterEnds(t) \/ RouterClears(t) \/ RouterCloses(t)
    BY <2>1, <1>0, LifecycleAssumption DEF Conns, RouterEnds, RouterClears, RouterCloses, hostVars,
      SendReplace, Deliver, Msg, Reap
  <2>2. CASE KeeperPolls(t) \/ KeeperSendsStop(t) \/ KeeperReaps(t) \/ TenSecondsPass(t)
    BY <2>2, <1>0, LifecycleAssumption DEF Conns, KeeperPolls, KeeperSendsStop, KeeperReaps,
      TenSecondsPass, hostVars, SendReplace, Deliver, Msg, Reap
  <2>3. CASE StreamerBoots(t) \/ StreamerReads(t) \/ StreamerGivesUp(t)
    BY <2>3, <1>0, LifecycleAssumption DEF Conns, StreamerBoots, StreamerReads, StreamerGivesUp,
      hostVars, SendReplace, Deliver, Msg, Reap
  <2>4. CASE StreamerSaysStop(t) \/ StreamerExits(t) \/ StreamerPanics(t)
    BY <2>4, <1>0, LifecycleAssumption DEF Conns, StreamerSaysStop, StreamerExits, StreamerPanics,
      hostVars, SendReplace, Deliver, Msg, Reap
  <2> QED BY <2>1, <2>2, <2>3, <2>4 DEF Router, Keeper, Streamer
<1>4. CASE \E c \in Conns : RelayMessage(c) \/ BrowserCloses(c)
  BY <1>4, <1>0, LifecycleAssumption DEF Conns, RelayMessage, BrowserCloses, Deliver, Msg, hostVars,
    streamVars
<1>5. CASE UNCHANGED vars
  BY <1>5, <1>0 DEF Conns, vars
<1> QED BY <1>1, <1>2, <1>3, <1>4, <1>5 DEF Next

\* Only the router of the registered stream clears the registration.
LEMMA NewerStreamStep ==
  ASSUME TypeOK, [Next]_vars
  PROVE  \A s \in Streams : (active = s /\ active' = None) => router'[s] # router[s]
<1>0. /\ active \in Streams \cup {None}
      /\ router \in [Streams -> {"off", "recv", "clear", "close", "done"}]
  BY DEF TypeOK
<1>1. CASE \E p \in Primaries : Primary(p)
  <2> PICK p \in Primaries : Primary(p)
    BY <1>1
  <2>1. CASE AdmitPrimary(p) \/ RefusePrimary(p) \/ TakeLifecycle(p) \/ RejectDuplicate(p) \/
    MayReplace(p)
    BY <2>1, <1>0, LifecycleAssumption DEF Conns, AdmitPrimary, RefusePrimary, TakeLifecycle,
      RejectDuplicate, MayReplace, Goto, hostVars, streamVars, YoungPrimary, Deliver, Msg, Spawn,
      SendReplace, Reap
  <2>2. CASE NothingToStop(p) \/ CaptureExisting(p) \/ StopExisting(p) \/ StopWaitEnds(p)
    BY <2>2, <1>0, LifecycleAssumption DEF Conns, NothingToStop, CaptureExisting, StopExisting,
      StopWaitEnds, Goto, hostVars, streamVars, YoungPrimary, Deliver, Msg, Spawn, SendReplace, Reap
  <2>3. CASE (\E s \in Streams : SpawnPrimary(p, s)) \/ SpawnPrimaryFails(p) \/ SendInit(p)
    BY <2>3, <1>0, LifecycleAssumption DEF Conns, SpawnPrimary, SpawnPrimaryFails, SendInit, Goto,
      hostVars, streamVars, YoungPrimary, Deliver, Msg, Spawn, SendReplace, Reap
  <2>4. CASE RelayEnds(p) \/ ChildEndsFirst(p) \/ SendStop(p) \/ ReapPrimary(p)
    BY <2>4, <1>0, LifecycleAssumption DEF Conns, RelayEnds, ChildEndsFirst, SendStop, ReapPrimary,
      Goto, hostVars, streamVars, YoungPrimary, Deliver, Msg, Spawn, SendReplace, Reap
  <2> QED BY <2>1, <2>2, <2>3, <2>4 DEF Primary
<1>2. CASE \E i \in Inputs : Input(i)
  <2> PICK i \in Inputs : Input(i)
    BY <1>2
  <2>1. CASE AdmitInput(i) \/ RefuseInput(i) \/ LookForStream(i) \/ TakeLifecycleForPlaceholder(i)
    \/ NoPlaceholder(i) \/ GameIsRunning(i)
    BY <2>1, <1>0, LifecycleAssumption DEF Conns, AdmitInput, RefuseInput, LookForStream,
      TakeLifecycleForPlaceholder, NoPlaceholder, GameIsRunning, Goto, streamVars, hostVars, Spawn,
      SendReplace, Deliver, Msg
  <2>2. CASE (\E s \in Streams : SpawnPlaceholder(i, s)) \/ SpawnPlaceholderFails(i) \/
    SendPlaceholderInit(i)
    BY <2>2, <1>0, LifecycleAssumption DEF Conns, SpawnPlaceholder, SpawnPlaceholderFails,
      SendPlaceholderInit, Goto, streamVars, hostVars, Spawn, SendReplace, Deliver, Msg
  <2>3. CASE FindStream(i) \/ AnnounceWait(i) \/ WatchChanges(i) \/ WaitingSocketEnds(i) \/
    StreamChanges(i) \/ InputSocketEnds(i)
    BY <2>3, <1>0, LifecycleAssumption DEF Conns, FindStream, AnnounceWait, WatchChanges,
      WaitingSocketEnds, StreamChanges, InputSocketEnds, Goto, streamVars, hostVars, Spawn,
      SendReplace, Deliver, Msg
  <2>4. CASE Attach(i) \/ SendAttach(i) \/ Detach(i) \/ SendDetach(i)
    BY <2>4, <1>0, LifecycleAssumption DEF Conns, Attach, SendAttach, Detach, SendDetach, Goto,
      streamVars, hostVars, Spawn, SendReplace, Deliver, Msg
  <2> QED BY <2>1, <2>2, <2>3, <2>4 DEF Input
<1>3. CASE \E t \in Streams : Router(t) \/ Keeper(t) \/ Streamer(t) \/ TenSecondsPass(t)
  <2> PICK t \in Streams : Router(t) \/ Keeper(t) \/ Streamer(t) \/ TenSecondsPass(t)
    BY <1>3
  <2>1. CASE RouterEnds(t) \/ RouterClears(t) \/ RouterCloses(t)
    BY <2>1, <1>0, LifecycleAssumption DEF Conns, RouterEnds, RouterClears, RouterCloses, hostVars,
      SendReplace, Deliver, Msg, Reap
  <2>2. CASE KeeperPolls(t) \/ KeeperSendsStop(t) \/ KeeperReaps(t) \/ TenSecondsPass(t)
    BY <2>2, <1>0, LifecycleAssumption DEF Conns, KeeperPolls, KeeperSendsStop, KeeperReaps,
      TenSecondsPass, hostVars, SendReplace, Deliver, Msg, Reap
  <2>3. CASE StreamerBoots(t) \/ StreamerReads(t) \/ StreamerGivesUp(t)
    BY <2>3, <1>0, LifecycleAssumption DEF Conns, StreamerBoots, StreamerReads, StreamerGivesUp,
      hostVars, SendReplace, Deliver, Msg, Reap
  <2>4. CASE StreamerSaysStop(t) \/ StreamerExits(t) \/ StreamerPanics(t)
    BY <2>4, <1>0, LifecycleAssumption DEF Conns, StreamerSaysStop, StreamerExits, StreamerPanics,
      hostVars, SendReplace, Deliver, Msg, Reap
  <2> QED BY <2>1, <2>2, <2>3, <2>4 DEF Router, Keeper, Streamer
<1>4. CASE \E c \in Conns : RelayMessage(c) \/ BrowserCloses(c)
  BY <1>4, <1>0, LifecycleAssumption DEF Conns, RelayMessage, BrowserCloses, Deliver, Msg, hostVars,
    streamVars
<1>5. CASE UNCHANGED vars
  BY <1>5, <1>0, LifecycleAssumption DEF Conns, vars
<1> QED BY <1>1, <1>2, <1>3, <1>4, <1>5 DEF Next

-----------------------------------------------------------------------------
\* The inductive invariant.
IInv ==
    /\ TypeOK /\ LifecycleExclusive /\ MineBorn /\ ActiveBorn /\ UnbornIdle
    /\ SoleOwner /\ OwnerNotKept /\ KeeperCounts /\ LiveChildIsOwned
    /\ RegisteredHasRouter /\ NoMissedWakeup /\ PlaceholderWanted
    /\ BootHasInit /\ StopFollowsInit /\ StopIsDue /\ ClosedFirst /\ ClientZero

LEMMA InitIInv == Init => IInv
<1> SUFFICES ASSUME Init PROVE IInv
  OBVIOUS
<1>1. TypeOK
  <2>1. 0 \in Ids /\ 1 \in 1..MaxId /\ 0 \in 0..EmptyPollsBeforeStop
    BY LifecycleAssumption DEF Ids
  <2>2. [s \in Streams |-> <<>>] \in [Streams -> Seq(IpcMessage)]
    OBVIOUS
  <2> QED BY <2>1, <2>2 DEF Init, TypeOK, Location, ChildState
<1>2. \A c \in Conns, s \in Streams : ~Owns(c, s)
  BY DEF Init, Owns
<1>3. LifecycleExclusive /\ MineBorn /\ ActiveBorn /\ UnbornIdle
  BY LifecycleAssumption DEF Init, LifecycleExclusive, LifecycleSection, MineBorn,
     HasStream, Attached, ActiveBorn, UnbornIdle, Conns
<1>4. SoleOwner /\ OwnerNotKept /\ KeeperCounts /\ LiveChildIsOwned
  BY <1>2, LifecycleAssumption DEF Init, SoleOwner, OwnerNotKept, KeeperCounts, LiveChildIsOwned
<1>5. RegisteredHasRouter /\ NoMissedWakeup /\ PlaceholderWanted /\ BootHasInit /\ StopFollowsInit
  BY DEF Init, RegisteredHasRouter, NoMissedWakeup, PlaceholderWanted, BootHasInit,
     StopFollowsInit, Conns
<1>6. StopIsDue /\ ClosedFirst /\ ClientZero
  BY <1>2, LifecycleAssumption DEF Init, StopIsDue, ClosedFirst, ClientZero, Ids, Conns
<1> QED BY <1>1, <1>3, <1>4, <1>5, <1>6 DEF IInv

LEMMA NextIInv == IInv /\ [Next]_vars => IInv'
<1> SUFFICES ASSUME IInv, [Next]_vars PROVE IInv'
  OBVIOUS
<1>1. TypeOK'
  BY TypeOKStep DEF IInv
<1>2. LifecycleExclusive' /\ MineBorn' /\ ActiveBorn' /\ UnbornIdle'
  BY LifecycleExclusiveStep, MineBornStep, ActiveBornStep, UnbornIdleStep DEF IInv
<1>3. SoleOwner' /\ OwnerNotKept' /\ KeeperCounts' /\ LiveChildIsOwned'
  BY SoleOwnerStep, OwnerNotKeptStep, KeeperCountsStep, LiveChildIsOwnedStep DEF IInv
<1>4. RegisteredHasRouter' /\ NoMissedWakeup' /\ PlaceholderWanted'
  BY RegisteredHasRouterStep, NoMissedWakeupStep, PlaceholderWantedStep DEF IInv
<1>5. BootHasInit' /\ StopFollowsInit'
  BY BootHasInitStep, StopFollowsInitStep DEF IInv
<1>6. StopIsDue' /\ ClosedFirst' /\ ClientZero'
  BY StopIsDueStep, ClosedFirstStep, ClientZeroStep DEF IInv
<1> QED BY <1>1, <1>2, <1>3, <1>4, <1>5, <1>6 DEF IInv

\* The inductive invariant holds in every reachable state.
THEOREM Invariance == Spec => []IInv
BY InitIInv, NextIInv, PTL DEF Spec

\* Type correctness: among others next_client_id stays a u32 and a supervisor never
\* counts past EMPTY_POLLS_BEFORE_STOP.
THEOREM TypeCorrect == Spec => []TypeOK
<1>1. IInv => TypeOK
  BY DEF IInv
<1> QED BY <1>1, Invariance, PTL

\* stream_lifecycle: one handler per host starts or replaces a stream at a time.
THEOREM LifecycleIsExclusive == Spec => []LifecycleExclusive
<1>1. IInv => LifecycleExclusive
  BY DEF IInv
<1> QED BY <1>1, Invariance, PTL

\* spawn_streamer_process and the senders of Stop: no streamer can be started by an
\* Init whose Stop it has already thrown away.
THEOREM StopNeverOvertakesInit == Spec => []StopFollowsInit
<1>1. IInv => StopFollowsInit
  BY DEF IInv
<1> QED BY <1>1, Invariance, PTL

\* Every live streamer process has a task that will reap it.
THEOREM ChildrenAreOwned == Spec => []LiveChildIsOwned
<1>1. IInv => LiveChildIsOwned
  BY DEF IInv
<1> QED BY <1>1, Invariance, PTL

\* The router of the registered stream will still clear the registration.
THEOREM RegistrationIsCleared == Spec => []RegisteredHasRouter
<1>1. IInv => RegisteredHasRouter
  BY DEF IInv
<1> QED BY <1>1, Invariance, PTL

\* wait_for_active_stream does not sleep through a registration.
THEOREM WakeupsArrive == Spec => []NoMissedWakeup
<1>1. IInv => NoMissedWakeup
  BY DEF IInv
<1> QED BY <1>1, Invariance, PTL

\* Client 0 is never an input-only client, however often next_client_id has wrapped.
THEOREM ZeroIsReserved == Spec => []ClientZeroIsReserved
<1>1. IInv => ClientZeroIsReserved
  BY DEF IInv, ClientZero, ClientZeroIsReserved
<1> QED BY <1>1, Invariance, PTL

\* run_primary_stream's debounce: a healthy young primary is not told to stop.
THEOREM HealthyPrimaryStays == Spec => HealthyPrimaryKept
<1>1. IInv /\ [Next]_vars =>
         [\A s \in Streams, p \in Primaries :
            (clients[s][0] = p /\ young[s] /\ ws[p] = "open" /\ active = s)
               => inbox'[s] # Append(inbox[s], Msg("Stop", 0))]_vars
  BY HealthyPrimaryStep DEF IInv
<1> QED BY <1>1, Invariance, PTL DEF Spec, HealthyPrimaryKept

\* maybe_start_placeholder_stream's second look: a placeholder never displaces a stream.
THEOREM PlaceholderOnlyWhenIdle == Spec => PlaceholderNeverReplaces
<1>1. IInv /\ [Next]_vars =>
         [(active' # active /\ active' # None /\ clients'[active'][0] = None)
             => active = None]_vars
  BY PlaceholderStep DEF IInv
<1> QED BY <1>1, Invariance, PTL DEF Spec, PlaceholderNeverReplaces

\* The exit of a replaced streamer leaves the registration of its successor alone.
THEOREM NewerStreamStays == Spec => NewerStreamSurvives
<1>1. IInv /\ [Next]_vars =>
         [\A s \in Streams : (active = s /\ active' = None) => router'[s] # router[s]]_vars
  BY NewerStreamStep DEF IInv
<1> QED BY <1>1, Invariance, PTL DEF Spec, NewerStreamSurvives

\* A stream that was unregistered is never registered again.
LEMMA LeftIsOverStep ==
  ASSUME TypeOK, MineBorn, LeftIsOver, [Next]_vars
  PROVE  LeftIsOver'
<1>0. /\ active \in Streams \cup {None}
      /\ pc \in [Conns -> Location]
      /\ mine \in [Conns -> Streams \cup {None}]
      /\ child \in [Streams -> ChildState]
  BY DEF TypeOK
<1>1. CASE \E p \in Primaries : Primary(p)
  <2> PICK p \in Primaries : Primary(p)
    BY <1>1
  <2>1. CASE AdmitPrimary(p) \/ RefusePrimary(p) \/ TakeLifecycle(p) \/ RejectDuplicate(p) \/
    MayReplace(p)
    BY <2>1, <1>0, LifecycleAssumption DEF LeftIsOver, MineBorn, HasStream, Attached, Conns,
      AdmitPrimary, RefusePrimary, TakeLifecycle, RejectDuplicate, MayReplace, Goto, hostVars,
      streamVars, YoungPrimary, Deliver, Msg, Spawn, SendReplace, Reap
  <2>2. CASE NothingToStop(p) \/ CaptureExisting(p) \/ StopExisting(p) \/ StopWaitEnds(p)
    BY <2>2, <1>0, LifecycleAssumption DEF LeftIsOver, MineBorn, HasStream, Attached, Conns,
      NothingToStop, CaptureExisting, StopExisting, StopWaitEnds, Goto, hostVars, streamVars,
      YoungPrimary, Deliver, Msg, Spawn, SendReplace, Reap
  <2>3. CASE (\E s \in Streams : SpawnPrimary(p, s)) \/ SpawnPrimaryFails(p) \/ SendInit(p)
    BY <2>3, <1>0, LifecycleAssumption DEF LeftIsOver, MineBorn, HasStream, Attached, Conns,
      SpawnPrimary, SpawnPrimaryFails, SendInit, Goto, hostVars, streamVars, YoungPrimary, Deliver,
      Msg, Spawn, SendReplace, Reap
  <2>4. CASE RelayEnds(p) \/ ChildEndsFirst(p) \/ SendStop(p) \/ ReapPrimary(p)
    BY <2>4, <1>0, LifecycleAssumption DEF LeftIsOver, MineBorn, HasStream, Attached, Conns,
      RelayEnds, ChildEndsFirst, SendStop, ReapPrimary, Goto, hostVars, streamVars, YoungPrimary,
      Deliver, Msg, Spawn, SendReplace, Reap
  <2> QED BY <2>1, <2>2, <2>3, <2>4 DEF Primary
<1>2. CASE \E i \in Inputs : Input(i)
  <2> PICK i \in Inputs : Input(i)
    BY <1>2
  <2>1. CASE AdmitInput(i) \/ RefuseInput(i) \/ LookForStream(i) \/ TakeLifecycleForPlaceholder(i)
    \/ NoPlaceholder(i) \/ GameIsRunning(i)
    BY <2>1, <1>0, LifecycleAssumption DEF LeftIsOver, MineBorn, HasStream, Attached, Conns,
      AdmitInput, RefuseInput, LookForStream, TakeLifecycleForPlaceholder, NoPlaceholder,
      GameIsRunning, Goto, streamVars, hostVars, Spawn, SendReplace, Deliver, Msg
  <2>2. CASE (\E s \in Streams : SpawnPlaceholder(i, s)) \/ SpawnPlaceholderFails(i) \/
    SendPlaceholderInit(i)
    BY <2>2, <1>0, LifecycleAssumption DEF LeftIsOver, MineBorn, HasStream, Attached, Conns,
      SpawnPlaceholder, SpawnPlaceholderFails, SendPlaceholderInit, Goto, streamVars, hostVars,
      Spawn, SendReplace, Deliver, Msg
  <2>3. CASE FindStream(i) \/ AnnounceWait(i) \/ WatchChanges(i) \/ WaitingSocketEnds(i) \/
    StreamChanges(i) \/ InputSocketEnds(i)
    BY <2>3, <1>0, LifecycleAssumption DEF LeftIsOver, MineBorn, HasStream, Attached, Conns,
      FindStream, AnnounceWait, WatchChanges, WaitingSocketEnds, StreamChanges, InputSocketEnds,
      Goto, streamVars, hostVars, Spawn, SendReplace, Deliver, Msg
  <2>4. CASE Attach(i) \/ SendAttach(i) \/ Detach(i) \/ SendDetach(i)
    BY <2>4, <1>0, LifecycleAssumption DEF LeftIsOver, MineBorn, HasStream, Attached, Conns, Attach,
      SendAttach, Detach, SendDetach, Goto, streamVars, hostVars, Spawn, SendReplace, Deliver, Msg
  <2> QED BY <2>1, <2>2, <2>3, <2>4 DEF Input
<1>3. CASE \E t \in Streams : Router(t) \/ Keeper(t) \/ Streamer(t) \/ TenSecondsPass(t)
  <2> PICK t \in Streams : Router(t) \/ Keeper(t) \/ Streamer(t) \/ TenSecondsPass(t)
    BY <1>3
  <2>1. CASE RouterEnds(t) \/ RouterClears(t) \/ RouterCloses(t)
    BY <2>1, <1>0, LifecycleAssumption DEF LeftIsOver, MineBorn, HasStream, Attached, Conns,
      RouterEnds, RouterClears, RouterCloses, hostVars, SendReplace, Deliver, Msg, Reap
  <2>2. CASE KeeperPolls(t) \/ KeeperSendsStop(t) \/ KeeperReaps(t) \/ TenSecondsPass(t)
    BY <2>2, <1>0, LifecycleAssumption DEF LeftIsOver, MineBorn, HasStream, Attached, Conns,
      KeeperPolls, KeeperSendsStop, KeeperReaps, TenSecondsPass, hostVars, SendReplace, Deliver,
      Msg, Reap
  <2>3. CASE StreamerBoots(t) \/ StreamerReads(t) \/ StreamerGivesUp(t)
    BY <2>3, <1>0, LifecycleAssumption DEF LeftIsOver, MineBorn, HasStream, Attached, Conns,
      StreamerBoots, StreamerReads, StreamerGivesUp, hostVars, SendReplace, Deliver, Msg, Reap
  <2>4. CASE StreamerSaysStop(t) \/ StreamerExits(t) \/ StreamerPanics(t)
    BY <2>4, <1>0, LifecycleAssumption DEF LeftIsOver, MineBorn, HasStream, Attached, Conns,
      StreamerSaysStop, StreamerExits, StreamerPanics, hostVars, SendReplace, Deliver, Msg, Reap
  <2> QED BY <2>1, <2>2, <2>3, <2>4 DEF Router, Keeper, Streamer
<1>4. CASE \E c \in Conns : RelayMessage(c) \/ BrowserCloses(c)
  BY <1>4, <1>0, LifecycleAssumption DEF LeftIsOver, MineBorn, HasStream, Attached, Conns,
    RelayMessage, BrowserCloses, Deliver, Msg, hostVars, streamVars
<1>5. CASE UNCHANGED vars
  BY <1>5, <1>0 DEF LeftIsOver, MineBorn, HasStream, Attached, Conns, vars
<1> QED BY <1>1, <1>2, <1>3, <1>4, <1>5 DEF Next

\* Nobody who could not attach to a stream any more can do so after a step.
LEMMA MayJoinStep ==
  ASSUME TypeOK, MineBorn, LeftIsOver, [Next]_vars,
         NEW i \in Inputs, NEW s \in Streams, MayJoin(i, s)'
  PROVE  MayJoin(i, s)
<1>0. /\ active \in Streams \cup {None}
      /\ pc \in [Conns -> Location]
      /\ mine \in [Conns -> Streams \cup {None}]
      /\ child \in [Streams -> ChildState]
  BY DEF TypeOK
<1>1. CASE \E p \in Primaries : Primary(p)
  <2> PICK p \in Primaries : Primary(p)
    BY <1>1
  <2>1. CASE AdmitPrimary(p) \/ RefusePrimary(p) \/ TakeLifecycle(p) \/ RejectDuplicate(p) \/
    MayReplace(p)
    BY <2>1, <1>0, LifecycleAssumption DEF MayJoin, LeftIsOver, MineBorn, HasStream, Attached,
      Conns, AdmitPrimary, RefusePrimary, TakeLifecycle, RejectDuplicate, MayReplace, Goto,
      hostVars, streamVars, YoungPrimary, Deliver, Msg, Spawn, SendReplace, Reap
  <2>2. CASE NothingToStop(p) \/ CaptureExisting(p) \/ StopExisting(p) \/ StopWaitEnds(p)
    BY <2>2, <1>0, LifecycleAssumption DEF MayJoin, LeftIsOver, MineBorn, HasStream, Attached,
      Conns, NothingToStop, CaptureExisting, StopExisting, StopWaitEnds, Goto, hostVars, streamVars,
      YoungPrimary, Deliver, Msg, Spawn, SendReplace, Reap
  <2>3. CASE (\E t \in Streams : SpawnPrimary(p, t)) \/ SpawnPrimaryFails(p) \/ SendInit(p)
    BY <2>3, <1>0, LifecycleAssumption DEF MayJoin, LeftIsOver, MineBorn, HasStream, Attached,
      Conns, SpawnPrimary, SpawnPrimaryFails, SendInit, Goto, hostVars, streamVars, YoungPrimary,
      Deliver, Msg, Spawn, SendReplace, Reap
  <2>4. CASE RelayEnds(p) \/ ChildEndsFirst(p) \/ SendStop(p) \/ ReapPrimary(p)
    BY <2>4, <1>0, LifecycleAssumption DEF MayJoin, LeftIsOver, MineBorn, HasStream, Attached,
      Conns, RelayEnds, ChildEndsFirst, SendStop, ReapPrimary, Goto, hostVars, streamVars,
      YoungPrimary, Deliver, Msg, Spawn, SendReplace, Reap
  <2> QED BY <2>1, <2>2, <2>3, <2>4 DEF Primary
<1>2. CASE \E j \in Inputs : Input(j)
  <2> PICK j \in Inputs : Input(j)
    BY <1>2
  <2>1. CASE AdmitInput(j) \/ RefuseInput(j) \/ LookForStream(j) \/ TakeLifecycleForPlaceholder(j)
    \/ NoPlaceholder(j) \/ GameIsRunning(j)
    BY <2>1, <1>0, LifecycleAssumption DEF MayJoin, LeftIsOver, MineBorn, HasStream, Attached,
      Conns, AdmitInput, RefuseInput, LookForStream, TakeLifecycleForPlaceholder, NoPlaceholder,
      GameIsRunning, Goto, streamVars, hostVars, Spawn, SendReplace, Deliver, Msg
  <2>2. CASE (\E t \in Streams : SpawnPlaceholder(j, t)) \/ SpawnPlaceholderFails(j) \/
    SendPlaceholderInit(j)
    BY <2>2, <1>0, LifecycleAssumption DEF MayJoin, LeftIsOver, MineBorn, HasStream, Attached,
      Conns, SpawnPlaceholder, SpawnPlaceholderFails, SendPlaceholderInit, Goto, streamVars,
      hostVars, Spawn, SendReplace, Deliver, Msg
  <2>3. CASE FindStream(j) \/ AnnounceWait(j) \/ WatchChanges(j) \/ WaitingSocketEnds(j) \/
    StreamChanges(j) \/ InputSocketEnds(j)
    BY <2>3, <1>0, LifecycleAssumption DEF MayJoin, LeftIsOver, MineBorn, HasStream, Attached,
      Conns, FindStream, AnnounceWait, WatchChanges, WaitingSocketEnds, StreamChanges,
      InputSocketEnds, Goto, streamVars, hostVars, Spawn, SendReplace, Deliver, Msg
  <2>4. CASE Attach(j) \/ SendAttach(j) \/ Detach(j) \/ SendDetach(j)
    BY <2>4, <1>0, LifecycleAssumption DEF MayJoin, LeftIsOver, MineBorn, HasStream, Attached,
      Conns, Attach, SendAttach, Detach, SendDetach, Goto, streamVars, hostVars, Spawn, SendReplace,
      Deliver, Msg
  <2> QED BY <2>1, <2>2, <2>3, <2>4 DEF Input
<1>3. CASE \E t \in Streams : Router(t) \/ Keeper(t) \/ Streamer(t) \/ TenSecondsPass(t)
  <2> PICK t \in Streams : Router(t) \/ Keeper(t) \/ Streamer(t) \/ TenSecondsPass(t)
    BY <1>3
  <2>1. CASE RouterEnds(t) \/ RouterClears(t) \/ RouterCloses(t)
    BY <2>1, <1>0, LifecycleAssumption DEF MayJoin, LeftIsOver, MineBorn, HasStream, Attached,
      Conns, RouterEnds, RouterClears, RouterCloses, hostVars, SendReplace, Deliver, Msg, Reap
  <2>2. CASE KeeperPolls(t) \/ KeeperSendsStop(t) \/ KeeperReaps(t) \/ TenSecondsPass(t)
    BY <2>2, <1>0, LifecycleAssumption DEF MayJoin, LeftIsOver, MineBorn, HasStream, Attached,
      Conns, KeeperPolls, KeeperSendsStop, KeeperReaps, TenSecondsPass, hostVars, SendReplace,
      Deliver, Msg, Reap
  <2>3. CASE StreamerBoots(t) \/ StreamerReads(t) \/ StreamerGivesUp(t)
    BY <2>3, <1>0, LifecycleAssumption DEF MayJoin, LeftIsOver, MineBorn, HasStream, Attached,
      Conns, StreamerBoots, StreamerReads, StreamerGivesUp, hostVars, SendReplace, Deliver, Msg,
      Reap
  <2>4. CASE StreamerSaysStop(t) \/ StreamerExits(t) \/ StreamerPanics(t)
    BY <2>4, <1>0, LifecycleAssumption DEF MayJoin, LeftIsOver, MineBorn, HasStream, Attached,
      Conns, StreamerSaysStop, StreamerExits, StreamerPanics, hostVars, SendReplace, Deliver, Msg,
      Reap
  <2> QED BY <2>1, <2>2, <2>3, <2>4 DEF Router, Keeper, Streamer
<1>4. CASE \E c \in Conns : RelayMessage(c) \/ BrowserCloses(c)
  BY <1>4, <1>0, LifecycleAssumption DEF MayJoin, LeftIsOver, MineBorn, HasStream, Attached, Conns,
    RelayMessage, BrowserCloses, Deliver, Msg, hostVars, streamVars
<1>5. CASE UNCHANGED vars
  BY <1>5, <1>0 DEF MayJoin, LeftIsOver, MineBorn, HasStream, Attached, Conns, vars
<1> QED BY <1>1, <1>2, <1>3, <1>4, <1>5 DEF Next

\* Only Attach, Detach and SendDetach touch the ids of the input-only connections.
LEMMA QuietStep ==
  ASSUME TypeOK, MineBorn, [Next]_vars
  PROVE  (\E i \in Inputs : Attach(i) \/ Detach(i) \/ SendDetach(i)) \/ Quiet
<1>0. /\ active \in Streams \cup {None}
      /\ pc \in [Conns -> Location]
      /\ mine \in [Conns -> Streams \cup {None}]
      /\ child \in [Streams -> ChildState]
      /\ clientId \in [Inputs -> Ids]
      /\ clients \in [Streams -> [Ids -> Conns \cup {None}]]
  BY DEF TypeOK
<1>1. CASE \E p \in Primaries : Primary(p)
  <2> PICK p \in Primaries : Primary(p)
    BY <1>1
  <2>1. CASE AdmitPrimary(p) \/ RefusePrimary(p) \/ TakeLifecycle(p) \/ RejectDuplicate(p) \/
    MayReplace(p)
    BY <2>1, <1>0, LifecycleAssumption DEF Quiet, HoldsId, MineBorn, HasStream, Attached, Conns,
      AdmitPrimary, RefusePrimary, TakeLifecycle, RejectDuplicate, MayReplace, Goto, hostVars,
      streamVars, YoungPrimary, Deliver, Msg, Spawn, SendReplace, Reap
  <2>2. CASE NothingToStop(p) \/ CaptureExisting(p) \/ StopExisting(p) \/ StopWaitEnds(p)
    BY <2>2, <1>0, LifecycleAssumption DEF Quiet, HoldsId, MineBorn, HasStream, Attached, Conns,
      NothingToStop, CaptureExisting, StopExisting, StopWaitEnds, Goto, hostVars, streamVars,
      YoungPrimary, Deliver, Msg, Spawn, SendReplace, Reap
  <2>3. CASE \E s \in Streams : SpawnPrimary(p, s)
    BY <2>3, <1>0, LifecycleAssumption DEF Quiet, HoldsId, Ids, Conns, SpawnPrimary, Goto, Spawn,
      SendReplace
  <2>5. CASE SpawnPrimaryFails(p) \/ SendInit(p)
    BY <2>5, <1>0, LifecycleAssumption DEF Quiet, HoldsId, Conns, SpawnPrimaryFails, SendInit, Goto,
      hostVars, streamVars, Deliver, Msg
  <2>4. CASE RelayEnds(p) \/ ChildEndsFirst(p) \/ SendStop(p) \/ ReapPrimary(p)
    BY <2>4, <1>0, LifecycleAssumption DEF Quiet, HoldsId, MineBorn, HasStream, Attached, Conns,
      RelayEnds, ChildEndsFirst, SendStop, ReapPrimary, Goto, hostVars, streamVars, YoungPrimary,
      Deliver, Msg, Spawn, SendReplace, Reap
  <2> QED BY <2>1, <2>2, <2>3, <2>4, <2>5 DEF Primary
<1>2. CASE \E i \in Inputs : Input(i)
  <2> PICK i \in Inputs : Input(i)
    BY <1>2
  <2>1. CASE AdmitInput(i) \/ RefuseInput(i) \/ LookForStream(i) \/ TakeLifecycleForPlaceholder(i)
    \/ NoPlaceholder(i) \/ GameIsRunning(i)
    BY <2>1, <1>0, LifecycleAssumption DEF Quiet, HoldsId, MineBorn, HasStream, Attached, Conns,
      AdmitInput, RefuseInput, LookForStream, TakeLifecycleForPlaceholder, NoPlaceholder,
      GameIsRunning, Goto, streamVars, hostVars, Spawn, SendReplace, Deliver, Msg
  <2>2. CASE (\E s \in Streams : SpawnPlaceholder(i, s)) \/ SpawnPlaceholderFails(i) \/
    SendPlaceholderInit(i)
    BY <2>2, <1>0, LifecycleAssumption DEF Quiet, HoldsId, MineBorn, HasStream, Attached, Conns,
      SpawnPlaceholder, SpawnPlaceholderFails, SendPlaceholderInit, Goto, streamVars, hostVars,
      Spawn, SendReplace, Deliver, Msg
  <2>3. CASE FindStream(i) \/ AnnounceWait(i) \/ WatchChanges(i) \/ WaitingSocketEnds(i) \/
    StreamChanges(i) \/ InputSocketEnds(i)
    BY <2>3, <1>0, LifecycleAssumption DEF Quiet, HoldsId, MineBorn, HasStream, Attached, Conns,
      FindStream, AnnounceWait, WatchChanges, WaitingSocketEnds, StreamChanges, InputSocketEnds,
      Goto, streamVars, hostVars, Spawn, SendReplace, Deliver, Msg
  <2>4. CASE Attach(i) \/ SendAttach(i) \/ Detach(i) \/ SendDetach(i)
    BY <2>4, <1>0, LifecycleAssumption DEF Quiet, HoldsId, MineBorn, HasStream, Attached, Conns,
      Attach, SendAttach, Detach, SendDetach, Goto, streamVars, hostVars, Spawn, SendReplace,
      Deliver, Msg
  <2> QED BY <2>1, <2>2, <2>3, <2>4 DEF Input
<1>3. CASE \E t \in Streams : Router(t) \/ Keeper(t) \/ Streamer(t) \/ TenSecondsPass(t)
  <2> PICK t \in Streams : Router(t) \/ Keeper(t) \/ Streamer(t) \/ TenSecondsPass(t)
    BY <1>3
  <2>1. CASE RouterEnds(t) \/ RouterClears(t) \/ RouterCloses(t)
    BY <2>1, <1>0, LifecycleAssumption DEF Quiet, HoldsId, MineBorn, HasStream, Attached, Conns,
      RouterEnds, RouterClears, RouterCloses, hostVars, SendReplace, Deliver, Msg, Reap
  <2>2. CASE KeeperPolls(t) \/ KeeperSendsStop(t) \/ KeeperReaps(t) \/ TenSecondsPass(t)
    BY <2>2, <1>0, LifecycleAssumption DEF Quiet, HoldsId, MineBorn, HasStream, Attached, Conns,
      KeeperPolls, KeeperSendsStop, KeeperReaps, TenSecondsPass, hostVars, SendReplace, Deliver,
      Msg, Reap
  <2>3. CASE StreamerBoots(t) \/ StreamerReads(t) \/ StreamerGivesUp(t)
    BY <2>3, <1>0, LifecycleAssumption DEF Quiet, HoldsId, MineBorn, HasStream, Attached, Conns,
      StreamerBoots, StreamerReads, StreamerGivesUp, hostVars, SendReplace, Deliver, Msg, Reap
  <2>4. CASE StreamerSaysStop(t) \/ StreamerExits(t) \/ StreamerPanics(t)
    BY <2>4, <1>0, LifecycleAssumption DEF Quiet, HoldsId, MineBorn, HasStream, Attached, Conns,
      StreamerSaysStop, StreamerExits, StreamerPanics, hostVars, SendReplace, Deliver, Msg, Reap
  <2> QED BY <2>1, <2>2, <2>3, <2>4 DEF Router, Keeper, Streamer
<1>4. CASE \E c \in Conns : RelayMessage(c) \/ BrowserCloses(c)
  BY <1>4, <1>0, LifecycleAssumption DEF Quiet, HoldsId, MineBorn, HasStream, Attached, Conns,
    RelayMessage, BrowserCloses, Deliver, Msg, hostVars, streamVars
<1>5. CASE UNCHANGED vars
  BY <1>5, <1>0 DEF Quiet, HoldsId, MineBorn, HasStream, Attached, Conns, vars
<1> QED BY <1>1, <1>2, <1>3, <1>4, <1>5 DEF Next

\* Those who may attach are some of the input-only connections.
LEMMA JoinersFinite ==
  ASSUME IsFiniteSet(Inputs), NEW s \in Streams
  PROVE  Joiners(s) \subseteq Inputs /\ IsFiniteSet(Joiners(s)) /\ Cardinality(Joiners(s)) \in Nat
<1>1. Joiners(s) \subseteq Inputs
  BY DEF Joiners
<1>2. IsFiniteSet(Joiners(s))
  BY <1>1, FS_Subset
<1> QED BY <1>1, <1>2, FS_CardinalityType

\* Those who may attach to a stream only become fewer.
LEMMA JoinersShrink ==
  ASSUME TypeOK, MineBorn, LeftIsOver, [Next]_vars, NEW s \in Streams
  PROVE  Joiners(s)' \subseteq Joiners(s)
BY MayJoinStep DEF Joiners

\* Who attaches had not attached before, and will not attach again.
LEMMA AttachedOnce ==
  ASSUME TypeOK, NEW i \in Inputs, NEW s \in Streams, Attach(i), mine[i] = s
  PROVE  i \in Joiners(s) /\ i \notin Joiners(s)'
<1>1. pc[i] = "attach" /\ pc'[i] = "attachMsg" /\ mine'[i] = s
  BY DEF Attach, Goto, TypeOK, Conns
<1> QED BY <1>1 DEF Joiners, MayJoin, Attached

\* An attachment that is not the last one a stream can get does not wrap its ids.
LEMMA AttachCounts ==
  ASSUME IsFiniteSet(Inputs), TypeOK, MineBorn, LeftIsOver, IdsSuffice, [Next]_vars,
         NEW i \in Inputs, NEW s \in Streams, Attach(i), mine[i] = s, Joiners(s)' # {}
  PROVE  /\ nextId'[s] = nextId[s] + 1
         /\ nextId'[s] + Cardinality(Joiners(s)') <= MaxId + 1
<1>1. i \in Joiners(s) /\ i \notin Joiners(s)'
  BY AttachedOnce
<1>2. Joiners(s)' \subseteq Joiners(s) \ {i}
  BY <1>1, JoinersShrink
<1>3. IsFiniteSet(Joiners(s)) /\ Cardinality(Joiners(s)) \in Nat
  BY JoinersFinite
<1>4. IsFiniteSet(Joiners(s) \ {i}) /\ Cardinality(Joiners(s) \ {i}) = Cardinality(Joiners(s)) - 1
  BY <1>1, <1>3, FS_RemoveElement
<1>5. IsFiniteSet(Joiners(s)') /\ Cardinality(Joiners(s)') <= Cardinality(Joiners(s)) - 1
  BY <1>2, <1>4, FS_Subset
<1>6. Cardinality(Joiners(s)') \in Nat /\ Cardinality(Joiners(s)') # 0
  BY <1>5, FS_CardinalityType, FS_EmptySet
<1>7. nextId[s] + Cardinality(Joiners(s)) <= MaxId + 1
  BY <1>1 DEF IdsSuffice
<1>8. nextId[s] \in Nat /\ MaxId \in Nat
  BY LifecycleAssumption DEF TypeOK
<1>9. nextId[s] # MaxId
  BY <1>3, <1>5, <1>6, <1>7, <1>8
<1>10. nextId'[s] = nextId[s] + 1
  BY <1>9 DEF Attach, TypeOK
<1> QED BY <1>3, <1>5, <1>6, <1>7, <1>8, <1>10

\* Detach and SendDetach leave next_client_id, an attachment that of the other streams.
LEMMA NextIdKept ==
  ASSUME TypeOK, MineBorn, [Next]_vars, NEW s \in Streams
  PROVE  nextId'[s] = nextId[s] \/ \E i \in Inputs : Attach(i) /\ mine[i] = s
<1>1. CASE \E i \in Inputs : Attach(i)
  <2> PICK i \in Inputs : Attach(i)
    BY <1>1
  <2>1. CASE mine[i] # s
    BY <2>1 DEF Attach, TypeOK
  <2> QED BY <2>1
<1>2. CASE \E i \in Inputs : Detach(i) \/ SendDetach(i)
  BY <1>2 DEF Detach, SendDetach
<1>3. CASE Quiet
  BY <1>3 DEF Quiet
<1> QED BY <1>1, <1>2, <1>3, QuietStep

\* The ids suffice after a step.
LEMMA IdsSufficeStep ==
  ASSUME IsFiniteSet(Inputs), TypeOK, MineBorn, LeftIsOver, IdsSuffice,
         [Next]_vars
  PROVE  IdsSuffice'
<1> SUFFICES ASSUME NEW s \in Streams, Joiners(s)' # {}
             PROVE  nextId'[s] + Cardinality(Joiners(s)') <= MaxId + 1
  BY DEF IdsSuffice
<1>1. CASE \E i \in Inputs : Attach(i) /\ mine[i] = s
  BY <1>1, AttachCounts
<1>2. CASE nextId'[s] = nextId[s]
  <2>1. Joiners(s)' \subseteq Joiners(s)
    BY JoinersShrink
  <2>2. IsFiniteSet(Joiners(s)) /\ Cardinality(Joiners(s)) \in Nat
    BY JoinersFinite
  <2>3. IsFiniteSet(Joiners(s)') /\ Cardinality(Joiners(s)') <= Cardinality(Joiners(s))
    BY <2>1, <2>2, FS_Subset
  <2>4. Cardinality(Joiners(s)') \in Nat
    BY <2>3, FS_CardinalityType
  <2>5. nextId[s] + Cardinality(Joiners(s)) <= MaxId + 1
    BY <2>1 DEF IdsSuffice
  <2>6. nextId[s] \in Nat /\ MaxId \in Nat
    BY LifecycleAssumption DEF TypeOK
  <2> QED BY <1>2, <2>2, <2>3, <2>4, <2>5, <2>6
<1> QED BY <1>1, <1>2, NextIdKept

\* The ids that come next are free after a step.
LEMMA IdsAreFreshStep ==
  ASSUME IsFiniteSet(Inputs), TypeOK, TypeOK', MineBorn, LeftIsOver,
         IdsSuffice, IdsAreFresh, [Next]_vars
  PROVE  IdsAreFresh'
<1> SUFFICES ASSUME NEW s \in Streams, NEW k \in Ids, Joiners(s)' # {}, k >= nextId'[s]
             PROVE  clients'[s][k] = None
  BY DEF IdsAreFresh
<1>1. /\ nextId[s] \in 1..MaxId /\ nextId'[s] \in 1..MaxId /\ MaxId \in Nat
      /\ clients \in [Streams -> [Ids -> Conns \cup {None}]] /\ k \in Nat /\ k # 0
  <2>1. nextId[s] \in 1..MaxId /\ nextId'[s] \in 1..MaxId
    BY DEF TypeOK
  <2>2. clients \in [Streams -> [Ids -> Conns \cup {None}]]
    BY DEF TypeOK
  <2>3. MaxId \in Nat /\ k \in Nat
    BY LifecycleAssumption DEF Ids
  <2> QED BY <2>1, <2>2, <2>3
<1>2. Joiners(s) # {}
  BY JoinersShrink
<1>3. CASE \E i \in Inputs : Attach(i) /\ mine[i] = s
  <2> PICK i \in Inputs : Attach(i) /\ mine[i] = s
    BY <1>3
  <2>1. nextId'[s] = nextId[s] + 1
    BY AttachCounts
  <2>2. k # nextId[s] /\ k >= nextId[s]
    BY <1>1, <2>1
  <2>3. clients'[s][k] = clients[s][k]
    BY <1>1, <2>2 DEF Attach
  <2> QED BY <1>2, <2>2, <2>3 DEF IdsAreFresh
<1>4. CASE nextId'[s] = nextId[s]
  <2>1. clients[s][k] = None
    BY <1>2, <1>4 DEF IdsAreFresh
  <2>2. CASE \E i \in Inputs : Attach(i) /\ mine[i] # s
    BY <1>1, <2>1, <2>2 DEF Attach
  <2>3. CASE \E i \in Inputs : Detach(i)
    BY <1>1, <2>1, <2>3 DEF Detach
  <2>4. CASE \E i \in Inputs : SendDetach(i)
    BY <2>1, <2>4 DEF SendDetach
  <2>5. CASE Quiet
    BY <1>1, <2>1, <2>5 DEF Quiet
  <2> QED BY <1>3, <2>2, <2>3, <2>4, <2>5, QuietStep
<1> QED BY <1>3, <1>4, NextIdKept

\* An attachment takes a free id, so both sides agree afterwards.
LEMMA HeldAfterAttach ==
  ASSUME TypeOK, MineBorn, IdsAreFresh, IdsAreHeld, NEW j \in Inputs, Attach(j)
  PROVE  IdsAreHeld'
<1> DEFINE t == mine[j]  n == nextId[t]
<1>1. /\ t \in Streams /\ n \in Ids /\ pc[j] = "attach" /\ j \in Conns
      /\ clients \in [Streams -> [Ids -> Conns \cup {None}]] /\ clientId \in [Inputs -> Ids]
      /\ pc \in [Conns -> Location] /\ \A i \in Inputs : i \in Conns /\ i # None
  BY LifecycleAssumption DEF Attach, Goto, MineBorn, HasStream, TypeOK, Ids, Conns
<1>2. /\ clients' = [clients EXCEPT ![t][n] = j] /\ clientId' = [clientId EXCEPT ![j] = n]
      /\ mine' = mine /\ pc' = [pc EXCEPT ![j] = "attachMsg"]
  BY DEF Attach, Goto
<1>3. clients[t][n] = None
  <2>1. j \in Joiners(t)
    BY <1>1 DEF Joiners, MayJoin
  <2>2. n >= n
    BY <1>1, LifecycleAssumption DEF Ids
  <2> QED BY <1>1, <2>1, <2>2 DEF IdsAreFresh
<1>4. ~HoldsId(j) /\ HoldsId(j)'
  BY <1>1, <1>2 DEF HoldsId
<1>5. \A i \in Inputs \ {j} : (HoldsId(i)' <=> HoldsId(i)) /\ clientId'[i] = clientId[i]
  BY <1>1, <1>2 DEF HoldsId
<1>6. ASSUME NEW s \in Streams, NEW k \in Ids, NEW i \in Inputs, clients'[s][k] = i
      PROVE  HoldsId(i)' /\ mine'[i] = s /\ clientId'[i] = k
  <2>1. CASE s = t /\ k = n
    <3>1. i = j
      BY <1>1, <1>2, <1>6, <2>1
    <3> QED BY <1>1, <1>2, <1>4, <2>1, <3>1
  <2>2. CASE ~(s = t /\ k = n)
    <3>1. clients[s][k] = i
      BY <1>1, <1>2, <1>6, <2>2
    <3>2. HoldsId(i) /\ mine[i] = s /\ clientId[i] = k
      BY <3>1 DEF IdsAreHeld
    <3> QED BY <1>2, <1>4, <1>5, <3>2
  <2> QED BY <2>1, <2>2
<1>7. ASSUME NEW i \in Inputs, HoldsId(i)'
      PROVE  clients'[mine'[i]][clientId'[i]] = i
  <2>1. CASE i = j
    BY <1>1, <1>2, <2>1
  <2>2. CASE i # j
    <3>1. HoldsId(i) /\ clientId'[i] = clientId[i]
      BY <1>5, <1>7, <2>2
    <3>2. clients[mine[i]][clientId[i]] = i
      BY <3>1 DEF IdsAreHeld
    <3>3. mine[i] \in Streams /\ clientId[i] \in Ids
      BY <1>1, <3>1 DEF HoldsId, MineBorn, HasStream, Attached
    <3>4. ~(mine[i] = t /\ clientId[i] = n)
      BY <1>1, <1>3, <3>2
    <3> QED BY <1>1, <1>2, <3>1, <3>2, <3>3, <3>4
  <2> QED BY <2>1, <2>2
<1> QED BY <1>6, <1>7 DEF IdsAreHeld

\* A detachment clears the entry of its own handler, which it then forgets.
LEMMA HeldAfterDetach ==
  ASSUME TypeOK, MineBorn, IdsAreHeld, NEW j \in Inputs, Detach(j)
  PROVE  IdsAreHeld'
<1> DEFINE t == mine[j]  n == clientId[j]
<1>1. /\ t \in Streams /\ n \in Ids /\ pc[j] \in {"detach", "close"} /\ j \in Conns
      /\ clients \in [Streams -> [Ids -> Conns \cup {None}]] /\ clientId \in [Inputs -> Ids]
      /\ pc \in [Conns -> Location] /\ \A i \in Inputs : i \in Conns /\ i # None
  BY LifecycleAssumption DEF Detach, Goto, MineBorn, HasStream, Attached, TypeOK, Conns
<1>2. /\ clients' = [clients EXCEPT ![t][n] = None] /\ clientId' = clientId /\ mine' = mine
      /\ pc' = [pc EXCEPT ![j] = "detachMsg"] \/ pc' = [pc EXCEPT ![j] = "closeMsg"]
  BY DEF Detach, Goto
<1>3. HoldsId(j) /\ ~HoldsId(j)' /\ clients[t][n] = j
  BY <1>1, <1>2 DEF HoldsId, IdsAreHeld
<1>4. \A i \in Inputs \ {j} : HoldsId(i)' <=> HoldsId(i)
  BY <1>1, <1>2 DEF HoldsId
<1>5. ASSUME NEW s \in Streams, NEW k \in Ids, NEW i \in Inputs, clients'[s][k] = i
      PROVE  HoldsId(i)' /\ mine'[i] = s /\ clientId'[i] = k
  <2>1. ~(s = t /\ k = n) /\ clients[s][k] = i
    BY <1>1, <1>2, <1>5
  <2>2. HoldsId(i) /\ mine[i] = s /\ clientId[i] = k
    BY <2>1 DEF IdsAreHeld
  <2>3. i # j
    BY <2>1, <2>2
  <2> QED BY <1>2, <1>4, <2>2, <2>3
<1>6. ASSUME NEW i \in Inputs, HoldsId(i)'
      PROVE  clients'[mine'[i]][clientId'[i]] = i
  <2>1. i # j /\ HoldsId(i)
    BY <1>3, <1>4, <1>6
  <2>2. clients[mine[i]][clientId[i]] = i
    BY <2>1 DEF IdsAreHeld
  <2>3. mine[i] \in Streams /\ clientId[i] \in Ids
    BY <1>1, <2>1 DEF HoldsId, MineBorn, HasStream, Attached
  <2>4. ~(mine[i] = t /\ clientId[i] = n)
    BY <1>3, <2>1, <2>2
  <2> QED BY <1>1, <1>2, <2>2, <2>3, <2>4
<1> QED BY <1>5, <1>6 DEF IdsAreHeld

\* A handler forgets an id that it has already given back.
LEMMA HeldAfterSendDetach ==
  ASSUME TypeOK, MineBorn, IdsAreHeld, NEW j \in Inputs, SendDetach(j)
  PROVE  IdsAreHeld'
<1>1. /\ clients' = clients /\ ~HoldsId(j) /\ ~HoldsId(j)'
      /\ \A i \in Inputs \ {j} :
            (HoldsId(i)' <=> HoldsId(i)) /\ mine'[i] = mine[i] /\ clientId'[i] = clientId[i]
  BY DEF SendDetach, Goto, HoldsId, TypeOK, Conns
<1> QED BY <1>1 DEF IdsAreHeld

\* The other steps change neither side.
LEMMA HeldAfterQuiet ==
  ASSUME TypeOK, MineBorn, ClientZero, ClientZero', IdsAreHeld, Quiet
  PROVE  IdsAreHeld'
<1>1. ASSUME NEW s \in Streams, NEW k \in Ids, NEW i \in Inputs, clients'[s][k] = i
      PROVE  HoldsId(i)' /\ mine'[i] = s /\ clientId'[i] = k
  <2>1. k # 0
    BY <1>1 DEF ClientZero
  <2>2. clients[s][k] = i
    BY <1>1, <2>1 DEF Quiet
  <2>3. HoldsId(i) /\ mine[i] = s /\ clientId[i] = k
    BY <2>2 DEF IdsAreHeld
  <2> QED BY <2>3 DEF Quiet
<1>2. ASSUME NEW i \in Inputs, HoldsId(i)'
      PROVE  clients'[mine'[i]][clientId'[i]] = i
  <2>1. HoldsId(i) /\ mine'[i] = mine[i] /\ clientId'[i] = clientId[i]
    BY <1>2 DEF Quiet
  <2>2. clients[mine[i]][clientId[i]] = i
    BY <2>1 DEF IdsAreHeld
  <2>3. mine[i] \in Streams /\ clientId[i] \in Ids
    BY <2>1 DEF HoldsId, MineBorn, HasStream, Attached, TypeOK, Conns
  <2>4. clientId[i] # 0
    BY <2>2, <2>3 DEF ClientZero
  <2> QED BY <2>1, <2>2, <2>3, <2>4 DEF Quiet
<1> QED BY <1>1, <1>2 DEF IdsAreHeld

\* What the routing of replies rests on, as long as a stream has an id for everyone.
RoutingInv == IInv /\ LeftIsOver /\ IdsSuffice /\ IdsAreFresh /\ IdsAreHeld

\* The routing invariant holds before the first connection, if the ids are enough.
LEMMA InitRouting ==
  ASSUME IsFiniteSet(Inputs), Cardinality(Inputs) <= MaxId, Init
  PROVE  RoutingInv
<1>1. IInv
  BY InitIInv
<1>2. LeftIsOver
  BY DEF Init, LeftIsOver, Conns
<1>3. IdsSuffice
  <2> SUFFICES ASSUME NEW s \in Streams
               PROVE  nextId[s] + Cardinality(Joiners(s)) <= MaxId + 1
    BY DEF IdsSuffice
  <2>1. Cardinality(Joiners(s)) <= Cardinality(Inputs)
    BY JoinersFinite, FS_Subset
  <2>2. Cardinality(Joiners(s)) \in Nat /\ Cardinality(Inputs) \in Nat /\ MaxId \in Nat
    BY JoinersFinite, FS_CardinalityType, LifecycleAssumption
  <2>3. nextId[s] = 1
    BY DEF Init
  <2> QED BY <2>1, <2>2, <2>3
<1>4. IdsAreFresh
  BY DEF Init, IdsAreFresh
<1>5. IdsAreHeld
  BY LifecycleAssumption DEF Init, IdsAreHeld, HoldsId, Conns
<1> QED BY <1>1, <1>2, <1>3, <1>4, <1>5 DEF RoutingInv

\* Every step keeps the routing invariant.
LEMMA NextRouting ==
  ASSUME IsFiniteSet(Inputs), RoutingInv, [Next]_vars
  PROVE  RoutingInv'
<1>1. IInv /\ IInv'
  BY NextIInv DEF RoutingInv
<1>2. TypeOK /\ TypeOK' /\ MineBorn /\ ClientZero /\ ClientZero'
  BY <1>1 DEF IInv
<1>3. LeftIsOver /\ LeftIsOver'
  BY <1>2, LeftIsOverStep DEF RoutingInv
<1>4. IdsSuffice'
  BY <1>2, <1>3, IdsSufficeStep DEF RoutingInv
<1>5. IdsAreFresh'
  BY <1>2, <1>3, IdsAreFreshStep DEF RoutingInv
<1>6. IdsAreHeld'
  BY <1>1, <1>2, QuietStep, HeldAfterAttach, HeldAfterDetach, HeldAfterSendDetach,
     HeldAfterQuiet DEF RoutingInv
<1> QED BY <1>1, <1>3, <1>4, <1>5, <1>6 DEF RoutingInv

\* ActiveStream.clients: a reply reaches the connection it is meant for, if no more
\* input-only connections ever come than there are client ids (a u32 without 0).
THEOREM RepliesArrive ==
  ASSUME IsFiniteSet(Inputs), Cardinality(Inputs) <= MaxId
  PROVE  Spec => []RepliesReachTheirClient
<1>1. Init => RoutingInv
  BY InitRouting
<1>2. RoutingInv /\ [Next]_vars => RoutingInv'
  BY NextRouting
<1>3. RoutingInv => RepliesReachTheirClient
  <2> SUFFICES ASSUME RoutingInv, NEW s \in Streams, NEW i \in Inputs
               PROVE  LET held == {k \in Ids : clients[s][k] = i} IN
                      /\ held # {} => pc[i] \in Attached /\ mine[i] = s /\ held = {clientId[i]}
                      /\ pc[i] \in {"attachMsg", "relay", "detach", "close"} /\ mine[i] = s
                            => held = {clientId[i]}
    BY DEF RepliesReachTheirClient
  <2> DEFINE held == {k \in Ids : clients[s][k] = i}
  <2>1. clientId[i] \in Ids
    BY DEF RoutingInv, IInv, TypeOK
  <2>2. \A k \in held : HoldsId(i) /\ mine[i] = s /\ clientId[i] = k
    BY DEF RoutingInv, IdsAreHeld
  <2>3. HoldsId(i) /\ mine[i] = s => clientId[i] \in held
    BY <2>1 DEF RoutingInv, IdsAreHeld
  <2>4. HoldsId(i) => pc[i] \in Attached
    BY DEF HoldsId, Attached
  <2>5. held # {} => HoldsId(i) /\ mine[i] = s /\ held = {clientId[i]}
    BY <2>2
  <2>6. HoldsId(i) /\ mine[i] = s => held = {clientId[i]}
    BY <2>2, <2>3
  <2> QED BY <2>4, <2>5, <2>6 DEF HoldsId
<1> QED BY <1>1, <1>2, <1>3, PTL DEF Spec
=============================================================================
