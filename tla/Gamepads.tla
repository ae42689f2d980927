------------------------------ MODULE Gamepads ------------------------------
(***************************************************************************)
(* Gamepad slots of the streamer (moonlight-web/streamer/src/input.rs).    *)
(*                                                                         *)
(* Every browser numbers its gamepads from 0; the streamer maps (client,   *)
(* local id) to one of Sunshine's 16 controller slots and keeps the mask   *)
(* of the slots in use.  The map and the mask change under the             *)
(* gamepad_slots lock, but Sunshine is told about it after the lock is     *)
(* released, by handlers that run concurrently: one per data channel and   *)
(* one or two detach tasks per departing client.                           *)
(*                                                                         *)
(* Waiting for the active_gamepads lock inside gamepad_slots is one step   *)
(* here: whoever waits keeps everybody else out of the map.                *)
(***************************************************************************)
EXTENDS Naturals, FiniteSets

CONSTANTS Primary,     \* client 0, whose data channels live as long as the streamer
          Guests,      \* client ids of the input-only peers
          LocalIds,    \* gamepad numbers a browser uses
          NumSlots,    \* 16
          Absent

ASSUME GamepadAssumption ==
    /\ Primary \notin Guests
    /\ NumSlots \in Nat
    /\ Absent \notin Nat

Clients == {Primary} \cup Guests
Slots == 0 .. NumSlots - 1
Pads == Clients \X LocalIds
Detachers == Guests \X {"ipc", "peer"}  \* DetachInputClient, and the peer's state callback

VARIABLES
    slots,     \* [pad]: gamepad_slots, Absent where it has no entry
    active,    \* active_gamepads
    session,   \* start_stream and the MoonlightStream: "none", "launch", "launched", "set", "gone"
    connected, \* the controllers Sunshine believes to be connected (external)
    peer,      \* [phone]: its peer is in secondary_peers ("in"), is taken out ("leaving"), is
               \* closed ("out")
    control,   \* [client]: the handler of its "controllers" data channel
    feed,      \* [pad]: the handler of its "controller<n>" data channel
    detach     \* [detacher]: detach_input_peer

padsVars == <<slots, active, session, connected, peer, control, feed, detach>>

Held == {k \in Pads : slots[k] # Absent}

\* The handlers between two awaits: the gamepad or the slot they are about, and the
\* mask they have read.
ControlState == [at : {"idle", "add", "drop", "arrived", "left"}, pad : LocalIds \cup {Absent},
                 slot : Slots \cup {Absent}, mask : SUBSET Slots]
FeedState == [at : {"idle", "mask", "send"}, slot : Slots \cup {Absent}, mask : SUBSET Slots]
DetachState == [at : {"no", "close", "collect", "next", "left", "done"}, todo : SUBSET LocalIds,
                slot : Slots \cup {Absent}, mask : SUBSET Slots]

Handling(at, pad, slot, mask) == [at |-> at, pad |-> pad, slot |-> slot, mask |-> mask]
Feeding(at, slot, mask) == [at |-> at, slot |-> slot, mask |-> mask]
Detaching(at, todo, slot, mask) == [at |-> at, todo |-> todo, slot |-> slot, mask |-> mask]

IdleControl == Handling("idle", Absent, Absent, {})
IdleFeed == Feeding("idle", Absent, {})

PadsTypeOK ==
    /\ slots \in [Pads -> Slots \cup {Absent}]
    /\ active \in SUBSET Slots
    /\ session \in {"none", "launch", "launched", "set", "gone"}
    /\ connected \in SUBSET Slots
    /\ peer \in [Guests -> {"in", "leaving", "out"}]
    /\ control \in [Clients -> ControlState]
    /\ feed \in [Pads -> FeedState]
    /\ detach \in [Detachers -> DetachState]

PadsInit ==
    /\ slots = [k \in Pads |-> Absent]
    /\ active = {}
    /\ session = "none"
    /\ connected = {}
    /\ peer = [c \in Guests |-> "in"]
    /\ control = [c \in Clients |-> IdleControl]
    /\ feed = [k \in Pads |-> IdleFeed]
    /\ detach = [d \in Detachers |-> Detaching("no", {}, Absent, {})]
-----------------------------------------------------------------------------
\* The data channels of a client deliver until its peer is closed.
Delivers(c) == c = Primary \/ (c \in Guests /\ peer[c] # "out")

\* The slots allocate_gamepad_slot tries.
FreeSlots == Slots \ active

\* Mutant: the slot is chosen from the client's own table only.
OwnFreeSlots(c) == {s \in Slots : \A l \in LocalIds : slots[<<c, l>>] # s}

\* Sunshine (external): the mask of an event says whether the controller it is about is there.
Told(slot, mask) == IF slot \in mask THEN connected \cup {slot} ELSE connected \ {slot}

\* A controller-arrival or -removal message is taken from the "controllers" channel.
ReadControl(c, l) ==
    /\ Delivers(c)
    /\ control[c].at = "idle"
    /\ \E at \in {"add", "drop"} :
          control' = [control EXCEPT ![c] = Handling(at, l, Absent, {})]
    /\ UNCHANGED <<slots, active, session, connected, peer, feed, detach>>

\* allocate_gamepad_slot finds the entry the gamepad already has.
AllocateAgain(c) ==
    LET k == <<c, control[c].pad>> IN
    /\ control[c].at = "add"
    /\ slots[k] # Absent
    /\ control' = [control EXCEPT ![c] = Handling("arrived", Absent, slots[k], active)]
    /\ UNCHANGED <<slots, active, session, connected, peer, feed, detach>>

\* Mutant: the first slot that none of the client's own gamepads holds.
AllocateFromOwn(c) ==
    LET k == <<c, control[c].pad>> IN
    /\ control[c].at = "add"
    /\ slots[k] = Absent
    /\ session # "launch"
    /\ \E s \in OwnFreeSlots(c) :
          /\ \A t \in OwnFreeSlots(c) : s <= t
          /\ slots' = [slots EXCEPT ![k] = s]
          /\ active' = active \cup {s}
          /\ control' = [control EXCEPT ![c] =
                           Handling("arrived", Absent, s, active \cup {s})]
    /\ UNCHANGED <<session, connected, peer, feed, detach>>

\* allocate_gamepad_slot: the lowest slot outside the mask; active_gamepads can be
\* written only while start_stream does not hold its read lock.
Allocate(c) ==
    LET k == <<c, control[c].pad>> IN
    /\ control[c].at = "add"
    /\ slots[k] = Absent
    /\ session # "launch"
    /\ \E s \in FreeSlots :
          /\ \A t \in FreeSlots : s <= t
          /\ slots' = [slots EXCEPT ![k] = s]
          /\ active' = active \cup {s}
          /\ control' = [control EXCEPT ![c] =
                           Handling("arrived", Absent, s, active \cup {s})]
    /\ UNCHANGED <<session, connected, peer, feed, detach>>

\* All the slots are taken: the gamepad is ignored.
Refuse(c) ==
    /\ control[c].at = "add"
    /\ slots[<<c, control[c].pad>>] = Absent
    /\ session # "launch"
    /\ FreeSlots = {}
    /\ control' = [control EXCEPT ![c] = IdleControl]
    /\ UNCHANGED <<slots, active, session, connected, peer, feed, detach>>

\* The arrival, with the mask of the moment of the allocation, if there is a stream.
AnnounceArrival(c) ==
    /\ control[c].at = "arrived"
    /\ connected' = IF session = "set" THEN connected \cup {control[c].slot} ELSE connected
    /\ control' = [control EXCEPT ![c] = IdleControl]
    /\ UNCHANGED <<slots, active, session, peer, feed, detach>>

\* release_gamepad_slot, once the entry was found.
Free(k) ==
    /\ slots' = [slots EXCEPT ![k] = Absent]
    /\ active' = active \ {slots[k]}

\* A removal message: release_gamepad_slot under gamepad_slots.
Release(c) ==
    LET k == <<c, control[c].pad>> IN
    /\ control[c].at = "drop"
    /\ session # "launch"
    /\ slots[k] # Absent
    /\ Free(k)
    /\ control' = [control EXCEPT ![c] = Handling("left", Absent, slots[k], active')]
    /\ UNCHANGED <<session, connected, peer, feed, detach>>

ReleaseNothing(c) ==
    /\ control[c].at = "drop"
    /\ slots[<<c, control[c].pad>>] = Absent
    /\ control' = [control EXCEPT ![c] = IdleControl]
    /\ UNCHANGED <<slots, active, session, connected, peer, feed, detach>>

\* The removal event, after the lock was released.
AnnounceRemoval(c) ==
    /\ control[c].at = "left"
    /\ connected' = IF session = "set" THEN Told(control[c].slot, control[c].mask) ELSE connected
    /\ control' = [control EXCEPT ![c] = IdleControl]
    /\ UNCHANGED <<slots, active, session, peer, feed, detach>>

Control(c) ==
    \/ \E l \in LocalIds : ReadControl(c, l)
    \/ AllocateAgain(c) \/ Allocate(c) \/ Refuse(c) \/ AnnounceArrival(c)
    \/ Release(c) \/ ReleaseNothing(c) \/ AnnounceRemoval(c)
-----------------------------------------------------------------------------
(* on_controller_input_message; it holds stream.read() until it returns.   *)

\* lookup_gamepad_slot; the message is ignored for a gamepad without a slot.
LookUp(k) ==
    /\ Delivers(k[1])
    /\ feed[k].at = "idle"
    /\ session = "set"
    /\ slots[k] # Absent
    /\ feed' = [feed EXCEPT ![k] = Feeding("mask", slots[k], {})]
    /\ UNCHANGED <<slots, active, session, connected, peer, control, detach>>

\* active_gamepads.read(); a slot that left the mask in between is ignored.
ReadMask(k) ==
    /\ feed[k].at = "mask"
    /\ feed' = [feed EXCEPT ![k] =
                  IF feed[k].slot \in active
                  THEN Feeding("send", feed[k].slot, active)
                  ELSE IdleFeed]
    /\ UNCHANGED <<slots, active, session, connected, peer, control, detach>>

SendInput(k) ==
    /\ feed[k].at = "send"
    /\ connected' = Told(feed[k].slot, feed[k].mask)
    /\ feed' = [feed EXCEPT ![k] = IdleFeed]
    /\ UNCHANGED <<slots, active, session, peer, control, detach>>

Feed(k) == LookUp(k) \/ ReadMask(k) \/ SendInput(k)
-----------------------------------------------------------------------------
(* detach_input_peer: DetachInputClient and the peer's Closed or Failed    *)
(* callback each run one; only the first finds the peer and closes it.     *)

StartDetach(d) ==
    /\ detach[d].at = "no"
    /\ peer' = [peer EXCEPT ![d[1]] = IF @ = "in" THEN "leaving" ELSE @]
    /\ detach' = [detach EXCEPT ![d] =
                    Detaching(IF peer[d[1]] = "in" THEN "close" ELSE "collect", {}, Absent, {})]
    /\ UNCHANGED <<slots, active, session, connected, control, feed>>

\* The peer is closed after the lock of the map is released: its channels deliver until then.
ClosePeer(d) ==
    /\ detach[d].at = "close"
    /\ peer' = [peer EXCEPT ![d[1]] = "out"]
    /\ detach' = [detach EXCEPT ![d] = Detaching("collect", {}, Absent, {})]
    /\ UNCHANGED <<slots, active, session, connected, control, feed>>

\* release_client_gamepads reads the local ids of the client's entries.
Collect(d) ==
    /\ detach[d].at = "collect"
    /\ detach' = [detach EXCEPT ![d] =
                    Detaching("next", {l \in LocalIds : slots[<<d[1], l>>] # Absent}, Absent, {})]
    /\ UNCHANGED <<slots, active, session, connected, peer, control, feed>>

\* One of them is released, unless its removal message got there first.
ReleaseNext(d) ==
    /\ detach[d].at = "next"
    /\ session # "launch"
    /\ \E l \in detach[d].todo :
          /\ slots[<<d[1], l>>] # Absent
          /\ Free(<<d[1], l>>)
          /\ detach' = [detach EXCEPT ![d] =
                          Detaching("left", @.todo \ {l}, slots[<<d[1], l>>], active')]
    /\ UNCHANGED <<session, connected, peer, control, feed>>

SkipReleased(d) ==
    /\ detach[d].at = "next"
    /\ \E l \in detach[d].todo :
          /\ slots[<<d[1], l>>] = Absent
          /\ detach' = [detach EXCEPT ![d] = Detaching("next", @.todo \ {l}, Absent, {})]
    /\ UNCHANGED <<slots, active, session, connected, peer, control, feed>>

AnnounceNext(d) ==
    /\ detach[d].at = "left"
    /\ connected' = IF session = "set" THEN Told(detach[d].slot, detach[d].mask) ELSE connected
    /\ detach' = [detach EXCEPT ![d] = Detaching("next", @.todo, Absent, {})]
    /\ UNCHANGED <<slots, active, session, peer, control, feed>>

EndDetach(d) ==
    /\ detach[d].at = "next"
    /\ detach[d].todo = {}
    /\ detach' = [detach EXCEPT ![d] = Detaching("done", {}, Absent, {})]
    /\ UNCHANGED <<slots, active, session, connected, peer, control, feed>>

Detach(d) ==
    \/ StartDetach(d) \/ ClosePeer(d) \/ Collect(d) \/ ReleaseNext(d) \/ SkipReleased(d)
    \/ AnnounceNext(d) \/ EndDetach(d)
-----------------------------------------------------------------------------
(* The stream the events go to.                                            *)

\* start_stream holds active_gamepads.read() while the host launches with the mask.
LaunchStream ==
    /\ session = "none"
    /\ session' = "launch"
    /\ connected' = active
    /\ UNCHANGED <<slots, active, peer, control, feed, detach>>

\* drop(gamepads), and then stream.write().
StoreStream ==
    /\ \/ session = "launch" /\ session' = "launched"
       \/ session = "launched" /\ session' = "set"
    /\ UNCHANGED <<slots, active, connected, peer, control, feed, detach>>

\* The launch fails, or stop() takes the stream, which waits for its readers.
StreamEnds ==
    /\ session # "gone"
    /\ \A k \in Pads : feed[k].at = "idle"
    /\ session' = "gone"
    /\ connected' = {}
    /\ UNCHANGED <<slots, active, peer, control, feed, detach>>

PadsNext ==
    \/ \E c \in Clients : Control(c)
    \/ \E k \in Pads : Feed(k)
    \/ \E d \in Detachers : Detach(d)
    \/ LaunchStream \/ StoreStream \/ StreamEnds

PadsSpec == PadsInit /\ [][PadsNext]_padsVars
-----------------------------------------------------------------------------
\* Two gamepads never share a controller ("two different phones' 'gamepad 0' would
\* collide into the same Sunshine controller").
SlotsAreDistinct == \A j, k \in Held : slots[j] = slots[k] => j = k

\* The mask is exactly the slots the map hands out: none is lost when clients leave
\* in the middle of other handlers, and none is in use unnoticed.
MaskIsTheMap == active = {slots[k] : k \in Held}

\* Nobody but a gamepad's own client takes its slot away, however many detach tasks
\* work from lists they read earlier.
OnlyOwnerReleases ==
    [][\A c \in Clients, l \in LocalIds :
          slots[<<c, l>>] # Absent /\ slots'[<<c, l>>] = Absent
             => \/ control[c].at = "drop" /\ control[c].pad = l
                \/ \E d \in Detachers : d[1] = c /\ detach[d].at = "next"]_padsVars

Quiet ==
    /\ \A c \in Clients : control[c].at = "idle"
    /\ \A k \in Pads : feed[k].at = "idle"
    /\ \A d \in Detachers : detach[d].at \in {"no", "done"}

\* Sunshine is told that a controller left only when no gamepad holds its slot.
RemovalMeansFree ==
    [][\A s \in connected \ connected' : session' = "set" => \A k \in Held : slots[k] # s]_padsVars

\* Once everything is said, Sunshine has no controller that no gamepad holds.
NoGhostController == Quiet /\ session = "set" => connected \subseteq active

\* A client that has detached holds no slot.
DetachedHoldsNone ==
    \A c \in Guests :
        (peer[c] = "out" /\ Quiet) => \A l \in LocalIds : slots[<<c, l>>] = Absent
=============================================================================
