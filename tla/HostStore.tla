------------------------------ MODULE HostStore ------------------------------
(***************************************************************************)
(* The host list of the web server and its file (web-server/src/data.rs,   *)
(* api/mod.rs).  Request handlers change hosts in memory under two locks,  *)
(* the RwLock of the list and the Mutex of the host, and then ask the      *)
(* file_writer task for a save through a channel of capacity one; requests *)
(* that find the channel full are coalesced.                               *)
(*                                                                         *)
(* tokio's RwLock is fair: tasks get it in the order in which they asked,  *)
(* so a waiting writer keeps later readers out.  The content of a host is  *)
(* the request that wrote it last.                                         *)
(***************************************************************************)
EXTENDS Naturals, Sequences, FiniteSets

CONSTANTS Requests, \* HTTP requests, each served once
          LastSlot, \* bound of the model: the slab has slots 0 .. LastSlot, for LastSlot puts
          Loaded,   \* the content of a host that was loaded at start
          Saver,    \* the file_writer task
          None

ASSUME StoreAssumption ==
    /\ LastSlot \in Nat
    /\ Loaded \notin Requests
    /\ None \notin Requests \cup {Loaded}
    /\ Saver \notin Requests

VARIABLES
    hosts,   \* [slot]: RuntimeApiData::hosts, None where it is vacant
    readers, \* who reads the list
    writer,  \* who writes it
    waiting, \* who waits for it, in order
    mutex,   \* [slot]: who has locked the host
    kind,    \* [request]: what it is
    slot,    \* [request]: its host
    pc,      \* [request]: where it is
    token,   \* the channel of request_save is full
    saver,   \* where file_writer is: "recv", "read", "copy", "write"
    next,    \* the slot it copies next
    copy,    \* [slot]: the ApiData it has copied
    disk,    \* [slot]: the file
    failed   \* the last write of the file failed

vars == <<hosts, readers, writer, waiting, mutex, kind, slot, pc, token, saver, next, copy, disk, failed>>
listLock == <<readers, writer, waiting>>
saverVars == <<saver, next, copy, disk, failed>>

Slots == 0 .. LastSlot
Tasks == Requests \cup {Saver}
\* "look" stands for list_hosts, wake_host, get_apps, get_app_image, cancel_host and a
\* get_host whose try_recache learns nothing, "change" for a get_host that learns
\* something, "pair" for pair_host.
Kinds == {"look", "change", "pair", "put", "delete"}
Content == Requests \cup {Loaded, None}

TypeOK ==
    /\ hosts \in [Slots -> Content]
    /\ readers \in SUBSET Tasks
    /\ writer \in Tasks \cup {None}
    /\ waiting \in Seq(Tasks)
    /\ mutex \in [Slots -> Requests \cup {None}]
    /\ kind \in [Requests -> Kinds]
    /\ slot \in [Requests -> Slots]
    /\ pc \in [Requests -> {"new", "wantRead", "wantWrite", "write", "read", "work", "request", "leave", "done"}]
    /\ token \in BOOLEAN
    /\ saver \in {"recv", "read", "copy", "write"}
    /\ next \in 0 .. LastSlot + 1
    /\ copy \in [Slots -> Content] /\ disk \in [Slots -> Content]
    /\ failed \in BOOLEAN
    /\ writer # None => readers = {}
    /\ \A s \in Slots : mutex[s] # None => mutex[s] \in readers /\ hosts[s] # None

Init ==
    /\ hosts = [s \in Slots |-> IF s = 0 THEN Loaded ELSE None]
    /\ readers = {} /\ writer = None /\ waiting = <<>>
    /\ mutex = [s \in Slots |-> None]
    /\ kind \in [Requests -> Kinds]
    /\ Cardinality({r \in Requests : kind[r] = "put"}) <= LastSlot
    /\ slot = [r \in Requests |-> 0]
    /\ pc = [r \in Requests |-> "new"]
    /\ token = FALSE
    /\ saver = "recv" /\ next = 0 /\ copy = [s \in Slots |-> None]
    /\ disk = hosts /\ failed = FALSE
-----------------------------------------------------------------------------
(* The RwLock of the list.                                                 *)

Ask(t) == waiting' = Append(waiting, t)
IsNext(t) == waiting # <<>> /\ Head(waiting) = t

TakeRead(t) ==
    /\ IsNext(t)
    /\ writer = None
    /\ readers' = readers \cup {t}
    /\ waiting' = Tail(waiting)
    /\ UNCHANGED writer

TakeWrite(t) ==
    /\ IsNext(t)
    /\ writer = None /\ readers = {}
    /\ writer' = t
    /\ waiting' = Tail(waiting)
    /\ UNCHANGED readers
-----------------------------------------------------------------------------
(* The requests.                                                           *)

\* put_host and delete_host ask for the list as writers, every other handler as a reader.
Arrive(r) ==
    /\ pc[r] = "new"
    /\ \E s \in Slots : slot' = [slot EXCEPT ![r] = s]
    /\ pc' = [pc EXCEPT ![r] = IF kind[r] \in {"put", "delete"} THEN "wantWrite" ELSE "wantRead"]
    /\ Ask(r)
    /\ UNCHANGED <<hosts, readers, writer, mutex, kind, token, saverVars>>

OpenList(r) ==
    /\ \/ pc[r] = "wantRead" /\ TakeRead(r) /\ pc' = [pc EXCEPT ![r] = "read"]
       \/ pc[r] = "wantWrite" /\ TakeWrite(r) /\ pc' = [pc EXCEPT ![r] = "write"]
    /\ UNCHANGED <<hosts, mutex, kind, slot, token, saverVars>>

\* Mutant: the guard of the write lock lives until the response.
InsertHolding(r) ==
    /\ pc[r] = "write" /\ kind[r] = "put"
    /\ \E s \in Slots :
          /\ hosts[s] = None
          /\ hosts' = [hosts EXCEPT ![s] = r]
          /\ slot' = [slot EXCEPT ![r] = s]
    /\ pc' = [pc EXCEPT ![r] = "wantRead"]
    /\ Ask(r)
    /\ UNCHANGED <<readers, writer, mutex, kind, token, saverVars>>

\* put_host inserts its host at a vacant key, drops the list and asks for it again.
Insert(r) ==
    /\ pc[r] = "write" /\ kind[r] = "put"
    /\ \E s \in Slots :
          /\ hosts[s] = None
          /\ hosts' = [hosts EXCEPT ![s] = r]
          /\ slot' = [slot EXCEPT ![r] = s]
    /\ pc' = [pc EXCEPT ![r] = "wantRead"]
    /\ writer' = None
    /\ Ask(r)
    /\ UNCHANGED <<readers, mutex, kind, token, saverVars>>

\* delete_host removes the host, if there is one, and drops the list.
Remove(r) ==
    /\ pc[r] = "write" /\ kind[r] = "delete"
    /\ hosts' = [hosts EXCEPT ![slot[r]] = None]
    /\ pc' = [pc EXCEPT ![r] = IF hosts[slot[r]] = None THEN "done" ELSE "request"]
    /\ writer' = None
    /\ UNCHANGED <<readers, waiting, mutex, kind, slot, token, saverVars>>

NotFound(r) ==
    /\ pc[r] = "read"
    /\ hosts[slot[r]] = None
    /\ pc' = [pc EXCEPT ![r] = "done"]
    /\ readers' = readers \ {r}
    /\ UNCHANGED <<hosts, writer, waiting, mutex, kind, slot, token, saverVars>>

LockHost(r) ==
    /\ pc[r] = "read"
    /\ hosts[slot[r]] # None
    /\ mutex[slot[r]] = None
    /\ mutex' = [mutex EXCEPT ![slot[r]] = r]
    /\ pc' = [pc EXCEPT ![r] = "work"]
    /\ UNCHANGED <<hosts, listLock, kind, slot, token, saverVars>>

\* With the host locked: try_recache or pair change it, others only look at it.
Work(r) ==
    /\ pc[r] = "work"
    /\ hosts' = IF kind[r] = "change" THEN [hosts EXCEPT ![slot[r]] = r] ELSE hosts
    /\ pc' = [pc EXCEPT ![r] = IF kind[r] \in {"change", "put"} THEN "request" ELSE "leave"]
    /\ UNCHANGED <<listLock, mutex, kind, slot, token, saverVars>>

\* Mutant: a save that is under way is taken for this one.
RequestSaveUnlessSaving(r) ==
    /\ pc[r] = "request"
    /\ token' = (token \/ saver = "recv")
    /\ pc' = [pc EXCEPT ![r] = IF kind[r] = "delete" THEN "done" ELSE "leave"]
    /\ UNCHANGED <<hosts, listLock, mutex, kind, slot, saverVars>>

\* request_save: try_send into a channel of one.
RequestSave(r) ==
    /\ pc[r] = "request"
    /\ token' = TRUE
    /\ pc' = [pc EXCEPT ![r] = IF kind[r] = "delete" THEN "done" ELSE "leave"]
    /\ UNCHANGED <<hosts, listLock, mutex, kind, slot, saverVars>>

\* The handler returns and its guards are dropped.  A pair_host that found its host not
\* paired goes on in the stream of the response, which locks list and host once more
\* and does not look at the pairing again.
Leave(r) ==
    /\ pc[r] = "leave"
    /\ mutex' = [mutex EXCEPT ![slot[r]] = None]
    /\ readers' = readers \ {r}
    /\ \/ pc' = [pc EXCEPT ![r] = "done"] /\ UNCHANGED <<waiting, kind>>
       \/ /\ kind[r] = "pair"
          /\ kind' = [kind EXCEPT ![r] = "change"]
          /\ pc' = [pc EXCEPT ![r] = "wantRead"]
          /\ Ask(r)
    /\ UNCHANGED <<hosts, writer, slot, token, saverVars>>

Handler(r) ==
    \/ OpenList(r) \/ Insert(r) \/ Remove(r)
    \/ NotFound(r) \/ LockHost(r) \/ Work(r) \/ RequestSave(r) \/ Leave(r)
-----------------------------------------------------------------------------
(* file_writer and RuntimeApiData::save.                                   *)

ReceiveToken ==
    /\ saver = "recv"
    /\ token
    /\ token' = FALSE
    /\ saver' = "read"
    /\ Ask(Saver)
    /\ UNCHANGED <<hosts, readers, writer, mutex, kind, slot, pc, next, copy, disk, failed>>

StartSave ==
    /\ saver = "read"
    /\ TakeRead(Saver)
    /\ saver' = "copy"
    /\ next' = 0
    /\ UNCHANGED <<hosts, mutex, kind, slot, pc, token, copy, disk, failed>>

\* The hosts are locked and copied one after the other.
CopyHost ==
    /\ saver = "copy"
    /\ next \in Slots
    /\ hosts[next] # None => mutex[next] = None
    /\ copy' = [copy EXCEPT ![next] = hosts[next]]
    /\ next' = next + 1
    /\ UNCHANGED <<hosts, listLock, mutex, kind, slot, pc, token, saver, disk, failed>>

CloseList ==
    /\ saver = "copy"
    /\ next = LastSlot + 1
    /\ saver' = "write"
    /\ readers' = readers \ {Saver}
    /\ UNCHANGED <<hosts, writer, waiting, mutex, kind, slot, pc, token, next, copy, disk, failed>>

\* fs::write; a failure is only logged.
WriteFile ==
    /\ saver = "write"
    /\ saver' = "recv"
    /\ \/ disk' = copy /\ failed' = FALSE
       \/ failed' = TRUE /\ UNCHANGED disk
    /\ UNCHANGED <<hosts, listLock, mutex, kind, slot, pc, token, next, copy>>

FileWriter == ReceiveToken \/ StartSave \/ CopyHost \/ CloseList \/ WriteFile

Next == (\E r \in Requests : Arrive(r) \/ Handler(r)) \/ FileWriter

Spec == Init /\ [][Next]_vars

\* Handlers and file_writer go on: requests to Sunshine time out, locks are fair.
Fairness == WF_vars(FileWriter) /\ \A r \in Requests : WF_vars(Handler(r))

FairSpec == Spec /\ Fairness
-----------------------------------------------------------------------------
\* When nothing is under way the file is the list, unless its last write failed:
\* however requests are coalesced and whatever changes while a save copies the hosts
\* one by one, no change is left out for good.
Quiet == ~token /\ saver = "recv" /\ \A r \in Requests : pc[r] \in {"new", "done"}
NothingUnsaved == Quiet /\ ~failed => disk = hosts

\* No order of the two locks, and no reader that comes back for the list behind a
\* waiting writer, keeps a request from ending.
RequestsEnd == \A r \in Requests : pc[r] # "new" ~> pc[r] = "done"
=============================================================================
