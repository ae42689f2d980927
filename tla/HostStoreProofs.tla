--------------------------- MODULE HostStoreProofs ---------------------------
(***************************************************************************)
(* Proofs about the host list and its file: the types and the locks, and   *)
(* that no change is left out of the file for good.                        *)
(***************************************************************************)
EXTENDS HostStore, SequenceTheorems, TLAPS

\* Who holds what.
InList(r) ==
    \/ pc[r] \in {"read", "work", "leave"}
    \/ pc[r] = "request" /\ kind[r] # "delete"

HasLocked(r, s) ==
    /\ slot[r] = s
    /\ \/ pc[r] \in {"work", "leave"}
       \/ pc[r] = "request" /\ kind[r] # "delete"

Locks ==
    /\ \A r \in Requests : r \in readers <=> InList(r)
    /\ \A r \in Requests : pc[r] = "write" <=> writer = r
    /\ \A s \in Slots, r \in Requests : mutex[s] = r => HasLocked(r, s)

\* The change made last in slot s will still be asked to be saved.
Unasked(r, s) ==
    /\ slot[r] = s
    /\ \/ kind[r] \in {"change", "delete"} /\ pc[r] = "request"
       \/ kind[r] = "put" /\ pc[r] \in {"wantRead", "read", "work", "request"} /\ hosts[s] # None

Covered(s) == token \/ \E r \in Requests : Unasked(r, s)

\* Whatever the file, or the copy that becomes the file, lacks is covered.
SaveIsComing ==
    \A s \in Slots :
        /\ saver = "recv" => disk[s] = hosts[s] \/ failed \/ Covered(s)
        /\ saver = "copy" /\ s < next => copy[s] = hosts[s] \/ Covered(s)
        /\ saver = "write" => copy[s] = hosts[s] \/ Covered(s)

IInv == TypeOK /\ Locks /\ SaveIsComing
-----------------------------------------------------------------------------
\* Only the loaded host is there at the start, and it is in the file.
LEMMA InitHolds == Init => IInv
<1> SUFFICES ASSUME Init PROVE IInv
    OBVIOUS
<1>1. TypeOK
    <2>1. waiting \in Seq(Tasks)
        BY EmptySeq DEF Init
    <2>2. hosts \in [Slots -> Content] /\ disk \in [Slots -> Content] /\ copy \in [Slots -> Content]
        BY StoreAssumption DEF Init, Slots, Content
    <2>3. slot \in [Requests -> Slots] /\ next \in 0 .. LastSlot + 1
        BY StoreAssumption DEF Init, Slots
    <2> QED
        BY <2>1, <2>2, <2>3, StoreAssumption DEF Init, TypeOK, Tasks, Kinds
<1>2. Locks
    BY StoreAssumption DEF Init, Locks, InList, HasLocked, HasLocked, Slots
<1>3. SaveIsComing
    BY DEF Init, SaveIsComing
<1> QED
    BY <1>1, <1>2, <1>3 DEF IInv

\* The queue of the lock holds tasks.
LEMMA Queue ==
    ASSUME waiting \in Seq(Tasks)
    PROVE  /\ \A t \in Tasks : Append(waiting, t) \in Seq(Tasks)
           /\ waiting # <<>> => Tail(waiting) \in Seq(Tasks)
BY AppendProperties, HeadTailProperties

\* Every step keeps the types; who has locked a host keeps the list from writers.
LEMMA TypeStep ==
    ASSUME TypeOK, Locks, [Next]_vars
    PROVE  TypeOK'
<1> USE Queue, StoreAssumption DEF TypeOK, Locks, InList, HasLocked, Tasks, Kinds, Content, Slots, saverVars, listLock
<1>1. ASSUME NEW r \in Requests, Arrive(r)
       PROVE  TypeOK'
    BY <1>1 DEF Arrive, Ask
<1>2. ASSUME NEW r \in Requests, OpenList(r)
       PROVE  TypeOK'
    <2>1. CASE pc[r] = "wantRead" /\ TakeRead(r) /\ pc' = [pc EXCEPT ![r] = "read"]
        BY <1>2, <2>1 DEF OpenList, TakeRead, IsNext
    <2>2. CASE pc[r] = "wantWrite" /\ TakeWrite(r) /\ pc' = [pc EXCEPT ![r] = "write"]
        BY <1>2, <2>2 DEF OpenList, TakeWrite, IsNext
    <2> QED
        BY <1>2, <2>1, <2>2 DEF OpenList
<1>3. ASSUME NEW r \in Requests, Insert(r)
       PROVE  TypeOK'
    BY <1>3 DEF Insert, Ask
<1>4. ASSUME NEW r \in Requests, Remove(r)
       PROVE  TypeOK'
    BY <1>4 DEF Remove
<1>5. ASSUME NEW r \in Requests, NotFound(r)
       PROVE  TypeOK'
    BY <1>5 DEF NotFound
<1>6. ASSUME NEW r \in Requests, LockHost(r)
       PROVE  TypeOK'
    BY <1>6 DEF LockHost
<1>7. ASSUME NEW r \in Requests, Work(r)
       PROVE  TypeOK'
    BY <1>7 DEF Work
<1>8. ASSUME NEW r \in Requests, RequestSave(r)
       PROVE  TypeOK'
    BY <1>8 DEF RequestSave
<1>9. ASSUME NEW r \in Requests, Leave(r)
       PROVE  TypeOK'
    <2> HIDE Queue, StoreAssumption DEF TypeOK, Locks, HasLocked, Tasks, Kinds, Content, Slots
    <2>1. waiting' = waiting \/ waiting' = Append(waiting, r)
        BY <1>9 DEF Leave, Ask
    <2>2. waiting' \in Seq(Tasks)
        BY <2>1, Queue DEF TypeOK, Tasks
    <2>3. pc' \in [Requests -> {"new", "wantRead", "wantWrite", "write", "read", "work", "request", "leave", "done"}]
        BY <1>9 DEF Leave, TypeOK
    <2>4. mutex' \in [Slots -> Requests \cup {None}] /\ kind' \in [Requests -> Kinds]
        BY <1>9 DEF Leave, TypeOK, Kinds
    <2>5. ASSUME NEW s \in Slots, mutex'[s] # None PROVE mutex'[s] \in readers' /\ hosts'[s] # None
        <3>1. mutex[s] # None /\ mutex'[s] = mutex[s] /\ mutex[s] \in Requests
            BY <1>9, <2>5 DEF Leave, TypeOK
        <3>2. mutex[s] # r
            BY <1>9, <2>5, <3>1 DEF Leave, TypeOK, Locks, HasLocked
        <3> QED
            BY <1>9, <3>1, <3>2 DEF Leave, TypeOK
    <2> QED
        BY <1>9, <2>2, <2>3, <2>4, <2>5 DEF Leave, TypeOK, saverVars
<1>10. ASSUME ReceiveToken
       PROVE  TypeOK'
    BY <1>10 DEF ReceiveToken, Ask
<1>11. ASSUME StartSave
       PROVE  TypeOK'
    BY <1>11 DEF StartSave, TakeRead, IsNext
<1>12. ASSUME CopyHost
       PROVE  TypeOK'
    BY <1>12 DEF CopyHost
<1>13. ASSUME CloseList
       PROVE  TypeOK'
    BY <1>13 DEF CloseList
<1>14. ASSUME WriteFile
       PROVE  TypeOK'
    BY <1>14 DEF WriteFile
<1>15. CASE UNCHANGED vars
    BY <1>15 DEF vars
<1> QED
    BY <1>1, <1>2, <1>3, <1>4, <1>5, <1>6, <1>7, <1>8,
       <1>9, <1>10, <1>11, <1>12, <1>13, <1>14, <1>15 DEF Next, Handler, FileWriter

\* Every step keeps who holds what.
LEMMA LocksStep ==
    ASSUME TypeOK, Locks, [Next]_vars
    PROVE  Locks'
<1> USE StoreAssumption DEF TypeOK, Locks, InList, HasLocked, Tasks, Kinds, Slots, saverVars, listLock
<1>1. ASSUME NEW r \in Requests, Arrive(r)
       PROVE  Locks'
    BY <1>1 DEF Arrive, Ask
<1>2. ASSUME NEW r \in Requests, OpenList(r)
       PROVE  Locks'
    <2>1. CASE pc[r] = "wantRead" /\ TakeRead(r) /\ pc' = [pc EXCEPT ![r] = "read"]
        BY <1>2, <2>1 DEF OpenList, TakeRead, IsNext
    <2>2. CASE pc[r] = "wantWrite" /\ TakeWrite(r) /\ pc' = [pc EXCEPT ![r] = "write"]
        BY <1>2, <2>2 DEF OpenList, TakeWrite, IsNext
    <2> QED
        BY <1>2, <2>1, <2>2 DEF OpenList
<1>3. ASSUME NEW r \in Requests, Insert(r)
       PROVE  Locks'
    BY <1>3 DEF Insert, Ask
<1>4. ASSUME NEW r \in Requests, Remove(r)
       PROVE  Locks'
    BY <1>4 DEF Remove
<1>5. ASSUME NEW r \in Requests, NotFound(r)
       PROVE  Locks'
    BY <1>5 DEF NotFound
<1>6. ASSUME NEW r \in Requests, LockHost(r)
       PROVE  Locks'
    BY <1>6 DEF LockHost
<1>7. ASSUME NEW r \in Requests, Work(r)
       PROVE  Locks'
    BY <1>7 DEF Work
<1>8. ASSUME NEW r \in Requests, RequestSave(r)
       PROVE  Locks'
    BY <1>8 DEF RequestSave
<1>9. ASSUME NEW r \in Requests, Leave(r)
       PROVE  Locks'
    <2>1. CASE pc' = [pc EXCEPT ![r] = "done"] /\ UNCHANGED <<waiting, kind>>
        BY <1>9, <2>1 DEF Leave
    <2>2. CASE kind' = [kind EXCEPT ![r] = "change"] /\ pc' = [pc EXCEPT ![r] = "wantRead"]
        BY <1>9, <2>2 DEF Leave
    <2> QED
        BY <1>9, <2>1, <2>2 DEF Leave
<1>10. ASSUME ReceiveToken
       PROVE  Locks'
    BY <1>10 DEF ReceiveToken, Ask
<1>11. ASSUME StartSave
       PROVE  Locks'
    BY <1>11 DEF StartSave, TakeRead, IsNext
<1>12. ASSUME CopyHost
       PROVE  Locks'
    BY <1>12 DEF CopyHost
<1>13. ASSUME CloseList
       PROVE  Locks'
    BY <1>13 DEF CloseList
<1>14. ASSUME WriteFile
       PROVE  Locks'
    BY <1>14 DEF WriteFile
<1>15. CASE UNCHANGED vars
    BY <1>15 DEF vars
<1> QED
    BY <1>1, <1>2, <1>3, <1>4, <1>5, <1>6, <1>7, <1>8,
       <1>9, <1>10, <1>11, <1>12, <1>13, <1>14, <1>15 DEF Next, Handler, FileWriter

\* Every step keeps the promise: a change is covered by the request that made it until
\* that asks for the save, by the token until file_writer takes it, and from then on the
\* save has yet to copy it.
LEMMA SaveStep ==
    ASSUME TypeOK, SaveIsComing, [Next]_vars
    PROVE  SaveIsComing'
<1> USE StoreAssumption DEF TypeOK, SaveIsComing, Covered, Unasked, Kinds, Slots, saverVars, listLock
<1>1. ASSUME NEW r \in Requests, Arrive(r)
       PROVE  SaveIsComing'
    <2>1. ASSUME NEW q \in Requests, NEW s \in Slots, Unasked(q, s)
           PROVE  Unasked(q, s)' \/ Unasked(r, s)'
        BY <1>1, <2>1 DEF Arrive, Ask
    <2>2. ASSUME NEW s \in Slots
           PROVE  hosts'[s] = hosts[s] \/ Unasked(r, s)'
        BY <1>1 DEF Arrive, Ask
    <2>3. \A s \in Slots : Covered(s) => Covered(s)'
        BY <1>1, <2>1 DEF Arrive, Ask
    <2>4. UNCHANGED saverVars
        BY <1>1 DEF Arrive
    <2> HIDE StoreAssumption DEF TypeOK, Unasked, Kinds, Slots
    <2> QED
        BY <2>2, <2>3, <2>4 DEF SaveIsComing
<1>2. ASSUME NEW r \in Requests, OpenList(r)
       PROVE  SaveIsComing'
    <2>1. ASSUME NEW q \in Requests, NEW s \in Slots, Unasked(q, s)
           PROVE  Unasked(q, s)' \/ Unasked(r, s)'
        BY <1>2, <2>1 DEF OpenList, TakeRead, TakeWrite, IsNext
    <2>2. ASSUME NEW s \in Slots
           PROVE  hosts'[s] = hosts[s] \/ Unasked(r, s)'
        BY <1>2 DEF OpenList, TakeRead, TakeWrite, IsNext
    <2>3. \A s \in Slots : Covered(s) => Covered(s)'
        BY <1>2, <2>1 DEF OpenList, TakeRead, TakeWrite, IsNext
    <2>4. UNCHANGED saverVars
        BY <1>2 DEF OpenList
    <2> HIDE StoreAssumption DEF TypeOK, Unasked, Kinds, Slots
    <2> QED
        BY <2>2, <2>3, <2>4 DEF SaveIsComing
<1>3. ASSUME NEW r \in Requests, Insert(r)
       PROVE  SaveIsComing'
    <2>1. ASSUME NEW q \in Requests, NEW s \in Slots, Unasked(q, s)
           PROVE  Unasked(q, s)' \/ Unasked(r, s)'
        BY <1>3, <2>1 DEF Insert, Ask
    <2>2. ASSUME NEW s \in Slots
           PROVE  hosts'[s] = hosts[s] \/ Unasked(r, s)'
        BY <1>3 DEF Insert, Ask
    <2>3. \A s \in Slots : Covered(s) => Covered(s)'
        BY <1>3, <2>1 DEF Insert, Ask
    <2>4. UNCHANGED saverVars
        BY <1>3 DEF Insert
    <2> HIDE StoreAssumption DEF TypeOK, Unasked, Kinds, Slots
    <2> QED
        BY <2>2, <2>3, <2>4 DEF SaveIsComing
<1>4. ASSUME NEW r \in Requests, Remove(r)
       PROVE  SaveIsComing'
    <2>1. ASSUME NEW q \in Requests, NEW s \in Slots, Unasked(q, s)
           PROVE  Unasked(q, s)' \/ Unasked(r, s)'
        BY <1>4, <2>1 DEF Remove
    <2>2. ASSUME NEW s \in Slots
           PROVE  hosts'[s] = hosts[s] \/ Unasked(r, s)'
        BY <1>4 DEF Remove
    <2>3. \A s \in Slots : Covered(s) => Covered(s)'
        BY <1>4, <2>1 DEF Remove
    <2>4. UNCHANGED saverVars
        BY <1>4 DEF Remove
    <2> HIDE StoreAssumption DEF TypeOK, Unasked, Kinds, Slots
    <2> QED
        BY <2>2, <2>3, <2>4 DEF SaveIsComing
<1>5. ASSUME NEW r \in Requests, NotFound(r)
       PROVE  SaveIsComing'
    BY <1>5 DEF NotFound
<1>6. ASSUME NEW r \in Requests, LockHost(r)
       PROVE  SaveIsComing'
    <2>1. ASSUME NEW q \in Requests, NEW s \in Slots, Unasked(q, s)
           PROVE  Unasked(q, s)' \/ Unasked(r, s)'
        BY <1>6, <2>1 DEF LockHost
    <2>2. ASSUME NEW s \in Slots
           PROVE  hosts'[s] = hosts[s] \/ Unasked(r, s)'
        BY <1>6 DEF LockHost
    <2>3. \A s \in Slots : Covered(s) => Covered(s)'
        BY <1>6, <2>1 DEF LockHost
    <2>4. UNCHANGED saverVars
        BY <1>6 DEF LockHost
    <2> HIDE StoreAssumption DEF TypeOK, Unasked, Kinds, Slots
    <2> QED
        BY <2>2, <2>3, <2>4 DEF SaveIsComing
<1>7. ASSUME NEW r \in Requests, Work(r)
       PROVE  SaveIsComing'
    <2>1. ASSUME NEW q \in Requests, NEW s \in Slots, Unasked(q, s)
           PROVE  Unasked(q, s)' \/ Unasked(r, s)'
        BY <1>7, <2>1 DEF Work
    <2>2. ASSUME NEW s \in Slots
           PROVE  hosts'[s] = hosts[s] \/ Unasked(r, s)'
        BY <1>7 DEF Work
    <2>3. \A s \in Slots : Covered(s) => Covered(s)'
        BY <1>7, <2>1 DEF Work
    <2>4. UNCHANGED saverVars
        BY <1>7 DEF Work
    <2> HIDE StoreAssumption DEF TypeOK, Unasked, Kinds, Slots
    <2> QED
        BY <2>2, <2>3, <2>4 DEF SaveIsComing
<1>8. ASSUME NEW r \in Requests, RequestSave(r)
       PROVE  SaveIsComing'
    BY <1>8 DEF RequestSave
<1>9. ASSUME NEW r \in Requests, Leave(r)
       PROVE  SaveIsComing'
    <2>1. ASSUME NEW q \in Requests, NEW s \in Slots, Unasked(q, s)
           PROVE  Unasked(q, s)' \/ Unasked(r, s)'
        BY <1>9, <2>1 DEF Leave, Ask
    <2>2. ASSUME NEW s \in Slots
           PROVE  hosts'[s] = hosts[s] \/ Unasked(r, s)'
        BY <1>9 DEF Leave, Ask
    <2>3. \A s \in Slots : Covered(s) => Covered(s)'
        BY <1>9, <2>1 DEF Leave, Ask
    <2>4. UNCHANGED saverVars
        BY <1>9 DEF Leave
    <2> HIDE StoreAssumption DEF TypeOK, Unasked, Kinds, Slots
    <2> QED
        BY <2>2, <2>3, <2>4 DEF SaveIsComing
<1>10. ASSUME ReceiveToken
       PROVE  SaveIsComing'
    BY <1>10 DEF ReceiveToken, Ask
<1>11. ASSUME StartSave
       PROVE  SaveIsComing'
    BY <1>11 DEF StartSave, TakeRead, IsNext
<1>12. ASSUME CopyHost
       PROVE  SaveIsComing'
    BY <1>12 DEF CopyHost
<1>13. ASSUME CloseList
       PROVE  SaveIsComing'
    BY <1>13 DEF CloseList
<1>14. ASSUME WriteFile
       PROVE  SaveIsComing'
    BY <1>14 DEF WriteFile
<1>15. CASE UNCHANGED vars
    BY <1>15 DEF vars
<1> QED
    BY <1>1, <1>2, <1>3, <1>4, <1>5, <1>6, <1>7, <1>8,
       <1>9, <1>10, <1>11, <1>12, <1>13, <1>14, <1>15 DEF Next, Handler, FileWriter

THEOREM Invariance == Spec => []IInv
<1>1. IInv /\ [Next]_vars => IInv'
    BY TypeStep, LocksStep, SaveStep DEF IInv
<1> QED
    BY InitHolds, <1>1, PTL DEF Spec

\* Every variable keeps its type, a writer has the list for itself, and a host that a
\* handler has locked stays in the list, for any number of requests and slots.
THEOREM TypeCorrect == Spec => []TypeOK
<1>1. IInv => TypeOK
    BY DEF IInv
<1> QED
    BY Invariance, <1>1, PTL

\* No change of a host is left out of the file for good by coalescing the requests
\* for a save (data.rs:107-111) or by copying the hosts one by one (data.rs:167-189).
THEOREM ChangesAreSaved == Spec => []NothingUnsaved
<1>1. IInv => NothingUnsaved
    <2> SUFFICES ASSUME IInv, Quiet, ~failed PROVE disk = hosts
        BY DEF NothingUnsaved
    <2>1. ASSUME NEW s \in Slots PROVE disk[s] = hosts[s]
        BY <2>1 DEF IInv, SaveIsComing, Covered, Unasked, Quiet
    <2> QED
        BY <2>1 DEF IInv, TypeOK
<1> QED
    BY Invariance, <1>1, PTL
=============================================================================
