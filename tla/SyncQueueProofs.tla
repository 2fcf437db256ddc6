--------------------------- MODULE SyncQueueProofs ---------------------------
(***************************************************************************)
(* Proofs about SyncQueue: no request is dropped, and what Authentik shows *)
(* only ever moves forward to a state the directory has had.               *)
(***************************************************************************)
EXTENDS SyncQueue, TLAPS

USE BoundsAssumption

\* The changes x covers are all there are, or the rest is still announced.
Covers(x) == x = directory \/ pending \/ roster = "changed"

\* A request is under way exactly while its marker exists.
Marker ==
    /\ unit \in {"sync", "waiting", "remove"} => processing
    /\ mine # "none" => unit \in {"waiting", "remove"}
    /\ unit = "remove" => mine = "done"
    /\ mine = "running" <=> running = "worker"

\* One sync at a time: what it has read is between what is shown and what is.
Order ==
    /\ synced <= directory
    /\ running # "nobody" /\ snapshot # NotRead
         => synced <= snapshot /\ snapshot <= directory

\* What the queue has forgotten is covered, or is by the sync it waits for.
Coverage ==
    /\ ~processing => Covers(synced)
    /\ mine = "done" => Covers(synced)
    /\ mine = "running" /\ snapshot # NotRead => Covers(snapshot)

IInv == TypeOK /\ Marker /\ Order /\ Coverage

LEMMA InitIInv == Init => IInv
<1>1. Init => TypeOK
  <2> SUFFICES ASSUME Init PROVE TypeOK
    OBVIOUS
  <2>1. pending \in BOOLEAN /\ processing \in BOOLEAN
    BY Zenon DEF Init
  <2>2. 0 \in 0 .. MaxChange /\ 0 \in 0 .. MaxFail /\ 0 \in 0 .. MaxOther
        /\ NotRead \in 0 .. NotRead
    BY DEF NotRead
  <2> QED
    BY <2>1, <2>2, Zenon DEF Init, TypeOK
<1>2. Init => Marker /\ Order
  BY DEF Init, Marker, Order
<1>3. Init => Coverage
  BY DEF Init, Coverage, Covers
<1> QED
  BY <1>1, <1>2, <1>3 DEF IInv

LEMMA NextIInv == IInv /\ [Next]_vars => IInv'
<1> SUFFICES ASSUME IInv, [Next]_vars PROVE IInv'
  OBVIOUS
<1> USE DEF IInv, TypeOK, Marker, Order, Coverage, Covers, NotRead, queue, authentik
<1>1. CASE RosterChanges
  BY <1>1 DEF RosterChanges
<1>2. CASE RosterMarks
  BY <1>2 DEF RosterMarks
<1>3. CASE PathTriggers
  BY <1>3 DEF PathTriggers
<1>4. CASE TakeRequest
  BY <1>4 DEF TakeRequest
<1>5. CASE SendTask
  BY <1>5 DEF SendTask
<1>6. CASE TaskSucceeded
  BY <1>6 DEF TaskSucceeded
<1>7. CASE TaskFailed
  BY <1>7 DEF TaskFailed
<1>8. CASE Restart
  BY <1>8 DEF Restart
<1>9. CASE RemoveProcessing
  BY <1>9 DEF RemoveProcessing
<1>10. CASE WorkerDies
  BY <1>10 DEF WorkerDies
<1>11. CASE TaskStarts
  BY <1>11 DEF TaskStarts
<1>12. CASE SyncReads
  BY <1>12 DEF SyncReads
<1>13. CASE SyncEnds
  BY <1>13 DEF SyncEnds, Ends
<1>14. CASE OtherStarts
  BY <1>14 DEF OtherStarts
<1>15. CASE SyncErrors
  BY <1>15 DEF SyncErrors, Ends
<1>16. CASE UNCHANGED vars
  BY <1>16 DEF vars
<1> QED
  BY <1>1, <1>2, <1>3, <1>4, <1>5, <1>6, <1>7, <1>8, <1>9, <1>10, <1>11, <1>12,
     <1>13, <1>14, <1>15, <1>16 DEF Next, Worker, Sync

LEMMA Invariance == Spec => []IInv
<1>1. Init => IInv
  BY InitIInv
<1>2. IInv /\ [Next]_vars => IInv'
  BY NextIInv
<1> QED
  BY <1>1, <1>2, PTL DEF Spec

\* The queue's markers, the worker, Authentik's tasks and the counts of
\* changes keep their types, for any number of changes and failures.
THEOREM TypeCorrect == Spec => []TypeOK
<1>1. IInv => TypeOK
  BY DEF IInv
<1> QED
  BY <1>1, Invariance, PTL

\* worker.sh moves the marker before it syncs and removes it after: whatever
\* fails or interleaves, a change is announced, in work, or in Authentik.
THEOREM NothingDropped == Spec => []NoRequestDropped
<1>1. IInv => NoRequestDropped
  BY DEF IInv, Coverage, Covers, NoRequestDropped
<1> QED
  BY <1>1, Invariance, PTL

\* Every step of the queue is a step of the promise made to the roster: the
\* safety half of KeepsPromise.
THEOREM StepsKeepPromise == Spec => Requests!Init /\ [][Requests!Next]_(Requests!vars)
<1>1. Init => Requests!Init
  BY DEF Init, Requests!Init
<1>2. IInv /\ [Next]_vars => [Requests!Next]_(Requests!vars)
  <2> SUFFICES ASSUME IInv, [Next]_vars PROVE [Requests!Next]_(Requests!vars)
    OBVIOUS
  <2> USE DEF Requests!Next, Requests!vars, queue, authentik
  <2>1. CASE RosterChanges
    BY <2>1 DEF RosterChanges, Requests!Change
  <2>2. CASE SyncEnds
    <3>1. directory' = directory
      BY <2>2 DEF SyncEnds, Ends
    <3>2. synced' \in Nat /\ synced <= synced' /\ synced' <= directory
      BY <2>2 DEF SyncEnds, IInv, Order, TypeOK, NotRead
    <3>3. synced' = synced \/ synced' \in synced + 1 .. directory
      BY <3>2 DEF IInv, TypeOK
    <3> QED
      BY <3>1, <3>3 DEF Requests!Serve
  <2>3. CASE Next /\ ~RosterChanges /\ ~SyncEnds
    <3>1. synced' = synced /\ directory' = directory
      BY <2>3 DEF Next, Worker, Sync, RosterMarks, PathTriggers, TakeRequest, SendTask,
                  TaskSucceeded, TaskFailed, Restart, RemoveProcessing, WorkerDies,
                  TaskStarts, SyncReads, OtherStarts, SyncErrors, Ends
    <3> QED
      BY <3>1
  <2>4. CASE UNCHANGED vars
    BY <2>4 DEF vars
  <2> QED
    BY <2>1, <2>2, <2>3, <2>4
<1> QED
  BY <1>1, <1>2, Invariance, PTL DEF Spec
=============================================================================
