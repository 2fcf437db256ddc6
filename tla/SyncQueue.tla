------------------------------ MODULE SyncQueue ------------------------------
(***************************************************************************)
(* The roster's queue for Authentik LDAP syncs on krg-prod.  The roster    *)
(* backend changes the directory and leaves a marker `pending`; a path     *)
(* unit starts the worker, which renames the marker to `processing`, runs  *)
(* one sync and removes it.  Syncs are tasks in Authentik: one runs at a   *)
(* time, one that finds another running skips, and a task outlives a       *)
(* caller that stopped waiting.  The deploy and Authentik's own schedule   *)
(* start syncs too.                                                        *)
(***************************************************************************)
EXTENDS Naturals

CONSTANTS
    MaxChange,  \* bound: changes the roster makes
    MaxFail,    \* bound: failed syncs, time-outs, killed workers
    MaxOther    \* bound: syncs started by the deploy or the schedule

ASSUME BoundsAssumption == MaxChange \in Nat /\ MaxFail \in Nat /\ MaxOther \in Nat

VARIABLES
    directory,   \* changes made in the directory so far
    roster,      \* the roster backend: has it still to leave its marker?
    pending,     \* requests/pending exists
    processing,  \* processing exists
    unit,        \* roster-authentik-sync.service
    mine,        \* the task the worker waits for
    running,     \* who started the sync Authentik runs
    snapshot,    \* the changes that sync has read
    synced,      \* the changes Authentik shows
    fails, others  \* counters of the bounded events

vars == <<directory, roster, pending, processing, unit, mine, running, snapshot,
          synced, fails, others>>
queue == <<pending, processing>>
authentik == <<running, snapshot, synced>>

NotRead == MaxChange + 1

TypeOK ==
    /\ directory \in 0 .. MaxChange
    /\ roster \in {"idle", "changed"}
    /\ pending \in BOOLEAN /\ processing \in BOOLEAN
    /\ unit \in {"inactive", "starting", "sync", "waiting", "remove", "restarting"}
    /\ mine \in {"none", "queued", "running", "done", "failed"}
    /\ running \in {"nobody", "worker", "other"}
    /\ snapshot \in 0 .. NotRead
    /\ synced \in 0 .. MaxChange
    /\ fails \in 0 .. MaxFail /\ others \in 0 .. MaxOther

Init ==
    /\ directory = 0 /\ roster = "idle"
    /\ pending = FALSE /\ processing = FALSE
    /\ unit = "inactive" /\ mine = "none"
    /\ running = "nobody" /\ snapshot = NotRead /\ synced = 0
    /\ fails = 0 /\ others = 0

(***************************************************************************)
(* The roster backend.                                                     *)
(***************************************************************************)
RosterChanges ==
    /\ roster = "idle"
    /\ directory < MaxChange
    /\ directory' = directory + 1
    /\ roster' = "changed"
    /\ UNCHANGED <<queue, unit, mine, authentik, fails, others>>

\* An existing marker is left as it is: one sync serves both changes.
RosterMarks ==
    /\ roster = "changed"
    /\ roster' = "idle"
    /\ pending' = TRUE
    /\ UNCHANGED <<directory, processing, unit, mine, authentik, fails, others>>

(***************************************************************************)
(* systemd and the worker.                                                 *)
(***************************************************************************)
\* The path unit looks again whenever the service has become inactive; the
\* service sleeps first, so that edits made together are served together.
PathTriggers ==
    /\ unit = "inactive"
    /\ pending \/ processing
    /\ unit' = "starting"
    /\ UNCHANGED <<directory, roster, queue, mine, authentik, fails, others>>

\* A marker left in processing by a failed run comes first.
TakeRequest ==
    /\ unit = "starting"
    /\ \/ processing /\ unit' = "sync" /\ UNCHANGED queue
       \/ ~processing /\ ~pending /\ unit' = "inactive" /\ UNCHANGED queue
       \/ ~processing /\ pending /\ unit' = "sync" /\ pending' = FALSE /\ processing' = TRUE
    /\ UNCHANGED <<directory, roster, mine, authentik, fails, others>>

SendTask ==
    /\ unit = "sync"
    /\ unit' = "waiting"
    /\ mine' = "queued"
    /\ UNCHANGED <<directory, roster, queue, authentik, fails, others>>

\* Mutant: a task that skipped because another sync was running counts.
TaskCountsWhenOver ==
    /\ unit = "waiting" /\ mine \in {"done", "failed"}
    /\ unit' = "remove"
    /\ UNCHANGED <<directory, roster, queue, mine, authentik, fails, others>>

TaskSucceeded ==
    /\ unit = "waiting" /\ mine = "done"
    /\ unit' = "remove"
    /\ UNCHANGED <<directory, roster, queue, mine, authentik, fails, others>>

\* Errors, warnings, rejection, "already running, skipping": exit status 1.
TaskFailed ==
    /\ unit = "waiting" /\ mine = "failed"
    /\ unit' = "restarting" /\ mine' = "none"
    /\ UNCHANGED <<directory, roster, queue, authentik, fails, others>>

\* No worker container, the 600 s deadline, TimeoutStartSec, a crash: the task,
\* if it runs or is queued, goes on without the worker.
WorkerDies ==
    /\ unit \in {"starting", "sync", "waiting", "remove"}
    /\ fails < MaxFail
    /\ fails' = fails + 1
    /\ unit' = "restarting" /\ mine' = "none"
    /\ running' = IF running = "worker" THEN "other" ELSE running
    /\ UNCHANGED <<directory, roster, queue, snapshot, synced, others>>

\* Mutant: a failed unit is not started again, and holds the path unit up.
NoRestart ==
    /\ unit = "restarting"
    /\ ~processing
    /\ unit' = "starting"
    /\ UNCHANGED <<directory, roster, queue, mine, authentik, fails, others>>

\* Restart=on-failure without a start limit.
Restart ==
    /\ unit = "restarting"
    /\ unit' = "starting"
    /\ UNCHANGED <<directory, roster, queue, mine, authentik, fails, others>>

RemoveProcessing ==
    /\ unit = "remove"
    /\ processing' = FALSE
    /\ unit' = "inactive" /\ mine' = "none"
    /\ UNCHANGED <<directory, roster, pending, authentik, fails, others>>

(***************************************************************************)
(* Authentik.                                                              *)
(***************************************************************************)
TaskStarts ==
    /\ mine = "queued"
    /\ IF running = "nobody"
       THEN mine' = "running" /\ running' = "worker" /\ snapshot' = NotRead
       ELSE mine' = "failed" /\ UNCHANGED <<running, snapshot>>
    /\ UNCHANGED <<directory, roster, queue, unit, synced, fails, others>>

OtherStarts ==
    /\ running = "nobody"
    /\ others < MaxOther
    /\ others' = others + 1
    /\ running' = "other" /\ snapshot' = NotRead
    /\ UNCHANGED <<directory, roster, queue, unit, mine, synced, fails>>

SyncReads ==
    /\ running # "nobody" /\ snapshot = NotRead
    /\ snapshot' = directory
    /\ UNCHANGED <<directory, roster, queue, unit, mine, running, synced, fails, others>>

Ends(outcome) ==
    /\ running' = "nobody"
    /\ mine' = IF running = "worker" THEN outcome ELSE mine
    /\ UNCHANGED <<directory, roster, queue, unit, snapshot, others>>

\* Mutant: a sync may end before it has read the directory.
SyncEndsUnread ==
    /\ running # "nobody"
    /\ synced' = snapshot
    /\ Ends("done")
    /\ UNCHANGED fails

SyncEnds ==
    /\ running # "nobody" /\ snapshot # NotRead
    /\ synced' = snapshot
    /\ Ends("done")
    /\ UNCHANGED fails

SyncErrors ==
    /\ running # "nobody"
    /\ fails < MaxFail
    /\ fails' = fails + 1
    /\ Ends("failed")
    /\ UNCHANGED synced

Worker == TakeRequest \/ SendTask \/ TaskSucceeded \/ TaskFailed \/ Restart \/ RemoveProcessing
Sync == SyncReads \/ SyncEnds

Next ==
    \/ RosterChanges \/ RosterMarks \/ PathTriggers \/ Worker \/ WorkerDies
    \/ TaskStarts \/ Sync \/ OtherStarts \/ SyncErrors

Spec ==
    /\ Init /\ [][Next]_vars
    /\ WF_vars(RosterMarks) /\ WF_vars(PathTriggers) /\ WF_vars(Worker)
    /\ WF_vars(TaskStarts) /\ WF_vars(Sync)

(***************************************************************************)
(* Properties.                                                             *)
(***************************************************************************)
\* "A write DURING sync queues another run" (worker.sh): when nothing is
\* queued, running or still to be marked, Authentik shows every change.
NoRequestDropped ==
    roster = "idle" /\ ~pending /\ ~processing => synced = directory

\* The queue keeps the promise made to the roster, failures, crashed workers
\* and other syncs notwithstanding.
Requests == INSTANCE SyncRequests WITH made <- directory, served <- synced
KeepsPromise == Requests!Spec
=============================================================================
