---------------------------- MODULE ComposeReload ----------------------------
(***************************************************************************)
(* compose-reload: applying a changed docker compose stack without taking  *)
(* it down.  A reload fingerprints the bind-mounted config, plans which    *)
(* services are handed off (a new container beside the old one, retired    *)
(* once the new one is healthy), aborts a handoff that goes wrong, and     *)
(* leaves the rest to `up --force-recreate` and a final `up -d`; the       *)
(* fingerprints are recorded only when everything succeeded.               *)
(*                                                                         *)
(* Containers change health on their own between any two steps.  Every     *)
(* docker call may fail or time out, with or without its effect, the       *)
(* reload may be killed at any point, and config may move under it.        *)
(* Migrations are one-shot containers of their own, which docker goes on   *)
(* running when the `up -d` that waits for them is gone.                   *)
(* A version is the number of the deploy that introduced it.               *)
(***************************************************************************)
EXTENDS Naturals, FiniteSets

CONSTANTS
    Service,    \* the services of the stack
    Labelled,   \* those labelled krg.rollout=handoff
    Ineligible, \* those with a container_name, host ports or no healthcheck
    Drains,     \* those whose healthcheck fails while the drain file exists
    Mounted,    \* those that bind-mount config from the Nix store
    Migrating,  \* those that depend on a migration one-shot, bumped in lockstep
    MaxEvent,   \* bound: deploys and moved links, and mishaps: failed docker calls,
                \* kills, stack restarts, migrations that fail and healthy containers
                \* that fail on their own
    MayRevert,  \* whether a deploy may bring back an earlier version
    FirstRun    \* whether the state file is absent at the start

ASSUME SetsAssumption ==
    /\ Service # {} /\ Labelled \subseteq Service /\ Ineligible \subseteq Service
    /\ Drains \subseteq Service
    /\ Mounted \subseteq Service
    /\ Migrating \subseteq Service

ASSUME BoundsAssumption ==
    /\ MaxEvent \in Nat
    /\ MayRevert \in BOOLEAN /\ FirstRun \in BOOLEAN

VARIABLES
    spec,      \* spec[s]: the compose spec (image, env ...) the stack asks for
    link,      \* link[s]: the config version the L+ links point to
    cont,      \* cont[s][k]: the containers of s
    shot,      \* shot[s]: the container of the migration one-shot of s
    migrated,  \* migrated[s]: the newest version whose migration has completed
    cut,       \* history: services of which a migration failed, or was still
               \* running when the `up -d` that waited for it ended
    recorded,  \* whether the state file holds fingerprints
    saved,     \* the fingerprints of the state file
    deploys, mishaps,  \* counters of the bounded events
    pc,        \* where the reload is
    mounts,    \* fingerprints read when the reload started
    todo,      \* services still to hand off
    old,       \* the running container plan() saw for each service
    recreate,  \* forced services that are not handed off
    upTodo,    \* services the final `up -d` has still to bring up
    cur,       \* the service being handed off
    cleaning,  \* whether the abort runs inside _safe_handoff's except block
    failed,    \* whether a handoff of this reload failed
    lapsed     \* whether the new container failed on its own after its verdict

schema == <<shot, migrated, cut>>
environment == <<spec, link, schema, recorded, saved, deploys>>
reload == <<mounts, todo, old, recreate, upTodo, cur, cleaning, failed, lapsed>>
vars == <<spec, link, cont, shot, migrated, cut, recorded, saved, deploys, mishaps, pc,
          mounts, todo, old, recreate, upTodo, cur, cleaning, failed, lapsed>>

Handoff == Labelled \ Ineligible

Slot == {1, 2}
Other(k) == 3 - k
Version == Nat

RunningStatus == {"starting", "healthy", "unhealthy"}
Status == RunningStatus \cup {"absent", "exited", "crashed"}
Container == [st : Status, spec : Version, mount : Version, drained : BOOLEAN]

OneShot == [image : Version, st : {"running", "done", "failed"}]

Absent == [st |-> "absent", spec |-> 0, mount |-> 0, drained |-> FALSE]
Fresh(s) == [st |-> "starting", spec |-> spec[s], mount |-> link[s], drained |-> FALSE]

\* The phases of one handoff, from the scale-up to the end of its clean-up.
HandoffPhase == {"scale", "find", "wait", "touch", "drain", "stop", "rm",
                 "cleanup", "abortStop", "abortRm"}
Phase == HandoffPhase \cup {"idle", "next", "recreate", "up", "save"}

Exists(s, k) == cont[s][k].st # "absent"
Running(s, k) == cont[s][k].st \in RunningStatus
UpToDate(s, k) == Exists(s, k) /\ cont[s][k].spec = spec[s]
Serving(s) == \E k \in Slot : cont[s][k].st = "healthy"
RunningSlots(s) == {k \in Slot : Running(s, k)}

new == Other(old[cur])

\* Mutant: a container coming back is left in a status compose does not list.
StartedRestarting(s, c) ==
    IF c.st \in RunningStatus THEN c ELSE [c EXCEPT !.st = "restarting", !.mount = link[s]]

\* Starting a container again resolves its bind mounts again; its files stay.
Started(s, c) ==
    IF c.st \in RunningStatus THEN c ELSE [c EXCEPT !.st = "starting", !.mount = link[s]]

TypeOK ==
    /\ spec \in [Service -> Version] /\ link \in [Service -> Version]
    /\ cont \in [Service -> [Slot -> Container]]
    /\ shot \in [Service -> OneShot] /\ migrated \in [Service -> Version]
    /\ cut \subseteq Service
    /\ recorded \in BOOLEAN /\ saved \in [Service -> Version]
    /\ deploys \in Nat /\ mishaps \in Nat
    /\ pc \in Phase
    /\ mounts \in [Service -> Version]
    /\ todo \subseteq Handoff /\ recreate \subseteq Service /\ upTodo \subseteq Service
    /\ old \in [Service -> Slot]
    /\ cur \in Service
    /\ cleaning \in BOOLEAN /\ failed \in BOOLEAN /\ lapsed \in BOOLEAN

Init ==
    /\ spec = [s \in Service |-> 0] /\ link = [s \in Service |-> 0]
    /\ cont = [s \in Service |->
                 [k \in Slot |-> IF k = 1 THEN [Absent EXCEPT !.st = "healthy"] ELSE Absent]]
    /\ shot = [s \in Service |-> [image |-> 0, st |-> "done"]]
    /\ migrated = [s \in Service |-> 0] /\ cut = {}
    /\ recorded = ~FirstRun /\ saved = [s \in Service |-> 0]
    /\ deploys = 0 /\ mishaps = 0
    /\ pc = "idle"
    /\ mounts = [s \in Service |-> 0]
    /\ todo = {} /\ recreate = {} /\ upTodo = {}
    /\ old = [s \in Service |-> 1]
    /\ cur = CHOOSE s \in Service : TRUE
    /\ cleaning = FALSE /\ failed = FALSE /\ lapsed = FALSE

------------------------------------------------------------------------------
(* What the reload is not in control of *)

Bounded == deploys + mishaps < MaxEvent

\* The versions a deploy may ask for where v is in place.
Choices(v) == IF MayRevert THEN 0 .. deploys + 1 ELSE {v, deploys + 1}

\* A switch activates new compose files and retargets the L+ links.
Deploy ==
    /\ pc = "idle" /\ Bounded
    /\ deploys' = deploys + 1
    /\ spec' \in [Service -> 0 .. deploys + 1]
    /\ \A s \in Service : spec'[s] \in Choices(spec[s])
    /\ link' \in [Service -> 0 .. deploys + 1]
    /\ \A s \in Service : IF s \in Mounted THEN link'[s] \in Choices(link[s])
                                            ELSE link'[s] = link[s]
    /\ <<spec', link'>> # <<spec, link>>
    /\ UNCHANGED <<cont, schema, recorded, saved, mishaps, pc,
                   mounts, todo, old, recreate, upTodo, cur, cleaning, failed, lapsed>>

\* Another activation moves a link while a reload is under way.
Relink(s) ==
    /\ pc # "idle" /\ Bounded /\ s \in Mounted
    /\ deploys' = deploys + 1
    /\ link' = [link EXCEPT ![s] = deploys + 1]
    /\ UNCHANGED <<spec, cont, schema, recorded, saved, mishaps, pc, reload>>

SetStatus(s, k, st) == cont' = [cont EXCEPT ![s][k].st = st]

\* The healthcheck's first verdict, a later one, or the exit of a bad container.
Report(s, k) ==
    /\ \/ /\ cont[s][k].st \in {"starting", "unhealthy"} /\ ~cont[s][k].drained
          /\ SetStatus(s, k, "healthy")
       \/ /\ cont[s][k].st = "starting"
          /\ \E st \in {"unhealthy", "crashed"} : SetStatus(s, k, st)
       \/ /\ cont[s][k].st = "healthy" /\ cont[s][k].drained
          /\ SetStatus(s, k, "unhealthy")
    /\ UNCHANGED <<environment, mishaps, pc, reload>>

\* Docker's restart policy brings back a container that exited by itself.
PolicyRestart(s, k) ==
    /\ cont[s][k].st = "crashed"
    /\ cont' = [cont EXCEPT ![s][k] = Started(s, @)]
    /\ UNCHANGED <<environment, mishaps, pc, reload>>

Mishap == Bounded /\ mishaps' = mishaps + 1

\* A container that was serving stops doing so, through no act of the reload.
Fault(s, k) ==
    /\ cont[s][k].st = "healthy" /\ Mishap
    /\ \E st \in {"unhealthy", "crashed"} : SetStatus(s, k, st)
    /\ lapsed' = IF s = cur /\ k = new /\ pc \in {"touch", "drain", "stop"} THEN TRUE ELSE lapsed
    /\ UNCHANGED <<environment, pc, mounts, todo, old, recreate, upTodo, cur, cleaning, failed>>

\* A migration completes; an older one leaves a newer schema as it is.
OneShotDone(s) ==
    /\ shot[s].st = "running"
    /\ shot' = [shot EXCEPT ![s].st = "done"]
    /\ migrated' = IF shot[s].image > migrated[s] THEN [migrated EXCEPT ![s] = shot[s].image]
                                                  ELSE migrated
    /\ UNCHANGED <<spec, link, cont, cut, recorded, saved, deploys, mishaps, pc, reload>>

\* What a stack restart leaves of a service: `compose down` removes everything,
\* `up -d` runs the one-shot and starts what does not wait for a failed one.
RestartedSchema(F) ==
    /\ shot' = [s \in Service |-> IF s \notin Migrating THEN shot[s]
                   ELSE [image |-> spec[s], st |-> IF s \in F THEN "failed" ELSE "done"]]
    /\ migrated' = [s \in Service |->
                       IF s \in Migrating \ F /\ spec[s] > migrated[s] THEN spec[s] ELSE migrated[s]]

\* The stack unit is restarted (`compose down`, then ExecStart's `up -d`), which
\* does not touch the state file.
StackRestart ==
    /\ pc = "idle" /\ Mishap
    /\ \E F \in SUBSET Migrating :
          /\ cont' = [s \in Service |->
                        [k \in Slot |-> IF k = 1 /\ s \notin F THEN Fresh(s) ELSE Absent]]
          /\ RestartedSchema(F)
    /\ UNCHANGED <<spec, link, cut, recorded, saved, deploys, pc, reload>>

------------------------------------------------------------------------------
(* The plan *)

\* The content each service's bind mounts resolve to.
Fingerprints == link

\* Services the dry run says `up -d` would recreate.
Changed(s) == \A k \in Slot : ~UpToDate(s, k)

Forced(s) == recorded /\ saved[s] # Fingerprints[s]

\* Mutant: plan() does not look at one-shot dependencies.
MigrationIgnored(s) == s \in Migrating /\ FALSE

\* A one-shot dependency whose container, completed or not, is not of the image
\* that the new spec names.
MigrationPending(s) == s \in Migrating /\ shot[s].image # spec[s]

PlannedHandoff(s) ==
    /\ s \in Handoff
    /\ Cardinality(RunningSlots(s)) = 1
    /\ Forced(s) \/ Changed(s)
    /\ ~MigrationPending(s)

Plan ==
    /\ pc = "idle"
    /\ pc' = "next"
    /\ mounts' = Fingerprints
    /\ todo' = {s \in Service : PlannedHandoff(s)}
    /\ recreate' = {s \in Service : Forced(s) /\ ~PlannedHandoff(s)}
    /\ old' = [s \in Service |-> IF PlannedHandoff(s) THEN CHOOSE k \in Slot : Running(s, k)
                                                     ELSE old[s]]
    /\ upTodo' = Service
    /\ failed' = FALSE /\ cleaning' = FALSE
    /\ UNCHANGED <<environment, cont, mishaps, cur, lapsed>>

\* The process ends, and what it knew goes with it.
Ends ==
    /\ pc' = "idle"
    /\ mounts' = [s \in Service |-> 0] /\ old' = [s \in Service |-> 1]
    /\ todo' = {} /\ recreate' = {} /\ upTodo' = {}
    /\ cur' = CHOOSE s \in Service : TRUE
    /\ cleaning' = FALSE /\ failed' = FALSE /\ lapsed' = FALSE

\* Reading the config, a build, a pull or the dry run fails: nothing is touched.
PlanFails ==
    /\ pc = "idle" /\ Mishap /\ Ends
    /\ UNCHANGED <<environment, cont>>

\* Services whose migration is under way.
Unfinished == {s \in Service : shot[s].st = "running"}

\* The process is killed, or an error nothing catches ends it.
Killed ==
    /\ pc # "idle" /\ Mishap /\ Ends
    /\ cut' = cut \cup Unfinished
    /\ UNCHANGED <<spec, link, cont, shot, migrated, recorded, saved, deploys>>

\* A migration fails, and with it the `up -d` that waits for it, if one still does.
OneShotFails(s) ==
    /\ shot[s].st = "running" /\ Mishap
    /\ shot' = [shot EXCEPT ![s].st = "failed"]
    /\ IF pc = "up" /\ s \in upTodo /\ shot[s].image = spec[s]
       THEN Ends /\ cut' = cut \cup Unfinished
       ELSE cut' = cut \cup {s} /\ UNCHANGED <<pc, reload>>
    /\ UNCHANGED <<spec, link, cont, migrated, recorded, saved, deploys>>

------------------------------------------------------------------------------
(* One handoff *)

Goto(phase) == /\ pc' = phase
               /\ UNCHANGED reload

NextHandoff ==
    /\ pc = "next"
    /\ \E s \in todo : cur' = s /\ todo' = todo \ {s}
    /\ pc' = "scale" /\ cleaning' = FALSE /\ lapsed' = FALSE
    /\ UNCHANGED <<environment, cont, mishaps, mounts, old, recreate, upTodo, failed>>

\* `up --no-recreate --scale`: containers that exist count and are started, a
\* missing one is created.
ScaledUp(s) ==
    [k \in Slot |-> IF Exists(s, k) THEN Started(s, cont[s][k]) ELSE Fresh(s)]

ScaleUp ==
    /\ pc = "scale"
    /\ cont' = [cont EXCEPT ![cur] = ScaledUp(cur)]
    /\ Goto("find")
    /\ UNCHANGED <<environment, mishaps>>

\* No container shows up beside the old one, although `up` reported success.
ScaleUpWithout ==
    /\ pc = "scale" /\ ~Exists(cur, new)
    /\ Goto("find")
    /\ UNCHANGED <<environment, cont, mishaps>>

FindNew ==
    /\ pc = "find"
    /\ IF Exists(cur, new) THEN Goto("wait") ELSE Goto("abortStop")
    /\ UNCHANGED <<environment, cont, mishaps>>

\* Mutant: a running container passes for a healthy one.
NewRunning ==
    /\ pc = "wait" /\ Running(cur, new)
    /\ Goto("touch")
    /\ UNCHANGED <<environment, cont, mishaps>>

NewHealthy ==
    /\ pc = "wait" /\ cont[cur][new].st = "healthy"
    /\ Goto("touch")
    /\ UNCHANGED <<environment, cont, mishaps>>

\* Mutant: the wait has no deadline.
NewFailedNoDeadline ==
    /\ pc = "wait" /\ cont[cur][new].st \notin {"healthy", "starting"}
    /\ Goto("abortStop")
    /\ UNCHANGED <<environment, cont, mishaps>>

\* Failed, or (still starting) past the deadline.
NewFailed ==
    /\ pc = "wait" /\ cont[cur][new].st # "healthy"
    /\ Goto("abortStop")
    /\ UNCHANGED <<environment, cont, mishaps>>

\* Best effort: a container that cannot be drained is stopped without it.
TouchDrainFile ==
    /\ pc = "touch"
    /\ \/ /\ cur \in Drains /\ Running(cur, old[cur])
          /\ cont' = [cont EXCEPT ![cur][old[cur]].drained = TRUE]
          /\ Goto("drain")
          /\ UNCHANGED mishaps
       \/ /\ cur \notin Drains \/ ~Running(cur, old[cur])
          /\ Goto("stop")
          /\ UNCHANGED <<cont, mishaps>>
       \/ /\ Mishap
          /\ Goto("stop")
          /\ UNCHANGED cont
    /\ UNCHANGED <<environment>>

\* The old container reports unhealthy, or the deadline passes.
Drained ==
    /\ pc = "drain"
    /\ Goto("stop")
    /\ UNCHANGED <<environment, cont, mishaps>>

\* Docker stops a running container for good, also one it keeps restarting.
Stopped(c) == IF c.st = "absent" THEN c ELSE [c EXCEPT !.st = "exited"]

StopOld ==
    /\ pc = "stop"
    /\ cont' = [cont EXCEPT ![cur][old[cur]] = Stopped(@)]
    /\ Goto("rm")
    /\ UNCHANGED <<environment, mishaps>>

RemoveOld ==
    /\ pc = "rm"
    /\ cont' = [cont EXCEPT ![cur][old[cur]] = Absent]
    /\ Goto("next")
    /\ UNCHANGED <<environment, mishaps>>

HandoffFails ==
    /\ pc' = "next" /\ failed' = TRUE
    /\ UNCHANGED <<mounts, todo, old, recreate, upTodo, cur, cleaning, lapsed>>

AbortStop ==
    /\ pc = "abortStop"
    /\ cont' = [cont EXCEPT ![cur][new] = Stopped(@)]
    /\ Goto("abortRm")
    /\ UNCHANGED <<environment, mishaps>>

AbortRemove ==
    /\ pc = "abortRm"
    /\ cont' = [cont EXCEPT ![cur][new] = Absent]
    /\ HandoffFails
    /\ UNCHANGED <<environment, mishaps>>

\* What the docker call of the present phase may have done when it fails.
CallEffects ==
    {cont} \cup
    (CASE pc = "scale"     -> {[cont EXCEPT ![cur] = ScaledUp(cur)]}
       [] pc = "touch"     -> IF cur \in Drains /\ Running(cur, old[cur])
                              THEN {[cont EXCEPT ![cur][old[cur]].drained = TRUE]} ELSE {}
       [] pc = "stop"      -> {[cont EXCEPT ![cur][old[cur]] = Stopped(@)]}
       [] pc = "rm"        -> {[cont EXCEPT ![cur][old[cur]] = Absent]}
       [] pc = "abortStop" -> {[cont EXCEPT ![cur][new] = Stopped(@)]}
       [] pc = "abortRm"   -> {[cont EXCEPT ![cur][new] = Absent]}
       [] OTHER            -> {})

\* A docker call of the handoff fails: _safe_handoff goes on to its clean-up.
CallFails ==
    /\ pc \in HandoffPhase \ {"cleanup"} /\ ~cleaning /\ Mishap
    /\ cont' \in CallEffects
    /\ pc' = "cleanup" /\ cleaning' = TRUE
    /\ UNCHANGED <<environment, mounts, todo, old, recreate, upTodo, cur, failed, lapsed>>

\* If the old container still runs the new one is removed; else it is left alone.
CleanUp ==
    /\ pc = "cleanup"
    /\ IF Running(cur, old[cur]) THEN Goto("abortStop") ELSE HandoffFails
    /\ UNCHANGED <<environment, cont, mishaps>>

\* A docker call of the clean-up itself fails.
CleanUpFails ==
    /\ pc \in {"cleanup", "abortStop", "abortRm"} /\ cleaning /\ Mishap
    /\ cont' \in CallEffects
    /\ HandoffFails
    /\ UNCHANGED <<environment>>

------------------------------------------------------------------------------
(* The rest of main *)

\* Mutant: a failed handoff does not end the reload.
HandoffsDoneRegardless ==
    /\ pc = "next" /\ todo = {}
    /\ Goto("recreate")
    /\ UNCHANGED <<environment, cont, mishaps>>

\* All handoffs were tried.  One that failed ends the reload without `up -d`.
HandoffsDone ==
    /\ pc = "next" /\ todo = {}
    /\ IF failed THEN Ends ELSE Goto("recreate")
    /\ UNCHANGED <<environment, cont, mishaps>>

InOneSlot(s, c) == [k \in Slot |-> IF k = 1 THEN c ELSE Absent]

\* `up --no-deps --force-recreate` replaces one of the services it was given.
ForceRecreate(s) ==
    /\ pc = "recreate" /\ s \in recreate
    /\ cont' = [cont EXCEPT ![s] = InOneSlot(s, Fresh(s))]
    /\ recreate' = recreate \ {s}
    /\ UNCHANGED <<environment, mishaps, pc, mounts, todo, old, upTodo, cur,
                   cleaning, failed, lapsed>>

Recreated ==
    /\ pc = "recreate" /\ recreate = {}
    /\ Goto("up")
    /\ UNCHANGED <<environment, cont, mishaps>>

\* `up -d` runs the one-shot a service depends on.  A completed one is run again
\* too, which is left out: it changes nothing.
UpOneShot(s) ==
    /\ pc = "up" /\ s \in upTodo \cap Migrating
    /\ shot[s].image # spec[s] \/ shot[s].st = "failed"
    /\ shot' = [shot EXCEPT ![s] = [image |-> spec[s], st |-> "running"]]
    /\ UNCHANGED <<spec, link, cont, migrated, cut, recorded, saved, deploys, mishaps, pc, reload>>

\* Once its one-shot has completed, `up -d` keeps one up-to-date container of a
\* service (starting it if need be) or replaces what is there.
UpService(s) ==
    /\ pc = "up" /\ s \in upTodo
    /\ s \in Migrating => shot[s] = [image |-> spec[s], st |-> "done"]
    /\ IF Changed(s)
       THEN cont' = [cont EXCEPT ![s] = InOneSlot(s, Fresh(s))]
       ELSE \E k \in Slot :
              /\ UpToDate(s, k)
              /\ cont' = [cont EXCEPT ![s] = [j \in Slot |->
                            IF j = k THEN Started(s, cont[s][j]) ELSE Absent]]
    /\ upTodo' = upTodo \ {s}
    /\ UNCHANGED <<environment, mishaps, pc, mounts, todo,
                   old, recreate, cur, cleaning, failed, lapsed>>

UpDone ==
    /\ pc = "up" /\ upTodo = {}
    /\ Goto("save")
    /\ UNCHANGED <<environment, cont, mishaps>>

SaveState ==
    /\ pc = "save"
    /\ recorded' = TRUE /\ saved' = mounts
    /\ Ends
    /\ UNCHANGED <<spec, link, cont, schema, deploys, mishaps>>

------------------------------------------------------------------------------

HandoffStep ==
    \/ ScaleUp \/ ScaleUpWithout \/ FindNew \/ NewHealthy \/ NewFailed
    \/ TouchDrainFile \/ Drained \/ StopOld \/ RemoveOld
    \/ AbortStop \/ AbortRemove \/ CallFails \/ CleanUp \/ CleanUpFails

MainStep ==
    \/ NextHandoff \/ HandoffsDone \/ Recreated \/ UpDone \/ SaveState
    \/ \E s \in Service : ForceRecreate(s) \/ UpOneShot(s) \/ UpService(s)

ReloadStep == HandoffStep \/ MainStep

ContainerStep == \E s \in Service :
    \/ OneShotDone(s) \/ OneShotFails(s)
    \/ \E k \in Slot : Report(s, k) \/ PolicyRestart(s, k) \/ Fault(s, k)

Next ==
    \/ Deploy \/ StackRestart \/ Plan \/ PlanFails \/ Killed
    \/ \E s \in Service : Relink(s)
    \/ ContainerStep
    \/ ReloadStep

Spec == Init /\ [][Next]_vars

\* The docker calls of the handoffs go through run(), which has a timeout, and
\* their waits have deadlines, so a handoff that has something to do next does it.
\* Force-recreate and the final `up -d` have neither: nothing is asked of them.
FairSpec == Spec /\ WF_vars(HandoffStep \/ NextHandoff \/ HandoffsDone)

------------------------------------------------------------------------------
(* Properties *)

\* The old container of a handoff is stopped only beside a new one that was found
\* healthy: no step of handoff(), _drain(), _abort() or _safe_handoff() takes a
\* service whose old container is healthy to one that nothing serves, unless the
\* new one failed on its own after that, which no program could prevent.
OldServesUntilNewHealthy ==
    [][\A s \in Service :
         (pc \in HandoffPhase /\ pc' # pc /\ s = cur /\ cont[s][old[s]].st = "healthy")
            => Serving(s)' \/ lapsed]_vars

\* What the module's docstring promises: "nothing that was serving stops serving".
\* No step of a handoff, clean-up included, takes a service from having a healthy
\* container to having none.
NothingServingStops ==
    [][\A s \in Service : (pc \in HandoffPhase /\ pc' # pc /\ s = cur /\ Serving(s))
                             => Serving(s)']_vars

\* A container on outdated mounted config is never one the state file calls
\* current: mounts_changed() of the next reload will see it.
NoSilentDrift ==
    recorded => \A s \in Service, k \in Slot :
        (Running(s, k) /\ cont[s][k].mount # link[s]) => saved[s] # link[s]

\* "`up -d` ... runs the one-shot first" (changed_oneshots): no container of a
\* service exists on a version whose migration has not completed.
MigrationAlwaysFirst ==
    \A s \in Migrating, k \in Slot : Exists(s, k) => cont[s][k].spec <= migrated[s]

\* So it is as long as no migration of the service has failed or outlived its
\* `up -d`, however many handoffs, reloads and restarts end half-way elsewhere.
MigrationFirst ==
    \A s \in Migrating \ cut, k \in Slot : Exists(s, k) => cont[s][k].spec <= migrated[s]

\* The handoffs of a reload come to an end, whatever the containers do: no wait on
\* a container is unbounded.
HandoffsEnd == (pc \in HandoffPhase \cup {"next"}) ~> (pc \notin HandoffPhase \cup {"next"})

=============================================================================
