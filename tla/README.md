# Specifications of krg-infra

TLA+ specifications of the programs in this repository that act over time:
what they do to each other, to the people and services beside them, and to
themselves when a step fails. TLC checks them on small instances; TLAPS proves
the theorems for every instance.

    tlc -workers 2 -config ComposeReload_safe.cfg MCComposeReload
    tlapm ComposeReloadProofs.tla

`PROJECT.json` lists the runs, which lines of the repository each definition
stands for, what can go wrong where (hazards), and the theorems.

## 1. The system

The repository is the infrastructure of a lab: NixOS hosts, a NAS, an Incus
tenant platform, Active Directory, OpenBao, Authentik. Most of it is
declarative (Nix, OpenTofu, Ansible) and has no behaviour of its own. What does
behave:

| Part | State it keeps | Operations | Talks to | What is hard | What makes it correct |
|---|---|---|---|---|---|
| compose-reload (`nix/modules/services/compose-stack*`) | containers, state file of config fingerprints | plan, handoff, drain, abort, clean-up, recreate, final `up` | docker, systemd, the deploy | containers change on their own between any two calls; calls fail with or without effect; the reload is killed; config moves under it | something healthy serves throughout; outdated config is always noticed later; migrations come first; it ends |
| scratch tier (`nix/modules/scratch*`) | local files, symlinks, cold copies | nightly sweep (archive), restore | users editing, renaming and deleting the same files | no locks; two restores and a sweep at once; kills | every path gives what its user last left there |
| roster sync queue (`authentik-ldap-sync/*`, `roster-authentik-sync.nix`) | two marker files, a service unit, tasks in Authentik | mark, take, sync, wait, remove, restart | roster backend, Authentik, deploy | a change during a sync; a sync that skips; dead workers with live tasks | no change is dropped; the last one is served |
| phased deploy (`.github/workflows/deploy.yml`, `deploy/*self*`) | runs in a concurrency group, generations of hosts, the control node's unit and runner | gate, phases 0 to 4, self-update, watch, verify | CI, main, nightly pulls, hand-started deploys | CI completes in any order; main moves; the deploy stops its own runner half-way | green commits only, forwards, dependencies first, once; it ends |
| secret rendering (`vault-agent.nix` and its consumers) | files on /run, agent unit, what each process has read | render, reload, restart, renew, boot | OpenBao, deploy, compose stacks | one agent restart sets off stops, starts and reloads; OpenBao is sealed; certificates expire | nothing runs on a missing or expired secret; changes reach processes; outages hurt nothing that runs |
| host deploy (`deploy-nixos.sh`, `lib.sh`) | each host's generation, OEC archive, secret-id, units | select, stage, switch, judge exit 4, restart the agent, re-render | the DC's DNS, OpenBao, systemd | the host being switched may be the one names resolve through; units that fail and recover; a push cut short | a deploy that says OK is one; the next one repairs what this one left |
| OpenTofu phase (`deploy-tofu.sh`) | encrypted state, generated secrets | login, credentials, import, secret guard, apply | OpenBao | a plan that is not the one applied; an apply that stops half-way | a secret is generated once |
| fleet reboot (`reboot-fleet.sh`) | boot ids | reboot one by one | ssh, the same concurrency group | the proof of a reboot is indirect; OpenBao comes back sealed | one host at a time |
| Outline group sync (`outline-group-sync/*`) | groups and memberships in Outline | read list after list, plan, apply call by call | Authentik, its LDAP sync, Temporal, people | a snapshot over many lists; partial application; lost answers; retries | one directory per plan; foreign groups stay; it converges |
| the NAS play (`deploy-ansible.sh`, `synology_*`) | accounts, sshd, firewall, VPN, certificates, Garage | about a hundred tasks, each "read, compare, set" over several calls | DSM, docker, Let's Encrypt, OpenBao | what is stored is not what runs; a play stops anywhere; DSM and administrators change it | nobody is locked out; a good play means what runs is what git says; repeated plays converge |

Other parts are sequential convergers with one writer (AD, the NAS roles that
compare one settings object and set it), read-only tools (drift detector, CVE scan, deploy-verify) and
declarative configuration. `PROJECT.json` lists them all with the reason they
are left out.

How they interact: `deploy.yml` runs `deploy-nixos.sh` on each host; the switch
reloads changed compose stacks (compose-reload) and may restart the OpenBao
agent, which the script restarts once more; the agent's reload commands reload
the stacks again; OpenTofu phases need groups that a sync of Authentik (the one
the roster's queue competes with) has brought in; the same concurrency group
orders deploys and reboots; nightly pulls and the nightly NAS play are in no group.

## 2. Modules

| Module | What it is |
|---|---|
| `ComposeReload`, `MCComposeReload` | one stack under compose-reload |
| `ComposeReloadProofs` | types; the old container serves, migrations come first, the state file is right |
| `ScratchTier`, `MCScratchTier` | sweep, restores and users on one pool |
| `ScratchTierProofs` | types; nothing is lost |
| `SyncRequests` | abstract: what the roster is promised about Authentik |
| `SyncQueue`, `MCSyncQueue` | the queue on krg-prod, implementing `SyncRequests` |
| `SyncQueueProofs` | types, no dropped request, the step refinement |
| `FleetDeploy`, `MCFleetDeploy` | CI, gate, phases, self-update |
| `FleetDeployProofs` | types, the barrier, green only, never backwards, in order, to the end, once |
| `SecretRender`, `MCSecretRender` | the agent, its consumers, time |
| `SecretRenderProofs` | types; fails closed; what is rendered reaches who reads it; nothing expires |
| `OutlineGroupSync`, `MCOutlineGroupSync` | the activity, LDAP syncs, people in Outline |
| `OutlineGroupSyncProofs` | types; one directory per plan, foreign groups kept, one group each |
| `FleetHosts` | the hosts as the scripts see them: names, OpenBao, the member's agent |
| `HostDeploy` | `deploy-nixos.sh`, `deploy-rerender-secrets.sh` |
| `TofuPhase` | `deploy-tofu.sh` |
| `FleetReboot` | `reboot-fleet.sh` |
| `ControlNode` | composes the three: the deploy's legs, the reboot, an operator |
| `ControlNodeProofs` | types; live secrets are kept; one host at a time; green means green |
| `NasTask` | one play: its order, how it ends |
| `NasAccess`, `NasVpn`, `NasCertificate`, `NasGarage` | what the roles' tasks do, and what else happens there |
| `NasPlay` | composes them: play after play on one NAS |
| `NasPlayProofs` | types; nobody locked out; no dead credential; bounded issuance; what a good play leaves |

Conventions. A version, a commit or a change is a number in the order of its
making. Counters of the environment's events (failures, deploys, rotations, ...)
have bounds named `Max...` in the guards; they bound the environment, never the
program. Definitions whose comment starts with "Mutant" are variants with a
plausible mistake, used to test that a property can fail; no specification
uses them.

### ComposeReload

`spec` and `link` are what the compose file and the links ask for, `cont` the
containers of each service (two slots are all a handoff makes), `saved` the
state file, the rest the reload's local variables. Each `docker` call is an
action; `CallFails` and `CallEffects` make it fail with or without its effect,
`Killed` ends the reload at any point. `_safe_handoff` maps to `HandoffFails`,
`CleanUp`, `AbortStop`, `AbortRemove`; `main` to `Plan`, `NextHandoff`,
`HandoffsDone`, `ForceRecreate`, `UpOneShot`, `UpService`, `UpDone`, `SaveState`.
`Report`, `PolicyRestart` and `Fault` are docker's and the containers' own. A
migration is the container of a one-shot (`shot`), which `UpOneShot` creates and
`UpService` waits for; it completes (`OneShotDone`) or fails (`OneShotFails`) in its
own time, also after the `up -d` that waited for it was killed or failed.
`changed_oneshots` is `MigrationPending`: it looks at that container's image only.
`cut` (services whose migration failed or outlived its `up -d`) and `lapsed` (the new
container failed on its own after the verdict on it) are history.
Left out: services added or removed by a deploy, `--dry-run`, image pulls, a
call whose effect comes after its failure was reported.

### ScratchTier

`local` is what is at each path (file, symlink, nothing), `cold` the archive,
`want` what the user of a path last left there. `archive_one` is `ArchiveStart`
(stat), `ArchiveCopy`, `ArchivePublish`, `ArchiveCheck` (stat again),
`ArchiveSwap`; `restore_one` is `RestoreStart` to `RestoreUnlink`. Users write,
replace, delete, rename and read between any two steps. Four things users may
do that the programs' checks cannot or do not see are named in the constant
`Races` (section 6). A directory rename is that of the links in it. Owners,
modes, the manifest and the note to users are left out.

### SyncRequests and SyncQueue

`SyncRequests` says: changes are served in order, several at once perhaps, and
the last one is. `SyncQueue` has the roster backend (change, then mark), the
path unit and service (`PathTriggers`, `Restart`), `worker.sh` (`TakeRequest`,
`RemoveProcessing`), `run-sync.py` (`SendTask`, `TaskSucceeded`, `TaskFailed`)
and Authentik's one-sync-at-a-time (`TaskStarts`, `SyncReads`, `SyncEnds`,
`SyncErrors`). Its refinement is `made <- directory`, `served <- synced`.

### FleetDeploy

GitHub's side: `Push`, `CICompletes`, `CIRerun`, `ForeignCICompletes`,
`Dispatch`, the group (`Queue`, `RunStarts`). `Gate` reads what the gate's job
reads. A phase is one action, `SwitchHosts` one per host. The control node:
`SelfUpdate` starts the unit, which goes through its delay (`StopRunner`), the switch
(`SwitchActivates`, `SwitchReturns`, or `SwitchFails` before anything is activated), and
gives the runner back (`StartRunner`, `UnitExits`); the new system wants the runner
too, so the switch may itself start it with other units still to come
(`SwitchStartsRunner`). The watcher has three outcomes, `SeesOffline`,
`MissesOffline`, `SeesOnline`. Phases 1 and 3 may end with success over a leg or a
target that their script left out (`GotoSkipping`: the NAS without its
credentials, a target without its AppRole, certificate or directory); the run
records that in `skips`, which is history. The phases that only warn (2.7, 2.9,
3.5, 3.6) change nothing the properties speak of and are left out; what happens
inside one host is the subject of other modules.

### SecretRender

A tick is one interval of the renewal timer. `file` is what is on /run, `mem`
what each process has read: a KV secret is its version, a certificate its tick
of issue. A restart of the agent is `RestartAgent`; systemd's part in it is that
consumers with `requires` are stopped first and get a start job, those with
`failClosedOn` are left alone. `Command` is a reload command, `Reload` the
compose reload (or `docker restart`) it asks for. `Tick` waits until the last
tick's restarts have settled: an hour is long compared with them. OpenBao's
outages last at most `MaxOutage` ticks in a row, each tick that it touches
counted.

### OutlineGroupSync

`dir` is Authentik's copy of the directory, which an LDAP sync rewrites group by
group (`LdapBegin`, `LdapWrite`, `LdapDone`, `LdapFail`); `og` is Outline, which
people edit meanwhile. `reconcile` is `Begin` (the first status read), one `Read...`
per API list, `Verify` (the second status read and `plan_sync`), `Apply` per
operation, `Finish`. `Abort` is a `SyncError`, `Crash` a timeout, a dying worker or
the network, `ApplyLost` a call that took effect with its answer lost; each ends
the attempt, and the next starts from nothing. `Plan` and `Refused` are
`plan_sync`, a pure function of what was read; `made` is what the run has created
so far. People create, rename and delete groups between any two of these steps,
and others claim groups or let go of them (`PeopleClaim`). `good` (every directory
that a successful sync left) is history. The order of operations that have no order in the code's plan is left
open. Left out: paging inside a list, duplicate e-mail addresses (one more reason
for `Abort`), rate limits.

### FleetHosts, HostDeploy, TofuPhase, FleetReboot, ControlNode

Three hosts that differ in what depends on them: the DC (names), the vault
(OpenBao), a member (an agent and services that need secrets). `Reach` and
`OpenBao` say what follows when one is down or has a generation in `Breaks`.

`HostDeploy` walks `todo` through the steps `oec`, `zero`, `switch`, `judge`,
`agent`: `StageOec`; `StageSecretZero`, `NoSecretZero`, `PushCut` (the file is
emptied before it is written); `Switch`, `SwitchExit4`, `SwitchLooksLike4`;
`Excused` and `NotExcused` (`switch_exit4_recovered`); `HostDone`. `StepFails` ends
the script at any of them.

In `TofuPhase` a secret is the two resources it is in `terraform/secrets`: the
random value and the entry that writes it to OpenBao. `Guard` compares the plan
with OpenBao; `GuardBlind` is a guard whose plan, `jq` or lookup failed; `ApplyFails`
leaves every value drawn and any part of the entries written. `mode` is how the
script was called: by the deploy or by hand with its variables set.

`HostDeploy` is started for a stretch of `ORDER`, which is what both phases of the deploy
select: the foundation (the DC and the vault), and the member.

`FleetReboot` reads the boot id, issues the command, and waits for another boot
id; `GoesDown` and `Boots` are the host's.

`ControlNode` starts the scripts in the order of `deploy.yml` (`Phases`), one job at
a time, and adds pushes, unsealing, units that are restarted, an operator's
`deploy-tofu.sh`, a state that loses a secret, and each host's own pull of main at
night (`NightlyUpgrade`), which is in no concurrency group and comes at any moment
of a script. `clean` (nothing failed or went on beside the deploy but pushes) and
`excuses` are history: what the properties make an exception for. Left out: everything about *which*
commit (that is `FleetDeploy`), diagnostics, garbage collection.

### NasTask, NasAccess, NasVpn, NasCertificate, NasGarage, NasPlay

A play is the sequence `Order` of tasks; the first that fails ends it
(`Failed`, `Faulted`), and `Settled` says that the last one ended well and nothing
was touched since it began. A role's module has one action per task that changes
state, one for each way it may fail half-way, and the events that change the
same state from outside: `NasAccess` (accounts, keys, sshd's files and its daemon,
the firewall's stored and live profile, the domain), `NasVpn` (package,
configuration, OpenVPN, vpnauthd and its site file), `NasCertificate` (certificates
in the order of their expiry, with dates that may not parse, default, bindings,
DSM's own renewals), `NasGarage` (the create-once credentials of the control node, `garage.toml`, the container,
layout, buckets, keys, files, the web interface). In each, what is *stored* and
what *runs* are different fields. `NasPlay` runs play after play, with events,
boots and a failing call anywhere.

Plays can overlap: the nightly timer of the control node and phase 1 of the deploy
share no lock. One play is followed step by step. Of a second one beside it the
model has the two things that a converging task of the first does not make
harmless: it looks whether a certificate is due (`LateLook`) and asks for one some
time after (`LateIssue`), and it puts into OpenBao a credential that it found
missing before (`LatePut`); `mine` is therefore the credential the followed play was
given, which need not be what OpenBao has by then. The second play's other tasks
are left out (section 6).

Data is abstracted to what the comparisons see: a configuration is "as in the
spec" or a version; a credential is a number of its key; a set of names is 0 or 1.
The VPN role runs before the certificates' roles, so the first play publishes a
client file with the NAS's own chain and the next one replaces it. Left out:
homes of domain users (no other task reads whether they are on), terminal
settings, autoblock, GeoIP, and the roles that compare and set one object.

## 3. Runs

| Run | Shows |
|---|---|
| `compose_safe` | `OldServesUntilNewHealthy`, `NoSilentDrift`, `MigrationFirst`, `HandoffsEnd` with any three of: deploys, links that move under a reload, failed calls, kills, stack restarts, failed migrations, healthy containers that fail on their own |
| `scratch_lost` | `NothingLost`: two files, two restores, two sweeps, three writes, one kill |
| `sync_promise` | `NoRequestDropped` and the refinement `KeepsPromise`, liveness included, with four changes, three failures, two foreign syncs |
| `fleet_gate` | `ExactlyOnce`, `NoDowngrade`, `DependenciesFirst`, `FinishedMeansConverged`: two commits, two workflows, a re-run, a foreign run, a failure anywhere, phases that skip with success |
| `fleet_self` | `PostOffSwitch` and `RunEnds` with a switch that fails or gives the runner back before it returns, missed polls, a nightly pull and a hand-started deploy |
| `secrets_delivery` | `NeverEmpty`, `Delivered`, `NeverExpired` over the life of a certificate, with a rotation, a deploy, a boot and outages |
| `outline_mirror` | `OneDirectory`, `ForeignKept`, `OneGroupEach`, `Converges`: an LDAP sync and two edits or claims of groups between any two reads or calls, a lost answer or a crash |
| `nas_converge` | `NeverLocksOut`, `Honest`, `VpnServes`, `CertServed`, `BoundedIssuance`, `KeysUsable`, `NoDeadFile`, `Converges`: two events from outside (late calls of a second play and unreadable dates among them) and a failing call anywhere, from a factory NAS |
| `host_deploy` | `OneDown`, `Green`, `LiveKept`, `Converges`: three commits, the second of which breaks DNS, a failing call, and two of: a reboot that seals OpenBao, a host's nightly pull, a lost secret, an operator's run |
| `compose_migrate`, `nas_join`, `tofu_adopt` | violations, section 5 |

Each passing run checks its module's `TypeOK` too, or another run of the module
does. Deadlock is checked in the runs of `NasPlay` and `ControlNode`, where the next
play or deploy always comes; the other systems may come to rest when the bounded
events of their environment are used up, and their runs do not check it.

**Bounds.** Handoffs of one service are independent of another's except through
the one state file and the one result of a reload, so two services show what
can go between them; a third adds none of either. Three events in all let config
move again under a reload with a mishap to come, or the clean-up of a failure fail
itself in a reload that has something to hand off. Two paths and two restores are what a name can be
confused with and what can race for one cold copy; three writes allow a
version in the archive, one in the file and one meanwhile. Two commits with
two workflows give every order in which siblings complete and in which a
newer commit overtakes an older; both foundation hosts and a system give a
host before and after each other one. A certificate lives for ten ticks with a
window of 33 %, three checks, one more than an outage may disturb. Outline
starts with one group of each kind that `plan_sync` tells apart, and two LDAP
groups, so that a rename can make one look like the other; two edits are what it
takes for a rename and a new group to change places. On the NAS two events and
one failing call let an event hit the gap a failure left and another the play
that repairs it; two keys let a failure fall between one and the other. On the
control node one failing call, two of the things that happen beside a deploy (with
three of them, `MaxAside = 3`, the run takes five times as long and holds as well), and
a commit that breaks the DC in the middle of three, so that the repair is deployed
through what is broken.

**Fairness.** `HandoffsEnd`: weak fairness of the steps of a handoff, each a
docker call through `run(..., timeout=...)` or a wait with a deadline. The
force-recreate and the final `up -d` have no timeout (compose-reload.py:551-559), nor
has the unit, so nothing is asked of them and nothing is claimed about the end of a
reload. `KeepsPromise`: weak fairness of the worker (systemd starts and restarts it:
`Restart=on-failure`, no start limit), of the path unit and of Authentik's task
runner; failures are bounded in number, as no queue serves a request if every sync
fails. `RunEnds` and `GreenHeadDeployed` (section 5): GitHub starts a waiting run, jobs
make progress or fail (GitHub's limit of six hours), CI runs end, and `systemctl stop`
and `nixos-rebuild switch` of the self-update unit return, which is an assumption: the
unit is a oneshot without a start timeout. `Converges` of `OutlineGroupSync`: the schedule
starts a workflow every five minutes and Temporal retries the activity, whose calls
have timeouts; that LDAP syncs end up healthy is a hypothesis of the property.
`Converges` and `Enrolls` of `NasPlay`: the only fairness is that a play begins when none
runs (the nightly timer). That plays end is a hypothesis (`[]<>Idle`), since not every
call of theirs has a timeout (apply_garage.py:238-255, apply_vpn.py:162,
apply_ssh.py:321 and :336, the calls through synowebapi) and neither the timer's unit nor the job
sets one. `Converges` of `ControlNode`: that deploys keep being started is a hypothesis
(`[]<><<StartDeploy>>_vars`), since only green CI or a person starts one and nothing
retries (deploy.yml:31-35, 44-48). The fairness is that a script goes on, by a failing call if nothing
else (GitHub cancels a job after six hours, an operator his own), that hosts boot,
systemd restarts a waiting unit (`Restart=`), and somebody unseals OpenBao
(`openbao-bringup.md`): no program does.

**Mutants.** For each property `PROJECT.json` names a mutant of the model, a
plausible mistake in the code, under which TLC finds the property violated.

## 4. Theorems

All theorems hold for every value of the constants that satisfies the modules'
`ASSUME`s: any number of services, changes, deploys, failures. Most `ASSUME`s say no
more than what the constants are. Those that say more: `Order` names no host twice
(`FleetAssumption`); the clock of `SecretRender` has at least one tick; the markers
`Absent`, `Gone`, `Local` and `Other` are told apart from groups and ids (`Distinct`), and
Outline does not start with two groups of one LDAP group (`StartsAssumption`).

Every safety invariant and every action property of the passing runs is a
theorem, some under conditions, which are named below, and so is the safety half
of the refinement.

* `ComposeReloadProofs!TypeCorrect`, by induction, one lemma each for the
  environment's steps, the handoff's and `main`'s.
* `ComposeReloadProofs!OldServes`, without conditions; a new container that fails
  on its own between the verdict on it and the end of the old one is the property's
  exception (`lapsed`), since no program could prevent that. It is not inductive: the
  verdict is several steps before the old container is stopped. The invariant
  `HandoffInv` adds that from the verdict to the stop the new container is healthy
  unless it lapsed (`NewServes`), that it is not the one being drained
  (`NewNotDrained`: a drain file makes a container's healthcheck fail, so it must not
  be in the new one), and that a stopped old container stays stopped until removed
  (`OldStopped`). The lemmas go by who takes the step: a container
  (`HandoffInvContainer`), the handoff (`HandoffInvHandoff`), anything else
  (`HandoffInvElsewhere`).
* `ComposeReloadProofs!MigratesFirst`, if no service that has a migration mounts
  config, and for services whose migrations neither failed in an `up -d` nor outlived
  it (`cut`); section 5 shows why both. `MigrationInv` adds what makes the
  comparison of images enough there (`OneShotInv`): a one-shot that is not cut runs
  only while an `up -d` waits for it, and one that failed as the stack came up has left
  no container to hand off; that what is being handed off has its migration behind it
  (`MigratedBefore`); and that what is force-recreated mounts config, so it has no
  migration to skip (`OnlyMounted`).
* `ComposeReloadProofs!DriftIsSeen`, with a state file from the start
  (`FirstRun = FALSE`: without one the first reload records what it has nothing to
  compare with) and no deploy that brings an earlier version back (`MayRevert =
  FALSE`, section 5). The state file is written once, at the end, so the invariant
  `DriftInv` has to carry the fact through the whole reload: unless a handoff
  failed, a service whose mounts this reload has read and which are still the
  present ones is clean, or still to be handed off or recreated (`Replaced`); what
  stands beside an old container was started on them (`BesideClean`); a failed
  handoff never gets as far as `save` (`PhaseOrder`). A link that moves meanwhile
  makes a version that no fingerprint equals (`PastDeploys`).
* `SyncQueueProofs!TypeCorrect`, `NothingDropped`, `StepsKeepPromise`: from one
  invariant `IInv`. `Marker` ties the worker's state to the marker files,
  `Order` says what a sync has read lies between what is shown and what is, and
  `Coverage` that whatever change is neither announced nor in work is in
  Authentik, or in the sync being waited for. The last theorem is the safety
  half of the refinement; its liveness half is `sync_promise`.

* `FleetDeployProofs!TypeCorrect`, and `PostJobsOffSwitch` with no condition at
  all: a job of `deploy-post` may run while the new system's units are still starting,
  since the switch may give the runner back by itself, but not before that system is
  active. Its invariant `Barrier` says that the runner is away while the unit has yet
  to activate, that it is there while the unit is idle or in its delay, and that
  during the delay no run has seen the runner leave or is past the watcher.
* `FleetDeployProofs!OnlyGreen` if nobody starts a deploy by hand
  (`MaxDispatch = 0`): by `NotByHand` no request then asks about another commit
  than the one it deploys, so what passes the gate is main's head (`GatePasses`).
* `FleetDeployProofs!NeverBackwards` if also no host pulls main at night
  (`MaxNightly = 0`). `Forward` says that the fleet is nowhere ahead of main nor of
  the deploy under way; `NextWrites` that only the deploy under way writes and
  only the gate puts one there. Section 5 shows both conditions to be needed.
* `FleetDeployProofs!FinishConverges` and `InOrder`, if no host pulls main at night
  (`MaxNightly = 0`; a nightly pull keeps to no order and may move a host on).
  Both speak of what the scripts did not leave out: what they skipped with success is
  recorded in `skips` and excepted. `Walked` says what each phase has behind it; that systems run on a control node
  that has finished its switch comes from `Barrier`.
* `FleetDeployProofs!DeployedOnce`, with no condition: one deploy for the first time
  a commit's CI ran, one for each CI run started again, one for each deploy started
  by hand. `OnceInv` is an account (`Budget`): what has passed the gate (`attempts`),
  what is at it or waits for it, and what a CI run that still runs may ask for,
  is never more than has been paid for (`Spare`). A completed CI run that waits is the
  last one to have completed for its commit, so of two siblings only one can pass;
  the waiting run that another replaces gives back what it had.
* `SecretRenderProofs!NothingEmpty`, without conditions. `EmptyInv` adds to
  `NeverEmpty` that what the agent has rendered is there: in a run the files it is
  done with, all of them once it is active or a consumer runs.
* `SecretRenderProofs!RotationDelivered`, if runs of the agent are not cut short
  (`MayCut = FALSE`) and reloads work (`MaxFail = 0`); section 5 shows that both are
  needed. `PendingInv`: what a running consumer has not read yet is in a reload
  job or in the commands still to come, which exist only while the agent runs; and
  units that require the agent run only while it is active.
* `SecretRenderProofs!NothingExpires`, under the conditions of `RotationDelivered` and
  one about the numbers, which is what "comfortably exceed" (vault-agent.nix) comes to:
  the renewal window is longer than the longest outage and one round of the timer.
  `FreshInv` counts what is left of a certificate in a file or in a process: at least
  the window, less the ticks of the present outage. `RenderTyped` is the type
  invariant, without conditions.
* `OutlineGroupSyncProofs!PlansFromOneDirectory`. The invariant says that while the
  status still equals the one of the first read, the directory does not change
  and is one that a successful sync left, and what was read so far is read from it.
* `OutlineGroupSyncProofs!ForeignGroupsKept`, `OneGroupForEach` and `SyncTyped`. `GroupInv`
  says how each Outline group stands to the snapshot the plan was made from
  (`Known`): it is the one that was read, renamed at most (`Same`); or the run has
  adopted it (`Adopted`) or created it (`Created`, and then that create is no longer
  among the operations to come); or people made it since (`Since`), with no LDAP
  group's `externalId`. A lost answer or a crash ends the run, and the next one
  finds what was created. What a step may do to two groups at once is then a
  case for each pair of these. `ForeignGroupsKept` is about groups that were somebody
  else's when the run read them, or that it neither read nor created: one that is
  claimed between the read and the calls still gets this run's calls (section 5).
* `ControlNodeProofs!LiveSecretsKept`. `LiveInv` is types (`Data`), `Kept`
  (without an excuse the data was created with the version that OpenBao has, and
  an entry in the state is that of OpenBao) and `Holding` (what the guard saw is
  still so when the apply comes, and nobody else runs OpenTofu meanwhile).
* `ControlNodeProofs!OneHostAtATime`, for one run of `reboot-fleet.sh`
  (`MaxReboots` 0 or 1). `RebootInv`: while the script runs every host but the first
  of `todo` is up, and that one too as long as its reboot is not issued or once it
  has booted. A second run may start while a host the first gave up on is still
  booting.
* `ControlNodeProofs!GreenMeansGreen`, without conditions. No host is behind the
  deploy's commit, whatever it pulls by night meanwhile; that it is at exactly that
  commit is promised if nothing failed or went on beside the deploy but pushes
  (`AtCommit`; `CommitKept` is why a host that was at the commit stays so). `GreenInv` is what each leg
  of the deploy leaves behind (`Progress`), what the running one has done so far
  (`Underway`), and which script, on which hosts, a leg runs (`LegRuns`). The
  exceptions are `Green`'s own: something from outside (`clean`), and a look at the
  configuration that failed (`"eval"`).
* `ControlNodeProofs!ControlTyped`. Its `Bounded` says that no secret, wherever it is
  held, is newer than the newest one generated.
* `NasPlayProofs!NobodyLockedOut`. `AccessInv` ties the place in the play to what
  the tasks before it have left: `Progress` (the account, its key) and `Ruled` (a
  firewall that is on has rules, stored and loaded).
* `NasPlayProofs!NoDeadCredential`: a file gets a credential in the step that
  imports it, or later.
* `NasPlayProofs!IssuanceBounded`. `CertInv`: whatever may make the role ask again
  has been counted as a reason (`Counted`), which speaks of the best certificate
  (`IsBest`); there is one (`Topped`), and what expires first is due first (`Aged`), where
  an expiry that does not parse counts as the first (`Below`). `Owed` is what has been
  asked for and what a second play still is to ask for: that one was counted when it
  looked, so its late request is paid for. A lost answer costs nothing, because the
  certificate is there in the next play.
* `NasPlayProofs!VpnIsServed`, `OneCertServed`, `KeysAreUsable`, `StoredIsRunning`: what
  holds after a good play that nothing disturbed. Each has an invariant about what
  a task leaves once an undisturbed play is past it (`Passed`, in `VpnDone`, `CertDone`,
  `ServerDone`; in the last, that the play's own credentials are still those of OpenBao), and one about what holds at any time and makes the task's
  comparison right: a daemon that is not older than its site file has read it
  (`Fresh`); the certificate the role keeps is one of the best (`CertInv`); unless a
  task failed since the last boot, what runs is what is stored (`DoorsHonest`,
  `UiHonest`).
* `NasPlayProofs!NasTyped`. That a number is always left for one more certificate
  (`CertRoom`) or credential (`IdRoom`) is an account of events and faults; without it
  the bounds of the model would cut off behaviours.
* `ScratchTierProofs!TypeCorrect`, and `NothingIsLost` if `Races = {}`. `LostInv` is about
  a path (`PathInv`: it holds what its user left, at most one link leads to its
  cold copy, and a path the sweep has listed or works on has neither link nor
  restore), about what `archive_one` has established at each step (`ArchInv`) and
  what a restore has (`RestInv`: the link is there, or another restore was there
  first and the file is hot). That the sweep and the restores never meet at a path
  is the heart of it, and it is nowhere in the code as a lock: the sweep takes
  regular files only, a restore links only, and what it restored is hot. The steps
  of users are one lemma about the set of paths they change (`LostChange`), the
  write through a link and the move of one.

Only model-checked: liveness (`HandoffsEnd`, `RunEnds`, the three `Converges`, the
liveness half of `KeepsPromise`), which like ENABLED is out of the prover's reach,
as is induction over data; and that the three properties of section 5 fail.

## 5. Disagreements between the code and what it says

Three are runs with a counterexample.

* `compose_migrate`. A service with a migration one-shot is not handed off while the
  migration is pending; `up -d` recreates it, "which runs the one-shot first"
  (compose-reload.py:240). But `changed_oneshots` compares the image of the one-shot's
  existing container only (compose-reload.py:250-252). If the `up -d` that created it
  (:559) is killed or fails while the migration runs, or the migration fails, the next
  reload finds the image it wants, hands the service off, and the new version runs
  on the schema that was not migrated.

* `nas_join`. The task that joins the NAS to the domain runs
  `when: "'JOINED' not in ad_test.stdout"` (`synology_ad/tasks/main.yml:80`), but
  `apply_ad.py test-join` prints `NOT-JOINED` outside the domain, which contains
  `JOINED`. The task called "Join the AD domain" is skipped on exactly the NAS it is
  for, the password that the run supplies notwithstanding, and every play is
  then stopped by the VPN role, whose auth task refuses such a NAS
  (`apply_vpn.py:736-745`).
* `tofu_adopt`. The secret guard refuses any plan that creates an entry which
  OpenBao has (`deploy-tofu.sh:346-368`). `TOFU_IMPORT` adopts the random values
  only; `terraform/secrets/README.md:95-98` says the entry "is just re-asserted", so
  after the adoption that line 76 asks for, the plan still creates it and the
  apply exits 5, where line 88 expects "No changes". `TOFU_SECRETS_APPROVE`, which
  lifts the guard for every secret, is the only way on, and until then each
  deploy stops at phase 1.5.

Others. Those that name constants or definitions were seen with the same modules and
one edit of a `.cfg`; the rest is what a property makes an exception for:

* `ComposeReload`, `MayRevert = TRUE`: `NoSilentDrift` fails. A reload that fails after
  handing off one service records nothing. If the next deploy reverts that
  config, its fingerprint equals the recorded one and the service keeps the
  reverted config.
* `ComposeReload`: `NothingServingStops` fails. A docker call that fails after the
  drain file was created makes the abort remove the healthy new container; the
  drained old one stays unhealthy.
* `ScratchTier`, `Races = {"reuse old name"}`: `NothingLost` fails. Rename an archived
  link, create a file at its old name, let the sweep archive it: the cold copy
  the renamed link leads to is overwritten (scratch-overflow.py:350).
* `FleetDeploy`: `GreenHeadDeployed` fails. The deploy run that owns the green head
  waits in the group and is replaced by a run its gate then skips, or by a
  reboot of the fleet. Nothing deploys the head (deploy.yml:52).
* `SecretRender`: `LastGoodKept` fails. A failing re-render stops the units with
  `requires = openbao-agent` (deploy-nixos.sh:333-335 says the prior secrets stay
  in place and nothing is harmed).
* `ComposeReload`, `Mounted = Migrating = {m}`: `MigrationFirst` fails. A service
  whose mounted config and migration change together is skipped by `plan()`
  but force-recreated with `--no-deps` before the final `up -d`
  (compose-reload.py:536, against :240 "which runs the one-shot first").
* `ScratchTier`, `Races = {"replace during restore"}`: `NothingLost` fails. The
  restore checks once that the path is a link and later renames over whatever
  is there (scratch-restore.py:101, :211).
* `ScratchTier`, `Races = {"move while busy"}`: `NothingLost` fails. A link renamed
  while it is being restored loses its cold copy (scratch-restore.py:238).
* `ScratchTier`, `Races = {"write before swap"}`: a write in the gap of two
  system calls (scratch-overflow.py:367, :390) is lost.
* A file used after the walk of a sweep is still demoted by it: the cutoff is
  not applied again (scratch-overflow.py:300, against the note to users, :439
  "Anything you are actively using will stay local").
* `FleetDeploy`, `MaxDispatch = 1`: `GreenOnly` fails. A dispatched run deploys the
  checkout of when it was asked for, the gate asks about main's head of when it
  starts (deploy.yml:88-89 says they are the same commit).
* `FleetDeploy`, `MaxNightly = 1`: `NoDowngrade` fails. A host that pulled a newer
  main is set back by the older deploy under way (deploy.yml:43).
* The self-update unit switches to main's head, not to the commit the gate let
  through (krg-deploy/default.nix:387), so a commit whose CI is red reaches the
  control node; deploy-self-verify.sh fails the deploy afterwards.
* The switch of the self-update can start the runner before it returns, as the new
  system wants the unit (krg-deploy/default.nix:387-395), so jobs of `deploy-post` may
  run while the control node's units still start: await-self-update.sh:10-12 and :19
  speak of never running mid-switch. `PostOffSwitch` says what is left of it.
* A green deploy may have applied nothing in a leg or a target: the NAS leg and each
  OpenTofu target skip with success when a credential, certificate or directory is
  missing (deploy-ansible.sh:151-157, deploy-tofu.sh:133-145, :169, :202, :256-271;
  deploy.yml:387). `FinishedMeansConverged` excepts them.
* `SecretRender`, `MaxFail = 1`: `Delivered` fails. A reload that fails is not
  repeated by the next render, as the content no longer changes
  (vault-agent.nix:125-126 "a rotated secret propagates on the next deploy").
* `SecretRender`, `MayCut = TRUE`: `Delivered` fails. A restart that cuts a run of
  the agent short drops the reload commands that were due.
* xrdp requires xrdp-tls-split, which requires the agent, so every re-render
  restarts xrdp (xrdp.nix:185, :201; against its comment "We do NOT restart xrdp
  itself").

* `NasPlay`, `RotatingSpec`: `RotationTakesEffect` fails. `do_deploy` compares the
  compose file and the image (apply_garage.py:426-450), so a new admin token in
  `garage.toml` does not restart the container, and the next tasks get 403 in this
  play and all later ones (against synology_garage/README.md:345-346).
* `ProvisionBlind` of `NasGarage`: a `bao kv get` that fails for any reason looks like
  a key that is not there, and the create-once credential is overwritten
  (deploy-ansible.sh:246). From then on `sync-keys` rightly refuses, in every play:
  `Stuck`, which `Converges` makes an exception for.
* Plays overlap, as the nightly timer and phase 1 of the deploy share no lock
  (krg-deploy/default.nix:289-343). Two that look while a certificate is due both ask
  for one. Two whose `kv get` finds nothing both put a credential
  (deploy-ansible.sh:246-258), and the NAS that was given the first one refuses from
  then on: `Stuck` again, with nothing having failed.
* An expiry that does not parse makes the role ask for a certificate in every play
  (apply_certificate.py:378-385). `BoundedIssuance` counts each as a reason.
* `Honest` needs its exception for plays after a failed one: sshd's files, the
  firewall's profile and the interface's configuration are compared with what is
  stored, so a play that fails between storing and applying is not repaired by
  the next (apply_ssh.py:310, apply_security.py:477, apply_garage.py:1268).
* synology_security/README.md:25-26 promises a probe of the profile that would
  notice; `probe-profile` is never called by the role.
* `LosePem` of `NasCertificate`: if the file of the certificate with the wanted names
  becomes unreadable, a newer one without them wins and is replaced: one more
  issue than the spec needs.
* `OutlineGroupSync`: a group that another provider claims between `groups.list`
  (sync.py:256) and the calls (:222-231) gets this run's calls; `ForeignKept` says that
  no later run touches it.
* `OutlineGroupSync`: a new LDAP group with a name that the Outline group of a retired
  or renamed one still has is refused for ever, although both are the sync's own
  (sync.py:170-184), against docs/outline-group-sync.md:42-50. `Converges` has that as
  `OwnInTheWay`.
* A host that pulls main at night during or after a deploy is ahead of it, or is set
  back by a leg still to come, and deploy-verify.sh compares no generations: a green
  deploy does not say that the fleet runs its commit (`AtCommit`).
* Nothing retries a failed deploy (deploy.yml:31-35): if it was the last push's, the
  fleet stays as it is until somebody starts one.
* deploy-nixos.sh after exit 4 polls for *failed* units (254-256), and a unit that
  waits for its automatic restart is not failed: the host counts as recovered
  although the unit may give up a minute later.
* `nix eval ... || echo false` (deploy-nixos.sh:144-151): an evaluation that fails
  skips the secret-zero without a word; `Green` excuses it.
* deploy-tofu.sh: `TOFU_REPLACE` lifts the guard for all secrets; a failed plan of the
  guard lets the apply go on (:367-370); a renamed `random_*` resource shows as an
  update of the entry and passes the guard; `( ... ) || rc=$?` suspends `set -e` in the
  subshell. `LiveKept` excuses the first three.
* `reboot-fleet.sh` boots the vault before the member, so the member boots while
  OpenBao is sealed (ADR 0024:43), and stays without secrets until somebody
  unseals it and the next deploy runs.

## 6. Assumptions worth knowing

* `compose_safe` forbids reverts (`MayRevert = FALSE`), a start without a state file
  and overlap of `Mounted` and `Migrating`; section 5 shows what the first and the last
  matter for.
* `scratch_lost` has `Races = {}`: users stay clear of a link while it is being
  restored or of the instant of a swap, and do not reuse an archived name. They
  may do anything else at any time, renaming archived links included.
* `fleet_gate` has no hand-started deploys and no nightly pulls; `fleet_self` has, and
  so has `host_deploy`, where a pull may fall between any two steps of a script.
  The gate reads GitHub's present state; eventual consistency of its API is not
  modelled.
* `secrets_delivery` has reloads that work and agent runs that are not cut.
* `outline_mirror`: nobody but the sync gives a group the `externalId` of an LDAP group
  (others may put their own provider and their own one on any group, or take the
  sync's away).
* `nas_converge` starts in the domain (`StartJoined = TRUE`; `nas_join` does not), with
  the administrators' password supplied. Administrators do not remove the last way
  in, and do not delete a certificate that is in use, the newest, or the one the
  role keeps. Of a play that overlaps with the one followed, only the late calls of
  section 2 are there: that its other tasks, which compare and set the same things
  as the first's, meet them half-way is not.
* `host_deploy`: the control node has the DC's address pinned
  (`krg-deploy/default.nix:114`), so the DC is found when names are not; nightly pulls need
  no names of the DC's (hosts have resolvers besides the DC to fall back on); its AppRole
  credentials exist; a failed restart of an agent leaves the files of before.

## 7. Not modelled

* NAS roles that compare one settings object and set it, `apply_krg_ad.py`, the
  drift detector, the CVE scan, the extension scans: one pass, one writer, nothing
  that another program relies on between two steps.
* Declarative configuration: Nix modules without units that act over time,
  OpenTofu resources, compose files, playbooks.
* Re-running one failed job of an old deploy, which skips the gate
  (deploy.yml:320), and a gate that reads a stale branch or run (deploy.yml:100).
* Hazards below the granularity of the models: a `docker stop` that takes effect
  after its timeout was reported, a write in the gap between a file's last check
  and its rename, a request in `/run` lost with the host that held it.
* `ad-group-sync`, the CrowdSec bouncer and the tenants' self-update, which act over
  time and would be the next modules.
