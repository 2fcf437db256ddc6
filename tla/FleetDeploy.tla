----------------------------- MODULE FleetDeploy -----------------------------
(***************************************************************************)
(* The push-to-main deploy of the fleet (deploy.yml): CI runs complete,    *)
(* each completion asks for a deploy run, the gate picks the one that owns *)
(* the commit, and that run walks the phases.  Half-way it lets the        *)
(* control node switch itself, which takes its own runner away, and a job  *)
(* on a GitHub-hosted machine watches the runner leave and return before   *)
(* the rest goes on.  Beside it main moves, hosts pull main at night and   *)
(* people start deploys by hand.                                           *)
(*                                                                         *)
(* Commits are numbered in the order they reach main; a host's generation  *)
(* is the commit it was built from.                                        *)
(***************************************************************************)
EXTENDS Naturals, Sequences, FiniteSets

CONSTANTS
    Workflow,    \* the required CI workflows
    Order,       \* the hosts, in the order of deploy/lib.sh
    Foundation,  \* those of phase 0, the rest being phase 2
    MaxCommit,   \* bound: commits on main
    ControlOf,   \* ControlOf[c]: what commit c makes of the control node
    MaxRerun,    \* bound: CI runs started again
    MaxForeign,  \* bound: completed CI runs of pull requests
    MaxDispatch, \* bound: deploys started by hand
    MaxNightly,  \* bound: nightly pulls of main by a host or the control node
    MaxFail      \* bound: phases that fail

Commit == 1 .. MaxCommit
Host == {Order[i] : i \in DOMAIN Order}

ASSUME FleetAssumption ==
    /\ Order \in Seq(Host) /\ Foundation \subseteq Host
    /\ \A i, j \in DOMAIN Order : Order[i] = Order[j] => i = j
    /\ IsFiniteSet(Workflow) /\ Workflow # {}
    /\ ControlOf \in [0 .. MaxCommit -> Nat]

ASSUME BoundsAssumption ==
    /\ MaxCommit \in Nat \ {0} /\ MaxRerun \in Nat /\ MaxForeign \in Nat
    /\ MaxDispatch \in Nat /\ MaxNightly \in Nat /\ MaxFail \in Nat

VARIABLES
    head,     \* the commit main points to
    ci,       \* ci[c][w]: the newest run of workflow w for c
    last,     \* last[c]: the workflow whose run for c completed last
    pending,  \* the deploy run waiting in the concurrency group, if any
    run,      \* the deploy run in progress
    attempts, \* attempts[c]: deploy runs of c the gate has let through
    gen,      \* gen[h]: the generation host h runs
    substrate,\* the newest commit of which Ansible applied every leg
    config,   \* the newest commit of which OpenTofu applied every target
    control,  \* what the control node runs
    unit,     \* krg-deploy-selfupdate.service
    runner,   \* whether the control node's runner is online
    reruns, foreigns, dispatches, nightlies, fails  \* counters of the bounded events

vars == <<head, ci, last, pending, run, attempts, gen, substrate, config, control,
          unit, runner, reruns, foreigns, dispatches, nightlies, fails>>
github == <<head, ci, last>>
fleet == <<gen, substrate, config>>
node == <<control, unit, runner>>
counters == <<reruns, foreigns, dispatches, nightlies, fails>>

NoRun == [pc |-> "none"]
Request(kind, c, w) == [kind |-> kind, commit |-> c, workflow |-> w]
Unknown == 0

Phases == {"foundation", "ansible", "secrets", "selfupdate", "await offline",
           "await online", "verify self", "systems", "tofu", "verify"}
PreJob == {"gate", "foundation", "ansible", "secrets", "selfupdate"}
PostJob == {"verify self", "systems", "tofu", "verify"}

\* The phases that skip what they find no credential for and end with success.
Skippable == {"ansible", "tofu"}

Requests == [kind: {"ci", "foreign", "dispatch"}, commit: 0 .. MaxCommit,
             workflow: Workflow \cup {Unknown}]
Runs == [pc: Phases \cup {"gate"}, req: Requests,
         commit: 0 .. MaxCommit, at: 1 .. Len(Order) + 1, skips: SUBSET Skippable]

TypeOK ==
    /\ head \in 0 .. MaxCommit
    /\ ci \in [Commit -> [Workflow -> {"none", "running", "success", "failure"}]]
    /\ last \in [Commit -> Workflow \cup {Unknown}]
    /\ pending \in Requests \cup {NoRun}
    /\ run \in Runs \cup {NoRun}
    /\ attempts \in [Commit -> Nat]
    /\ gen \in [Host -> 0 .. MaxCommit]
    /\ substrate \in 0 .. MaxCommit /\ config \in 0 .. MaxCommit
    /\ control \in Nat
    /\ unit \in {"idle", "delayed", "switching", "activated", "done"}
    /\ runner \in BOOLEAN

Init ==
    /\ head = 0
    /\ ci = [c \in Commit |-> [w \in Workflow |-> "none"]]
    /\ last = [c \in Commit |-> Unknown]
    /\ pending = NoRun /\ run = NoRun
    /\ attempts = [c \in Commit |-> 0]
    /\ gen = [h \in Host |-> 0]
    /\ substrate = 0 /\ config = 0
    /\ control = ControlOf[0]
    /\ unit = "idle" /\ runner = TRUE
    /\ reruns = 0 /\ foreigns = 0 /\ dispatches = 0 /\ nightlies = 0 /\ fails = 0

Green(c) == c \in Commit /\ \A w \in Workflow : ci[c][w] = "success"

(***************************************************************************)
(* GitHub: pushes, CI and the deploy-fleet concurrency group.              *)
(***************************************************************************)
\* A push starts every workflow.
Push ==
    /\ head < MaxCommit
    /\ head' = head + 1
    /\ ci' = [ci EXCEPT ![head'] = [w \in Workflow |-> "running"]]
    /\ UNCHANGED <<last, pending, run, attempts, fleet, node, counters>>

\* Mutant: the walk over the hosts starts one too early.
StartingAtZero(request) ==
    [pc |-> "gate", req |-> request, commit |-> request.commit, at |-> 0, skips |-> {}]

Starting(request) ==
    [pc |-> "gate", req |-> request, commit |-> request.commit, at |-> 1, skips |-> {}]

\* A run that joins the group starts if nobody is in it, and replaces the one
\* that waits otherwise.
Queue(request) ==
    IF run = NoRun /\ pending = NoRun
    THEN run' = Starting(request) /\ UNCHANGED pending
    ELSE pending' = request /\ UNCHANGED run

\* Only a green run asks for a deploy that its job's `if` lets start; a red
\* one joins the group all the same.
CICompletes(c, w, result) ==
    /\ ci[c][w] = "running"
    /\ ci' = [ci EXCEPT ![c][w] = result]
    /\ last' = [last EXCEPT ![c] = w]
    /\ Queue(Request(IF result = "success" THEN "ci" ELSE "foreign", c, w))
    /\ UNCHANGED <<head, attempts, fleet, node, counters>>

CIRerun(c, w) ==
    /\ reruns < MaxRerun
    /\ ci[c][w] \in {"success", "failure"}
    /\ reruns' = reruns + 1
    /\ ci' = [ci EXCEPT ![c][w] = "running"]
    /\ UNCHANGED <<head, last, pending, run, attempts, fleet, node, foreigns,
                   dispatches, nightlies, fails>>

\* A CI run that is not a push to main completes: its deploy run starts no job.
ForeignCICompletes ==
    /\ foreigns < MaxForeign
    /\ foreigns' = foreigns + 1
    /\ Queue(Request("foreign", Unknown, Unknown))
    /\ UNCHANGED <<github, attempts, fleet, node, reruns, dispatches, nightlies, fails>>

\* workflow_dispatch: github.sha is main's head now.
Dispatch ==
    /\ dispatches < MaxDispatch
    /\ head # Unknown
    /\ dispatches' = dispatches + 1
    /\ Queue(Request("dispatch", head, Unknown))
    /\ UNCHANGED <<github, attempts, fleet, node, reruns, foreigns, nightlies, fails>>

\* The group lets the waiting run start; its job may wait for the runner.
RunStarts ==
    /\ run = NoRun /\ pending # NoRun
    /\ run' = Starting(pending)
    /\ pending' = NoRun
    /\ UNCHANGED <<github, attempts, fleet, node, counters>>

(***************************************************************************)
(* Job deploy-pre: gate, foundation, substrate, secrets, self-update.      *)
(***************************************************************************)
\* Mutants: the gate does not look at main; it does not wait for every
\* workflow; every green run of the commit deploys it.
OwnsIgnoringHead(sha) == Green(sha) /\ last[sha] = run.req.workflow
OwnsEarly(sha) == sha = head /\ last[sha] = run.req.workflow
OwnsNotLast(sha) == sha = head /\ Green(sha)

\* The commit is main's head, green, and this run's workflow completed last.
Owns(sha) ==
    /\ sha = head
    /\ Green(sha)
    /\ run.req.kind = "ci" => last[sha] = run.req.workflow

\* A dispatched run asks about main's head; what it deploys is its checkout.
Gate ==
    /\ run.pc = "gate" /\ runner
    /\ LET sha == IF run.req.kind = "dispatch" THEN head ELSE run.commit IN
       IF run.req.kind # "foreign" /\ Owns(sha)
       THEN /\ run' = [run EXCEPT !.pc = "foundation"]
            /\ attempts' = [attempts EXCEPT ![run.commit] = @ + 1]
       ELSE run' = NoRun /\ UNCHANGED attempts
    /\ UNCHANGED <<github, pending, fleet, node, counters>>

Goto(pc) == run' = [run EXCEPT !.pc = pc, !.at = 1]

\* A phase ends with success having left out a leg or a target: no AppRole, no
\* secret, no certificate, no directory, or a target that is not reached.
GotoSkipping(phase, pc) ==
    run' = [run EXCEPT !.pc = pc, !.at = 1, !.skips = @ \cup {phase}]

\* Mutant: the hosts are walked from the end of the list.
SwitchHostsBackwards(pc, selected, next) ==
    /\ run.pc = pc /\ runner
    /\ IF run.at > Len(Order)
       THEN Goto(next) /\ UNCHANGED gen
       ELSE LET h == Order[Len(Order) + 1 - run.at] IN
            /\ run' = [run EXCEPT !.at = @ + 1]
            /\ gen' = IF h \in selected THEN [gen EXCEPT ![h] = run.commit] ELSE gen
    /\ UNCHANGED <<github, pending, attempts, substrate, config, node, counters>>

\* deploy-nixos.sh: the selected hosts, in the order of lib.sh.
SwitchHosts(pc, selected, next) ==
    /\ run.pc = pc /\ runner
    /\ IF run.at > Len(Order)
       THEN Goto(next) /\ UNCHANGED gen
       ELSE /\ run' = [run EXCEPT !.at = @ + 1]
            /\ gen' = IF Order[run.at] \in selected
                      THEN [gen EXCEPT ![Order[run.at]] = run.commit] ELSE gen
    /\ UNCHANGED <<github, pending, attempts, substrate, config, node, counters>>

Phase0 == SwitchHosts("foundation", Foundation, "ansible")
Phase2 == SwitchHosts("systems", Host \ Foundation, "tofu")

Phase1 ==
    /\ run.pc = "ansible" /\ runner
    /\ \/ Goto("secrets") /\ substrate' = run.commit
       \/ GotoSkipping("ansible", "secrets") /\ UNCHANGED substrate
    /\ UNCHANGED <<github, pending, attempts, gen, config, node, counters>>

Phase1Secrets ==
    /\ run.pc = "secrets" /\ runner
    /\ Goto("selfupdate")
    /\ UNCHANGED <<github, pending, attempts, fleet, node, counters>>

\* Build krg-deploy; if it differs from what runs, start the detached unit.  An
\* earlier run's unit has long left its delay of 45 s.
SelfUpdate ==
    /\ run.pc = "selfupdate" /\ runner /\ unit # "delayed"
    /\ IF ControlOf[run.commit] = control
       THEN Goto("verify self") /\ UNCHANGED unit
       ELSE /\ Goto("await offline")
            /\ unit' = IF unit = "idle" THEN "delayed" ELSE unit
    /\ UNCHANGED <<github, pending, attempts, fleet, control, runner, counters>>

(***************************************************************************)
(* The self-update unit of the control node.                               *)
(***************************************************************************)
\* A job on the runner dies with it; one that has not begun waits for it.
JobBegun == run.pc \in {"foundation", "ansible", "secrets", "selfupdate", "systems", "tofu", "verify"}

StopRunner ==
    /\ unit = "delayed"
    /\ unit' = "switching"
    /\ runner' = FALSE
    /\ run' = IF JobBegun THEN NoRun ELSE run
    /\ UNCHANGED <<github, pending, attempts, fleet, control, counters>>

\* nixos-rebuild switch of github main, whatever commit the deploy is of: the
\* new system becomes current, then its units start.
SwitchActivates ==
    /\ unit = "switching"
    /\ unit' = "activated"
    /\ control' = ControlOf[head]
    /\ UNCHANGED <<github, pending, run, attempts, fleet, runner, counters>>

\* The new system wants the runner, so the switch may itself start it, with other
\* units still to come.
SwitchStartsRunner ==
    /\ unit = "activated" /\ ~runner
    /\ runner' = TRUE
    /\ UNCHANGED <<github, pending, run, attempts, fleet, control, unit, counters>>

\* The switch returns, whether or not every unit came up.
SwitchReturns ==
    /\ unit = "activated"
    /\ unit' = "done"
    /\ UNCHANGED <<github, pending, run, attempts, fleet, control, runner, counters>>

\* It fails before it activates anything: fetching, evaluating, building.
SwitchFails ==
    /\ unit = "switching"
    /\ fails < MaxFail
    /\ fails' = fails + 1
    /\ unit' = "done"
    /\ UNCHANGED <<github, pending, run, attempts, fleet, control, runner,
                   reruns, foreigns, dispatches, nightlies>>

\* Mutant: the runner is given back on the new code only.
StartRunnerIfNew ==
    /\ unit = "done" /\ ~runner /\ control = ControlOf[head]
    /\ runner' = TRUE
    /\ UNCHANGED <<github, pending, run, attempts, fleet, control, unit, counters>>

\* After either outcome the unit brings the runner back, and exits.
StartRunner ==
    /\ unit = "done" /\ ~runner
    /\ runner' = TRUE
    /\ UNCHANGED <<github, pending, run, attempts, fleet, control, unit, counters>>

UnitExits ==
    /\ unit = "done" /\ runner
    /\ unit' = "idle"
    /\ UNCHANGED <<github, pending, run, attempts, fleet, control, runner, counters>>

(***************************************************************************)
(* Job await-selfupdate.                                                   *)
(***************************************************************************)
SeesOffline ==
    /\ run.pc = "await offline" /\ ~runner
    /\ Goto("await online")
    /\ UNCHANGED <<github, pending, attempts, fleet, node, counters>>

\* Mutant: no settling time after an offline transition that was not seen.
MissesOfflineAtOnce ==
    /\ run.pc = "await offline"
    /\ Goto("verify self")
    /\ UNCHANGED <<github, pending, attempts, fleet, node, counters>>

\* Polls missed it, or the API failed: settle, then go on.  Failing polls take
\* 30 s and settling 90 s, more than the unit's delay of 45 s.
MissesOffline ==
    /\ run.pc = "await offline" /\ unit # "delayed"
    /\ Goto("verify self")
    /\ UNCHANGED <<github, pending, attempts, fleet, node, counters>>

SeesOnline ==
    /\ run.pc = "await online" /\ runner
    /\ Goto("verify self")
    /\ UNCHANGED <<github, pending, attempts, fleet, node, counters>>

(***************************************************************************)
(* Job deploy-post: self-verification, systems, configuration, verify.     *)
(***************************************************************************)
\* Mutant: the control node is taken to have switched.
VerifySelfTrusting ==
    /\ run.pc = "verify self" /\ runner
    /\ Goto("systems")
    /\ UNCHANGED <<github, pending, attempts, fleet, node, counters>>

VerifySelf ==
    /\ run.pc = "verify self" /\ runner
    /\ IF ControlOf[run.commit] = control THEN Goto("systems") ELSE run' = NoRun
    /\ UNCHANGED <<github, pending, attempts, fleet, node, counters>>

Phase3 ==
    /\ run.pc = "tofu" /\ runner
    /\ \/ Goto("verify") /\ config' = run.commit
       \/ GotoSkipping("tofu", "verify") /\ UNCHANGED config
    /\ UNCHANGED <<github, pending, attempts, gen, substrate, node, counters>>

Phase4 ==
    /\ run.pc = "verify" /\ runner
    /\ run' = NoRun
    /\ UNCHANGED <<github, pending, attempts, fleet, node, counters>>

\* Any phase may fail, a watcher may time out, and a job dies with its runner:
\* the run is over and nothing tries it again.
RunFails ==
    /\ run.pc \notin {"none", "gate"}
    /\ fails < MaxFail
    /\ fails' = fails + 1
    /\ run' = NoRun
    /\ UNCHANGED <<github, pending, attempts, fleet, node, reruns, foreigns, dispatches, nightlies>>

\* system.autoUpgrade of a host, outside the concurrency group.
NightlyUpgrade(h) ==
    /\ nightlies < MaxNightly
    /\ nightlies' = nightlies + 1
    /\ gen' = [gen EXCEPT ![h] = head]
    /\ UNCHANGED <<github, pending, run, attempts, substrate, config, node, reruns, foreigns,
                   dispatches, fails>>

\* The control node upgrades itself at 04:00 too; a runner whose unit changed
\* restarts.
NightlySelfUpgrade ==
    /\ nightlies < MaxNightly
    /\ nightlies' = nightlies + 1
    /\ control' = ControlOf[head]
    /\ \E restarted \in BOOLEAN : run' = IF restarted /\ JobBegun THEN NoRun ELSE run
    /\ UNCHANGED <<github, pending, attempts, fleet, unit, runner, reruns, foreigns,
                   dispatches, fails>>

\* ansible-apply at 04:30: pull main and run deploy-ansible.sh, which may skip a leg.
NightlyAnsible ==
    /\ nightlies < MaxNightly
    /\ nightlies' = nightlies + 1
    /\ substrate' \in {head, substrate}
    /\ UNCHANGED <<github, pending, run, attempts, gen, config, node, reruns, foreigns,
                   dispatches, fails>>

Deploy ==
    \/ Gate \/ Phase0 \/ Phase1 \/ Phase1Secrets \/ SelfUpdate
    \/ SeesOffline \/ MissesOffline \/ SeesOnline
    \/ VerifySelf \/ Phase2 \/ Phase3 \/ Phase4

CI == \E c \in Commit, w \in Workflow :
    \/ \E result \in {"success", "failure"} : CICompletes(c, w, result)
    \/ CIRerun(c, w)

Unit ==
    \/ StopRunner \/ SwitchActivates \/ SwitchStartsRunner \/ SwitchReturns
    \/ StartRunner \/ UnitExits

Next ==
    \/ Push \/ CI \/ ForeignCICompletes \/ Dispatch \/ RunStarts
    \/ Deploy \/ RunFails \/ Unit \/ SwitchFails
    \/ (\E h \in Host : NightlyUpgrade(h)) \/ NightlySelfUpgrade \/ NightlyAnsible

\* GitHub starts waiting runs, jobs and the unit make progress, CI runs end.
Fairness ==
    /\ WF_vars(RunStarts) /\ WF_vars(Deploy) /\ WF_vars(Unit)
    /\ \A c \in Commit, w \in Workflow :
         WF_vars(\E result \in {"success", "failure"} : CICompletes(c, w, result))

Spec == Init /\ [][Next]_vars /\ Fairness

(***************************************************************************)
(* Properties.                                                             *)
(***************************************************************************)
\* "Can never roll the fleet backwards" (the gate): no step takes a host, or
\* what Ansible and OpenTofu applied, to an older commit than is there.
NoDowngrade ==
    [][/\ \A h \in Host : gen'[h] >= gen[h]
       /\ substrate' >= substrate /\ config' >= config]_vars

\* "A broken commit never deploys": a deploy run past the gate works on a
\* commit whose workflows had all succeeded when it was let through.
GreenOnly == [][run.pc = "gate" /\ run'.pc = "foundation" => Green(run.commit)]_vars

\* ORDER is load-bearing: a host is switched by a deploy only when every host
\* before it, and the substrate for those of phase 2, is at that commit or later.
\* A substrate leg that was skipped is not waited for: the run remembers it.
DependenciesFirst ==
    [][\A i \in DOMAIN Order :
         LET h == Order[i] IN
         gen'[h] # gen[h] /\ run # NoRun /\ gen'[h] = run.commit =>
             /\ \A j \in 1 .. i - 1 :
                  (Order[j] \in Foundation \/ h \notin Foundation) => gen[Order[j]] >= run.commit
             /\ h \notin Foundation =>
                  substrate >= run.commit \/ "ansible" \in run.skips]_vars

\* The barrier of await-selfupdate: no step of deploy-post happens while the
\* control node is about to stop the runner, or has stopped it and not yet
\* activated the system it switches to.  It may happen while the units of that
\* system are still starting, since the runner is one of them.
PostOffSwitch == run.pc \in PostJob /\ runner => unit \notin {"delayed", "switching"}

\* A deploy that finishes leaves everything at its commit, hosts, substrate,
\* configuration and the control node, but for the two phases whose scripts end
\* with success over a leg or a target they left out: those it has recorded.
FinishedMeansConverged ==
    [][run.pc = "verify" /\ Phase4 =>
         /\ \A h \in Host : gen[h] = run.commit
         /\ substrate = run.commit \/ "ansible" \in run.skips
         /\ config = run.commit \/ "tofu" \in run.skips
         /\ control = ControlOf[run.commit]]_vars

\* "Exactly-once": without a re-run, a hand-started deploy or a failure, no
\* commit is deployed twice.
ExactlyOnce == \A c \in Commit : attempts[c] <= 1 + reruns + dispatches

\* A deploy never hangs: a runner that a failed switch had stopped returns,
\* the watcher gives up, and the next run can start.
RunEnds == run # NoRun ~> run = NoRun

\* "No deploy is lost": a head whose CI is green is let through the gate, unless
\* it stops being the head or green.
GreenHeadDeployed ==
    \A c \in Commit : (head = c /\ Green(c)) ~> (head # c \/ ~Green(c) \/ attempts[c] > 0)
=============================================================================
