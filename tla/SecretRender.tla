---------------------------- MODULE SecretRender -----------------------------
(***************************************************************************)
(* The OpenBao agent of a host (vault-agent.nix): a oneshot that renders   *)
(* every secret to /run once and stays active, the units that start on     *)
(* those files, the deploys and the renewal timer that restart it, and the *)
(* reloads that carry a changed file into the processes that read it.      *)
(*                                                                         *)
(* A secret is its version, a certificate the tick it was issued at.  A    *)
(* tick is the interval of the renewal timer; everything a restart sets    *)
(* off is over well before the next one.                                   *)
(***************************************************************************)
EXTENDS Integers, FiniteSets

CONSTANTS
    Template,   \* the rendered files
    Cert,       \* those that hold a certificate
    Consumer,   \* the units that read one
    Uses,       \* Uses[c]: the file consumer c reads
    Requiring,  \* consumers with requires = openbao-agent, the others failClosedOn
    Life,       \* lifetime of a certificate, in ticks
    Percent,    \* renewal.percentRemaining
    MayCut,     \* whether a restart may come while the agent renders
    MaxOutage,  \* ticks in a row in which OpenBao may be out of reach at some time
    MaxTime,    \* bound: ticks
    MaxRotate,  \* bound: rotations of a secret
    MaxDeploy,  \* bound: switches, and as many restarts of the agent
    MaxBoot,    \* bound: boots
    MaxFail     \* bound: reloads of a consumer that fail

ASSUME RenderAssumption ==
    /\ IsFiniteSet(Template) /\ Cert \subseteq Template
    /\ Uses \in [Consumer -> Template] /\ Requiring \subseteq Consumer
    /\ Life \in Nat \ {0} /\ Percent \in 1 .. 99 /\ MaxOutage \in Nat
    /\ MayCut \in BOOLEAN

ASSUME BoundsAssumption ==
    /\ MaxTime \in Nat \ {0} /\ MaxRotate \in Nat /\ MaxDeploy \in Nat
    /\ MaxBoot \in Nat /\ MaxFail \in Nat

VARIABLES
    now,      \* the tick
    kv,       \* kv[t]: the version of the secret in OpenBao
    bao,      \* OpenBao: up since the tick began, out of reach (or sealed), or back
    outage,   \* ticks in a row, this one included, in which it was out of reach
    file,     \* file[t]: what is rendered on /run
    agent,    \* openbao-agent.service
    todo,     \* templates the running agent has yet to render
    commands, \* templates it changed whose reloadCommand has not run yet
    up,       \* the consumers that run
    mem,      \* mem[c]: what consumer c read last
    job,      \* job[c]: the consumer's systemd job
    due,      \* whether the renewal timer has fired
    switches, restarts, boots, fails  \* counters of the bounded events

vars == <<now, kv, bao, outage, file, agent, todo, commands, up, mem, job, due,
          switches, restarts, boots, fails>>
openbao == <<kv, bao, outage>>
units == <<up, mem, job>>
counters == <<switches, restarts, boots, fails>>

Absent == 0
FailClosed == Consumer \ Requiring

TypeOK ==
    /\ now \in 1 .. MaxTime
    /\ kv \in [Template -> 1 .. MaxRotate + 1]
    /\ bao \in {"up", "down", "back"} /\ outage \in 0 .. MaxOutage
    /\ file \in [Template -> Nat]
    /\ agent \in {"activating", "active", "failed"}
    /\ todo \subseteq Template /\ commands \subseteq Template
    /\ agent # "activating" => todo = {} /\ commands = {}
    /\ up \subseteq Consumer /\ mem \in [Consumer -> Nat]
    /\ job \in [Consumer -> {"none", "start", "reload"}]
    /\ due \in BOOLEAN

\* What rendering t gives: a certificate is issued anew each time.
Fresh(t) == IF t \in Cert THEN now ELSE kv[t]

Init ==   \* the host is booting
    /\ now = 1
    /\ kv = [t \in Template |-> 1]
    /\ bao = "up" /\ outage = 0
    /\ file = [t \in Template |-> Absent]
    /\ agent = "activating" /\ todo = Template /\ commands = {}
    /\ up = {} /\ mem = [c \in Consumer |-> Absent]
    /\ job = [c \in Consumer |-> "start"]
    /\ due = FALSE
    /\ switches = 0 /\ restarts = 0 /\ boots = 0 /\ fails = 0

(***************************************************************************)
(* The agent: authenticate, render every template, exit.                   *)
(***************************************************************************)
Begin ==
    /\ agent' = "activating"
    /\ todo' = Template
    /\ commands' = {}    \* those of a run cut short are gone

\* A file is written, and its command is due, only if its content changes.
Render(t) ==
    /\ agent = "activating" /\ bao # "down" /\ t \in todo
    /\ todo' = todo \ {t}
    /\ file' = [file EXCEPT ![t] = Fresh(t)]
    /\ commands' = IF t \in Cert \/ file[t] # Fresh(t) THEN commands \cup {t} ELSE commands
    /\ UNCHANGED <<now, openbao, agent, units, due, counters>>

\* `systemctl reload --no-block`: a unit that is not running has nothing to
\* reload, and what comes of the job is not the agent's concern.
Command(t) ==
    /\ agent = "activating" /\ t \in commands
    /\ commands' = commands \ {t}
    /\ job' = [c \in Consumer |->
                 IF c \in FailClosed /\ Uses[c] = t /\ c \in up /\ job[c] = "none"
                 THEN "reload" ELSE job[c]]
    /\ UNCHANGED <<now, openbao, file, agent, todo, up, mem, due, counters>>

\* Mutant: the agent exits before the commands have run.
AgentDoneEarly ==
    /\ agent = "activating" /\ todo = {}
    /\ agent' = "active"
    /\ commands' = {}
    /\ UNCHANGED <<now, openbao, file, todo, units, due, counters>>

\* Mutant: the agent exits with templates it could not render.
AgentDoneHalf ==
    /\ agent = "activating" /\ commands = {}
    /\ agent' = "active"
    /\ UNCHANGED <<now, openbao, file, todo, commands, units, due, counters>>

AgentDone ==
    /\ agent = "activating" /\ todo = {} /\ commands = {}
    /\ agent' = "active"
    /\ UNCHANGED <<now, openbao, file, todo, commands, units, due, counters>>

\* exit_on_retry_failure: what is rendered stays, the start jobs that require
\* the agent fail with it.
AgentFails ==
    /\ agent = "activating" /\ todo # {} /\ commands = {} /\ bao = "down"
    /\ agent' = "failed"
    /\ todo' = {}
    /\ job' = [c \in Consumer |->
                 IF c \in Requiring /\ job[c] = "start" THEN "none" ELSE job[c]]
    /\ UNCHANGED <<now, openbao, file, commands, up, mem, due, counters>>

\* `systemctl restart openbao-agent`: systemd stops what requires it and starts
\* it again afterwards; a unit that was not running stays as it is.
RestartAgent ==
    /\ agent = "activating" => MayCut
    /\ Begin
    /\ up' = up \ Requiring
    /\ job' = [c \in Consumer |-> IF c \in Requiring \cap up THEN "start" ELSE job[c]]
    /\ UNCHANGED mem

(***************************************************************************)
(* The consumers.                                                          *)
(***************************************************************************)
\* Mutant: the unit starts whatever became of the agent.
StartUnchecked(c) ==
    /\ job[c] = "start" /\ agent # "activating"
    /\ up' = up \cup {c}
    /\ mem' = [mem EXCEPT ![c] = file[Uses[c]]]
    /\ job' = [job EXCEPT ![c] = "none"]
    /\ UNCHANGED <<now, openbao, file, agent, todo, commands, due, counters>>

\* Ordered after the agent; fail-closed-<name> asks whether it is active.
Start(c) ==
    /\ job[c] = "start" /\ agent = "active"
    /\ up' = up \cup {c}
    /\ mem' = [mem EXCEPT ![c] = file[Uses[c]]]
    /\ job' = [job EXCEPT ![c] = "none"]
    /\ UNCHANGED <<now, openbao, file, agent, todo, commands, due, counters>>

\* Restart=on-failure tries again, which wants and so starts the agent too,
\* until the start limit is hit.
StartRefused(c) ==
    /\ job[c] = "start" /\ agent = "failed"
    /\ \/ Begin /\ UNCHANGED job
       \/ job' = [job EXCEPT ![c] = "none"] /\ UNCHANGED <<agent, todo, commands>>
    /\ UNCHANGED <<now, openbao, file, up, mem, due, counters>>

\* compose-reload recreates the services whose env_file changed; a failed one
\* leaves them as they are and the unit active.
Reload(c, works) ==
    /\ job[c] = "reload" /\ agent # "activating"
    /\ works \/ fails < MaxFail
    /\ mem' = IF works THEN [mem EXCEPT ![c] = file[Uses[c]]] ELSE mem
    /\ fails' = IF works THEN fails ELSE fails + 1
    /\ job' = [job EXCEPT ![c] = "none"]
    /\ UNCHANGED <<now, openbao, file, agent, todo, commands, up, due, switches, restarts, boots>>

(***************************************************************************)
(* What restarts the agent.                                                *)
(***************************************************************************)
\* nixos-rebuild switch: an agent whose unit changed is restarted, units that
\* are wanted and not running are started, and the agent with them.
Switch ==
    /\ switches < MaxDeploy /\ agent # "activating"
    /\ \A c \in Consumer : job[c] = "none"
    /\ switches' = switches + 1
    /\ \/ /\ IF agent = "failed" THEN Begin ELSE UNCHANGED <<agent, todo, commands>>
          /\ UNCHANGED up
       \/ Begin /\ up' = up \ Requiring    \* the agent's unit changed
    /\ job' = [c \in Consumer |-> IF c \in up' THEN "none" ELSE "start"]
    /\ UNCHANGED <<now, openbao, file, mem, due, restarts, boots, fails>>

\* deploy-nixos.sh after each switch, deploy-rerender-secrets.sh, by hand.
Rerender ==
    /\ restarts < MaxDeploy
    /\ restarts' = restarts + 1
    /\ RestartAgent
    /\ UNCHANGED <<now, openbao, file, due, switches, boots, fails>>

\* Mutant: the percentage is not taken of the lifetime.
InWindowAbsolute(t) == (file[t] + Life - now) * 100 < Percent

\* Less than Percent of the lifetime is left.
InWindow(t) == (file[t] + Life - now) * 100 < Life * Percent

NeedsRender(t) == file[t] = Absent \/ (t \in Cert /\ InWindow(t))

\* openbao-agent-renew looks at every file.
Renew ==
    /\ due
    /\ due' = FALSE
    /\ IF \E t \in Template : NeedsRender(t)
       THEN RestartAgent
       ELSE UNCHANGED <<agent, todo, commands, units>>
    /\ UNCHANGED <<now, openbao, file, counters>>

\* /run is empty after a boot; everything wanted starts.
Boot ==
    /\ boots < MaxBoot
    /\ boots' = boots + 1
    /\ file' = [t \in Template |-> Absent]
    /\ Begin
    /\ up' = {}
    /\ job' = [c \in Consumer |-> "start"]
    /\ UNCHANGED <<now, openbao, mem, due, switches, restarts, fails>>

(***************************************************************************)
(* OpenBao and time.                                                       *)
(***************************************************************************)
Rotate(t) ==
    /\ t \notin Cert
    /\ kv[t] <= MaxRotate
    /\ kv' = [kv EXCEPT ![t] = @ + 1]
    /\ UNCHANGED <<now, bao, outage, file, agent, todo, commands, units, due, counters>>

BaoDown ==
    /\ bao = "up" /\ outage < MaxOutage
    /\ bao' = "down"
    /\ outage' = outage + 1
    /\ UNCHANGED <<now, kv, file, agent, todo, commands, units, due, counters>>

BaoUp ==
    /\ bao = "down"
    /\ bao' = "back"
    /\ UNCHANGED <<now, kv, outage, file, agent, todo, commands, units, due, counters>>

\* The timer fires again when its last round is over.
Tick ==
    /\ now < MaxTime /\ ~due /\ agent # "activating"
    /\ \A c \in Consumer : job[c] = "none"
    /\ bao = "down" => outage < MaxOutage
    /\ now' = now + 1
    /\ bao' = IF bao = "back" THEN "up" ELSE bao
    /\ outage' = CASE bao = "up" -> 0 [] bao = "back" -> outage [] bao = "down" -> outage + 1
    /\ due' = TRUE
    /\ UNCHANGED <<kv, file, agent, todo, commands, units, counters>>

Agent == (\E t \in Template : Render(t) \/ Command(t)) \/ AgentDone \/ AgentFails

Next ==
    \/ Agent
    \/ \E c \in Consumer : Start(c) \/ StartRefused(c) \/ \E works \in BOOLEAN : Reload(c, works)
    \/ Switch \/ Rerender \/ Renew \/ Boot
    \/ (\E t \in Template : Rotate(t)) \/ BaoDown \/ BaoUp \/ Tick

Spec == Init /\ [][Next]_vars

(***************************************************************************)
(* Properties.                                                             *)
(***************************************************************************)
\* "Fails closed" (vault-agent.nix): what runs has read a rendered file, never
\* a missing one.
NeverEmpty == \A c \in up : mem[c] # Absent

\* "A rotated secret propagates on the next deploy" (vault-agent.nix): when the
\* agent is done and nothing is under way, what runs holds what is rendered.
Delivered ==
    agent = "active" => \A c \in up : job[c] = "none" => mem[c] = file[Uses[c]]

\* "Comfortably exceed" (vault-agent.nix): no process holds an expired
\* certificate, if outages are shorter than the renewal window.
NeverExpired == \A c \in up : Uses[c] \in Cert => now < mem[c] + Life

\* "Consumers keep the last-good secret" (deploy-nixos.sh, vault-agent.nix):
\* short of a boot, nothing that runs is stopped while OpenBao is out of reach.
LastGoodKept == [][bao # "down" \/ boots' # boots \/ up \subseteq up']_vars
=============================================================================
