----------------------------- MODULE ControlNode -----------------------------
(***************************************************************************)
(* The jobs of the control node, one at a time (the concurrency group       *)
(* deploy-fleet): the deploy, with its legs in the order of deploy.yml, the *)
(* reboot, and what an operator runs by hand in between; and, in no such    *)
(* group, every host's own upgrade at night.                                *)
(***************************************************************************)
EXTENDS HostDeploy, TofuPhase, FleetReboot, FiniteSets

VARIABLES phase,   \* the next phase of the running deploy, 0 outside of one
          outcome, \* how the last deploy ended
          clean,   \* nothing failed or was done from outside since it began (history)
          reboots, asides

vars == <<world, script, todo, result, nixosVars, tofuVars, rebootVars,
          phase, outcome, clean, reboots, asides>>

others == <<reboots, asides>>
Aside == asides < MaxAside /\ asides' = asides + 1
Outside == UNCHANGED <<phase, outcome>> /\ clean' = FALSE

Init == /\ FleetInit /\ TofuInit
        /\ step = "none" /\ token = FALSE /\ issued = FALSE /\ booted = {}
        /\ phase = 0 /\ outcome = "none" /\ clean = FALSE
        /\ reboots = 0 /\ asides = 0

Free == script = "none" /\ phase = 0

-----------------------------------------------------------------------------
(* The deploy. *)
StartDeploy ==
    /\ Free /\ phase' = 1 /\ want' = head /\ outcome' = "running" /\ clean' = TRUE
    /\ result' = "none"
    /\ UNCHANGED <<head, hosts, bao, faults, excuses, script, todo, nixosVars,
                   tofuVars, rebootVars, others>>

May(p) == phase = p /\ script = "none" /\ result \in {"none", "ok"}

(* The member between the two OpenTofu legs, its outposts' tokens at last.  *)
(* Mutants: the member before the secrets it needs, the re-rendering before *)
(* Authentik has minted the tokens.                                         *)
MembersFirst == <<"foundation", "members", "secrets", "config", "rerender", "verify">>
RerenderEarly == <<"foundation", "secrets", "members", "rerender", "config", "verify">>
Phases == <<"foundation", "secrets", "members", "config", "rerender", "verify">>
Due(name) == phase # 0 /\ May(phase) /\ Phases[phase] = name
Noted == clean' = (clean /\ faults' = faults)

NixosLeg(name, S) ==
    /\ Due(name) /\ StartNixos(S) /\ phase' = phase + 1 /\ Noted
    /\ UNCHANGED <<head, want, hosts, bao, excuses, tofuVars, rebootVars, outcome, others>>

TofuLeg(name, t) ==
    /\ Due(name) /\ StartTofu(t, "push") /\ phase' = phase + 1
    /\ UNCHANGED <<head, want, hosts, bao, faults, nixosVars, rebootVars, outcome, clean, others>>

RerenderLeg ==
    /\ Due("rerender") /\ Rerender /\ phase' = phase + 1 /\ Noted
    /\ UNCHANGED <<script, todo, result, nixosVars, tofuVars, rebootVars, outcome, others>>

Finish(how) == phase' = 0 /\ outcome' = how /\ result' = "none"

(* deploy-verify.sh only reads: the agents of the OEC on every host, and    *)
(* its membership, which needs the DC.                                      *)
Verify ==
    /\ Due("verify")
    /\ Finish(IF \A h \in Host : Reach(h) /\ h \in staged THEN "ok" ELSE "failed")
    /\ UNCHANGED <<world, script, todo, nixosVars, tofuVars, rebootVars, clean, others>>

LegFailed ==
    /\ phase # 0 /\ script = "none" /\ result \in {"failed", "refused"}
    /\ Finish("failed")
    /\ UNCHANGED <<world, script, todo, nixosVars, tofuVars, rebootVars, clean, others>>

Legs == \/ NixosLeg("foundation", {Dc, Vault}) \/ NixosLeg("members", {Member})
        \/ TofuLeg("secrets", "secrets") \/ TofuLeg("config", "authentik")
        \/ RerenderLeg \/ Verify \/ LegFailed

Scripts == \/ NixosStep /\ UNCHANGED <<tofuVars, rebootVars>>
           \/ TofuStep /\ UNCHANGED <<nixosVars, rebootVars>>
           \/ RebootStep /\ UNCHANGED <<nixosVars, tofuVars>>

RunScript == Scripts /\ Noted /\ UNCHANGED <<phase, outcome, others>>

-----------------------------------------------------------------------------
(* The rest: pushes, nights, units, hosts, and operators. *)
Push == /\ head < MaxCommit /\ head' = head + 1 /\ UNCHANGED <<phase, outcome, clean>>
        /\ UNCHANGED <<want, hosts, bao, faults, excuses, script, todo, result, nixosVars,
                       tofuVars, rebootVars, others>>

Hosts(h) == /\ GoesDown(h) \/ Boots(h)
            /\ Outside /\ UNCHANGED <<nixosVars, tofuVars, others>>

(* system.autoUpgrade, at 04:00 on every host: it switches to main's head,  *)
(* whatever the deploy or another script is doing, and what it could not    *)
(* start stays so.  A build that fails changes nothing.                     *)
NightlyUpgrade(h) ==
    /\ Aside /\ power[h] # "down" /\ Activate(h, head)
    /\ \/ CanStart(h) /\ units' = [units EXCEPT ![h] = "ok"] /\ UNCHANGED faults
       \/ CanStart(h) /\ units' = [units EXCEPT ![h] = "waits"] /\ Fault
       \/ ~CanStart(h) /\ units' = [units EXCEPT ![h] = "failed"] /\ UNCHANGED faults
    /\ Outside /\ UNCHANGED <<step, tofuVars, rebootVars, reboots>>

(* A waiting unit is restarted, and runs or gives up. *)
Restarts(h) ==
    /\ units[h] = "waits"
    /\ \E how \in {"ok", "failed"} : units' = [units EXCEPT ![h] = how]
    /\ UNCHANGED <<head, want, gen, power, staged, sid, run, base, bao, faults, excuses, script,
                   todo, result, nixosVars, tofuVars, rebootVars, phase, outcome, clean, others>>

Unseal == /\ sealed /\ power[Vault] # "down" /\ sealed' = FALSE /\ Outside
          /\ UNCHANGED <<head, want, hosts, kv, faults, excuses, script, todo, result,
                         nixosVars, tofuVars, rebootVars, others>>

ByHand(m) == /\ Free /\ Aside
             /\ StartTofu("secrets", m) /\ Outside
             /\ UNCHANGED <<head, want, hosts, bao, faults, nixosVars, rebootVars, reboots>>

RebootFleet(hs) == /\ Free /\ Aside /\ reboots < MaxReboots /\ reboots' = reboots + 1
                   /\ StartReboot(hs) /\ Outside
                   /\ UNCHANGED <<world, nixosVars, tofuVars>>

Lose(s) == /\ Free /\ Aside /\ Forget(s) /\ Outside
           /\ UNCHANGED <<head, want, hosts, faults, script, todo, result, nixosVars,
                          rebootVars, reboots>>

Next == \/ StartDeploy \/ Legs \/ RunScript
        \/ Push \/ Unseal
        \/ \E h \in Host : Hosts(h) \/ Restarts(h) \/ NightlyUpgrade(h)
        \/ \E m \in Modes \ {"push"} : ByHand(m)
        \/ \E hs \in {ORDER, <<Member>>} : RebootFleet(hs)
        \/ \E s \in Generated : Lose(s)

Spec == Init /\ [][Next]_vars

(* Scripts go on and end: few of their calls have a timeout, but GitHub     *)
(* cancels a job after six hours, which is a call that fails, and an        *)
(* operator his own.  Hosts boot, waiting units are restarted, and somebody *)
(* unseals OpenBao.  No deploy has to come: only a push or an operator      *)
(* starts one, and nothing retries it.  Nor does a night's pull.            *)
FairSpec == /\ Spec /\ WF_vars(Legs) /\ WF_vars(RunScript)
            /\ WF_vars(Unseal)
            /\ \A h \in Host : WF_vars(Hosts(h)) /\ WF_vars(Restarts(h))

-----------------------------------------------------------------------------
TypeOK ==
    /\ head \in 0 .. MaxCommit /\ want \in 0 .. head
    /\ gen \in [Host -> 0 .. head] /\ power \in [Host -> {"up", "going", "down"}]
    /\ staged \subseteq Host /\ sid \in {"none", "empty", "good"}
    /\ units \in [Host -> {"ok", "waits", "failed"}] /\ sealed \in BOOLEAN
    /\ kv \in [Secret -> Nat] /\ run \in [Secret -> Nat] /\ base \in [Secret -> Nat]
    /\ script \in {"none", "nixos", "tofu", "reboot"} /\ todo \in Seq(Host)
    /\ (script \in {"nixos", "reboot"}) = (todo # <<>>)
    /\ (script = "nixos") = (step # "none") /\ (script = "tofu") = (tofu # "none")
    /\ result \in {"none", "running", "ok", "failed", "refused"}
    /\ state \in [Secret -> [value : Nat, entry : BOOLEAN]]
    /\ \A s \in Secret : {kv[s], state[s].value, run[s]} \subseteq 0 .. last[s]
    /\ excuses \subseteq {"eval", "bypass", "blind", "rename"}

(* reboot-fleet.sh never has two hosts down, or about to go down, at once,  *)
(* whatever its commands did and however long a host takes to boot.         *)
OneDown == Cardinality({h \in Host : power[h] # "up"}) <= 1

(* A green deploy means what it says: no host is behind its commit, and     *)
(* each is hardened, the member's secret-id is whole; and when nothing      *)
(* failed or went on beside it but pushes, every host runs that very        *)
(* commit, and the member every secret there is, the outposts' included.    *)
(* A host gets ahead when it pulls by night, which deploy-verify.sh, that   *)
(* compares no generations, does not see.                                   *)
AtCommit(h) == gen[h] >= want /\ (clean => gen[h] = want)
Green == outcome = "ok" /\ phase = 0 =>
            /\ \A h \in Host : AtCommit(h) /\ h \in staged
            /\ "eval" \notin excuses => sid = "good"
            /\ clean => kv[Outpost] # 0 /\ run = kv

(* A secret that a service created its data with is never replaced, in      *)
(* OpenBao or on the host, unless an operator bypassed the guard, the guard *)
(* could not look, or the secret's resource was renamed.                    *)
LiveKept == excuses \cap {"bypass", "blind", "rename"} = {} =>
               \A s \in Generated : base[s] # 0 => kv[s] = base[s] /\ run[s] \in {0, base[s]}

(* What no deploy repairs: a newest commit that breaks the DNS, and secrets *)
(* that the state has lost, until somebody approves.                        *)
Beyond == head \in Breaks \/ Clobber # {}

(* As long as deploys keep being started, they bring the fleet to the       *)
(* newest commit, whatever happened.                                        *)
Converges ==
    []<><<StartDeploy>>_vars =>
    <>[](Beyond \/ /\ \A h \in Host : gen[h] = head /\ units[h] = "ok" /\ power[h] = "up"
                   /\ sid = "good" /\ kv[Outpost] # 0 /\ run = kv)

(* terraform/secrets: once the live values are adopted, an apply goes       *)
(* through.                                                                 *)
AdoptionUnblocks ==
    result = "refused" => \E s \in Generated : kv[s] # 0 /\ state[s].value # kv[s]
=============================================================================
