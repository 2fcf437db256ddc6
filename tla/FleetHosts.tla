----------------------------- MODULE FleetHosts -----------------------------
(***************************************************************************)
(* The hosts as the control node's scripts see them: the domain controller,*)
(* which is everyone's first resolver, the vault, which runs OpenBao, and a *)
(* member whose services render their secrets from it.                      *)
(***************************************************************************)
EXTENDS Naturals, Sequences

CONSTANTS
    Generated,  \* secrets that terraform/secrets generates once
    Outpost,    \* the secret that exists only once Authentik has minted it
    MaxCommit,  \* bound: commits after the first
    Breaks,     \* commits whose configuration of the DC breaks its DNS
    MaxFaults,  \* bound: calls that fail, units that do not start, ...
    MaxReboots, \* bound: runs of reboot-fleet.sh
    MaxAside    \* bound: those, nightly pulls, runs of deploy-tofu.sh by hand,
                \*        and secrets the OpenTofu state loses, together

ASSUME FleetAssumption == Outpost \notin Generated /\ Breaks \subseteq 1 .. MaxCommit
ASSUME BoundAssumption == {MaxCommit, MaxFaults, MaxReboots, MaxAside} \subseteq Nat

VARIABLES
    head,    \* the newest commit on the deployed branch
    want,    \* the commit the running job has checked out
    gen,     \* gen[h]: the commit whose generation host h runs
    power,   \* power[h]: up, about to go down, or down
    staged,  \* hosts with the OEC archive
    sid,     \* the member's secret-id file
    units,   \* units[h]: all run, one waits for its restart, or one has failed
    sealed,  \* whether OpenBao is sealed
    kv,      \* kv[s]: the version in OpenBao, 0 for none
    run,     \* run[s]: the version rendered on the member, 0 for none
    base,    \* base[s]: the version the member's data was created with
    script,  \* the script that runs
    todo,    \* the hosts it still has to do
    result,  \* how it ended
    faults,
    excuses  \* what happened that a property makes an exception for (history)

hosts == <<gen, power, staged, sid, units, run, base>>
bao   == <<sealed, kv>>
world == <<head, want, hosts, bao, faults, excuses>>

Dc == "dc"  Vault == "vault"  Member == "member"
Host == {Dc, Vault, Member}
Secret == Generated \cup {Outpost}

(* lib.sh.  Mutant: the vault first, as it was before #513. *)
VaultFirst == <<Vault, Dc, Member>>
ORDER == <<Dc, Vault, Member>>

(* Names resolve as long as the DC does; the control node has its address   *)
(* pinned, so the DC itself is always found.                                *)
Resolves == power[Dc] # "down" /\ gen[Dc] \notin Breaks
Reach(h) == power[h] # "down" /\ (h = Dc \/ Resolves)
OpenBao  == power[Vault] # "down" /\ ~sealed /\ Resolves

(* The member's agent logs in with the staged secret-id, and fails closed   *)
(* on a generated secret that is not there; the outposts' may be missing.   *)
CanRender == sid = "good" /\ OpenBao /\ \A s \in Generated : kv[s] # 0
Rendered  == \A s \in Generated : run[s] # 0

(* The first start of a service creates its data with the secret it finds. *)
Pins(r) == base' = [s \in Secret |-> IF base[s] = 0 /\ s \in Generated THEN r[s] ELSE base[s]]

Fault == faults < MaxFaults /\ faults' = faults + 1

Ends(r) == result' = r /\ script' = "none" /\ todo' = <<>>

(* systemctl restart openbao-agent: renders what OpenBao has now, and each  *)
(* reloadCommand follows; when it fails, the files stay as they are.        *)
RestartAgent == IF CanRender THEN run' = kv /\ Pins(kv) ELSE UNCHANGED <<run, base>>

FleetInit ==
    /\ head = 0 /\ want = 0 /\ gen = [h \in Host |-> 0]
    /\ power = [h \in Host |-> "up"] /\ staged = {} /\ sid = "none"
    /\ units = [h \in Host |-> "ok"] /\ sealed = FALSE
    /\ kv = [s \in Secret |-> 0] /\ run = kv /\ base = kv
    /\ script = "none" /\ todo = <<>> /\ result = "none"
    /\ faults = 0 /\ excuses = {}
=============================================================================
