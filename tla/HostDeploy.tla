----------------------------- MODULE HostDeploy -----------------------------
(***************************************************************************)
(* deploy-nixos.sh: the hosts of a leg one after the other, each staged,    *)
(* switched, and judged when a unit did not start.                          *)
(***************************************************************************)
EXTENDS FleetHosts

VARIABLES step,   \* where the script is with the first host of todo
          token   \* whether its login to OpenBao gave a token

nixosVars == <<step, token>>
Cur == Head(todo)
Nixos(s) == script = "nixos" /\ step = s

(* Hosts are always walked in ORDER; the environment only selects, and each *)
(* phase selects a stretch of it.  A failed login leaves an empty token,    *)
(* that only matters on a host with an agent.                               *)
StartNixos(S) ==
    /\ script' = "nixos" /\ result' = "running"
    /\ \E first, end \in DOMAIN ORDER :
          /\ S = {ORDER[i] : i \in first .. end}
          /\ todo' = SubSeq(ORDER, first, end)
    /\ step' = "oec"
    /\ \/ token' = OpenBao /\ UNCHANGED faults
       \/ token' = FALSE /\ Fault

(* Mutant: the script leaves its place behind. *)
StopsThere == Ends("failed") /\ UNCHANGED <<step, token>>
Stops == Ends("failed") /\ step' = "none" /\ token' = FALSE

StageOec ==
    /\ Nixos("oec") /\ Reach(Cur)
    /\ staged' = staged \cup {Cur} /\ step' = "zero"
    /\ UNCHANGED <<head, want, gen, power, sid, units, run, base, bao, faults, excuses,
                   script, todo, result, token>>

(* Nothing to stage: the host has no agent, or `nix eval` failed, which     *)
(* counts as none.                                                          *)
NoSecretZero ==
    /\ Nixos("zero")
    /\ \/ Cur # Member /\ UNCHANGED <<faults, excuses>>
       \/ Cur = Member /\ Fault /\ excuses' = excuses \cup {"eval"}
    /\ step' = "switch"
    /\ UNCHANGED <<head, want, hosts, bao, script, todo, result, token>>

CanMint == token /\ OpenBao /\ Reach(Member)

StageSecretZero ==
    /\ Nixos("zero") /\ Cur = Member /\ CanMint
    /\ sid' = "good" /\ step' = "switch"
    /\ UNCHANGED <<head, want, gen, power, staged, units, run, base, bao, faults, excuses,
                   script, todo, result, token>>

(* push_root_file empties the file before it writes it. *)
PushCut ==
    /\ Nixos("zero") /\ Cur = Member /\ CanMint /\ Fault
    /\ sid' = "empty" /\ Stops
    /\ UNCHANGED <<head, want, gen, power, staged, units, run, base, bao, excuses>>

(* Staging or switching fails: the host is out of reach, OpenBao gives no   *)
(* secret-id, or any call fails by chance.  No later host is touched.       *)
StepFails ==
    /\ script = "nixos" /\ step \in {"oec", "zero", "switch", "judge"}
    /\ \/ ~Reach(Cur) /\ UNCHANGED faults
       \/ step = "zero" /\ Cur = Member /\ ~CanMint /\ UNCHANGED faults
       \/ Fault
    /\ Stops
    /\ UNCHANGED <<head, want, hosts, bao, excuses>>

CanStart(h) == h = Member => Rendered \/ CanRender

(* The new generation runs, its agent included, which renders only if       *)
(* nothing is rendered yet: a oneshot that stays active.                    *)
Activate(h, commit) ==
    /\ gen' = [gen EXCEPT ![h] = commit]
    /\ IF h = Member /\ ~Rendered THEN RestartAgent ELSE UNCHANGED <<run, base>>
    /\ UNCHANGED <<head, want, power, staged, sid, bao, excuses, script, todo, result, token>>

Switch ==
    /\ Nixos("switch") /\ Reach(Cur) /\ CanStart(Cur)
    /\ Activate(Cur, want) /\ units' = [units EXCEPT ![Cur] = "ok"]
    /\ step' = "agent" /\ UNCHANGED faults

(* Exit 4: the generation is active and a unit did not start.  The services *)
(* of a member without secrets fail for good; else one waits for a restart. *)
SwitchExit4 ==
    /\ Nixos("switch") /\ Reach(Cur) /\ Activate(Cur, want)
    /\ IF CanStart(Cur) THEN Fault /\ units' = [units EXCEPT ![Cur] = "waits"]
                   ELSE UNCHANGED faults /\ units' = [units EXCEPT ![Cur] = "failed"]
    /\ step' = "judge"

(* The text of exit 4 without its meaning: the old generation still runs. *)
SwitchLooksLike4 ==
    /\ Nixos("switch") /\ Reach(Cur) /\ Fault
    /\ step' = "judge"
    /\ UNCHANGED <<head, want, hosts, bao, excuses, script, todo, result, token>>

(* switch_exit4_recovered.  A unit that waits for its automatic restart is  *)
(* not among the failed ones.  Mutant: the generation is not compared.      *)
UnitsOnly == Reach(Cur) /\ units[Cur] # "failed"
Recovered == gen[Cur] = want /\ Reach(Cur) /\ units[Cur] # "failed"

Excused ==
    /\ Nixos("judge") /\ Recovered
    /\ step' = "agent"
    /\ UNCHANGED <<world, script, todo, result, token>>

NotExcused ==
    /\ Nixos("judge") /\ ~Recovered
    /\ Stops
    /\ UNCHANGED world

(* OK: the agent of a member is restarted, best effort; then the collection *)
(* of garbage, and the next host.                                           *)
HostDone ==
    /\ Nixos("agent")
    /\ \/ /\ UNCHANGED faults
          /\ IF Cur = Member /\ Reach(Member) THEN RestartAgent ELSE UNCHANGED <<run, base>>
       \/ Cur = Member /\ Fault /\ UNCHANGED <<run, base>>
    /\ IF Len(todo) = 1 THEN Ends("ok") /\ step' = "none" /\ token' = FALSE
       ELSE todo' = Tail(todo) /\ step' = "oec" /\ UNCHANGED <<script, result, token>>
    /\ UNCHANGED <<head, want, gen, power, staged, sid, units, bao, excuses>>

(* deploy-rerender-secrets.sh: warns when it cannot, and never fails. *)
Rerender ==
    /\ \/ /\ UNCHANGED faults
          /\ IF Reach(Member) THEN RestartAgent ELSE UNCHANGED <<run, base>>
       \/ Fault /\ UNCHANGED <<run, base>>
    /\ UNCHANGED <<head, want, gen, power, staged, sid, units, bao, excuses>>

NixosStep == \/ StageOec \/ NoSecretZero \/ StageSecretZero \/ PushCut \/ StepFails
             \/ Switch \/ SwitchExit4 \/ SwitchLooksLike4
             \/ Excused \/ NotExcused \/ HostDone
=============================================================================
