------------------------------ MODULE TofuPhase ------------------------------
(***************************************************************************)
(* deploy-tofu.sh: one target applied from the control node, with the guard *)
(* that keeps terraform/secrets from creating a secret that OpenBao already *)
(* holds.  A secret is two resources: the random value, and the entry that  *)
(* writes it to OpenBao.                                                    *)
(***************************************************************************)
EXTENDS FleetHosts

VARIABLES state,   \* state[s]: the value OpenTofu tracks, 0 for none; whether it has the entry
          target,  \* secrets or authentik
          mode,    \* how it was called: by the deploy, or by hand with its variables set
          tofu,    \* where the script is
          last     \* last[s]: the newest version generated

tofuVars == <<state, target, mode, tofu, last>>

(* By hand: import the live values and plan; the same, then apply; approve  *)
(* creating over existing secrets; replace them; or forget the passphrase.   *)
Modes == {"push", "adopt", "adopt_apply", "approve", "replace", "plain"}

Of(t) == IF t = "secrets" THEN Generated ELSE {Outpost}
Tofu(p) == script = "tofu" /\ tofu = p

TofuInit == /\ state = [s \in Secret |-> [value |-> 0, entry |-> FALSE]]
            /\ target = "secrets" /\ mode = "push" /\ tofu = "none"
            /\ last = [s \in Secret |-> 0]

StartTofu(t, m) ==
    /\ script' = "tofu" /\ result' = "running" /\ todo' = <<>>
    /\ target' = t /\ mode' = m /\ tofu' = "login"
    /\ excuses' = IF m \in {"approve", "replace"} THEN excuses \cup {"bypass"} ELSE excuses
    /\ UNCHANGED <<state, last>>

TofuEnds(r) == Ends(r) /\ tofu' = "none" /\ target' = "secrets" /\ mode' = "push"

(* The login is fatal.  Credentials that cannot be read skip the target;    *)
(* without a passphrase nothing is written.                                 *)
LoginFails ==
    /\ Tofu("login")
    /\ \/ ~OpenBao /\ UNCHANGED faults
       \/ Fault
    /\ TofuEnds("failed")
    /\ UNCHANGED <<head, want, hosts, bao, excuses, state, last>>

Skip ==
    /\ Tofu("login") /\ OpenBao /\ target = "authentik" /\ Fault
    /\ TofuEnds("ok")
    /\ UNCHANGED <<head, want, hosts, bao, excuses, state, last>>

Refuse ==
    /\ Tofu("login") /\ OpenBao /\ mode = "plain"
    /\ TofuEnds("failed")
    /\ UNCHANGED <<world, state, last>>

Materialize ==
    /\ Tofu("login") /\ OpenBao /\ mode # "plain"
    /\ tofu' = IF mode \in {"adopt", "adopt_apply"} THEN "import" ELSE "guard"
    /\ UNCHANGED <<world, script, todo, result, state, target, mode, last>>

(* TOFU_IMPORT adopts the live value of each random resource that is not in *)
(* the state; one that cannot be read is left out.  The entry stays out.    *)
Import ==
    /\ Tofu("import")
    /\ \E missed \in SUBSET Generated :
          /\ IF missed = {} THEN UNCHANGED faults ELSE Fault
          /\ state' = [s \in Secret |->
                 IF s \in Generated \ missed /\ state[s].value = 0
                 THEN [state[s] EXCEPT !.value = kv[s]] ELSE state[s]]
    /\ IF mode = "adopt" THEN TofuEnds("ok")
       ELSE tofu' = "guard" /\ UNCHANGED <<script, todo, result, target, mode>>
    /\ UNCHANGED <<head, want, hosts, bao, excuses, last>>

(* Mutant: a run that imports is not guarded either. *)
GuardedUnlessImporting == target = "secrets" /\ mode = "push"
Guarded == target = "secrets" /\ mode \notin {"approve", "replace"}

(* The entries the plan creates although OpenBao has them. *)
Clobber == {s \in Generated : ~state[s].entry /\ kv[s] # 0}

Guard ==
    /\ Tofu("guard")
    /\ IF Guarded /\ Clobber # {} THEN TofuEnds("refused")
       ELSE tofu' = "apply" /\ UNCHANGED <<script, todo, result, target, mode>>
    /\ UNCHANGED <<world, state, last>>

(* Its plan, `tofu show`, jq or `bao kv metadata get` fails: the same as    *)
(* nothing to refuse.                                                       *)
GuardBlind ==
    /\ Tofu("guard") /\ Guarded /\ Fault
    /\ tofu' = "apply" /\ excuses' = excuses \cup {"blind"}
    /\ UNCHANGED <<head, want, hosts, bao, script, todo, result, state, target, mode, last>>

(* What the apply writes: the tracked value, or a fresh one. *)
Writes(s) == IF state[s].value # 0 /\ ~(mode = "replace" /\ s \in Generated)
             THEN state[s].value ELSE last[s] + 1

(* The random values are in the state before the entries that need them, so *)
(* an apply that is cut may have written some, with every value drawn.      *)
Written(done) ==
    /\ state' = [s \in Secret |->
           IF s \in Of(target)
           THEN [value |-> Writes(s), entry |-> state[s].entry \/ s \in done] ELSE state[s]]
    /\ kv' = [s \in Secret |-> IF s \in done THEN Writes(s) ELSE kv[s]]
    /\ last' = [s \in Secret |->
           IF s \in Of(target) /\ Writes(s) > last[s] THEN Writes(s) ELSE last[s]]

Apply ==
    /\ Tofu("apply")
    /\ Written(Of(target)) /\ TofuEnds("ok")
    /\ UNCHANGED <<head, want, hosts, sealed, faults, excuses>>

ApplyFails ==
    /\ Tofu("apply") /\ Fault
    /\ \E done \in (SUBSET Of(target)) \ {Of(target)} : Written(done)
    /\ TofuEnds("failed")
    /\ UNCHANGED <<head, want, hosts, sealed, excuses>>

(* The state forgets a secret: both resources (a secret made elsewhere, a   *)
(* new state directory), or its value alone (a resource renamed in git).    *)
Forget(s) ==
    /\ kv[s] # 0 /\ state[s].entry /\ state[s].value # 0
    /\ \/ state' = [state EXCEPT ![s].value = 0, ![s].entry = FALSE] /\ UNCHANGED excuses
       \/ state' = [state EXCEPT ![s].value = 0] /\ excuses' = excuses \cup {"rename"}
    /\ UNCHANGED <<target, mode, tofu, last, sealed, kv>>

TofuStep == \/ LoginFails \/ Skip \/ Refuse \/ Materialize \/ Import
            \/ Guard \/ GuardBlind \/ Apply \/ ApplyFails
=============================================================================
