------------------------------ MODULE NasTask ------------------------------
(***************************************************************************)
(* One run of the Ansible play for the NAS: its tasks in order, on a single *)
(* host, so that the first failing task ends the play.  The roles' modules  *)
(* say what each task does; here is only where the play is and how it ends. *)
(*                                                                         *)
(* One play is followed at a time.  A second one may run beside it, since   *)
(* the nightly timer and the deploy share no lock: of that one, the roles   *)
(* model the calls that rest on what it read before (LateIssue, LatePut),   *)
(* as events from outside.  Its other tasks are left out.                   *)
(***************************************************************************)
EXTENDS Naturals, Sequences

CONSTANTS MaxEvents,   \* events from outside the play, in a behaviour
          MaxFaults    \* failing calls, in a behaviour

ASSUME Bounds == MaxEvents \in Nat /\ MaxFaults \in Nat

VARIABLES at,       \* the task to run next, as an index of Order; 0 between plays
          result,   \* how the last play ended, or that one is running
          quiet,    \* nothing happened from outside since the last play began (history)
          broken,   \* a task failed since the NAS last booted (history)
          events, faults

playVars == <<at, result, quiet, broken, events, faults>>

(* deploy-ansible.sh reads the secrets, then the roles run in this order.   *)
(* Mutant: the SSH lockdown before the users exist. *)
SshFirst == <<"provision", "ssh", "users_create", "users_disable", "users_home", "users_keys",
    "fw_profile", "fw_enable", "ad_config", "ad",
    "vpn_package", "vpn_openvpn", "vpn_service", "vpn_auth", "vpn_privilege", "vpn_publish",
    "cert_issue", "cert_default", "cert_bind",
    "garage_config", "garage_deploy", "garage_layout", "garage_buckets", "garage_keys",
    "ui_config", "ui_deploy">>

Order == <<"provision", "users_create", "users_disable", "users_home", "users_keys", "ssh",
    "fw_profile", "fw_enable", "ad_config", "ad",
    "vpn_package", "vpn_openvpn", "vpn_service", "vpn_auth", "vpn_privilege", "vpn_publish",
    "cert_issue", "cert_default", "cert_bind",
    "garage_config", "garage_deploy", "garage_layout", "garage_buckets", "garage_keys",
    "ui_config", "ui_deploy">>

Idle  == at = 0
At(t) == at \in 1..Len(Order) /\ Order[at] = t

PlayInit == at = 0 /\ result = "none" /\ quiet = TRUE /\ broken = FALSE
            /\ events = 0 /\ faults = 0

Start == /\ Idle
         /\ at' = 1 /\ result' = "running" /\ quiet' = TRUE
         /\ UNCHANGED <<broken, events, faults>>

(* Mutant: the play never notices its end. *)
Endless == /\ at' = at + 1 /\ UNCHANGED <<result, quiet, broken, events, faults>>

Done == /\ IF at = Len(Order) THEN at' = 0 /\ result' = "ok"
                              ELSE at' = at + 1 /\ UNCHANGED result
        /\ UNCHANGED <<quiet, broken, events, faults>>

Failed == /\ at' = 0 /\ result' = "failed" /\ broken' = TRUE
          /\ UNCHANGED <<quiet, events, faults>>

(* A call that fails by chance, rather than because of the NAS's state. *)
Faulted == /\ faults < MaxFaults /\ faults' = faults + 1
           /\ at' = 0 /\ result' = "failed" /\ broken' = TRUE
           /\ UNCHANGED <<quiet, events>>

Event == /\ events < MaxEvents /\ events' = events + 1
         /\ quiet' = FALSE
         /\ UNCHANGED <<at, result, broken, faults>>

(* The NAS boots: a running play loses its connection, and every service    *)
(* starts from what is stored.                                              *)
BootEvent == /\ events < MaxEvents /\ events' = events + 1
             /\ quiet' = FALSE /\ broken' = FALSE
             /\ at' = 0 /\ result' = IF Idle THEN result ELSE "failed"
             /\ UNCHANGED faults

(* The last play ended well and nothing was touched since it began. *)
Settled == Idle /\ result = "ok" /\ quiet

PlayType == /\ at \in 0..Len(Order)
            /\ result \in {"none", "running", "ok", "failed"}
            /\ quiet \in BOOLEAN /\ broken \in BOOLEAN
            /\ events \in 0..MaxEvents /\ faults \in 0..MaxFaults
=============================================================================
