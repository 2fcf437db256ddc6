----------------------------- MODULE NasAccess -----------------------------
(***************************************************************************)
(* The ways into the NAS: local accounts and their keys (synology_users),   *)
(* sshd (synology_ssh), the firewall (synology_security) and the domain     *)
(* (synology_ad).  The deploy supplies the administrators' password, so the *)
(* firewall push is never skipped.                                          *)
(***************************************************************************)
EXTENDS NasTask

CONSTANT StartJoined   \* is the NAS in the domain at first?

ASSUME JoinedAssumption == StartJoined \in BOOLEAN

VARIABLES acct,    \* the break-glass account exists, has its key; built-in admin enabled;
                   \* the home service, without which no key is found, is on
          sshd,    \* which of its three files are as wanted; what the daemon accepts
          fw,      \* the firewall profile as saved and as loaded; is the firewall on?
          joined

accessVars == <<acct, sshd, fw, joined>>

SshFiles == {"dropin", "helper", "main"}
Profiles == {"factory", "spec", "ui"}     \* the factory profile has no rule

AccessInit ==
    /\ acct = [made |-> FALSE, key |-> FALSE, builtin |-> TRUE, homes |-> FALSE]
    /\ sshd = [files |-> {}, run |-> "password"]
    /\ fw = [saved |-> "factory", live |-> "factory", on |-> FALSE]
    /\ joined = StartJoined

-----------------------------------------------------------------------------
CreateUser == /\ At("users_create") /\ Done
              /\ acct' = [acct EXCEPT !.made = TRUE]
              /\ UNCHANGED <<sshd, fw, joined>>

DisableBuiltin == /\ At("users_disable") /\ Done
                  /\ acct' = [acct EXCEPT !.builtin = FALSE]
                  /\ UNCHANGED <<sshd, fw, joined>>

(* Whether domain users get homes as well depends on the join, and on DSM,  *)
(* which may drop that half of the setting; no other task reads it.         *)
SetHomes == /\ At("users_home") /\ Done
            /\ acct' = [acct EXCEPT !.homes = TRUE]
            /\ UNCHANGED <<sshd, fw, joined>>

(* No user yet: reported as no change. *)
WriteKeys == /\ At("users_keys") /\ Done
             /\ acct' = [acct EXCEPT !.key = acct.made]
             /\ UNCHANGED <<sshd, fw, joined>>

(* What a starting sshd accepts: the main file's Include makes the drop-in  *)
(* count.                                                                   *)
Accepts(files) == IF {"dropin", "main"} \subseteq files THEN "keys" ELSE "password"

(* Mutant: the files are written and checked, but sshd is not restarted. *)
SshdWithoutRestart == /\ At("ssh") /\ Done
                      /\ sshd' = [sshd EXCEPT !.files = SshFiles]
                      /\ UNCHANGED <<acct, fw, joined>>

Sshd == /\ At("ssh") /\ Done
        /\ sshd' = IF sshd.files = SshFiles THEN sshd
                   ELSE [files |-> SshFiles, run |-> Accepts(SshFiles)]
        /\ UNCHANGED <<acct, fw, joined>>

(* `sshd -t` rejects, and the files are put back; a write fails, and those  *)
(* written before it stay; the restart fails, and the old daemon stays.     *)
SshdFails == /\ At("ssh") /\ sshd.files # SshFiles /\ Faulted
             /\ \E f \in {sshd.files, sshd.files \cup {"dropin"},
                          sshd.files \cup {"dropin", "helper"}, SshFiles} :
                   sshd' = [sshd EXCEPT !.files = f]
             /\ UNCHANGED <<acct, fw, joined>>

(* Profile.set, then Profile.Apply. *)
PushProfile == /\ At("fw_profile") /\ Done
               /\ fw' = IF fw.saved = "spec" THEN fw
                        ELSE [fw EXCEPT !.saved = "spec", !.live = "spec"]
               /\ UNCHANGED <<acct, sshd, joined>>

(* The set is refused; or it is saved, and the apply is refused or takes    *)
(* longer than the sixty seconds the script waits.                          *)
PushFails == /\ At("fw_profile") /\ fw.saved # "spec" /\ Faulted
             /\ \/ UNCHANGED fw
                \/ \E l \in {fw.live, "spec"} :
                      fw' = [fw EXCEPT !.saved = "spec", !.live = l]
             /\ UNCHANGED <<acct, sshd, joined>>

(* Switching the firewall on loads the saved profile. *)
EnableFirewall == /\ At("fw_enable") /\ Done
                  /\ fw' = IF fw.on THEN fw ELSE [fw EXCEPT !.on = TRUE, !.live = fw.saved]
                  /\ UNCHANGED <<acct, sshd, joined>>

(* test-join prints JOINED or NOT-JOINED; the role joins when the text does *)
(* not contain JOINED, which both do.                                       *)
TestJoin == IF joined THEN "JOINED" ELSE "NOT-JOINED"
ContainsJoined(out) == out \in {"JOINED", "NOT-JOINED"}

(* Settings that differ are reported and left alone: DSM takes them only    *)
(* with the join's credentials.                                             *)
DomainConfig == /\ At("ad_config") /\ Done
                /\ UNCHANGED accessVars

Join == joined' = TRUE

JoinDomain == /\ At("ad") /\ Done
              /\ IF ContainsJoined(TestJoin) THEN UNCHANGED joined ELSE Join
              /\ UNCHANGED <<acct, sshd, fw>>

AccessStep == CreateUser \/ DisableBuiltin \/ SetHomes \/ WriteKeys \/ Sshd
              \/ PushProfile \/ EnableFirewall \/ DomainConfig \/ JoinDomain

-----------------------------------------------------------------------------
(* --- Events. --- *)

(* In the DSM interface, between plays: the account or its home is removed, *)
(* or the home service switched off, while there is another way in.         *)
LoseAccount == /\ Idle /\ acct.made /\ sshd.run = "password" /\ Event
               /\ \/ \E m \in {TRUE, ~acct.builtin} :
                        acct' = [acct EXCEPT !.made = m, !.key = FALSE]
                  \/ acct.homes /\ acct' = [acct EXCEPT !.homes = FALSE]
               /\ UNCHANGED <<sshd, fw, joined>>

EditFirewall == /\ Event /\ fw.saved # "ui"
                /\ fw' = [fw EXCEPT !.saved = "ui", !.live = "ui"]
                /\ UNCHANGED <<acct, sshd, joined>>

Boot(files) == /\ sshd' = [files |-> files, run |-> Accepts(files)]
               /\ fw' = [fw EXCEPT !.live = fw.saved]
               /\ UNCHANGED <<acct, joined>>

AccessEvent == LoseAccount \/ EditFirewall

-----------------------------------------------------------------------------
AccessType == /\ acct \in [made : BOOLEAN, key : BOOLEAN, builtin : BOOLEAN, homes : BOOLEAN]
              /\ sshd \in [files : SUBSET SshFiles, run : {"password", "keys"}]
              /\ fw \in [saved : Profiles, live : Profiles, on : BOOLEAN]
              /\ joined \in BOOLEAN

(* Somebody of the lab can log in from the network. *)
WayIn == /\ \/ acct.made /\ acct.key /\ acct.homes
            \/ sshd.run = "password" /\ (acct.made \/ acct.builtin)
         /\ fw.on => fw.live # "factory"
=============================================================================
