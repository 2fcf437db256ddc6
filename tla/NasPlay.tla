------------------------------- MODULE NasPlay -------------------------------
(***************************************************************************)
(* The Ansible phase of the fleet deploy for the NAS: the play runs again   *)
(* and again against a box that people, DSM and failing calls change.       *)
(***************************************************************************)
EXTENDS NasVpn, NasCertificate, NasGarage

vars == <<playVars, accessVars, vpn, certVars, garageVars>>

Init == PlayInit /\ AccessInit /\ VpnInit /\ CertInit /\ GarageInit

-----------------------------------------------------------------------------
Begin == Start /\ UNCHANGED <<accessVars, vpn, certVars, garageVars>>

Access      == (AccessStep \/ SshdFails \/ PushFails)
               /\ UNCHANGED <<vpn, certVars, garageVars>>
(* The VPN server uses the default certificate. *)
Chain == IF dflt = 0 THEN "own" ELSE "public"

Vpn         == (VpnStep \/ Publish(Chain) \/ AuthFails) /\ UNCHANGED <<accessVars, certVars, garageVars>>
Certificates == (CertStep \/ IssueLost) /\ UNCHANGED <<accessVars, vpn, garageVars>>
Garage      == (GarageStep \/ GarageFault) /\ UNCHANGED <<accessVars, vpn, certVars>>

(* Any task may fail before it changed anything: a connection, a login, a   *)
(* DSM call.                                                                *)
Cut == /\ ~Idle /\ Faulted
       /\ UNCHANGED <<accessVars, vpn, certVars, garageVars>>

Outside == \/ AccessEvent /\ UNCHANGED <<vpn, certVars, garageVars>>
           \/ VpnEvent /\ UNCHANGED <<accessVars, certVars, garageVars>>
           \/ CertEvent /\ UNCHANGED <<accessVars, vpn, garageVars>>
           \/ GarageEvent /\ UNCHANGED <<accessVars, vpn, certVars>>

(* A DSM update may put sshd's files back, and boots the NAS; a power cut   *)
(* only boots it.                                                           *)
Reboot == /\ BootEvent
          /\ \E files \in SUBSET sshd.files : Boot(files)
          /\ VpnBoot /\ GarageBoot
          /\ UNCHANGED certVars

PlayStep == Begin \/ Access \/ Vpn \/ Certificates \/ Garage

Next == PlayStep \/ Cut \/ Outside \/ Reboot

(* A timer starts a play every night, and deploy.yml on every push.  That   *)
(* the plays end is nobody's promise, since not every call has a timeout:   *)
(* Converges takes it as its hypothesis.                                    *)
Spec     == Init /\ [][Next]_vars
FairSpec == Spec /\ WF_vars(Begin)

(* The same NAS with a new admin token put into OpenBao. *)
RotatingSpec == Init /\ [][Next \/ (RotateToken /\ UNCHANGED <<accessVars, vpn, certVars>>)]_vars

-----------------------------------------------------------------------------
(* The state of the NAS is of the kind the roles expect. *)
TypeOK == PlayType /\ AccessType /\ VpnType /\ CertType /\ GarageType

(* No step of the play takes away the last way to log in from the network:  *)
(* the order of the roles is what keeps the lockdown of SSH and the         *)
(* firewall behind the account, its key and the rules (playbook.yml).       *)
NeverLocksOut == [][WayIn /\ events' = events => WayIn']_vars

(* A play that ended well leaves the daemons running what is stored: sshd   *)
(* its files, the firewall its saved profile, the web interface its         *)
(* rendered configuration (unless an earlier play failed half-way since the *)
(* last boot: each of the three compares what is stored, not what runs).    *)
Honest == Settled /\ ~broken =>
             /\ sshd.run = Accepts(sshd.files)
             /\ fw.on => fw.live = fw.saved
             /\ ui.run = ui.file

(* vpnauthd is compared with its files' age, so even after failed plays a   *)
(* good one leaves the VPN up, asking the domain, closed to local accounts. *)
VpnServes == Settled => vpn.up /\ vpn.authd = "ad" /\ vpn.closed

(* After a good play the default, the listed services and the proxies all   *)
(* present one certificate that is not about to expire, with the wanted     *)
(* names if names can be read, whatever DSM's own renewals added.           *)
CertServed == Settled =>
                 /\ dflt \in Have /\ bound["dsm"] = dflt /\ ~certs[dflt].aging
                 /\ Sans(dflt) # Unknown =>
                       certs[dflt].names = want /\ (want = 1 => bound["proxy"] = dflt)

(* The role asks Let's Encrypt for no more certificates than there were     *)
(* reasons to: the first, an expiry, a new name, a file or a date that      *)
(* became unreadable, and another play that looked while one was due.  (Its *)
(* rate limit is what once turned the fleet deploy red.)                    *)
BoundedIssuance == issued <= demands

(* After a good play, what OpenBao holds is what Garage accepts and what    *)
(* the NAS's files say, with the permissions of the spec.                   *)
KeysUsable == Settled => /\ \A k \in Keys : keys[k] = {cred[k]} /\ env[k] = cred[k] /\ grant[k]
                         /\ bucket = "spec" /\ layout = "applied" /\ box.up

(* A file with a key's credential is only ever written when Garage has that *)
(* key: a play that stops half-way leaves no file with a dead credential.   *)
NoDeadFile == [][\A k \in Keys : env'[k] \notin {env[k], 0} => env'[k] \in keys'[k]]_vars

(* What stops the play for good: a key that is not OpenBao's, because of a  *)
(* hand, of a failed read, or of another play beside the first one, both of *)
(* which found no credential and put their own.  Plays that do not overlap  *)
(* and read what there is never lead there.                                 *)
Stuck == events + faults > 0 /\ \E k \in Keys : keys[k] \notin {{}, {cred[k]}}

Stored == /\ acct = [made |-> TRUE, key |-> TRUE, builtin |-> FALSE, homes |-> TRUE]
          /\ sshd.files = SshFiles /\ fw.saved = "spec" /\ fw.on
          /\ vpn.pkg /\ vpn.conf /\ vpn.up /\ vpn.authd = "ad" /\ vpn.closed /\ vpn.pub = Chain
          /\ dflt \in Have /\ bound["dsm"] = dflt
          /\ \A k \in Keys : keys[k] = {cred[k]} /\ env[k] = cred[k] /\ grant[k]
          /\ bucket = "spec" /\ box.image = wantTag /\ ui.file = ui.want /\ ui.up

(* If the plays keep ending, they bring the NAS to what git says, whatever  *)
(* happened, unless they meet a key they must not touch.                    *)
Converges == []<>Idle => <>[](Stored \/ Stuck)

-----------------------------------------------------------------------------
(* synology_ad: if the plays keep ending, a NAS that is not in the domain   *)
(* is joined.                                                               *)
Enrolls == []<>Idle => <>joined

(* synology_garage: a run of the role with a new secret restarts Garage, so *)
(* the tasks after its deployment talk to a server that has read it.        *)
RotationTakesEffect == At("garage_layout") /\ quiet /\ box.up => box.conf = box.toml
=============================================================================
