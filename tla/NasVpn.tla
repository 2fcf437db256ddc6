------------------------------- MODULE NasVpn -------------------------------
(***************************************************************************)
(* The VPN server of the NAS (synology_vpn): a package, its configuration,  *)
(* the OpenVPN daemon, and vpnauthd, which reads at its start which         *)
(* directory it asks.  The configuration is "as in the spec" or not; the    *)
(* spec enables the server and wants the domain's directory.                *)
(***************************************************************************)
EXTENDS NasAccess

VARIABLE vpn   \* see VpnType

VpnInit == vpn = [pkg |-> FALSE, conf |-> FALSE, up |-> FALSE,
                  site |-> "local", authd |-> "down", newer |-> FALSE, closed |-> FALSE,
                  pub |-> "none"]

(* The package starts what its configuration enables.  (External.) *)
Boots(v) == [v EXCEPT !.pkg = TRUE, !.up = v.conf, !.newer = FALSE,
                      !.authd = IF v.conf THEN v.site ELSE "down"]

-----------------------------------------------------------------------------
Package == /\ At("vpn_package") /\ Done
           /\ vpn' = IF vpn.pkg THEN vpn ELSE Boots(vpn)

(* Error 102: the API exists only while the package runs. *)
ApiGone == At("vpn_openvpn") \/ At("vpn_service") \/ At("vpn_privilege")

StoppedPackage == /\ ApiGone /\ ~vpn.pkg /\ Failed
                  /\ UNCHANGED vpn

(* Settings.Config.apply writes the configuration, and starts nothing. *)
Configure == /\ At("vpn_openvpn") /\ vpn.pkg /\ Done
             /\ vpn' = [vpn EXCEPT !.conf = TRUE]

Service == /\ At("vpn_service") /\ vpn.pkg /\ Done
           /\ vpn' = IF vpn.conf /\ ~vpn.up THEN Boots(vpn) ELSE vpn

(* The site file is written later than the oldest vpnauthd started. *)
DaemonIsStale == vpn.authd = "down" \/ vpn.newer

(* Mutant: only the files are compared. *)
FileDrift == vpn.site # "ad"

AuthDrift == vpn.site # "ad" \/ DaemonIsStale

Written == [vpn EXCEPT !.site = "ad", !.newer = (vpn.authd # "down")]

(* A NAS outside the domain is refused.  radiusd.sh starts vpnauthd only if  *)
(* a protocol is enabled; the restart counts when no old process is left    *)
(* and a new one is there.                                                  *)
Auth == /\ At("vpn_auth")
        /\ IF joined THEN Done ELSE Failed
        /\ vpn' = CASE ~joined \/ ~AuthDrift -> vpn
                    [] joined /\ AuthDrift /\ ~vpn.conf -> Written
                    [] OTHER -> [Written EXCEPT !.authd = "ad", !.newer = FALSE]

(* The restart does nothing, with exit code 0, or vpnauthd does not return. *)
AuthFails == /\ At("vpn_auth") /\ joined /\ AuthDrift /\ vpn.conf /\ Faulted
             /\ \E a \in {vpn.authd, "down"} :
                   vpn' = [Written EXCEPT !.authd = a, !.newer = (a # "down")]

Privilege == /\ At("vpn_privilege") /\ vpn.pkg /\ Done
             /\ vpn' = [vpn EXCEPT !.closed = TRUE]

(* Mutant: a published file is left as it is. *)
PublishOnce(chain) == /\ At("vpn_publish") /\ Done
                      /\ vpn' = IF vpn.pub = "none" THEN [vpn EXCEPT !.pub = chain] ELSE vpn

(* The client's file carries the chain of the certificate that the VPN      *)
(* server uses then; the certificates' roles come after this one.           *)
Publish(chain) == /\ At("vpn_publish") /\ Done
                  /\ vpn' = [vpn EXCEPT !.pub = chain]

VpnStep == Package \/ StoppedPackage \/ Configure \/ Service \/ Auth \/ Privilege

VpnFault == AuthFails

-----------------------------------------------------------------------------
(* A package update puts the vendor's files back and restarts everything;   *)
(* the package is stopped; vpnauthd dies; a local account is let in; the    *)
(* client's file is removed from its share.                                 *)
VpnEvent == /\ Event
            /\ \/ vpn.pkg /\ vpn' = Boots([vpn EXCEPT !.site = "local"])
               \/ vpn.pkg /\ vpn' = [vpn EXCEPT !.pkg = FALSE, !.up = FALSE, !.authd = "down",
                                                !.newer = FALSE]
               \/ vpn.authd # "down" /\ vpn' = [vpn EXCEPT !.authd = "down", !.newer = FALSE]
               \/ vpn.closed /\ vpn' = [vpn EXCEPT !.closed = FALSE]
               \/ vpn.pub # "none" /\ vpn' = [vpn EXCEPT !.pub = "none"]

VpnBoot == vpn' = IF vpn.pkg THEN Boots(vpn) ELSE vpn

VpnType == vpn \in [pkg : BOOLEAN,     \* the package runs
                    conf : BOOLEAN,    \* its configuration is the spec's
                    up : BOOLEAN,      \* OpenVPN runs
                    site : {"local", "ad"},
                    authd : {"down", "local", "ad"},   \* the site vpnauthd has read
                    newer : BOOLEAN,   \* the file's mtime is after vpnauthd's start
                    closed : BOOLEAN,  \* no local account may use the VPN
                    pub : {"none", "own", "public"}]   \* the chain in the client's file
=============================================================================
