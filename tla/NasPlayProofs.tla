---------------------------- MODULE NasPlayProofs ----------------------------
(***************************************************************************)
(* What the plays do and never do, for any keys, any number of events from  *)
(* outside and any number of failing calls.  They never lock everybody out, *)
(* leave a file with a credential Garage does not have, or ask for more     *)
(* certificates than there were reasons to; after a good one that nothing   *)
(* disturbed the VPN, the certificate and the keys are as the spec has      *)
(* them, and what runs is what is stored.  The argument for the latter: a   *)
(* task a play has passed undisturbed has left its part as it wants it, and *)
(* no later task of the play touches that part (Passed).                    *)
(***************************************************************************)
EXTENDS NasPlay, FiniteSetTheorems, TLAPS

-----------------------------------------------------------------------------
(* --- The play. --- *)

(* Where each task is in the play. *)
LEMMA Places ==
    /\ At("provision") => at = 1
    /\ At("users_create") => at = 2
    /\ At("users_disable") => at = 3
    /\ At("users_home") => at = 4
    /\ At("users_keys") => at = 5
    /\ At("ssh") => at = 6
    /\ At("fw_profile") => at = 7
    /\ At("fw_enable") => at = 8
    /\ At("ad_config") => at = 9
    /\ At("ad") => at = 10
    /\ At("vpn_package") => at = 11
    /\ At("vpn_openvpn") => at = 12
    /\ At("vpn_service") => at = 13
    /\ At("vpn_auth") => at = 14
    /\ At("vpn_privilege") => at = 15
    /\ At("vpn_publish") => at = 16
    /\ At("cert_issue") => at = 17
    /\ At("cert_default") => at = 18
    /\ At("cert_bind") => at = 19
    /\ At("garage_config") => at = 20
    /\ At("garage_deploy") => at = 21
    /\ At("garage_layout") => at = 22
    /\ At("garage_buckets") => at = 23
    /\ At("garage_keys") => at = 24
    /\ At("ui_config") => at = 25
    /\ At("ui_deploy") => at = 26
BY DEF At, Order

LEMMA OrderLength == Len(Order) = 26
BY DEF Order

(* How a step of the play changes its place: on to the next task, back to   *)
(* idle, or from idle to the first task.                                    *)
LEMMA Moves == /\ Done => at' = at + 1 \/ at' = 0
               /\ Faulted => at' = 0
               /\ Failed => at' = 0
               /\ Start => at = 0 /\ at' = 1
               /\ Event => at' = at /\ events' = events + 1
               /\ BootEvent => at' = 0 /\ events' = events + 1
               /\ Done \/ Faulted \/ Failed \/ Start => events' = events
BY DEF Done, Faulted, Failed, Start, Idle, Event, BootEvent

Tasks == 1..26

(* The roles take their turns. *)
LEMMA Turns == /\ Access => at \in 2..10
               /\ Vpn => at \in 11..16
               /\ Certificates => at \in 17..19
               /\ Garage => at \in {1} \cup 20..26
<1> USE Places
<1>1. Access => at \in 2..10
  BY DEF Access, AccessStep, CreateUser, DisableBuiltin, SetHomes, WriteKeys, Sshd, PushProfile,
     EnableFirewall, DomainConfig, JoinDomain, SshdFails, PushFails
<1>2. Vpn => at \in 11..16
  BY DEF Vpn, VpnStep, Package, StoppedPackage, ApiGone, Configure, Service, Auth, AuthFails,
     Privilege, Publish
<1>3. Certificates => at \in 17..19
  BY DEF Certificates, CertStep, NoIssue, Issue, IssueLost, SetDefault, Bind
<1>4. GarageStep => at \in {1} \cup 20..26
  BY DEF GarageStep, Provision, RenderConfig, Deploy, Layout, Unreachable, SyncBuckets, RefuseKeys,
     SyncKeys, RenderUi, DeployUi
<1>5. GarageFault => at \in {1} \cup 20..26
  BY DEF GarageFault, ProvisionBlind, ProvisionFails, DeployFails, LayoutFails, SyncBucketsFails,
     SyncKeysFails, DeployUiFails
<1> QED
  BY <1>1, <1>2, <1>3, <1>4, <1>5 DEF Garage

(* What any step does to the play itself. *)
Pace == \/ Done \/ Faulted \/ Failed \/ Start \/ Event \/ ProvisionBlind
        \/ UNCHANGED playVars
Move == Pace \/ BootEvent

LEMMA OutsideIsEvent == Outside => Event
BY DEF Outside, AccessEvent, LoseAccount, EditFirewall, VpnEvent, CertEvent, DsmRenews,
   TimePasses, SpecNames, LoseTool, LosePem, OddDates, DeleteOld, LateLook, LateIssue, GarageEvent,
   SpecChange, ContainerStops, ByHand, LoseKeysDir, LatePut

LEMMA NextPaces == [Next]_vars => Pace \/ Reboot
<1> SUFFICES ASSUME [Next]_vars PROVE Pace \/ Reboot
  OBVIOUS
<1>1. Access => Pace
  BY DEF Pace, Access, AccessStep, CreateUser, DisableBuiltin, SetHomes, WriteKeys, Sshd,
     PushProfile, EnableFirewall, DomainConfig, JoinDomain, SshdFails, PushFails
<1>2. Vpn => Pace
  BY DEF Pace, Vpn, VpnStep, Package, StoppedPackage, Configure, Service, Auth, AuthFails,
     Privilege, Publish
<1>3. Certificates => Pace
  BY DEF Pace, Certificates, CertStep, NoIssue, Issue, IssueLost, SetDefault, Bind
<1>4. GarageStep => Pace
  BY DEF Pace, GarageStep, Provision, RenderConfig, Deploy, Layout, Unreachable, SyncBuckets,
     RefuseKeys, SyncKeys, RenderUi, DeployUi
<1>5. GarageFault => Pace
  BY DEF Pace, GarageFault, ProvisionFails, DeployFails, LayoutFails, SyncBucketsFails,
     SyncKeysFails, DeployUiFails
<1>6. Outside => Event
  BY OutsideIsEvent
<1>7. Begin \/ Cut \/ UNCHANGED vars => Pace
  BY DEF Pace, Begin, Cut, vars
<1> QED
  BY <1>1, <1>2, <1>3, <1>4, <1>5, <1>6, <1>7 DEF Next, PlayStep, Garage, Pace

LEMMA NextMoves == [Next]_vars => Move
BY NextPaces DEF Move, Reboot

(* PlayType, the history apart. *)
PlayKind == /\ at \in 0..26 /\ result \in {"none", "running", "ok", "failed"}
            /\ events \in 0..MaxEvents /\ faults \in 0..MaxFaults

LEMMA PlayKinds == PlayType <=> PlayKind /\ quiet \in BOOLEAN /\ broken \in BOOLEAN
BY OrderLength DEF PlayType, PlayKind

LEMMA InitPlay == Init => PlayType
<1> SUFFICES ASSUME PlayInit PROVE PlayType
  BY DEF Init
<1>1. PlayKind
  BY Bounds DEF PlayInit, PlayKind
<1>2. quiet \in BOOLEAN /\ broken \in BOOLEAN
  BY Zenon DEF PlayInit
<1> QED
  BY <1>1, <1>2, PlayKinds

LEMMA NextPlay == PlayType /\ [Next]_vars => PlayType'
<1> SUFFICES ASSUME PlayKind, quiet \in BOOLEAN, broken \in BOOLEAN, Move
             PROVE  PlayKind' /\ quiet' \in BOOLEAN /\ broken' \in BOOLEAN
  BY NextMoves, PlayKinds, OrderLength DEF PlayType, PlayKind
<1>1. PlayKind'
  <2> USE Bounds, OrderLength DEF PlayKind
  <2>1. CASE Done
    BY <2>1 DEF Done
  <2>2. CASE Faulted \/ Failed
    BY <2>2 DEF Faulted, Failed
  <2>3. CASE BootEvent
    BY <2>3 DEF BootEvent
  <2>4. CASE Start \/ Event
    BY <2>4 DEF Start, Event
  <2>5. CASE ProvisionBlind
    BY <2>5, Places DEF ProvisionBlind
  <2>6. CASE UNCHANGED playVars
    BY <2>6 DEF playVars
  <2> QED
    BY <2>1, <2>2, <2>3, <2>4, <2>5, <2>6 DEF Move, Pace
<1>2. quiet' \in BOOLEAN /\ broken' \in BOOLEAN
  BY Zenon DEF Move, Pace, Done, Faulted, Failed, Start, Event, BootEvent, ProvisionBlind, playVars
<1> QED
  BY <1>1, <1>2

(* Task n of the running play, or of the last one if it ended well, is done *)
(* and nothing has happened from outside since the play began.              *)
Passed(n) == quiet /\ (at > n \/ (at = 0 /\ result = "ok"))

(* Only task n itself passes task n. *)
LEMMA Passing == ASSUME PlayType, [Next]_vars, NEW n \in Tasks, Passed(n)', at # n
                 PROVE  Passed(n)
<1> USE DEF Tasks, Passed
<1>0. at \in Nat
  BY PlayKinds DEF PlayKind
<1>1. Move
  BY NextMoves
<1>2. CASE Done
  BY <1>0, <1>2, OrderLength DEF Done
<1>3. ~Faulted /\ ~Failed /\ ~Start
  <2>1. Start => at' = 1
    BY DEF Start
  <2>2. Faulted \/ Failed => at' = 0 /\ result' = "failed"
    BY DEF Faulted, Failed
  <2>3. at' > n \/ (at' = 0 /\ result' = "ok")
    OBVIOUS
  <2> QED
    BY <2>1, <2>2, <2>3
<1>4. ~Event /\ ~BootEvent
  BY DEF Event, BootEvent
<1>5. CASE ProvisionBlind
  BY <1>5, Places DEF ProvisionBlind
<1>6. CASE UNCHANGED playVars
  BY <1>6 DEF playVars
<1> QED
  BY <1>1, <1>2, <1>3, <1>4, <1>5, <1>6 DEF Move, Pace

(* Nothing is passed by an event, a boot, a failure or a beginning. *)
LEMMA NotPassing ==
    ASSUME PlayType, NEW n \in Tasks, Event \/ BootEvent \/ Failed \/ Faulted \/ Start
    PROVE  ~Passed(n)'
BY DEF Tasks, Passed, Event, BootEvent, Failed, Faulted, Start

LEMMA Elsewhere == ASSUME PlayType, Begin \/ Cut \/ Outside \/ Reboot \/ UNCHANGED vars,
                          NEW n \in Tasks
                   PROVE  Passed(n)' => Passed(n)
<1>1. CASE UNCHANGED vars
  BY <1>1 DEF vars, playVars, Passed
<1> QED
  BY <1>1, NotPassing, OutsideIsEvent DEF Begin, Cut, Reboot

(* When a task passes, those before it have been passed. *)
LEMMA BeforeIt == ASSUME Done, NEW n \in Tasks, NEW m \in Tasks, at > m, Passed(n)'
                  PROVE  Passed(m)
<1>1. quiet
  BY Zenon DEF Done, Passed
<1> QED
  BY <1>1 DEF Passed
-----------------------------------------------------------------------------
(* --- The ways in. --- *)

Accounts == [made : BOOLEAN, key : BOOLEAN, builtin : BOOLEAN, homes : BOOLEAN]
Daemons  == [files : SUBSET SshFiles, run : {"password", "keys"}]
Walls    == [saved : Profiles, live : Profiles, on : BOOLEAN]

(* What the play has seen to by the time it gets somewhere. *)
Progress == /\ at >= 3 => acct.made
            /\ at >= 5 => acct.homes
            /\ at >= 6 => acct.key
            /\ at >= 8 => fw.saved # "factory"

(* A firewall that is on has rules, stored and loaded. *)
Ruled == fw.on => fw.saved # "factory" /\ fw.live # "factory"

AccessInv == at \in Nat /\ events \in Nat /\ AccessType /\ Progress /\ Ruled

LEMMA InitAccess == Init => AccessInv
BY JoinedAssumption DEF Init, PlayInit, AccessInit, AccessInv, AccessType, Progress, Ruled, Profiles

(* The place alone moves on, past no task of the access roles. *)
LEMMA AccessKept ==
    ASSUME AccessInv, UNCHANGED accessVars, events' \in {events, events + 1},
           at' = 0 \/ at' = at \/ (at = 0 /\ at' = 1) \/ (at >= 8 /\ at' = at + 1)
                   \/ (at = 1 /\ at' = 2)
    PROVE  AccessInv'
BY DEF AccessInv, AccessType, Progress, Ruled, accessVars

(* A step of a later role, a failing call, the beginning of a play, an event *)
(* elsewhere: the ways in stay as they are.                                 *)
LEMMA OthersKeepAccess ==
    ASSUME AccessInv, UNCHANGED accessVars,
           \/ Begin \/ Vpn \/ Certificates \/ Garage \/ Cut
           \/ VpnEvent \/ CertEvent \/ GarageEvent
    PROVE  AccessInv'
<1> USE Moves, Places, AccessKept
<1>0. at \in Nat
  BY DEF AccessInv
<1>1. CASE Begin
  BY <1>1 DEF Begin
<1>2. CASE Vpn
  BY <1>0, <1>2 DEF Vpn, VpnStep, Package, StoppedPackage, ApiGone, Configure, Service,
        Auth, AuthFails, Privilege, Publish
<1>3. CASE Certificates
  BY <1>0, <1>3 DEF Certificates, CertStep, NoIssue, Issue, IssueLost, SetDefault, Bind
<1>4. CASE Garage
  <2>1. CASE GarageStep
    BY <1>0, <1>4, <2>1 DEF GarageStep, Provision, RenderConfig, Deploy, Layout, Unreachable,
          SyncBuckets, RefuseKeys, SyncKeys, RenderUi, DeployUi
  <2>2. CASE GarageFault
    BY <1>0, <1>4, <2>2 DEF GarageFault, ProvisionBlind, ProvisionFails, DeployFails,
          LayoutFails, SyncBucketsFails, SyncKeysFails, DeployUiFails
  <2> QED
    BY <1>4, <2>1, <2>2 DEF Garage
<1>5. CASE Cut
  BY <1>5 DEF Cut
<1>6. CASE VpnEvent \/ CertEvent \/ GarageEvent
  BY <1>6 DEF VpnEvent, CertEvent, DsmRenews, TimePasses, SpecNames, LoseTool, LosePem, OddDates,
        DeleteOld, LateLook, LateIssue, GarageEvent, SpecChange, ContainerStops, ByHand,
        LoseKeysDir, LatePut
<1> QED
  BY <1>1, <1>2, <1>3, <1>4, <1>5, <1>6

(* AccessInv, field by field. *)
LEMMA AccessParts ==
    ASSUME AccessInv
    PROVE  /\ at \in Nat /\ events \in Nat /\ Progress /\ Ruled
           /\ acct \in Accounts /\ sshd \in Daemons /\ fw \in Walls /\ joined \in BOOLEAN
           /\ acct.made \in BOOLEAN /\ acct.key \in BOOLEAN /\ acct.builtin \in BOOLEAN
           /\ acct.homes \in BOOLEAN
           /\ fw.saved \in Profiles /\ fw.live \in Profiles /\ fw.on \in BOOLEAN
           /\ sshd.files \in SUBSET SshFiles
BY DEF AccessInv, AccessType, Accounts, Daemons, Walls

(* One step of the access roles: nothing of AccessInv is lost, nor a way in. *)
LEMMA AccessStepKeeps == ASSUME AccessInv, AccessStep \/ SshdFails \/ PushFails
                         PROVE  AccessInv' /\ (WayIn => WayIn')
<1> USE Moves, Places, AccessParts
<1>p. Profiles = {"factory", "spec", "ui"}
  BY DEF Profiles
<1>1. CASE CreateUser
  <2>1. acct' \in Accounts /\ acct'.made /\ acct'.key = acct.key /\ acct'.homes = acct.homes
    BY <1>1 DEF CreateUser, Accounts
  <2> QED
    BY <1>1, <2>1 DEF CreateUser, AccessInv, AccessType, Accounts, Daemons, Walls, Progress,
          Ruled, WayIn
<1>2. CASE DisableBuiltin
  <2>1. /\ acct' \in Accounts /\ acct'.made = acct.made /\ acct'.key = acct.key
        /\ acct'.homes = acct.homes
    BY <1>2 DEF DisableBuiltin, Accounts
  <2> QED
    BY <1>2, <2>1 DEF DisableBuiltin, AccessInv, AccessType, Accounts, Daemons, Walls, Progress,
          Ruled, WayIn
<1>3. CASE WriteKeys
  <2>1. /\ acct' \in Accounts /\ acct'.made = acct.made /\ acct'.key = acct.made
        /\ acct'.builtin = acct.builtin /\ acct'.homes = acct.homes
    <3>1. PICK m \in BOOLEAN : m = acct.made /\ acct' = [acct EXCEPT !.key = m]
      BY <1>3 DEF WriteKeys
    <3>2. LET g == [acct EXCEPT !.key = m]
          IN  /\ g \in Accounts /\ g.key = m /\ g.made = acct.made /\ g.builtin = acct.builtin
              /\ g.homes = acct.homes
      BY DEF Accounts
    <3> QED
      BY <3>1, <3>2
  <2> QED
    BY <1>3, <2>1 DEF WriteKeys, AccessInv, AccessType, Accounts, Daemons, Walls, Progress,
          Ruled, WayIn
<1>4. CASE Sshd
  BY <1>4 DEF Sshd, Accepts, AccessInv, AccessType, Progress, Ruled, WayIn
<1>5. CASE PushProfile
  <2>1. CASE fw' = fw
    BY <1>5, <2>1 DEF PushProfile, AccessInv, AccessType, Progress, Ruled, WayIn
  <2>2. CASE fw' = [fw EXCEPT !.saved = "spec", !.live = "spec"]
    <3>1. fw' \in Walls /\ fw'.saved = "spec" /\ fw'.live = "spec"
      BY <1>p, <2>2 DEF Walls
    <3> QED
      BY <1>5, <3>1 DEF PushProfile, AccessInv, AccessType, Walls, Progress, Ruled, WayIn
  <2> QED
    BY <1>5, <2>1, <2>2 DEF PushProfile
<1>6. CASE EnableFirewall
  <2>1. CASE fw' = fw
    BY <1>6, <2>1 DEF EnableFirewall, AccessInv, AccessType, Progress, Ruled, WayIn
  <2>2. CASE fw' = [fw EXCEPT !.on = TRUE, !.live = fw.saved]
    <3>1. fw' \in Walls /\ fw'.saved = fw.saved /\ fw'.live = fw.saved
      BY <2>2 DEF Walls
    <3> QED
      BY <1>6, <3>1 DEF EnableFirewall, AccessInv, AccessType, Walls, Progress, Ruled, WayIn
  <2> QED
    BY <1>6, <2>1, <2>2 DEF EnableFirewall
<1>7. CASE JoinDomain
  BY <1>7 DEF JoinDomain, Join, ContainsJoined, TestJoin, AccessInv, AccessType, Progress, Ruled, WayIn
<1>8. CASE SshdFails
  <2>1. PICK f \in SUBSET SshFiles : sshd' = [sshd EXCEPT !.files = f]
    BY <1>8 DEF SshdFails, SshFiles
  <2>2. sshd' \in Daemons /\ sshd'.run = sshd.run
    BY <2>1 DEF Daemons
  <2> QED
    BY <1>8, <2>2 DEF SshdFails, AccessInv, AccessType, Daemons, Progress, Ruled, WayIn
<1>9. CASE PushFails
  <2>1. CASE fw' = fw
    BY <1>9, <2>1 DEF PushFails, AccessInv, AccessType, Progress, Ruled, WayIn
  <2>2. CASE \E l \in {fw.live, "spec"} : fw' = [fw EXCEPT !.saved = "spec", !.live = l]
    <3>1. PICK l \in {fw.live, "spec"} : fw' = [fw EXCEPT !.saved = "spec", !.live = l]
      BY <2>2
    <3>l. l \in Profiles /\ "spec" \in Profiles
      BY <1>p, AccessParts
    <3>k. LET g == [fw EXCEPT !.saved = "spec", !.live = l]
          IN  g \in Walls /\ g.saved = "spec" /\ g.live = l /\ g.on = fw.on
      BY <3>l DEF Walls
    <3>2. fw' \in Walls /\ fw'.saved = "spec" /\ fw'.live = l /\ fw'.on = fw.on
      BY <3>1, <3>k
    <3> QED
      BY <1>9, <3>2 DEF PushFails, AccessInv, AccessType, Walls, Progress, Ruled, WayIn
  <2> QED
    BY <1>9, <2>1, <2>2 DEF PushFails
<1>10. CASE SetHomes
  <2>1. /\ acct' \in Accounts /\ acct'.made = acct.made /\ acct'.key = acct.key /\ acct'.homes
        /\ acct'.builtin = acct.builtin
    BY <1>10 DEF SetHomes, Accounts
  <2> QED
    BY <1>10, <2>1 DEF SetHomes, AccessInv, AccessType, Accounts, Daemons, Walls, Progress,
          Ruled, WayIn
<1>11. CASE DomainConfig
  BY <1>11 DEF DomainConfig, accessVars, AccessInv, AccessType, Progress, Ruled, WayIn
<1> QED
  BY <1>1, <1>2, <1>3, <1>4, <1>5, <1>6, <1>7, <1>8, <1>9, <1>10, <1>11 DEF AccessStep

(* An event about the ways in. *)
LEMMA AccessEventKeeps == ASSUME AccessInv, AccessEvent PROVE AccessInv' /\ events' # events
<1> USE Moves, AccessParts
<1>1. CASE LoseAccount
  <2>1. \/ \E m \in {TRUE, ~acct.builtin} : acct' = [acct EXCEPT !.made = m, !.key = FALSE]
        \/ acct' = [acct EXCEPT !.homes = FALSE]
    BY <1>1 DEF LoseAccount
  <2>2. acct' \in Accounts
    BY <2>1 DEF Accounts
  <2>3. UNCHANGED <<sshd, fw, joined>> /\ at = 0 /\ at' = 0 /\ events' = events + 1
    BY <1>1 DEF LoseAccount, Idle
  <2> QED
    BY <2>2, <2>3 DEF AccessInv, AccessType, Accounts, Progress, Ruled
<1>2. CASE EditFirewall
  <2>1. fw' \in Walls /\ fw'.saved = "ui" /\ fw'.live = "ui"
    BY <1>2 DEF EditFirewall, Profiles, Walls
  <2> QED
    BY <1>2, <2>1 DEF EditFirewall, AccessInv, AccessType, Walls, Progress, Ruled
<1> QED
  BY <1>1, <1>2 DEF AccessEvent

(* A boot. *)
LEMMA RebootKeeps == ASSUME AccessInv, Reboot PROVE AccessInv' /\ events' # events
<1> USE AccessParts
<1>1. PICK files \in SUBSET sshd.files : Boot(files)
  BY DEF Reboot
<1>2. at' = 0 /\ events' = events + 1
  BY Moves DEF Reboot
<1>3. fw' \in Walls /\ fw'.saved = fw.saved /\ fw'.live = fw.saved /\ fw'.on = fw.on
  BY <1>1 DEF Boot, Walls
<1>4. sshd' \in Daemons
  BY <1>1 DEF Boot, Daemons, Accepts
<1> QED
  BY <1>1, <1>2, <1>3, <1>4 DEF Boot, AccessInv, AccessType, Daemons, Walls, Progress, Ruled

(* Every step keeps what the lockdown rests on. *)
LEMMA NextAccess == AccessInv /\ [Next]_vars => AccessInv'
<1> SUFFICES ASSUME AccessInv, [Next]_vars PROVE AccessInv'
  OBVIOUS
<1>1. CASE Access
  BY <1>1, AccessStepKeeps DEF Access
<1>2. CASE Begin \/ Vpn \/ Certificates \/ Garage \/ Cut
  BY <1>2, OthersKeepAccess DEF Begin, Vpn, Certificates, Garage, Cut, accessVars
<1>3. CASE Outside
  BY <1>3, OthersKeepAccess, AccessEventKeeps DEF Outside
<1>4. CASE Reboot
  BY <1>4, RebootKeeps
<1>5. CASE UNCHANGED vars
  BY <1>5, AccessKept DEF vars, playVars, accessVars
<1> QED
  BY <1>1, <1>2, <1>3, <1>4, <1>5 DEF Next, PlayStep

(* The roles' order keeps the lockdown of SSH and of the firewall behind the *)
(* account, its key and the rules, whatever fails and whatever people and   *)
(* DSM change between and during the plays (playbook.yml).                  *)
THEOREM NobodyLockedOut == Spec => NeverLocksOut
<1>1. AccessInv /\ [Next]_vars => (WayIn /\ events' = events => WayIn')
  <2> SUFFICES ASSUME AccessInv, [Next]_vars, WayIn, events' = events PROVE WayIn'
    OBVIOUS
  <2>1. CASE Access
    BY <2>1, AccessStepKeeps DEF Access
  <2>2. CASE UNCHANGED accessVars
    BY <2>2 DEF accessVars, WayIn
  <2>3. CASE AccessEvent \/ Reboot
    BY <2>3, AccessEventKeeps, RebootKeeps
  <2> QED
    BY <2>1, <2>2, <2>3 DEF Next, PlayStep, Begin, Vpn, Certificates, Garage, Cut, Outside,
          vars, accessVars
<1> QED
  BY <1>1, InitAccess, NextAccess, PTL DEF Spec, NeverLocksOut
-----------------------------------------------------------------------------
(* --- The VPN server. --- *)

VpnRecords == [pkg : BOOLEAN, conf : BOOLEAN, up : BOOLEAN, site : {"local", "ad"},
               authd : {"down", "local", "ad"}, newer : BOOLEAN, closed : BOOLEAN,
               pub : {"none", "own", "public"}]

(* A vpnauthd that is not older than its site file has read it. *)
Fresh(v) == v.authd = "down" \/ v.newer \/ v.authd = v.site

(* What the play has seen to, past each task of the role. *)
VpnDone == /\ Passed(12) => vpn.conf
           /\ Passed(13) => vpn.up
           /\ Passed(14) => vpn.authd = "ad"
           /\ Passed(15) => vpn.closed

VpnInv == vpn \in VpnRecords /\ Fresh(vpn) /\ VpnDone

LEMMA InitVpn == Init => VpnInv
<1> SUFFICES ASSUME VpnInit, PlayInit PROVE VpnInv
  BY DEF Init
<1>1. vpn \in VpnRecords /\ Fresh(vpn)
  BY DEF VpnInit, VpnRecords, Fresh
<1>2. VpnDone
  BY DEF PlayInit, VpnDone, Passed
<1> QED
  BY <1>1, <1>2 DEF VpnInv

(* What the package starts with. *)
LEMMA BootsIs ==
    ASSUME NEW v \in VpnRecords
    PROVE  /\ Boots(v) \in VpnRecords /\ Fresh(Boots(v))
           /\ Boots(v).conf = v.conf /\ Boots(v).up = v.conf /\ Boots(v).closed = v.closed
           /\ v.conf => Boots(v).authd = v.site
<1> DEFINE c == v.conf
           a == IF v.conf THEN v.site ELSE "down"
           b == [v EXCEPT !.pkg = TRUE, !.up = c, !.newer = FALSE, !.authd = a]
<1>1. c \in BOOLEAN /\ a \in {"down", "local", "ad"} /\ (a = "down" \/ a = v.site)
  BY DEF VpnRecords
<1>2. v.conf => a = v.site
  OBVIOUS
<1>3. Boots(v) = b
  BY DEF Boots
<1>4. v.conf = c
  OBVIOUS
<1> HIDE DEF c, a
<1>5. /\ b \in VpnRecords /\ b.conf = c /\ b.up = c /\ b.closed = v.closed
      /\ b.authd = a /\ b.site = v.site
  BY <1>1, <1>4 DEF VpnRecords
<1> QED
  BY <1>1, <1>2, <1>3, <1>4, <1>5 DEF Fresh

(* A step of another role or none. *)
LEMMA VpnKept == ASSUME VpnInv, PlayType, [Next]_vars, UNCHANGED vpn, at \notin 12..15
                 PROVE  VpnInv'
<1>1. \A n \in 12..15 : Passed(n)' => Passed(n)
  BY Passing DEF Tasks
<1> QED
  BY <1>1 DEF VpnInv, VpnDone, Fresh

(* The package stops or starts, files are changed under it. *)
LEMMA VpnOutside == ASSUME VpnInv, PlayType, VpnEvent \/ (BootEvent /\ VpnBoot) PROVE VpnInv'
<1>1. \A n \in Tasks : ~Passed(n)'
  BY NotPassing DEF VpnEvent
<1>2. vpn' \in VpnRecords /\ Fresh(vpn')
  <2>1. vpn \in VpnRecords /\ Fresh(vpn)
    BY DEF VpnInv
  <2>2. [vpn EXCEPT !.site = "local"] \in VpnRecords
    BY <2>1 DEF VpnRecords
  <2>3. /\ Boots(vpn) \in VpnRecords /\ Fresh(Boots(vpn))
        /\ Boots([vpn EXCEPT !.site = "local"]) \in VpnRecords
        /\ Fresh(Boots([vpn EXCEPT !.site = "local"]))
    BY <2>1, <2>2, BootsIs
  <2>4. CASE VpnBoot
    BY <2>1, <2>3, <2>4 DEF VpnBoot
  <2>5. CASE VpnEvent
    <3>1. CASE vpn' = Boots([vpn EXCEPT !.site = "local"])
      BY <2>3, <3>1
    <3>2. CASE vpn' = [vpn EXCEPT !.pkg = FALSE, !.up = FALSE, !.authd = "down", !.newer = FALSE]
      BY <2>1, <3>2 DEF VpnRecords, Fresh
    <3>3. CASE vpn' = [vpn EXCEPT !.authd = "down", !.newer = FALSE]
      BY <2>1, <3>3 DEF VpnRecords, Fresh
    <3>4. CASE vpn' = [vpn EXCEPT !.closed = FALSE]
      BY <2>1, <3>4 DEF VpnRecords, Fresh
    <3>5. CASE vpn' = [vpn EXCEPT !.pub = "none"]
      BY <2>1, <3>5 DEF VpnRecords, Fresh
    <3> QED
      BY <2>5, <3>1, <3>2, <3>3, <3>4, <3>5 DEF VpnEvent
  <2> QED
    BY <2>4, <2>5
<1> QED
  BY <1>1, <1>2 DEF VpnInv, VpnDone, Tasks

(* One task of the role. *)
LEMMA VpnTask == ASSUME VpnInv, PlayType, [Next]_vars, Vpn PROVE VpnInv'
<1> USE Places
<1>1. \A n \in 12..15 : n # at => (Passed(n)' => Passed(n))
  BY Passing DEF Tasks
<1>2. vpn \in VpnRecords /\ Fresh(vpn) /\ VpnDone
  BY DEF VpnInv
<1>3. at \in Nat
  BY PlayKinds DEF PlayKind
<1>4. CASE Package
  <2>1. vpn' = vpn \/ vpn' = Boots(vpn)
    BY <1>4 DEF Package
  <2>2. vpn' \in VpnRecords /\ Fresh(vpn')
    BY <1>2, <2>1, BootsIs
  <2>3. \A n \in 12..15 : ~Passed(n)
    BY <1>4 DEF Package, Passed
  <2> QED
    BY <1>1, <1>4, <2>2, <2>3 DEF VpnInv, VpnDone, Package
<1>5. CASE StoppedPackage \/ AuthFails
  <2>1. vpn' \in VpnRecords /\ Fresh(vpn')
    <3>1. CASE StoppedPackage
      BY <1>2, <3>1 DEF StoppedPackage
    <3>2. CASE AuthFails
      <4>1. PICK a \in {vpn.authd, "down"} :
               vpn' = [Written EXCEPT !.authd = a, !.newer = (a # "down")]
        BY <3>2 DEF AuthFails
      <4> DEFINE w == (a # "down")
      <4>2. w \in BOOLEAN /\ (~w => a = "down") /\ a \in {"down", "local", "ad"}
        BY <1>2 DEF VpnRecords
      <4>3. vpn' = [[vpn EXCEPT !.site = "ad", !.newer = (vpn.authd # "down")]
                       EXCEPT !.authd = a, !.newer = w]
        BY <4>1 DEF Written
      <4> HIDE DEF w
      <4>4. vpn' = [vpn EXCEPT !.site = "ad", !.authd = a, !.newer = w]
        BY <1>2, <4>3 DEF VpnRecords
      <4>5. vpn' \in VpnRecords /\ vpn'.authd = a /\ vpn'.newer = w
        BY <1>2, <4>2, <4>4 DEF VpnRecords
      <4> QED
        BY <4>2, <4>5 DEF Fresh
    <3> QED
      BY <1>5, <3>1, <3>2
  <2>2. \A n \in Tasks : ~Passed(n)'
    BY <1>5, NotPassing DEF StoppedPackage, AuthFails
  <2> QED
    BY <2>1, <2>2 DEF VpnInv, VpnDone, Tasks
<1>6. CASE Configure
  <2>1. /\ vpn' \in VpnRecords /\ Fresh(vpn') /\ vpn'.conf
    BY <1>2, <1>6 DEF Configure, VpnRecords, Fresh
  <2>2. at = 12 /\ \A n \in 13..15 : ~Passed(n)
    BY <1>6 DEF Configure, Passed
  <2> QED
    BY <1>1, <2>1, <2>2 DEF VpnInv, VpnDone
<1>7. CASE Service
  <2>1. at = 13 /\ \A n \in 14..15 : ~Passed(n)
    BY <1>7 DEF Service, Passed
  <2>2. vpn' = IF vpn.conf /\ ~vpn.up THEN Boots(vpn) ELSE vpn
    BY <1>7 DEF Service
  <2>3. vpn' \in VpnRecords /\ Fresh(vpn') /\ vpn'.conf = vpn.conf /\ (vpn.conf => vpn'.up)
    BY <1>2, <2>2, BootsIs
  <2>4. Passed(13)' => Passed(12)
    BY <1>7, <2>1, BeforeIt DEF Service, Tasks
  <2> QED
    BY <1>1, <1>2, <2>1, <2>3, <2>4 DEF VpnInv, VpnDone
<1>8. CASE Auth
  <2>1. at = 14 /\ ~Passed(15)
    BY <1>8 DEF Auth, Passed
  <2>2. CASE ~joined
    <3>1. vpn' = vpn /\ Failed
      BY <1>8, <2>2 DEF Auth
    <3>2. \A n \in Tasks : ~Passed(n)'
      BY <3>1, NotPassing
    <3> QED
      BY <1>2, <3>1, <3>2 DEF VpnInv, VpnDone, Tasks
  <2>3. CASE joined /\ ~AuthDrift
    <3>1. vpn' = vpn /\ vpn.authd = "ad"
      BY <1>2, <1>8, <2>3 DEF Auth, AuthDrift, DaemonIsStale, Fresh
    <3> QED
      BY <1>1, <1>2, <2>1, <3>1 DEF VpnInv, VpnDone
  <2>4. CASE joined /\ AuthDrift /\ ~vpn.conf
    <3> DEFINE w == (vpn.authd # "down")
    <3>1. vpn' = [vpn EXCEPT !.site = "ad", !.newer = w]
      BY <1>8, <2>4 DEF Auth, Written
    <3>2. w \in BOOLEAN /\ (~w => vpn.authd = "down")
      OBVIOUS
    <3> HIDE DEF w
    <3>3. /\ vpn' \in VpnRecords /\ Fresh(vpn')
          /\ vpn'.conf = vpn.conf /\ vpn'.up = vpn.up /\ vpn'.closed = vpn.closed
      BY <1>2, <3>1, <3>2 DEF VpnRecords, Fresh
    <3>4. Passed(14)' => Passed(12)
      BY <1>8, <2>1, <2>4, BeforeIt DEF Auth, Tasks
    <3> QED
      BY <1>1, <1>2, <2>1, <2>4, <3>3, <3>4 DEF VpnInv, VpnDone
  <2>5. CASE joined /\ AuthDrift /\ vpn.conf
    <3>1. vpn' = [Written EXCEPT !.authd = "ad", !.newer = FALSE]
      BY <1>8, <2>5 DEF Auth
    <3>2. Written = [vpn EXCEPT !.site = "ad", !.newer = (vpn.authd # "down")]
      BY DEF Written
    <3>3. vpn' = [vpn EXCEPT !.site = "ad", !.authd = "ad", !.newer = FALSE]
      BY <1>2, <3>1, <3>2 DEF VpnRecords
    <3>4. /\ vpn' \in VpnRecords /\ Fresh(vpn') /\ vpn'.authd = "ad"
          /\ vpn'.conf = vpn.conf /\ vpn'.up = vpn.up /\ vpn'.closed = vpn.closed
      BY <1>2, <3>3 DEF VpnRecords, Fresh
    <3> QED
      BY <1>1, <1>2, <2>1, <3>4 DEF VpnInv, VpnDone
  <2> QED
    BY <2>2, <2>3, <2>4, <2>5
<1>9. CASE Privilege
  <2>1. /\ vpn' \in VpnRecords /\ Fresh(vpn') /\ vpn'.closed
        /\ vpn'.conf = vpn.conf /\ vpn'.up = vpn.up /\ vpn'.authd = vpn.authd
    BY <1>2, <1>9 DEF Privilege, VpnRecords, Fresh
  <2>2. at = 15
    BY <1>9 DEF Privilege
  <2> QED
    BY <1>1, <1>2, <2>1, <2>2 DEF VpnInv, VpnDone
<1>10. CASE Publish(Chain)
  <2>1. Chain \in {"none", "own", "public"}
    BY DEF Chain
  <2>2. /\ vpn' \in VpnRecords /\ Fresh(vpn') /\ vpn'.closed = vpn.closed
        /\ vpn'.conf = vpn.conf /\ vpn'.up = vpn.up /\ vpn'.authd = vpn.authd
    BY <1>2, <1>10, <2>1 DEF Publish, VpnRecords, Fresh
  <2>3. at = 16
    BY <1>10 DEF Publish
  <2> QED
    BY <1>1, <1>2, <2>2, <2>3 DEF VpnInv, VpnDone
<1> QED
  BY <1>4, <1>5, <1>6, <1>7, <1>8, <1>9, <1>10 DEF Vpn, VpnStep

LEMMA NextVpn == PlayType /\ VpnInv /\ [Next]_vars => VpnInv'
<1> SUFFICES ASSUME PlayType, VpnInv, [Next]_vars PROVE VpnInv'
  OBVIOUS
<1>1. CASE Vpn
  BY <1>1, VpnTask
<1>2. CASE Access \/ Certificates \/ Garage
  BY <1>2, VpnKept, Turns DEF Access, Certificates, Garage
<1>3. CASE Begin
  BY <1>3, VpnKept DEF Begin, Start, Idle
<1>4. CASE VpnEvent
  BY <1>4, VpnOutside
<1>5. CASE Reboot
  BY <1>5, VpnOutside DEF Reboot
<1>6. CASE (Cut \/ Outside \/ UNCHANGED vars) /\ UNCHANGED vpn
  <2>1. \A n \in Tasks : Passed(n)' => Passed(n)
    BY <1>6, Elsewhere
  <2> QED
    BY <1>6, <2>1 DEF VpnInv, VpnDone, Fresh, Tasks
<1> QED
  BY <1>1, <1>2, <1>3, <1>4, <1>5, <1>6 DEF Next, PlayStep, Outside, Cut, vars

(* After a good play nobody disturbed, the VPN is up, asks the domain and   *)
(* lets no local account in, however many package updates, dead daemons and *)
(* failed plays came before it: cmd_auth compares the daemon's age with its *)
(* file, so that a file that is right is not taken for a daemon that is.    *)
THEOREM VpnIsServed == Spec => []VpnServes
<1>1. PlayType /\ VpnInv => VpnServes
  BY DEF VpnInv, VpnDone, VpnServes, Settled, Idle, Passed
<1> QED
  BY <1>1, InitPlay, NextPlay, InitVpn, NextVpn, PTL DEF Spec
-----------------------------------------------------------------------------
(* --- Garage. --- *)

BoxRecords(n) == [toml : 0..2, compose : 0..n, image : 0..n, up : BOOLEAN, conf : 0..2]
UiRecords(n)  == [want : 1..n, file : 0..n, run : 0..n, up : BOOLEAN, changed : BOOLEAN]

(* The server and the web interface, as far as the commits go. *)
GarageKind == /\ token = 1 /\ wantTag \in 1..(1 + events)
              /\ box \in BoxRecords(1 + events) /\ ui \in UiRecords(1 + events)
              /\ layout \in {"none", "staged", "applied"}
              /\ bucket \in {"absent", "bare", "spec"}

LEMMA InitGarageKind == Init => GarageKind
BY DEF Init, PlayInit, GarageInit, GarageKind, BoxRecords, UiRecords

(* One commit more makes room for more. *)
LEMMA RoomGrows ==
    ASSUME NEW n \in Nat
    PROVE  BoxRecords(n) \subseteq BoxRecords(n + 1) /\ UiRecords(n) \subseteq UiRecords(n + 1)
BY DEF BoxRecords, UiRecords

LEMMA GarageKindKept ==
    ASSUME GarageKind, events \in Nat, events' \in {events, events + 1},
           UNCHANGED <<token, wantTag>>,
           layout' \in {"none", "staged", "applied"}, bucket' \in {"absent", "bare", "spec"},
           box' \in BoxRecords(1 + events), ui' \in UiRecords(1 + events)
    PROVE  GarageKind'
<1>1. box' \in BoxRecords(1 + events') /\ ui' \in UiRecords(1 + events')
  <2>1. CASE events' = events
    BY <2>1
  <2>2. CASE events' = events + 1
    <3>1. 1 + events \in Nat /\ 1 + events' = (1 + events) + 1
      BY <2>2
    <3>2. BoxRecords(1 + events) \subseteq BoxRecords((1 + events) + 1)
          /\ UiRecords(1 + events) \subseteq UiRecords((1 + events) + 1)
      BY <3>1, RoomGrows
    <3>3. box' \in BoxRecords((1 + events) + 1) /\ ui' \in UiRecords((1 + events) + 1)
      BY <3>2
    <3> QED
      BY <3>1, <3>3
  <2> QED
    BY <2>1, <2>2
<1>2. wantTag' \in 1..(1 + events')
  <2>1. wantTag \in Nat /\ 1 <= wantTag /\ wantTag <= 1 + events
    BY DEF GarageKind
  <2>2. events' \in Nat /\ events <= events'
    OBVIOUS
  <2>3. wantTag' = wantTag
    OBVIOUS
  <2>4. \A w, e, f \in Nat : 1 <= w /\ w <= 1 + e /\ e <= f => w \in 1..(1 + f)
    OBVIOUS
  <2> QED
    BY <2>1, <2>2, <2>3, <2>4
<1> QED
  BY <1>1, <1>2 DEF GarageKind

(* `docker compose up` leaves the server up, with the wanted image. *)
LEMMA UppedIs ==
    ASSUME NEW n \in Nat, NEW b \in BoxRecords(n), wantTag \in 1..n
    PROVE  Upped(b) \in BoxRecords(n) /\ Upped(b).up
<1>1. CASE b.up /\ b.image = wantTag
  <2>1. Upped(b) = [b EXCEPT !.compose = wantTag]
    BY <1>1 DEF Upped
  <2> QED
    BY <1>1, <2>1 DEF BoxRecords
<1>2. CASE ~(b.up /\ b.image = wantTag)
  <2>1. Upped(b) = [b EXCEPT !.compose = wantTag, !.image = wantTag, !.up = TRUE, !.conf = b.toml]
    BY <1>2 DEF Upped
  <2>2. wantTag \in 0..n /\ b.toml \in 0..2
    BY DEF BoxRecords
  <2> QED
    BY <2>1, <2>2 DEF BoxRecords
<1> QED
  BY <1>1, <1>2

(* The server and the interface, after each step that changes one. *)
LEMMA BoxSteps ==
    ASSUME GarageKind, events \in Nat, UNCHANGED <<token, wantTag>>
    PROVE  /\ RenderConfig \/ Deploy \/ DeployFails \/ ContainerStops \/ GarageBoot =>
                 box' \in BoxRecords(1 + events)
           /\ RenderUi \/ DeployUi \/ DeployUiFails \/ ContainerStops \/ GarageBoot =>
                 ui' \in UiRecords(1 + events)
<1>0. PICK n \in Nat : n = 1 + events /\ n >= 1
  OBVIOUS
<1>k. /\ box \in BoxRecords(n) /\ ui \in UiRecords(n)
      /\ wantTag \in 1..n /\ wantTag \in 0..n /\ token \in 0..2
  BY <1>0 DEF GarageKind
<1>b. ASSUME RenderConfig \/ Deploy \/ DeployFails \/ ContainerStops \/ GarageBoot
      PROVE  box' \in BoxRecords(n)
  <2>1. CASE RenderConfig
    <3>1. box' = [box EXCEPT !.toml = token]
      BY <2>1 DEF RenderConfig
    <3> QED
      BY <1>k, <3>1 DEF BoxRecords
  <2>2. CASE Deploy
    BY <1>k, <2>2, UppedIs DEF Deploy
  <2>3. CASE DeployFails
    <3>1. \/ box' = [box EXCEPT !.compose = wantTag]
          \/ box' = [[box EXCEPT !.image = wantTag, !.up = FALSE] EXCEPT !.compose = wantTag]
      BY <2>3 DEF DeployFails
    <3> QED
      BY <1>k, <3>1 DEF BoxRecords
  <2>4. CASE ContainerStops
    <3>1. box' = box \/ box' = [box EXCEPT !.up = FALSE]
      BY <2>4 DEF ContainerStops
    <3> QED
      BY <1>k, <3>1 DEF BoxRecords
  <2>5. CASE GarageBoot
    <3>1. box' = box \/ box' = [box EXCEPT !.conf = box.toml]
      BY <2>5 DEF GarageBoot
    <3> QED
      BY <1>k, <3>1 DEF BoxRecords
  <2> QED
    BY <1>b, <2>1, <2>2, <2>3, <2>4, <2>5
<1>u. ASSUME RenderUi \/ DeployUi \/ DeployUiFails \/ ContainerStops \/ GarageBoot
      PROVE  ui' \in UiRecords(n)
  <2>1. CASE RenderUi
    <3>1. PICK c \in BOOLEAN : ui' = [ui EXCEPT !.file = ui.want, !.changed = c]
      BY <2>1 DEF RenderUi
    <3>2. ui.want \in 0..n
      BY <1>0, <1>k DEF UiRecords
    <3> QED
      BY <1>k, <3>1, <3>2 DEF UiRecords
  <2>2. CASE DeployUi
    <3>1. ui' = ui \/ ui' = [ui EXCEPT !.up = TRUE, !.run = ui.file]
      BY <2>2 DEF DeployUi
    <3> QED
      BY <1>k, <3>1 DEF UiRecords
  <2>3. CASE DeployUiFails
    <3>1. PICK u \in {ui.up, FALSE} : ui' = [ui EXCEPT !.up = u]
      BY <2>3 DEF DeployUiFails
    <3>2. u \in BOOLEAN
      BY <1>k DEF UiRecords
    <3> QED
      BY <1>k, <3>1, <3>2 DEF UiRecords
  <2>4. CASE ContainerStops
    <3>1. ui' = ui \/ ui' = [ui EXCEPT !.up = FALSE]
      BY <2>4 DEF ContainerStops
    <3> QED
      BY <1>k, <3>1 DEF UiRecords
  <2>5. CASE GarageBoot
    <3>1. ui' = ui \/ ui' = [ui EXCEPT !.run = ui.file]
      BY <2>5 DEF GarageBoot
    <3> QED
      BY <1>k, <3>1 DEF UiRecords
  <2> QED
    BY <1>u, <2>1, <2>2, <2>3, <2>4, <2>5
<1> QED
  BY <1>0, <1>b, <1>u

LEMMA NextGarageKind == PlayType /\ GarageKind /\ [Next]_vars => GarageKind'
<1> SUFFICES ASSUME PlayType, GarageKind, [Next]_vars PROVE GarageKind'
  OBVIOUS
<1>0. events \in Nat /\ events' \in {events, events + 1}
  <2>1. events \in Nat
    BY PlayKinds, Bounds DEF PlayKind
  <2>2. events' \in {events, events + 1}
    BY Moves, NextMoves DEF Move, Pace, ProvisionBlind, playVars
  <2> QED
    BY <2>1, <2>2
<1>k. /\ box \in BoxRecords(1 + events) /\ ui \in UiRecords(1 + events)
      /\ layout \in {"none", "staged", "applied"} /\ bucket \in {"absent", "bare", "spec"}
  BY DEF GarageKind
<1> USE GarageKindKept, BoxSteps
<1>1. CASE UNCHANGED garageVars
  BY <1>0, <1>k, <1>1 DEF garageVars
<1>2. CASE Garage
  <2>1. CASE Provision \/ ProvisionBlind \/ ProvisionFails \/ RefuseKeys \/ SyncKeys \/ SyncKeysFails
             \/ Unreachable
    BY <1>0, <1>k, <2>1 DEF Provision, ProvisionBlind, ProvisionFails, RefuseKeys, SyncKeys,
       SyncKeysFails, Unreachable, garageVars
  <2>2. CASE RenderConfig \/ Deploy \/ DeployFails
    BY <1>0, <1>k, <2>2 DEF RenderConfig, Deploy, DeployFails
  <2>3. CASE RenderUi \/ DeployUi \/ DeployUiFails
    BY <1>0, <1>k, <2>3 DEF RenderUi, DeployUi, DeployUiFails
  <2>4. CASE Layout \/ LayoutFails \/ SyncBuckets \/ SyncBucketsFails
    BY <1>0, <1>k, <2>4 DEF Layout, LayoutFails, SyncBuckets, SyncBucketsFails
  <2> QED
    BY <1>2, <2>1, <2>2, <2>3, <2>4 DEF Garage, GarageStep, GarageFault
<1>3. CASE GarageEvent
  <2>1. CASE SpecChange
    <3>1. events' = events + 1 /\ UNCHANGED <<token, box, layout, bucket>>
      BY <2>1, Moves DEF SpecChange
    <3>2. \/ wantTag' = wantTag + 1 /\ ui' = ui
          \/ wantTag' = wantTag /\ ui' = [ui EXCEPT !.want = ui.want + 1]
      BY <2>1 DEF SpecChange
    <3>3. wantTag' \in 1..(1 + events') /\ ui' \in UiRecords(1 + events')
      <4>1. wantTag' \in 1..(1 + events')
        BY <1>0, <3>1, <3>2 DEF GarageKind
      <4>2. ui' \in UiRecords(1 + events')
        <5>1. PICK n \in Nat : n = 1 + events /\ 1 + events' = n + 1
          BY <1>0, <3>1
        <5>2. ui \in UiRecords(n + 1)
          BY <1>k, <5>1, RoomGrows
        <5>3. ui.want + 1 \in 1..(n + 1)
          BY <1>k, <5>1 DEF UiRecords
        <5>4. ui' \in UiRecords(n + 1)
          BY <3>2, <5>2, <5>3 DEF UiRecords
        <5> QED
          BY <5>1, <5>4
      <4> QED
        BY <4>1, <4>2
    <3>4. box' \in BoxRecords(1 + events')
      BY <1>0, <1>k, <3>1 DEF BoxRecords
    <3> QED
      BY <3>1, <3>3, <3>4 DEF GarageKind
  <2>2. CASE ContainerStops
    BY <1>0, <1>k, <2>2 DEF ContainerStops
  <2>3. CASE ByHand
    <3>1. bucket' \in {bucket, "bare"} /\ UNCHANGED <<token, wantTag, box, ui, layout>>
      BY <2>3 DEF ByHand
    <3> QED
      BY <1>0, <1>k, <3>1
  <2>4. CASE LoseKeysDir \/ LatePut
    BY <1>0, <1>k, <2>4 DEF LoseKeysDir, LatePut
  <2> QED
    BY <1>3, <2>1, <2>2, <2>3, <2>4 DEF GarageEvent
<1>4. CASE Reboot
  BY <1>0, <1>k, <1>4 DEF Reboot, GarageBoot
<1> QED
  BY <1>1, <1>2, <1>3, <1>4 DEF Next, PlayStep, Begin, Access, Vpn, Certificates, Cut, Outside, vars,
     garageVars

(* What the play has seen to, past each task of the role. *)
KeysDone == \A k \in Keys : keys[k] = {cred[k]} /\ env[k] = cred[k] /\ grant[k]

ServerDone == /\ Passed(1) => mine = cred
              /\ Passed(21) => box.up
              /\ Passed(22) => layout = "applied"
              /\ Passed(23) => bucket = "spec"
              /\ Passed(24) => KeysDone

(* `deploy` leaves the server running. *)
LEMMA DeployedIs == ASSUME GarageKind, events \in Nat, Deploy PROVE box'.up
<1>1. PICK n \in Nat : n = 1 + events
  OBVIOUS
<1>2. box \in BoxRecords(n) /\ wantTag \in 1..n
  BY <1>1 DEF GarageKind
<1>3. CASE Drift
  BY <1>2, <1>3, UppedIs DEF Deploy
<1>4. CASE ~Drift
  BY <1>4 DEF Deploy, Drift
<1> QED
  BY <1>3, <1>4

(* sync-keys that came to its end. *)
LEMMA SyncedIs == ASSUME SyncKeys, mine = cred PROVE KeysDone'
<1> SUFFICES ASSUME NEW k \in Keys PROVE keys'[k] = {cred[k]} /\ env'[k] = cred[k] /\ grant'[k]
  <2>1. cred' = cred
    BY DEF SyncKeys
  <2> QED
    BY <2>1 DEF KeysDone
<1>1. keys'[k] = {mine[k]}
  BY DEF SyncKeys, Import, ToImport, Refused
<1>2. env'[k] = mine[k]
  BY DEF SyncKeys, WriteEnv, ToWrite
<1>3. grant'[k]
  <2>1. grant' = [j \in Keys |-> IF j \in ToGrant THEN TRUE ELSE grant[j]]
    BY DEF SyncKeys, SetGrants
  <2>2. CASE k \in ToGrant
    BY <2>1, <2>2
  <2>3. CASE k \notin ToGrant
    BY Zenon, <2>1, <2>3 DEF ToGrant
  <2> QED
    BY <2>2, <2>3
<1> QED
  BY <1>1, <1>2, <1>3

LEMMA InitServer == Init => ServerDone
BY DEF Init, PlayInit, ServerDone, Passed

LEMMA NextServer == PlayType /\ GarageKind /\ ServerDone /\ [Next]_vars => ServerDone'
<1> SUFFICES ASSUME PlayType, GarageKind, ServerDone, [Next]_vars PROVE ServerDone'
  OBVIOUS
<1>0. events \in Nat
  BY PlayKinds, Bounds DEF PlayKind
<1>1. \A n \in {1} \cup 21..24 : n # at => (Passed(n)' => Passed(n))
  BY Passing DEF Tasks
<1>2. CASE Access \/ Vpn \/ Certificates
  BY <1>1, <1>2, Turns DEF Access, Vpn, Certificates, ServerDone, KeysDone, garageVars
<1>3. CASE Begin \/ Cut \/ Outside \/ Reboot \/ UNCHANGED vars
  <2>1. \A n \in Tasks : Passed(n)' => Passed(n)
    BY <1>3, Elsewhere
  <2>2. CASE Outside \/ Reboot
    <3>1. \A n \in Tasks : ~Passed(n)'
      BY <2>2, NotPassing, OutsideIsEvent DEF Reboot
    <3> QED
      BY <3>1 DEF ServerDone, Tasks
  <2>3. CASE Begin \/ Cut \/ UNCHANGED vars
    BY <2>1, <2>3 DEF Begin, Cut, vars, garageVars, ServerDone, KeysDone, Tasks
  <2> QED
    BY <1>3, <2>2, <2>3
<1>4. CASE Failed \/ Faulted
  <2>1. \A n \in Tasks : ~Passed(n)'
    BY <1>4, NotPassing
  <2> QED
    BY <2>1 DEF ServerDone, Tasks
<1>a. CASE Provision \/ ProvisionBlind
  <2>1. at = 1 /\ ~Passed(21) /\ ~Passed(22) /\ ~Passed(23) /\ ~Passed(24) /\ mine' = cred'
    BY <1>a, Places DEF Provision, ProvisionBlind, Passed
  <2> QED
    BY <1>1, <2>1 DEF ServerDone
<1>5. CASE RenderConfig \/ Deploy
  <2>1. /\ at \in 20..21 /\ ~Passed(22) /\ ~Passed(23) /\ ~Passed(24) /\ UNCHANGED <<cred, mine>>
    BY <1>5, Places DEF RenderConfig, Deploy, Passed
  <2>2. CASE Deploy
    BY <1>0, <1>1, <2>1, <2>2, DeployedIs, Places DEF Deploy, ServerDone
  <2>3. CASE ~Deploy
    <3>1. ~Passed(21) /\ at # 21
      BY <1>5, <2>3, Places DEF RenderConfig, Passed
    <3> QED
      BY <1>1, <2>1, <3>1 DEF ServerDone
  <2> QED
    BY <2>2, <2>3
<1>6. CASE Layout
  <2>1. at = 22 /\ ~Passed(23) /\ ~Passed(24) /\ layout' = "applied" /\ UNCHANGED <<box, cred, mine>>
    BY <1>6, Places DEF Layout, Passed
  <2> QED
    BY <1>1, <2>1 DEF ServerDone
<1>7. CASE SyncBuckets
  <2>1. at = 23 /\ ~Passed(24) /\ bucket' = "spec" /\ UNCHANGED <<box, layout, cred, mine>>
    BY <1>7, Places DEF SyncBuckets, Passed
  <2> QED
    BY <1>1, <2>1 DEF ServerDone
<1>8. CASE SyncKeys
  <2>1. at = 24 /\ UNCHANGED <<box, layout, bucket, cred, mine>> /\ quiet' = quiet
    BY <1>8, Places DEF SyncKeys, Done
  <2>2. CASE ~quiet
    BY Zenon, <2>1, <2>2 DEF ServerDone, Passed
  <2>3. CASE quiet
    <3>1. Passed(1)
      BY <2>1, <2>3 DEF Passed
    <3>2. KeysDone'
      BY <1>8, <3>1, SyncedIs DEF ServerDone
    <3> QED
      BY <1>1, <2>1, <3>2 DEF ServerDone
  <2> QED
    BY <2>2, <2>3
<1>9. CASE RenderUi \/ DeployUi
  <2>1. at \in {25, 26} /\ UNCHANGED <<box, layout, bucket, keys, cred, mine, env, grant>>
    BY <1>9, Places DEF RenderUi, DeployUi
  <2> QED
    BY <1>1, <2>1 DEF ServerDone, KeysDone
<1> QED
  BY <1>2, <1>3, <1>4, <1>a, <1>5, <1>6, <1>7, <1>8, <1>9 DEF Next, PlayStep, Garage, GarageStep,
     GarageFault, Unreachable, RefuseKeys, ProvisionFails, DeployFails, LayoutFails,
     SyncBucketsFails, SyncKeysFails, DeployUiFails

(* After a good play nobody disturbed, every key in Garage is the one of    *)
(* OpenBao, its file holds it and its permissions are the spec's, whatever  *)
(* earlier plays left half done and whatever was deleted, added or replaced *)
(* by hand before (apply_garage.py, sync-keys).                             *)
THEOREM KeysAreUsable == Spec => []KeysUsable
<1>1. PlayType /\ ServerDone => KeysUsable
  BY DEF ServerDone, KeysDone, KeysUsable, Settled, Idle, Passed
<1>2. PlayType /\ GarageKind /\ ServerDone /\ [Next]_vars => (PlayType /\ GarageKind /\ ServerDone)'
  BY NextPlay, NextGarageKind, NextServer
<1> QED
  BY <1>1, <1>2, InitPlay, InitGarageKind, InitServer, PTL DEF Spec
-----------------------------------------------------------------------------
(* --- What runs and what is stored. --- *)

(* Unless a task failed since the last boot, sshd runs its files, and the   *)
(* firewall its saved profile.                                              *)
DoorsHonest == ~broken => sshd.run = Accepts(sshd.files) /\ fw.live = fw.saved

(* So does the web interface, except between the two tasks that render its  *)
(* configuration and restart it: the second is told by the first.           *)
UiHonest == /\ ~broken /\ ui.up => ui.run = ui.file \/ (at = 26 /\ ui.changed)
            /\ Passed(26) => ui.up

(* A failure is on record until the next boot. *)
LEMMA Recorded == /\ Faulted \/ Failed => broken'
                  /\ [Next]_vars /\ ~Reboot /\ ~broken' => ~broken
<1>1. Faulted \/ Failed => broken'
  BY Zenon DEF Faulted, Failed
<1>2. Pace /\ ~broken' => ~broken
  BY Zenon, <1>1 DEF Pace, Done, Start, Event, ProvisionBlind, playVars
<1> QED
  BY <1>1, <1>2, NextPaces

LEMMA InitHonest == Init => DoorsHonest /\ UiHonest
<1> SUFFICES ASSUME PlayInit, AccessInit, GarageInit PROVE DoorsHonest /\ UiHonest
  BY DEF Init
<1>1. DoorsHonest
  BY DEF AccessInit, DoorsHonest, Accepts
<1>2. UiHonest
  BY DEF PlayInit, GarageInit, UiHonest, Passed
<1> QED
  BY <1>1, <1>2

LEMMA NextDoors == AccessInv /\ DoorsHonest /\ [Next]_vars => DoorsHonest'
<1> SUFFICES ASSUME AccessInv, DoorsHonest, [Next]_vars, ~broken'
             PROVE  sshd'.run = Accepts(sshd'.files) /\ fw'.live = fw'.saved
  BY DEF DoorsHonest
<1> USE AccessParts
<1>1. CASE Reboot
  <2>1. PICK files \in SUBSET sshd.files : Boot(files)
    BY <1>1 DEF Reboot
  <2>2. sshd'.run = Accepts(sshd'.files)
    BY <2>1 DEF Boot
  <2>3. fw'.live = fw'.saved
    BY <2>1 DEF Boot, Walls
  <2> QED
    BY <2>2, <2>3
<1>2. CASE ~Reboot
  <2>0. sshd.run = Accepts(sshd.files) /\ fw.live = fw.saved
    BY <1>2, Recorded DEF DoorsHonest
  <2>1. CASE UNCHANGED <<sshd, fw>>
    BY <2>0, <2>1
  <2>2. CASE Sshd
    <3>1. fw' = fw /\ (sshd' = sshd \/ sshd' = [files |-> SshFiles, run |-> Accepts(SshFiles)])
      BY <2>2 DEF Sshd
    <3> QED
      BY <2>0, <3>1
  <2>3. CASE PushProfile \/ EnableFirewall
    <3>1. sshd' = sshd
      BY <2>3 DEF PushProfile, EnableFirewall
    <3>2. fw' = fw \/ fw'.live = fw'.saved
      BY <2>3 DEF PushProfile, EnableFirewall, Walls
    <3> QED
      BY <2>0, <3>1, <3>2
  <2>4. CASE EditFirewall
    <3>1. sshd' = sshd /\ fw'.live = fw'.saved
      BY <2>4 DEF EditFirewall, Walls
    <3> QED
      BY <2>0, <3>1
  <2>5. ~SshdFails /\ ~PushFails
    BY Recorded DEF SshdFails, PushFails
  <2> QED
    BY <1>2, <2>1, <2>2, <2>3, <2>4, <2>5 DEF Next, PlayStep, Begin, Access, AccessStep, CreateUser,
       DisableBuiltin, SetHomes, WriteKeys, DomainConfig, JoinDomain, Vpn, Certificates, Garage,
       Cut, Outside, AccessEvent, LoseAccount, vars, accessVars
<1> QED
  BY <1>1, <1>2

(* The interface after each step that changes it. *)
LEMMA UiSteps ==
    ASSUME NEW n \in Nat, ui \in UiRecords(n)
    PROVE  /\ RenderUi => /\ ui'.file = ui.want /\ ui'.run = ui.run /\ ui'.up = ui.up
                          /\ ui'.changed \/ ui.file = ui.want
           /\ DeployUi => ui'.up /\ ((ui' = ui /\ ~ui.changed) \/ ui'.run = ui'.file)
           /\ SpecChange => /\ ui'.file = ui.file /\ ui'.run = ui.run /\ ui'.up = ui.up
                            /\ ui'.changed = ui.changed
           /\ ContainerStops => ui' = ui \/ ~ui'.up
           /\ GarageBoot => (ui'.up => ui'.run = ui'.file)
<1> USE DEF UiRecords
<1>1. ASSUME RenderUi
      PROVE  /\ ui'.file = ui.want /\ ui'.run = ui.run /\ ui'.up = ui.up
             /\ ui'.changed \/ ui.file = ui.want
  <2> DEFINE c == ui.file # ui.want
  <2>1. ui' = [ui EXCEPT !.file = ui.want, !.changed = c]
    BY <1>1 DEF RenderUi
  <2>2. c \/ ui.file = ui.want
    OBVIOUS
  <2> HIDE DEF c
  <2>3. ui'.file = ui.want /\ ui'.run = ui.run /\ ui'.up = ui.up /\ ui'.changed = c
    BY <2>1
  <2> QED
    BY <2>2, <2>3
<1>2. ASSUME DeployUi PROVE ui'.up /\ ((ui' = ui /\ ~ui.changed) \/ ui'.run = ui'.file)
  <2>1. CASE ui.up /\ ~ui.changed
    BY <1>2, <2>1 DEF DeployUi
  <2>2. CASE ~(ui.up /\ ~ui.changed)
    <3>1. ui' = [ui EXCEPT !.up = TRUE, !.run = ui.file]
      BY <1>2, <2>2 DEF DeployUi
    <3> QED
      BY <3>1
  <2> QED
    BY <2>1, <2>2
<1>3. ASSUME SpecChange
      PROVE  ui'.file = ui.file /\ ui'.run = ui.run /\ ui'.up = ui.up /\ ui'.changed = ui.changed
  <2>1. ui' = ui \/ ui' = [ui EXCEPT !.want = ui.want + 1]
    BY <1>3 DEF SpecChange
  <2> QED
    BY <2>1
<1>4. ASSUME ContainerStops PROVE ui' = ui \/ ~ui'.up
  <2>1. ui' = ui \/ ui' = [ui EXCEPT !.up = FALSE]
    BY <1>4 DEF ContainerStops
  <2> QED
    BY <2>1
<1>5. ASSUME GarageBoot, ui'.up PROVE ui'.run = ui'.file
  <2>1. CASE ui.up
    <3>1. ui' = [ui EXCEPT !.run = ui.file]
      BY <1>5, <2>1 DEF GarageBoot
    <3> QED
      BY <3>1
  <2>2. CASE ~ui.up
    BY <1>5, <2>2 DEF GarageBoot
  <2> QED
    BY <2>1, <2>2
<1> QED
  BY <1>1, <1>2, <1>3, <1>4, <1>5

LEMMA NextUi == PlayType /\ GarageKind /\ UiHonest /\ [Next]_vars => UiHonest'
<1> SUFFICES ASSUME PlayType, GarageKind, UiHonest, [Next]_vars PROVE UiHonest'
  OBVIOUS
<1>0. PICK n \in Nat : ui \in UiRecords(n)
  <2>1. events \in Nat /\ ui \in UiRecords(1 + events)
    BY PlayKinds, Bounds DEF PlayKind, GarageKind
  <2> QED
    BY <2>1
<1>p. at # 26 => (Passed(26)' => Passed(26))
  BY Passing DEF Tasks
<1>1. CASE Reboot
  <2>1. ~Passed(26)' /\ (ui'.up => ui'.run = ui'.file)
    BY <1>0, <1>1, NotPassing, UiSteps DEF Reboot, Tasks
  <2> QED
    BY <2>1 DEF UiHonest
<1>2. CASE Cut \/ SshdFails \/ PushFails \/ AuthFails \/ IssueLost \/ Failed \/ Faulted
  <2>1. Faulted \/ Failed
    BY <1>2 DEF Cut, SshdFails, PushFails, AuthFails, IssueLost
  <2>2. ~Passed(26)' /\ broken'
    BY <2>1, NotPassing, Recorded DEF Tasks
  <2> QED
    BY <2>2 DEF UiHonest
<1>3. CASE Outside
  <2>1. ~Passed(26)' /\ at' = at
    BY <1>3, OutsideIsEvent, NotPassing, Moves DEF Tasks
  <2>2. ~broken' => ~broken
    <3>1. broken' = broken
      BY <1>3, OutsideIsEvent DEF Event
    <3> QED
      BY Zenon, <3>1
  <2>3. SpecChange \/ ContainerStops \/ ui' = ui
    BY <1>3 DEF Outside, GarageEvent, ByHand, LoseKeysDir, LatePut, garageVars
  <2> QED
    BY <1>0, <2>1, <2>2, <2>3, UiSteps DEF UiHonest
<1>4. ~Reboot => (~broken' => ~broken)
  BY Recorded
<1>5. CASE RenderUi
  <2>1. at = 25 /\ at' = 26
    BY <1>5, Places, OrderLength DEF RenderUi, Done
  <2>2. ~Passed(26)' /\ ~Reboot
    BY <1>p, <2>1 DEF Passed, Reboot, BootEvent
  <2> QED
    BY <1>0, <1>4, <1>5, <2>1, <2>2, UiSteps DEF UiHonest
<1>6. CASE DeployUi
  <2>1. ~Reboot
    <3>1. events' = events /\ events \in Nat
      BY <1>6, Moves, PlayKinds, Bounds DEF DeployUi, PlayKind
    <3> QED
      BY <3>1, Moves DEF Reboot
  <2> QED
    BY <1>0, <1>4, <1>6, <2>1, UiSteps DEF UiHonest
<1>7. CASE ui' = ui /\ at # 26 /\ ~Reboot
  BY <1>p, <1>4, <1>7 DEF UiHonest
<1>8. CASE UNCHANGED vars
  BY <1>8 DEF vars, playVars, garageVars, UiHonest, Passed
<1>9. CASE Begin \/ Access \/ Vpn \/ Certificates
  <2>1. at # 26 /\ ui' = ui
    BY <1>9, Turns DEF Begin, Start, Idle, Access, Vpn, Certificates, garageVars
  <2> QED
    BY <1>1, <1>7, <2>1
<1>10. CASE Garage /\ ~RenderUi /\ ~DeployUi /\ ~Failed /\ ~Faulted
  <2>1. at # 26 /\ ui' = ui
    BY <1>10, Places DEF Garage, GarageStep, GarageFault, Provision, ProvisionBlind, RenderConfig,
       Deploy, Layout, Unreachable, SyncBuckets, RefuseKeys, SyncKeys, ProvisionFails,
       DeployFails, LayoutFails, SyncBucketsFails, SyncKeysFails, DeployUiFails
  <2> QED
    BY <1>1, <1>7, <2>1
<1> QED
  BY <1>1, <1>2, <1>3, <1>5, <1>6, <1>8, <1>9, <1>10 DEF Next, PlayStep

(* After a good play that nothing disturbed, and without a failure since    *)
(* the last boot, sshd, the firewall and the web interface run what is      *)
(* stored: each role restarts or reloads its daemon whenever it stored      *)
(* something, and only then (apply_ssh.py, apply_security.py,               *)
(* apply_garage.py).                                                        *)
THEOREM StoredIsRunning == Spec => []Honest
<1> DEFINE Inv == PlayType /\ AccessInv /\ GarageKind /\ DoorsHonest /\ UiHonest
<1>1. Inv => Honest
  BY DEF DoorsHonest, UiHonest, Honest, Settled, Idle, Passed
<1>2. Inv /\ [Next]_vars => Inv'
  BY NextPlay, NextAccess, NextGarageKind, NextDoors, NextUi
<1>3. Init => Inv
  BY InitPlay, InitAccess, InitGarageKind, InitHonest
<1> QED
  BY <1>1, <1>2, <1>3, PTL DEF Spec
-----------------------------------------------------------------------------
(* --- The keys' files. --- *)

(* sync-keys, to its end or to the call that fails, writes no file before   *)
(* the key is in Garage.                                                    *)
LEMMA SyncWritesLiveKeys ==
    ASSUME SyncKeys \/ SyncKeysFails, NEW k \in Keys, env'[k] \notin {env[k], 0}
    PROVE  env'[k] \in keys'[k]
<1>1. ~Refused
  BY DEF SyncKeys, SyncKeysFails
<1>2. keys[k] = {} \/ keys[k] = {mine[k]}
  BY <1>1 DEF Refused
<1>3. PICK i \in SUBSET ToImport, w \in SUBSET ToWrite :
         (w # {} => i = ToImport) /\ Import(i) /\ WriteEnv(w)
  BY DEF SyncKeys, SyncKeysFails
<1>4. k \in w /\ env'[k] = mine[k]
  BY <1>3 DEF WriteEnv
<1>5. keys'[k] = {mine[k]}
  BY <1>2, <1>3, <1>4 DEF Import, ToImport
<1> QED
  BY <1>4, <1>5

(* A play that stops half-way leaves no file with a dead credential.        *)
THEOREM NoDeadCredential == Spec => NoDeadFile
<1>1. [Next]_vars => [\A k \in Keys : env'[k] \notin {env[k], 0} => env'[k] \in keys'[k]]_vars
  <2> SUFFICES ASSUME [Next]_vars, NEW k \in Keys, env'[k] \notin {env[k], 0}
               PROVE  env'[k] \in keys'[k]
    OBVIOUS
  <2>1. env' # env
    OBVIOUS
  <2>2. CASE Garage
    BY <2>1, <2>2, SyncWritesLiveKeys DEF Garage, GarageStep, GarageFault, Provision,
          RenderConfig, Deploy, Layout, Unreachable, SyncBuckets, RefuseKeys, RenderUi, DeployUi,
          ProvisionBlind, ProvisionFails, DeployFails, LayoutFails, SyncBucketsFails,
          DeployUiFails, garageVars
  <2>3. CASE Outside
    BY <2>1, <2>3 DEF Outside, garageVars, GarageEvent, SpecChange, ContainerStops, ByHand,
          LoseKeysDir, LatePut
  <2> QED
    BY <2>1, <2>2, <2>3 DEF Next, PlayStep, Begin, Access, Vpn, Certificates, Cut, Reboot,
          GarageBoot, vars, garageVars
<1> QED
  BY <1>1, PTL DEF Spec, NoDeadFile
-----------------------------------------------------------------------------
(* --- The certificates. --- *)

(* The certificates the role would keep if all others were gone. *)
Right == {i \in Have : Sans(i) = want}

(* An expiry that does not parse is the oldest. *)
Below(i, j) == \/ i <= j /\ (certs[i].dated => certs[j].dated)
               \/ certs[j].dated /\ ~certs[i].dated

IsBest(k) == \/ k \in Right /\ \A j \in Right : Below(j, k)
             \/ Right = {} /\ k \in Have /\ \A j \in Have : Below(j, k)

CertKind == /\ certs \in [Have -> Certificate] /\ Have \subseteq Nat \ {0}
            /\ want \in {0, 1} /\ tool \in BOOLEAN
            /\ issued \in Nat /\ demands \in Nat /\ late \in {{}, {0}, {1}}

Topped == \A S \in SUBSET Have : S # {} => \E m \in S : \A j \in S : j <= m

(* What expires first is due first. *)
Aged == \A i, j \in Have : i < j /\ certs[j].aging => certs[i].aging

(* What was asked for, and what another play is about to ask for. *)
Owed == IF late = {} THEN issued ELSE issued + 1

(* Whatever may make the role ask again has been counted: that there is no  *)
(* certificate, that none has the wanted names, that the best one expires,  *)
(* or that its date cannot be read.                                         *)
Counted == /\ Owed <= demands
           /\ Have = {} => Owed < demands
           /\ tool /\ Right = {} => Owed < demands
           /\ \A k \in Have : IsBest(k) /\ (certs[k].aging \/ ~certs[k].dated) => Owed < demands

CertInv == CertKind /\ Topped /\ Aged /\ Counted

LEMMA InitCert == Init => CertInv
<1> SUFFICES ASSUME CertInit PROVE CertInv
  BY DEF Init
<1>1. Have = {} /\ certs \in [Have -> Certificate]
  BY DEF CertInit, Have
<1> QED
  BY <1>1 DEF CertInit, CertInv, CertKind, Topped, Aged, Counted, Owed

LEMMA NewestIs == ASSUME CertInv, NEW S \in SUBSET Have, S # {}
                  PROVE  Newest(S) \in S /\ \A j \in S : j <= Newest(S)
BY DEF CertInv, Topped, Newest

LEMMA BestIs == ASSUME CertInv, NEW S \in SUBSET Have, S # {}
                PROVE  Best(S) \in S /\ \A j \in S : Below(j, Best(S))
<1>1. CASE Dated(S) # {}
  <2>1. Dated(S) \in SUBSET Have
    BY DEF Dated
  <2>2. Best(S) \in Dated(S) /\ \A j \in Dated(S) : j <= Best(S)
    BY <1>1, <2>1, NewestIs DEF Best
  <2> QED
    BY <2>2 DEF Dated, Below
<1>2. CASE Dated(S) = {}
  <2>1. Best(S) \in S /\ \A j \in S : j <= Best(S)
    BY <1>2, NewestIs DEF Best
  <2> QED
    BY <1>2, <2>1 DEF Dated, Below
<1> QED
  BY <1>1, <1>2

(* No two certificates are each above the other. *)
LEMMA OneIsAbove == ASSUME NEW i \in Nat, NEW j \in Nat, Below(i, j), Below(j, i) PROVE i = j
BY DEF Below

(* _find_by_domain_all finds a best one. *)
LEMMA KeeperIsBest == ASSUME CertInv, Have # {}
                      PROVE  Keeper \in Have /\ IsBest(Keeper)
<1>1. Keeper = IF Right # {} THEN Best(Right) ELSE Best(Have)
  BY DEF Keeper, Right
<1>2. Right \in SUBSET Have
  BY DEF Right
<1> QED
  BY <1>1, <1>2, BestIs DEF IsBest

(* A play only asks for what has been counted. *)
LEMMA NeedIsCounted == ASSUME CertInv, NeedIssue PROVE Owed < demands
<1>1. CASE Have = {}
  BY <1>1 DEF CertInv, Counted
<1>2. CASE Have # {} /\ (certs[Keeper].aging \/ ~certs[Keeper].dated)
  BY <1>2, KeeperIsBest DEF CertInv, Counted
<1>3. CASE Have # {} /\ Sans(Keeper) \notin {want, Unknown}
  <2>1. tool
    BY <1>3 DEF Sans
  <2>2. Right = {}
    BY <1>3, KeeperIsBest DEF IsBest, Right
  <2> QED
    BY <2>1, <2>2 DEF CertInv, Counted
<1> QED
  BY <1>1, <1>2, <1>3 DEF NeedIssue

(* A certificate more: the newest, not about to expire, with readable names. *)
LEMMA AddIs ==
    ASSUME CertInv, NEW n \in {0, 1}, Add(n), UNCHANGED <<want, tool>>
    PROVE  \E new \in Nat \ {0} :
              /\ Have' = Have \cup {new} /\ \A j \in Have : j < new
              /\ certs' \in [Have' -> Certificate]
              /\ certs'[new].names = n /\ ~certs'[new].aging /\ certs'[new].pem
              /\ certs'[new].dated
              /\ \A i \in Have : certs'[i] = certs[i]
              /\ Topped' /\ Aged'
              /\ \A m \in Nat : (\A j \in Have : j <= m) => new <= m + 1
<1> DEFINE new == IF Have = {} THEN 1 ELSE Newest(Have) + 1
           c   == [names |-> n, aging |-> FALSE, dated |-> TRUE, pem |-> TRUE]
<1>1. certs' = [i \in Have \cup {new} |-> IF i = new THEN c ELSE certs[i]]
  BY DEF Add
<1>8. \A m \in Nat : (\A j \in Have : j <= m) => new <= m + 1
  <2>1. Have \subseteq Nat
    BY DEF CertInv, CertKind
  <2>2. CASE Have = {}
    BY <2>2
  <2>3. CASE Have # {}
    <3>1. PICK x \in Have : new = x + 1
      BY <2>3, NewestIs
    <3> HIDE DEF new
    <3> QED
      BY <2>1, <3>1
  <2> QED
    BY <2>2, <2>3
<1>2. new \in Nat \ {0} /\ \A j \in Have : j \in Nat /\ j < new
  <2>1. CASE Have = {}
    BY <2>1
  <2>2. CASE Have # {}
    <3>1. PICK m \in Have : new = m + 1 /\ \A j \in Have : j <= m
      BY <2>2, NewestIs
    <3>2. \A j \in Have : j \in Nat \ {0}
      BY DEF CertInv, CertKind
    <3>3. m \in Nat
      BY <3>2
    <3> HIDE DEF new
    <3>4. \A j \in Have : j \in Nat /\ j < new
      BY <3>1, <3>2, <3>3
    <3> QED
      BY <3>1, <3>3, <3>4
  <2> QED
    BY <2>1, <2>2
<1> HIDE DEF new
<1>3. Have' = Have \cup {new}
  BY <1>1 DEF Have
<1>4. certs'[new] = c /\ \A i \in Have : certs'[i] = certs[i]
  BY <1>1, <1>2
<1>5. certs' \in [Have' -> Certificate]
  <2>1. c \in Certificate
    BY DEF Certificate
  <2>2. \A i \in Have : certs[i] \in Certificate
    BY DEF CertInv, CertKind
  <2> HIDE DEF c
  <2> QED
    BY <1>1, <1>3, <2>1, <2>2
<1>6. Topped'
  <2> SUFFICES ASSUME NEW S \in SUBSET (Have \cup {new}), S # {}
               PROVE  \E m \in S : \A j \in S : j <= m
    BY <1>3 DEF Topped
  <2>1. CASE new \in S
    BY <1>2, <2>1
  <2>2. CASE new \notin S
    <3>1. S \in SUBSET Have
      BY <2>2
    <3> QED
      BY <3>1 DEF CertInv, Topped
  <2> QED
    BY <2>1, <2>2
<1>7. Aged'
  <2>1. ~certs'[new].aging
    BY <1>4
  <2> QED
    BY <1>2, <1>3, <1>4, <2>1 DEF CertInv, Aged
<1> QED
  BY <1>2, <1>3, <1>4, <1>5, <1>6, <1>7, <1>8

(* A reason more than requests covers whatever the certificates look like.  *)
LEMMA NewReason ==
    ASSUME CertInv, demands' = demands + 1, issued' = issued, late' = late, Have' = Have,
           certs' \in [Have -> Certificate], Aged', want' \in {0, 1}, tool' \in BOOLEAN
    PROVE  CertInv'
<1>1. Owed' < demands'
  BY DEF CertInv, CertKind, Counted, Owed
<1>2. CertKind' /\ Topped'
  BY DEF CertInv, CertKind, Topped
<1>3. Counted'
  <2>1. Owed' <= demands'
    BY <1>1, <1>2 DEF CertKind, Owed
  <2> QED
    BY <1>1, <2>1 DEF Counted
<1> QED
  BY <1>2, <1>3 DEF CertInv

(* What the role was issued is the best there is from then on. *)
LEMMA IssuedIs ==
    ASSUME CertInv, Issue \/ IssueLost
    PROVE  \E new \in Nat \ {0} :
              /\ Have' = Have \cup {new} /\ \A j \in Have : j < new
              /\ certs' \in [Have' -> Certificate]
              /\ certs'[new].names = want /\ ~certs'[new].aging /\ certs'[new].pem
              /\ certs'[new].dated
              /\ Topped' /\ Aged'
              /\ tool => new \in Right'
              /\ \A k \in Have' : IsBest(k)' => k = new
<1>1. Add(want) /\ UNCHANGED <<want, tool>>
  BY DEF Issue, IssueLost
<1>2. want \in {0, 1} /\ Have \subseteq Nat \ {0} /\ tool \in BOOLEAN
  BY DEF CertInv, CertKind
<1>4. PICK new \in Nat \ {0} :
         /\ Have' = Have \cup {new} /\ \A j \in Have : j < new
         /\ certs' \in [Have' -> Certificate]
         /\ certs'[new].names = want /\ ~certs'[new].aging /\ certs'[new].pem
         /\ certs'[new].dated
         /\ Topped' /\ Aged'
  BY <1>1, <1>2, AddIs
<1>6. tool => new \in Right'
  BY <1>1, <1>4 DEF Right, Sans
<1>7. \A k \in Have' : IsBest(k)' => k = new
  <2> SUFFICES ASSUME NEW k \in Have', IsBest(k)' PROVE k = new
    OBVIOUS
  <2>1. Right' \subseteq Have' /\ (~tool => Right' = {})
    BY <1>1, <1>2 DEF Right, Sans, Unknown
  <2>2. Below(new, k)'
    BY <1>2, <1>4, <1>6, <2>1 DEF IsBest
  <2>3. new <= k
    BY <1>4, <2>2 DEF Below
  <2> QED
    BY <1>2, <1>4, <2>3
<1> QED
  BY <1>4, <1>6, <1>7

(* The role's two requests. *)
LEMMA IssueKeeps == ASSUME CertInv, Issue \/ IssueLost PROVE CertInv'
<1>1. NeedIssue /\ issued' = issued + 1 /\ UNCHANGED <<want, tool, demands, late>>
  BY DEF Issue, IssueLost
<1>2. /\ want \in {0, 1} /\ issued \in Nat /\ demands \in Nat /\ Have \subseteq Nat \ {0}
      /\ tool \in BOOLEAN /\ late \in {{}, {0}, {1}}
  BY DEF CertInv, CertKind
<1>3. Owed < demands /\ Owed' = Owed + 1 /\ Owed \in Nat
  BY <1>1, <1>2, NeedIsCounted DEF Owed
<1>4. PICK new \in Nat \ {0} :
         /\ Have' = Have \cup {new} /\ certs' \in [Have' -> Certificate] /\ ~certs'[new].aging
         /\ certs'[new].dated
         /\ Topped' /\ Aged' /\ (tool => new \in Right') /\ \A k \in Have' : IsBest(k)' => k = new
  BY IssuedIs
<1>5. CertKind'
  BY <1>1, <1>2, <1>4 DEF CertKind
<1>6. Counted'
  BY <1>1, <1>2, <1>3, <1>4 DEF Counted
<1> QED
  BY <1>4, <1>5, <1>6 DEF CertInv

(* A certificate that the followed play did not ask for never makes it ask. *)
LEMMA AddKeeps ==
    ASSUME CertInv, NEW n \in {0, 1}, Add(n), UNCHANGED <<want, tool, demands>>,
           Owed' = Owed, issued' \in Nat, late' \in {{}, {0}, {1}}
    PROVE  CertInv'
<1>3. /\ want \in {0, 1} /\ demands \in Nat /\ Have \subseteq Nat \ {0} /\ tool \in BOOLEAN
  BY DEF CertInv, CertKind
<1>4. PICK new \in Nat \ {0} :
         /\ Have' = Have \cup {new} /\ \A j \in Have : j < new
         /\ certs' \in [Have' -> Certificate]
         /\ ~certs'[new].aging /\ certs'[new].dated
         /\ \A j \in Have : certs'[j] = certs[j]
         /\ Topped' /\ Aged'
  BY AddIs
<1>5. CertKind'
  BY <1>3, <1>4 DEF CertKind
<1>6. Right \subseteq Right' /\ Right' \subseteq Right \cup {new} /\ Right \subseteq Have
  BY <1>4 DEF Right, Sans
<1>7. ASSUME NEW k \in Have', IsBest(k)', k # new PROVE k \in Have /\ IsBest(k)
  <2>1. k \in Have /\ k < new
    BY <1>4, <1>7
  <2>0. ~Below(new, k)'
    BY <1>3, <1>4, <2>1 DEF Below
  <2>2. k \in Right' /\ \A j \in Right' : Below(j, k)'
    BY <1>4, <1>7, <2>0 DEF IsBest
  <2>3. \A j \in Have : Below(j, k)' => Below(j, k)
    BY <1>4, <2>1 DEF Below
  <2> QED
    BY <1>6, <1>7, <2>1, <2>2, <2>3 DEF IsBest
<1>8. Counted'
  BY <1>4, <1>6, <1>7 DEF CertInv, Counted
<1> QED
  BY <1>4, <1>5, <1>8 DEF CertInv

(* DSM's own renewal. *)
LEMMA DsmRenewsKeeps == ASSUME CertInv, DsmRenews PROVE CertInv'
<1>1. PICK i \in Have : Add(certs[i].names)
  BY DEF DsmRenews
<1>2. UNCHANGED <<want, tool, issued, demands, late>>
  BY DEF DsmRenews
<1>3. /\ issued \in Nat /\ late \in {{}, {0}, {1}} /\ certs[i].names \in {0, 1}
  BY DEF CertInv, CertKind, Certificate
<1>4. Owed' = Owed
  BY <1>2 DEF Owed
<1> QED
  BY <1>1, <1>2, <1>3, <1>4, AddKeeps

(* Another play finds one due: it has a reason of its own. *)
LEMMA LateLookKeeps == ASSUME CertInv, LateLook PROVE CertInv'
<1>1. late = {} /\ late' = {want} /\ demands' = demands + 1
      /\ UNCHANGED <<certs, want, tool, issued>>
  BY DEF LateLook
<1>2. Have' = Have /\ Right' = Right /\ \A k : IsBest(k)' = IsBest(k)
  BY <1>1 DEF Have, Right, Sans, IsBest, Below
<1>3. CertKind' /\ Topped' /\ Aged'
  <2>1. want \in {0, 1} /\ late' \in {{}, {0}, {1}}
    BY <1>1 DEF CertInv, CertKind
  <2>2. CertKind'
    BY <1>1, <1>2, <2>1 DEF CertInv, CertKind
  <2>3. Topped' /\ Aged'
    BY <1>1, <1>2 DEF CertInv, Topped, Aged
  <2> QED
    BY <2>2, <2>3
<1>4. Owed' = Owed + 1 /\ Owed \in Nat /\ demands \in Nat
  BY <1>1 DEF Owed, CertInv, CertKind
<1>5. Counted'
  BY <1>1, <1>2, <1>4 DEF CertInv, Counted
<1> QED
  BY <1>3, <1>5 DEF CertInv

(* And asks: this was counted when it looked. *)
LEMMA LateIssueKeeps == ASSUME CertInv, LateIssue PROVE CertInv'
<1>1. PICK n \in late : Add(n)
  BY DEF LateIssue
<1>2. issued' = issued + 1 /\ late' = {} /\ UNCHANGED <<want, tool, demands>>
  BY DEF LateIssue
<1>3. issued \in Nat /\ n \in {0, 1} /\ late # {}
  BY <1>1 DEF CertInv, CertKind
<1>4. Owed' = Owed
  BY <1>2, <1>3 DEF Owed
<1> QED
  BY <1>1, <1>2, <1>3, <1>4, AddKeeps

(* Time passes. *)
LEMMA TimeKeeps == ASSUME CertInv, TimePasses PROVE CertInv'
<1>1. /\ certs' = [i \in Have |-> [certs[i] EXCEPT !.aging = TRUE]]
      /\ demands' = demands + 1 /\ UNCHANGED <<issued, late, want, tool>>
  BY DEF TimePasses
<1>2. \A i \in Have : certs[i] \in Certificate
  BY DEF CertInv, CertKind
<1>3. \A c \in Certificate : [c EXCEPT !.aging = TRUE] \in Certificate /\ [c EXCEPT !.aging = TRUE].aging
  BY DEF Certificate
<1>4. \A i \in Have : certs'[i] \in Certificate /\ certs'[i].aging
  BY <1>1, <1>2, <1>3
<1>5. Have' = Have /\ certs' \in [Have -> Certificate]
  BY <1>1, <1>4 DEF Have
<1>6. Aged'
  BY <1>4, <1>5 DEF Aged
<1> QED
  BY <1>1, <1>5, <1>6, NewReason DEF CertInv, CertKind

(* A certificate whose file can no longer be read. *)
LEMMA LosePemKeeps == ASSUME CertInv, LosePem PROVE CertInv'
<1>1. PICK i \in Have : certs' = [certs EXCEPT ![i].pem = FALSE]
  BY DEF LosePem
<1>2. demands' = demands + 1 /\ UNCHANGED <<issued, late, want, tool>>
  BY DEF LosePem
<1>3. certs \in [Have -> Certificate] /\ certs[i] \in Certificate /\ Aged
  BY DEF CertInv, CertKind
<1> DEFINE c == [certs[i] EXCEPT !.pem = FALSE]
<1>4. c \in Certificate /\ c.aging = certs[i].aging
  BY <1>3 DEF Certificate
<1>5. certs' = [certs EXCEPT ![i] = c]
  BY <1>1, <1>3
<1> HIDE DEF c
<1>6. certs' \in [Have -> Certificate] /\ \A j \in Have : certs'[j].aging = certs[j].aging
  BY <1>3, <1>4, <1>5
<1>7. Have' = Have
  BY <1>3, <1>5 DEF Have
<1>8. Aged'
  BY <1>3, <1>6, <1>7 DEF Aged
<1> QED
  BY <1>2, <1>6, <1>7, <1>8, NewReason DEF CertInv, CertKind

(* Dates that no longer parse. *)
LEMMA OddDatesKeeps == ASSUME CertInv, OddDates PROVE CertInv'
<1>1. PICK S \in SUBSET Have :
         certs' = [i \in Have |-> IF i \in S THEN [certs[i] EXCEPT !.dated = FALSE] ELSE certs[i]]
  BY DEF OddDates, Dated
<1>2. demands' = demands + 1 /\ UNCHANGED <<issued, late, want, tool>>
  BY DEF OddDates
<1>3. \A i \in Have : certs[i] \in Certificate
  BY DEF CertInv, CertKind
<1>4. \A c \in Certificate : /\ [c EXCEPT !.dated = FALSE] \in Certificate
                             /\ [c EXCEPT !.dated = FALSE].aging = c.aging
  BY DEF Certificate
<1>5. \A i \in Have : certs'[i] \in Certificate /\ certs'[i].aging = certs[i].aging
  BY <1>1, <1>3, <1>4
<1>6. Have' = Have /\ certs' \in [Have -> Certificate]
  BY <1>1, <1>5 DEF Have
<1>7. Aged'
  BY <1>5, <1>6 DEF Aged, CertInv
<1> QED
  BY <1>2, <1>6, <1>7, NewReason DEF CertInv, CertKind

(* Nothing can be read any more: of those there are, the one that expires   *)
(* last is kept.                                                            *)
LEMMA LoseToolKeeps == ASSUME CertInv, LoseTool PROVE CertInv'
<1>1. ~tool' /\ UNCHANGED <<certs, want, issued, demands, late>> /\ Have' = Have
  BY DEF LoseTool, Have
<1>2. CertKind' /\ Topped' /\ Aged'
  <2>1. CertKind'
    BY <1>1 DEF CertInv, CertKind, LoseTool
  <2>2. Topped'
    BY <1>1 DEF CertInv, Topped
  <2>3. Aged'
    BY <1>1 DEF CertInv, Aged
  <2> QED
    BY <2>1, <2>2, <2>3
<1>3. Right' = {} /\ Owed' = Owed
  BY <1>1, <1>2 DEF Right, Sans, Unknown, CertKind, Owed
<1>4. ASSUME NEW k \in Have, IsBest(k)', certs[k].aging \/ ~certs[k].dated PROVE Owed < demands
  <2>1. Keeper \in Have /\ IsBest(Keeper)
    BY KeeperIsBest
  <2>2. Below(Keeper, k)
    BY <1>1, <1>3, <1>4, <2>1 DEF IsBest, Below
  <2>3. Keeper \in Nat /\ k \in Nat
    BY <1>4, <2>1 DEF CertInv, CertKind
  <2>4. certs[Keeper].aging \/ ~certs[Keeper].dated
    <3>1. CASE ~certs[k].dated
      BY <2>2, <3>1 DEF Below
    <3>2. CASE certs[k].aging /\ certs[Keeper].dated
      <4>1. Keeper <= k
        BY <2>2, <3>2 DEF Below
      <4>2. Keeper = k \/ Keeper < k
        BY <2>3, <4>1
      <4> QED
        BY <1>4, <2>1, <3>2, <4>2 DEF CertInv, Aged
    <3> QED
      BY <1>4, <3>1, <3>2
  <2> QED
    BY <2>1, <2>4 DEF CertInv, Counted
<1>5. Counted'
  BY <1>1, <1>3, <1>4 DEF CertInv, Counted
<1> QED
  BY <1>2, <1>5 DEF CertInv

(* A superseded certificate is deleted: the best one stays the best. *)
LEMMA DeleteOldKeeps == ASSUME CertInv, DeleteOld PROVE CertInv'
<1>1. PICK i \in Have \ {Keeper} : certs' = [j \in Have \ {i} |-> certs[j]]
  BY DEF DeleteOld
<1>2. UNCHANGED <<want, tool, issued, demands, late>> /\ Have # {}
  BY DEF DeleteOld
<1>3. Have' = Have \ {i} /\ \A j \in Have' : certs'[j] = certs[j]
  BY <1>1 DEF Have
<1>4. CertKind' /\ Topped' /\ Aged'
  BY <1>1, <1>2, <1>3 DEF CertInv, CertKind, Topped, Aged
<1>5. Right' = Right \ {i} /\ Owed' = Owed
  BY <1>2, <1>3 DEF Right, Sans, Owed
<1>6. Keeper \in Have' /\ IsBest(Keeper)
  BY <1>1, <1>2, <1>3, KeeperIsBest
<1>7. Right' = {} => Right = {}
  BY <1>3, <1>5, <1>6 DEF IsBest
<1>9. ASSUME NEW k \in Have', IsBest(k)' PROVE IsBest(k)
  <2>n. Have \subseteq Nat /\ Right \subseteq Have
    BY DEF CertInv, CertKind, Right
  <2>o. \A j \in Have' : (Below(j, k)' => Below(j, k))
    BY <1>3 DEF Below
  <2>1. Below(Keeper, k)
    BY <1>3, <1>5, <1>6, <1>7, <1>9, <2>o DEF IsBest
  <2>2. Below(k, Keeper)
    BY <1>3, <1>5, <1>6, <1>7, <1>9, <2>n DEF IsBest
  <2>3. k = Keeper
    BY <1>3, <1>6, <2>n, <2>1, <2>2, OneIsAbove
  <2> QED
    BY <1>6, <2>3
<1>10. Have' # {}
  BY <1>6
<1>11. Counted'
  BY <1>2, <1>3, <1>5, <1>7, <1>9, <1>10 DEF CertInv, Counted
<1> QED
  BY <1>4, <1>11 DEF CertInv

(* Steps that concern other things than what there is and what was asked. *)
LEMMA CertUntouched ==
    ASSUME CertInv, UNCHANGED <<certs, want, tool, issued, demands, late>> PROVE CertInv'
<1>1. Have' = Have /\ Right' = Right /\ \A k : IsBest(k)' = IsBest(k)
  BY DEF Have, Right, Sans, IsBest, Below
<1> QED
  BY <1>1 DEF CertInv, CertKind, Topped, Aged, Counted, Owed

LEMMA NextCert == CertInv /\ [Next]_vars => CertInv'
<1> SUFFICES ASSUME CertInv, [Next]_vars PROVE CertInv'
  OBVIOUS
<1>1. CASE Certificates
  <2>1. CASE Issue \/ IssueLost
    BY <2>1, IssueKeeps
  <2>2. CASE NoIssue \/ SetDefault \/ Bind
    BY <2>2, CertUntouched DEF NoIssue, SetDefault, Bind, certVars
  <2> QED
    BY <1>1, <2>1, <2>2 DEF Certificates, CertStep
<1>2. CASE CertEvent
  <2>1. CASE SpecNames
    <3>1. Have' = Have /\ certs' \in [Have -> Certificate] /\ Aged'
      BY <2>1 DEF SpecNames, Have, CertInv, CertKind, Aged
    <3> QED
      BY <2>1, <3>1, NewReason DEF SpecNames, CertInv, CertKind
  <2> QED
    BY <1>2, <2>1, DsmRenewsKeeps, TimeKeeps, LoseToolKeeps, LosePemKeeps, OddDatesKeeps,
       DeleteOldKeeps, LateLookKeeps, LateIssueKeeps DEF CertEvent
<1>3. CASE UNCHANGED certVars
  BY <1>3, CertUntouched DEF certVars
<1> QED
  BY <1>1, <1>2, <1>3 DEF Next, PlayStep, Begin, Access, Vpn, Garage, Cut, Outside, Reboot, vars,
     certVars

(* However often the play runs, is cut off, loses an answer, finds what DSM *)
(* added or a date it cannot read, or has another play beside it, Let's     *)
(* Encrypt is asked for no more certificates than there were reasons to     *)
(* (apply_certificate.py).                                                  *)
THEOREM IssuanceBounded == Spec => []BoundedIssuance
<1>1. CertInv => BoundedIssuance
  BY DEF CertInv, CertKind, Counted, Owed, BoundedIssuance
<1> QED
  BY <1>1, InitCert, NextCert, PTL DEF Spec
-----------------------------------------------------------------------------
(* --- The certificate that is served. --- *)

(* What the play has seen to, past each of the role's three tasks. *)
CertDone == /\ Passed(17) => ~NeedIssue
            /\ Passed(18) => dflt = Keeper
            /\ Passed(19) => /\ bound["dsm"] = Keeper
                             /\ Sans(Keeper) = 1 => bound["proxy"] = Keeper

LEMMA InitCertDone == Init => CertDone
BY DEF Init, PlayInit, CertDone, Passed

(* The role's choice depends on what there is, on the spec and on the tool. *)
LEMMA SameChoice == ASSUME UNCHANGED <<certs, want, tool>>
                    PROVE  /\ Keeper' = Keeper /\ (NeedIssue' <=> NeedIssue)
                           /\ Sans(Keeper)' = Sans(Keeper) /\ Have' = Have
<1>1. \A i : Sans(i)' = Sans(i)
  BY DEF Sans
<1>2. Have' = Have /\ Right' = Right
  BY <1>1 DEF Have, Right
<1>3. Keeper = IF Right # {} THEN Best(Right) ELSE Best(Have)
  BY DEF Keeper, Right
<1>4. Keeper' = IF Right' # {} THEN Best(Right') ELSE Best(Have')
  BY DEF Keeper, Right, Best, Dated, Newest
<1>5. Keeper' = Keeper
  BY <1>2, <1>3, <1>4
<1> QED
  BY <1>1, <1>2, <1>5 DEF NeedIssue

LEMMA NextKeeperIsBest == (CertInv /\ Have # {})' => (Keeper \in Have /\ IsBest(Keeper))'
<1>1. CertInv /\ Have # {} => Keeper \in Have /\ IsBest(Keeper)
  BY KeeperIsBest
<1> QED
  BY <1>1, PTL

(* Nothing is left to ask for once something was issued. *)
LEMMA IssuedIsEnough == ASSUME CertInv, Issue PROVE ~NeedIssue'
<1>1. CertInv'
  BY IssueKeeps
<1>2. PICK new \in Nat \ {0} :
         /\ Have' = Have \cup {new} /\ certs'[new].names = want /\ ~certs'[new].aging
         /\ certs'[new].dated /\ \A k \in Have' : IsBest(k)' => k = new
  BY IssuedIs
<1>3. Have' # {}
  BY <1>2
<1>4. Keeper' \in Have' /\ IsBest(Keeper)'
  BY <1>1, <1>3, NextKeeperIsBest
<1>5. Keeper' = new
  BY <1>2, <1>4
<1>6. Sans(Keeper)' \in {want', Unknown} /\ want' = want
  BY <1>2, <1>5 DEF Sans, Issue
<1> QED
  BY <1>2, <1>3, <1>5, <1>6 DEF NeedIssue

LEMMA NextCertDone == PlayType /\ CertInv /\ CertDone /\ [Next]_vars => CertDone'
<1> SUFFICES ASSUME PlayType, CertInv, CertDone, [Next]_vars PROVE CertDone'
  OBVIOUS
<1>1. \A n \in 17..19 : n # at => (Passed(n)' => Passed(n))
  BY Passing DEF Tasks
<1>2. CASE UNCHANGED certVars /\ at \notin 17..19
  <2>1. UNCHANGED <<certs, want, tool, dflt, bound>>
    BY <1>2 DEF certVars
  <2> QED
    BY <1>1, <1>2, <2>1, SameChoice DEF CertDone
<1>3. CASE Access \/ Vpn \/ Garage
  BY <1>2, <1>3, Turns DEF Access, Vpn, Garage
<1>4. CASE Begin \/ Cut \/ Outside \/ Reboot \/ UNCHANGED vars
  <2>1. \A n \in Tasks : Passed(n)' => Passed(n)
    BY <1>4, Elsewhere
  <2>2. CASE Outside \/ Reboot
    <3>1. \A n \in Tasks : ~Passed(n)'
      BY <2>2, NotPassing, OutsideIsEvent DEF Reboot
    <3> QED
      BY <3>1 DEF CertDone, Tasks
  <2>3. CASE Begin \/ Cut \/ UNCHANGED vars
    <3>1. UNCHANGED <<certs, want, tool, dflt, bound>>
      BY <2>3 DEF Begin, Cut, vars, certVars
    <3> QED
      BY <2>1, <3>1, SameChoice DEF CertDone, Tasks
  <2> QED
    BY <1>4, <2>2, <2>3
<1>5. CASE NoIssue \/ Issue
  <2>1. at = 17 /\ ~Passed(18) /\ ~Passed(19)
    BY <1>5, Places DEF NoIssue, Issue, Passed
  <2>2. ~NeedIssue'
    <3>1. CASE NoIssue
      BY <3>1, SameChoice DEF NoIssue, certVars
    <3> QED
      BY <1>5, <3>1, IssuedIsEnough
  <2> QED
    BY <1>1, <2>1, <2>2 DEF CertDone
<1>6. CASE IssueLost
  BY <1>6, NotPassing DEF IssueLost, CertDone, Tasks
<1>7. CASE SetDefault
  <2>1. at = 18 /\ ~Passed(19) /\ dflt' = Keeper /\ UNCHANGED <<certs, want, tool>>
    BY <1>7, Places DEF SetDefault, Passed
  <2> QED
    BY <1>1, <2>1, SameChoice DEF CertDone
<1>8. CASE Bind
  <2>1. at = 19 /\ UNCHANGED <<certs, want, tool, dflt>>
    BY <1>8, Places DEF Bind
  <2>2. bound'["dsm"] = Keeper /\ (Sans(Keeper) = 1 => bound'["proxy"] = Keeper)
    BY <1>8 DEF Bind, Services
  <2> QED
    BY <1>1, <2>1, <2>2, SameChoice DEF CertDone
<1> QED
  BY <1>3, <1>4, <1>5, <1>6, <1>7, <1>8 DEF Next, PlayStep, Certificates, CertStep

(* After a good play that nothing disturbed, the default, the listed        *)
(* services and the proxies of the alias present one certificate, which is  *)
(* not about to expire and has the wanted names if they can be read,        *)
(* whatever DSM's own renewals had added before (apply_certificate.py).     *)
THEOREM OneCertServed == Spec => []CertServed
<1>1. CertInv /\ CertDone => CertServed
  <2> SUFFICES ASSUME CertInv, CertDone, Settled PROVE CertServed
    BY DEF CertServed
  <2>1. Passed(17) /\ Passed(18) /\ Passed(19)
    BY DEF Settled, Idle, Passed
  <2>2. ~NeedIssue /\ dflt = Keeper /\ bound["dsm"] = Keeper
        /\ (Sans(Keeper) = 1 => bound["proxy"] = Keeper)
    BY <2>1 DEF CertDone
  <2>3. Have # {} /\ Sans(Keeper) \in {want, Unknown} /\ ~certs[Keeper].aging
    BY <2>2 DEF NeedIssue
  <2>4. Keeper \in Have
    BY <2>3, KeeperIsBest
  <2>5. Sans(Keeper) # Unknown => Sans(Keeper) = want /\ certs[Keeper].names = want
    BY <2>3 DEF Sans
  <2> QED
    BY <2>2, <2>3, <2>4, <2>5 DEF CertServed
<1>2. PlayType /\ CertInv /\ CertDone /\ [Next]_vars => (PlayType /\ CertInv /\ CertDone)'
  BY NextPlay, NextCert, NextCertDone
<1> QED
  BY <1>1, <1>2, InitPlay, InitCert, InitCertDone, PTL DEF Spec
-----------------------------------------------------------------------------
(* --- How much there can be. --- *)

(* Every certificate was issued to the role or is a renewal of DSM's, and   *)
(* every reason but the first and every renewal is an event of its own.     *)
CertRoom == /\ demands \in 1..(events + 1)
            /\ \A j \in Have : j + demands <= issued + events + 1
            /\ dflt \in Have \cup {0} /\ bound \in [Services -> Have \cup {0}]

LEMMA InitCertRoom == Init => CertRoom
BY DEF Init, PlayInit, CertInit, CertRoom, Have

LEMMA Slack ==
    \A j, m, d, i, e, i2, e2 \in Nat :
       j <= m + 1 /\ m + d = i + e + 1 /\ i2 + e2 >= i + e + 1 => j + d <= i2 + e2 + 1
OBVIOUS

(* One certificate more, for a request or for an event. *)
LEMMA RoomForOne ==
    ASSUME PlayType, CertInv, CertRoom, NEW n \in {0, 1}, Add(n),
           UNCHANGED <<want, tool, dflt, bound, demands>>,
           \/ issued' = issued + 1 /\ events' = events
           \/ issued' \in {issued, issued + 1} /\ events' = events + 1
    PROVE  CertRoom'
<1>1. PICK new \in Nat \ {0} :
         /\ Have' = Have \cup {new}
         /\ \A m \in Nat : (\A j \in Have : j <= m) => new <= m + 1
  BY AddIs
<1>2. /\ events \in Nat /\ issued \in Nat /\ demands \in Nat /\ demands <= events + 1
      /\ Have \subseteq Nat
  BY PlayKinds, Bounds DEF PlayKind, CertInv, CertKind, CertRoom
<1>3. PICK m \in Nat : m + demands = issued + events + 1
  <2>1. issued + events + 1 - demands \in Nat
    BY <1>2
  <2> QED
    BY <1>2, <2>1
<1>4. \A j \in Have : j <= m
  BY <1>2, <1>3 DEF CertRoom
<1>5. new <= m + 1
  BY <1>1, <1>4
<1>6. issued' + events' >= issued + events + 1 /\ issued' \in Nat /\ events' \in Nat
  BY <1>2
<1>7. \A j \in Have' : j + demands <= issued' + events' + 1
  <2> SUFFICES ASSUME NEW j \in Have' PROVE j + demands <= issued' + events' + 1
    BY <1>2
  <2>1. j \in Nat /\ j <= m + 1
    <3>1. CASE j \in Have
      BY <1>2, <1>4, <3>1
    <3>2. CASE j \notin Have
      BY <1>1, <1>5, <3>2
    <3> QED
      BY <3>1, <3>2
  <2> QED
    BY <1>2, <1>3, <1>6, <2>1, Slack
<1>8. demands' \in 1..(events' + 1)
  BY <1>2 DEF CertRoom
<1>9. dflt' \in Have' \cup {0} /\ bound' \in [Services -> Have' \cup {0}]
  BY <1>1 DEF CertRoom
<1> QED
  BY <1>7, <1>8, <1>9 DEF CertRoom

(* No certificate more; a reason more is an event more. *)
LEMMA RoomKept ==
    ASSUME PlayType, CertInv, CertRoom, Have' \subseteq Have, issued' = issued,
           \/ demands' = demands /\ events' \in {events, events + 1}
           \/ demands' = demands + 1 /\ events' = events + 1,
           dflt' \in Have' \cup {0}, bound' \in [Services -> Have' \cup {0}]
    PROVE  CertRoom'
<1>1. /\ events \in Nat /\ issued \in Nat /\ demands \in Nat /\ demands \in 1..(events + 1)
      /\ Have \subseteq Nat
  BY PlayKinds, Bounds DEF PlayKind, CertInv, CertKind, CertRoom
<1>2. demands' \in 1..(events' + 1)
  BY <1>1
<1>3. \A j \in Have' : j + demands' <= issued' + events' + 1
  BY <1>1 DEF CertRoom
<1> QED
  BY <1>2, <1>3 DEF CertRoom

LEMMA NextCertRoom == PlayType /\ CertInv /\ CertRoom /\ [Next]_vars => CertRoom'
<1> SUFFICES ASSUME PlayType, CertInv, CertRoom, [Next]_vars PROVE CertRoom'
  OBVIOUS
<1>0. /\ events \in Nat /\ events' \in {events, events + 1}
      /\ dflt \in Have \cup {0} /\ bound \in [Services -> Have \cup {0}]
  <2>1. events \in Nat
    BY PlayKinds, Bounds DEF PlayKind
  <2>2. events' \in {events, events + 1}
    BY Moves, NextMoves DEF Move, Pace, ProvisionBlind, playVars
  <2> QED
    BY <2>1, <2>2 DEF CertRoom
<1>k. want \in {0, 1} /\ \A i \in Have : certs[i].names \in {0, 1}
  BY DEF CertInv, CertKind, Certificate
<1>1. CASE UNCHANGED certVars
  BY <1>0, <1>1, RoomKept DEF certVars, Have
<1>2. CASE Issue \/ IssueLost
  <2>1. events' = events /\ issued' = issued + 1 /\ Add(want)
        /\ UNCHANGED <<want, tool, dflt, bound, demands>>
    BY <1>2, Moves DEF Issue, IssueLost
  <2> QED
    BY <1>k, <2>1, RoomForOne
<1>3. CASE SetDefault \/ Bind
  <2>1. Have' = Have /\ UNCHANGED <<issued, demands>> /\ Have # {}
    BY <1>3 DEF SetDefault, Bind, Have
  <2>2. Keeper \in Have
    BY <2>1, KeeperIsBest
  <2>3. dflt' \in Have \cup {0}
    BY <1>0, <1>3, <2>2 DEF SetDefault, Bind
  <2>4. bound' \in [Services -> Have \cup {0}]
    BY <1>0, <1>3, <2>2 DEF SetDefault, Bind
  <2> QED
    BY <1>0, <2>1, <2>3, <2>4, RoomKept
<1>4. CASE CertEvent
  <2>0. events' = events + 1
    BY <1>4, Moves DEF CertEvent, DsmRenews, TimePasses, SpecNames, LoseTool, LosePem, OddDates,
          DeleteOld, LateLook, LateIssue
  <2>1. CASE DsmRenews
    <3>1. PICK i \in Have : Add(certs[i].names)
      BY <2>1 DEF DsmRenews
    <3>2. issued' = issued /\ UNCHANGED <<want, tool, dflt, bound, demands>>
      BY <2>1 DEF DsmRenews
    <3> QED
      BY <1>k, <2>0, <3>1, <3>2, RoomForOne
  <2>4. CASE LateIssue
    <3>1. PICK m \in late : Add(m)
      BY <2>4 DEF LateIssue
    <3>2. issued' = issued + 1 /\ UNCHANGED <<want, tool, dflt, bound, demands>>
      BY <2>4 DEF LateIssue
    <3>3. m \in {0, 1}
      BY DEF CertInv, CertKind
    <3> QED
      BY <2>0, <3>1, <3>2, <3>3, RoomForOne
  <2>2. CASE TimePasses \/ SpecNames \/ LoseTool \/ LosePem \/ OddDates \/ LateLook
    <3>1. Have' = Have
      BY <2>2 DEF TimePasses, SpecNames, LoseTool, LosePem, OddDates, LateLook, Have, CertInv,
            CertKind
    <3>2. /\ issued' = issued /\ demands' \in {demands, demands + 1}
          /\ UNCHANGED <<dflt, bound>>
      BY <2>2 DEF TimePasses, SpecNames, LoseTool, LosePem, OddDates, LateLook
    <3> QED
      BY <1>0, <2>0, <3>1, <3>2, RoomKept
  <2>3. CASE DeleteOld
    <3>1. PICK i \in Have \ {dflt} : /\ \A s \in Services : bound[s] # i
                                     /\ certs' = [j \in Have \ {i} |-> certs[j]]
      BY <2>3 DEF DeleteOld
    <3>2. Have' = Have \ {i} /\ UNCHANGED <<dflt, bound, issued, demands>>
      BY <2>3, <3>1 DEF DeleteOld, Have
    <3>3. dflt' \in Have' \cup {0}
      BY <1>0, <3>1, <3>2
    <3>4. bound' \in [Services -> Have' \cup {0}]
      BY <1>0, <3>1, <3>2
    <3> QED
      BY <1>0, <3>2, <3>3, <3>4, RoomKept
  <2> QED
    BY <1>4, <2>1, <2>2, <2>3, <2>4 DEF CertEvent
<1> QED
  BY <1>1, <1>2, <1>3, <1>4 DEF Next, PlayStep, Begin, Access, Vpn, Garage, Certificates, CertStep,
     NoIssue, Cut, Outside, Reboot, vars

LEMMA CertTyped == PlayType /\ CertInv /\ CertRoom => CertType
<1> SUFFICES ASSUME PlayType, CertInv, CertRoom PROVE CertType
  OBVIOUS
<1>1. /\ events \in Nat /\ MaxEvents \in Nat /\ MaxFaults \in Nat /\ events <= MaxEvents
      /\ issued \in Nat /\ demands \in Nat /\ issued <= demands /\ demands \in 1..(events + 1)
      /\ Have \subseteq Nat \ {0}
  BY PlayKinds, Bounds DEF PlayKind, CertInv, CertKind, Counted, Owed, CertRoom
<1>2. MaxCerts \in Nat /\ events + 1 <= MaxCerts
  BY <1>1 DEF MaxCerts
<1>3. Have \subseteq 1..MaxCerts
  <2> SUFFICES ASSUME NEW j \in Have PROVE j \in 1..MaxCerts
    OBVIOUS
  <2>1. j + demands <= issued + events + 1 /\ j \in Nat \ {0}
    BY <1>1 DEF CertRoom
  <2>2. j <= events + 1
    BY <1>1, <2>1
  <2> QED
    BY <1>1, <1>2, <2>1, <2>2
<1>4. dflt \in 0..MaxCerts /\ bound \in [Services -> 0..MaxCerts]
  <2>1. Have \cup {0} \subseteq 0..MaxCerts
    BY <1>2, <1>3
  <2>2. dflt \in Have \cup {0} /\ bound \in [Services -> Have \cup {0}]
    BY DEF CertRoom
  <2> HIDE DEF Have
  <2> QED
    BY <2>1, <2>2
<1>5. issued \in 0..MaxCerts /\ demands \in 1..(MaxEvents + 1)
  BY <1>1, <1>2
<1>6. /\ \A i \in Have : certs[i] \in Certificate
      /\ want \in {0, 1} /\ tool \in BOOLEAN /\ late \in {{}, {0}, {1}}
  BY DEF CertInv, CertKind
<1> QED
  BY <1>3, <1>4, <1>5, <1>6 DEF CertType

(* The credentials of a key that something still holds. *)
Held(k) == ({cred[k], mine[k], env[k]} \cup keys[k]) \ {0}

(* A key's first credential comes from the first play; any other is an      *)
(* event or a fault of its own.                                             *)
Room == 1 + events + faults

IdKind == /\ cred \in [Keys -> 0..MaxId] /\ env \in [Keys -> 0..MaxId]
          /\ mine \in [Keys -> 0..MaxId]
          /\ keys \in [Keys -> SUBSET (1..MaxId)] /\ grant \in [Keys -> BOOLEAN]

IdRoom == \A k \in Keys : /\ IsFiniteSet(Held(k)) /\ Cardinality(Held(k)) <= Room
                          /\ cred[k] = 0 => env[k] = 0 /\ mine[k] = 0 /\ keys[k] = {}

LEMMA InitIds == Init => IdKind /\ IdRoom
<1> SUFFICES ASSUME PlayInit, GarageInit PROVE IdKind /\ IdRoom
  BY DEF Init
<1>1. MaxId \in Nat
  BY Bounds DEF MaxId
<1>2. IdKind
  BY <1>1 DEF GarageInit, IdKind
<1>3. \A k \in Keys : Held(k) = {} /\ cred[k] = 0 /\ env[k] = 0 /\ mine[k] = 0 /\ keys[k] = {}
  BY DEF GarageInit, Held
<1>4. Cardinality({}) <= Room
  BY FS_EmptySet DEF PlayInit, Room
<1>5. IdRoom
  BY <1>3, <1>4, FS_EmptySet DEF IdRoom
<1> QED
  BY <1>2, <1>5

(* While there is room, there is an unused credential. *)
LEMMA UnusedIs ==
    ASSUME PlayType, IdKind, NEW k \in Keys, IsFiniteSet(Held(k)), Cardinality(Held(k)) <= Room
    PROVE  Unused(k) \in 1..MaxId /\ Unused(k) \notin {cred[k], mine[k], env[k]} \cup keys[k]
<1>1. /\ MaxId \in Nat /\ Room \in Nat /\ Room < MaxId
  <2>1. /\ events \in Nat /\ faults \in Nat /\ MaxEvents \in Nat /\ MaxFaults \in Nat
        /\ events <= MaxEvents /\ faults <= MaxFaults
    BY PlayKinds, Bounds DEF PlayKind
  <2> QED
    BY <2>1 DEF Room, MaxId
<1>2. IsFiniteSet(1..MaxId) /\ Cardinality(1..MaxId) = MaxId
  BY <1>1, FS_Interval
<1>3. ~(1..MaxId \subseteq Held(k))
  <2> SUFFICES ASSUME 1..MaxId \in SUBSET Held(k) PROVE FALSE
    OBVIOUS
  <2>1. Cardinality(1..MaxId) <= Cardinality(Held(k)) /\ Cardinality(Held(k)) \in Nat
    BY FS_Subset, FS_CardinalityType
  <2> QED
    BY <1>1, <1>2, <2>1
<1>4. \E i \in 1..MaxId : i \notin {cred[k], mine[k], env[k]} \cup keys[k]
  BY <1>3 DEF Held
<1> QED
  BY <1>4 DEF Unused

(* A key keeps within the room when it takes nothing new, or one credential *)
(* and an event or a fault is counted for it.                               *)
LEMMA HeldKept ==
    ASSUME NEW S, IsFiniteSet(S), Cardinality(S) <= Room, NEW T \in SUBSET S, Room \in Nat,
           Room' \in {Room, Room + 1}
    PROVE  IsFiniteSet(T) /\ Cardinality(T) <= Room'
<1>1. /\ IsFiniteSet(T) /\ Cardinality(T) <= Cardinality(S)
      /\ Cardinality(T) \in Nat /\ Cardinality(S) \in Nat
  BY FS_Subset, FS_CardinalityType
<1> QED
  BY <1>1

LEMMA HeldGrows ==
    ASSUME NEW S, IsFiniteSet(S), Cardinality(S) <= Room, NEW i, NEW T \in SUBSET (S \cup {i}),
           Room \in Nat, Room' = Room + 1
    PROVE  IsFiniteSet(T) /\ Cardinality(T) <= Room'
<1>1. /\ IsFiniteSet(S \cup {i}) /\ Cardinality(S \cup {i}) <= Cardinality(S) + 1
      /\ Cardinality(S) \in Nat
  <2>1. /\ Cardinality(S) \in Nat /\ IsFiniteSet(S \cup {i})
        /\ Cardinality(S \cup {i}) = IF i \in S THEN Cardinality(S) ELSE Cardinality(S) + 1
    BY FS_AddElement, FS_CardinalityType
  <2> QED
    BY <2>1
<1>2. /\ IsFiniteSet(T) /\ Cardinality(T) <= Cardinality(S \cup {i})
      /\ Cardinality(T) \in Nat /\ Cardinality(S \cup {i}) \in Nat
  BY <1>1, FS_Subset, FS_CardinalityType
<1> QED
  BY <1>1, <1>2

LEMMA RoomSteps ==
    ASSUME PlayType, [Next]_vars
    PROVE  /\ Room \in Nat \ {0} /\ Room' \in {Room, Room + 1}
           /\ Event \/ ProvisionBlind \/ Faulted => Room' = Room + 1
<1>1. events \in Nat /\ faults \in Nat
  BY PlayKinds, Bounds DEF PlayKind
<1>2. /\ Event \/ BootEvent => events' = events + 1 /\ faults' = faults
      /\ Faulted \/ ProvisionBlind => events' = events /\ faults' = faults + 1
      /\ Done \/ Failed \/ Start \/ UNCHANGED playVars => events' = events /\ faults' = faults
  BY DEF Event, BootEvent, Faulted, ProvisionBlind, Done, Failed, Start, playVars
<1> QED
  BY <1>1, <1>2, NextMoves DEF Room, Move, Pace

(* The control node generates the credentials of the keys in R. *)
LEMMA NewCreds ==
    ASSUME PlayType, [Next]_vars, IdKind, IdRoom, NEW R \in SUBSET Keys,
           cred' = [k \in Keys |-> IF k \in R THEN Unused(k) ELSE cred[k]],
           mine' \in {mine, cred'}, UNCHANGED <<env, keys, grant>>,
           (\A k \in R : cred[k] = 0) \/ Room' = Room + 1
    PROVE  (IdKind /\ IdRoom)'
<1>0. Room \in Nat \ {0} /\ Room' \in {Room, Room + 1} /\ MaxId \in Nat
  BY RoomSteps, Bounds DEF MaxId
<1>u. \A k \in Keys : Unused(k) \in 1..MaxId
  BY UnusedIs DEF IdRoom
<1>1. IdKind'
  <2> DEFINE u(k) == Unused(k)
  <2>1. \A k \in Keys : u(k) \in 0..MaxId
    BY <1>0, <1>u
  <2>2. cred' = [k \in Keys |-> IF k \in R THEN u(k) ELSE cred[k]]
    OBVIOUS
  <2> HIDE DEF u
  <2>3. cred' \in [Keys -> 0..MaxId]
    BY <2>1, <2>2 DEF IdKind
  <2>4. mine' \in [Keys -> 0..MaxId]
    BY <2>3 DEF IdKind
  <2> QED
    BY <2>3, <2>4 DEF IdKind
<1>2. ASSUME NEW k \in Keys
      PROVE  /\ IsFiniteSet(Held(k)') /\ Cardinality(Held(k)') <= Room'
             /\ cred'[k] = 0 => env'[k] = 0 /\ mine'[k] = 0 /\ keys'[k] = {}
  <2>0. IsFiniteSet(Held(k)) /\ Cardinality(Held(k)) <= Room
        /\ (cred[k] = 0 => env[k] = 0 /\ mine[k] = 0 /\ keys[k] = {})
    BY DEF IdRoom
  <2>1. CASE k \notin R
    <3>0. cred'[k] = cred[k] /\ mine'[k] \in {mine[k], cred[k]}
      BY <2>1
    <3>1. Held(k)' \in SUBSET Held(k)
      BY <3>0 DEF Held
    <3> QED
      BY <1>0, <2>0, <3>0, <3>1, HeldKept
  <2>2. CASE k \in R
    <3>1. /\ cred'[k] = Unused(k) /\ Unused(k) \in 1..MaxId
          /\ mine'[k] \in {mine[k], Unused(k)}
      BY <1>u, <2>2
    <3>2. cred'[k] # 0
      BY <1>0, <3>1
    <3>3. CASE cred[k] = 0
      <4>1. Held(k)' = {Unused(k)}
        BY <2>0, <3>1, <3>2, <3>3 DEF Held
      <4>2. IsFiniteSet({Unused(k)}) /\ Cardinality({Unused(k)}) = 1
        BY FS_Singleton
      <4> QED
        BY <1>0, <3>2, <4>1, <4>2
    <3>4. CASE cred[k] # 0
      <4>1. Held(k)' \in SUBSET (Held(k) \cup {Unused(k)})
        BY <3>1 DEF Held
      <4>2. Room' = Room + 1
        BY <2>2, <3>4
      <4> QED
        BY <1>0, <2>0, <3>2, <4>1, <4>2, HeldGrows
    <3> QED
      BY <3>3, <3>4
  <2> QED
    BY <2>1, <2>2
<1> QED
  BY <1>1, <1>2 DEF IdRoom

(* Nothing new is taken. *)
LEMMA NoNewIds ==
    ASSUME PlayType, [Next]_vars, IdRoom, IdKind',
           \A k \in Keys : /\ Held(k)' \in SUBSET Held(k)
                           /\ cred'[k] = 0 => env'[k] = 0 /\ mine'[k] = 0 /\ keys'[k] = {}
    PROVE  IdRoom'
<1>0. Room \in Nat /\ Room' \in {Room, Room + 1}
  BY RoomSteps
<1>1. \A k \in Keys : IsFiniteSet(Held(k)') /\ Cardinality(Held(k)') <= Room'
  BY <1>0, HeldKept DEF IdRoom
<1> QED
  BY <1>1 DEF IdRoom

LEMMA SyncIds == ASSUME PlayType, [Next]_vars, IdKind, IdRoom, SyncKeys \/ SyncKeysFails
                 PROVE  (IdKind /\ IdRoom)'
<1>1. PICK i \in SUBSET Keys, w \in SUBSET Keys, g \in SUBSET Keys :
         Import(i) /\ WriteEnv(w) /\ SetGrants(g)
  BY DEF SyncKeys, SyncKeysFails, ToImport, ToWrite, ToGrant
<1>2. cred' = cred /\ mine' = mine /\ \A k \in Keys : mine[k] # 0
  BY DEF SyncKeys, SyncKeysFails, Refused
<1>3. \A k \in Keys : /\ keys'[k] \in {keys[k], {mine[k]}}
                      /\ env'[k] \in {env[k], mine[k]}
  BY <1>1 DEF Import, WriteEnv
<1>4. IdKind'
  <2>1. MaxId \in Nat /\ \A k \in Keys : mine[k] \in 1..MaxId
    BY <1>2, Bounds DEF IdKind, MaxId
  <2>2. keys' \in [Keys -> SUBSET (1..MaxId)]
    BY <1>1, <2>1 DEF Import, IdKind
  <2>3. env' \in [Keys -> 0..MaxId]
    BY <1>1, <2>1 DEF WriteEnv, IdKind
  <2>4. grant' \in [Keys -> BOOLEAN]
    <3>1. grant' = [k \in Keys |-> IF k \in g THEN TRUE ELSE grant[k]]
      BY <1>1 DEF SetGrants
    <3> QED
      BY Zenon, <3>1 DEF IdKind
  <2> QED
    BY <1>2, <2>2, <2>3, <2>4 DEF IdKind
<1>5. \A k \in Keys : Held(k)' \in SUBSET Held(k)
  BY <1>2, <1>3 DEF Held
<1>6. \A k \in Keys : cred'[k] # 0
  BY <1>2 DEF IdRoom
<1> QED
  BY <1>4, <1>5, <1>6, NoNewIds

LEMMA ByHandIds == ASSUME PlayType, [Next]_vars, IdKind, IdRoom, ByHand
                   PROVE  (IdKind /\ IdRoom)'
<1>0. Room \in Nat /\ Room' = Room + 1
  BY RoomSteps DEF ByHand
<1>1. UNCHANGED <<cred, mine, env>>
  BY DEF ByHand
<1>2. CASE UNCHANGED <<keys, grant>>
  <2>1. IdKind'
    BY <1>1, <1>2 DEF IdKind
  <2>2. \A k \in Keys : Held(k)' \in SUBSET Held(k)
    BY <1>1, <1>2 DEF Held
  <2> QED
    BY <1>1, <1>2, <2>1, <2>2, NoNewIds DEF IdRoom
<1>3. CASE keys' = keys /\ \E k \in Keys : grant' = [grant EXCEPT ![k] = FALSE]
  <2>1. grant' \in [Keys -> BOOLEAN]
    BY Zenon, <1>3 DEF IdKind
  <2>2. IdKind'
    BY <1>1, <1>3, <2>1 DEF IdKind
  <2>3. \A k \in Keys : Held(k)' \in SUBSET Held(k)
    BY <1>1, <1>3 DEF Held
  <2> QED
    BY <1>1, <1>3, <2>2, <2>3, NoNewIds DEF IdRoom
<1>4. ASSUME NEW k \in Keys, NEW now \in {{}, {Unused(k)}, keys[k] \cup {Unused(k)}}, keys[k] # {},
             keys' = [keys EXCEPT ![k] = now],
             grant' = [grant EXCEPT ![k] = grant[k] /\ cred[k] \in now]
      PROVE  (IdKind /\ IdRoom)'
  <2>u. Unused(k) \in 1..MaxId
    BY UnusedIs DEF IdRoom
  <2>1. grant' \in [Keys -> BOOLEAN]
    <3> DEFINE b == grant[k] /\ cred[k] \in now
    <3>1. b \in BOOLEAN
      OBVIOUS
    <3>2. grant' = [grant EXCEPT ![k] = b]
      BY <1>4
    <3> HIDE DEF b
    <3> QED
      BY Zenon, <3>1, <3>2 DEF IdKind
  <2>2. now \in SUBSET (1..MaxId)
    BY <2>u DEF IdKind
  <2>3. IdKind'
    BY <1>1, <1>4, <2>1, <2>2 DEF IdKind
  <2>4. ASSUME NEW j \in Keys
        PROVE  /\ IsFiniteSet(Held(j)') /\ Cardinality(Held(j)') <= Room'
               /\ cred'[j] = 0 => env'[j] = 0 /\ mine'[j] = 0 /\ keys'[j] = {}
    <3>0. IsFiniteSet(Held(j)) /\ Cardinality(Held(j)) <= Room
          /\ (cred[j] = 0 => env[j] = 0 /\ mine[j] = 0 /\ keys[j] = {})
      BY DEF IdRoom
    <3>1. Held(j)' \in SUBSET (Held(j) \cup {Unused(k)})
      BY <1>1, <1>4 DEF Held, IdKind
    <3>2. cred'[j] = 0 => env'[j] = 0 /\ mine'[j] = 0 /\ keys'[j] = {}
      BY <1>1, <1>4, <3>0 DEF IdKind
    <3> QED
      BY <1>0, <3>0, <3>1, <3>2, HeldGrows
  <2> QED
    BY <2>3, <2>4 DEF IdRoom
<1> QED
  BY <1>2, <1>3, <1>4 DEF ByHand

LEMMA NextIds == PlayType /\ IdKind /\ IdRoom /\ [Next]_vars => (IdKind /\ IdRoom)'
<1> SUFFICES ASSUME PlayType, IdKind, IdRoom, [Next]_vars PROVE (IdKind /\ IdRoom)'
  OBVIOUS
<1>1. CASE UNCHANGED <<cred, mine, env, keys, grant>>
  <2>1. IdKind'
    BY <1>1 DEF IdKind
  <2>2. \A k \in Keys : Held(k)' \in SUBSET Held(k)
    BY <1>1 DEF Held
  <2> QED
    BY <1>1, <2>1, <2>2, NoNewIds DEF IdRoom
<1>2. CASE Provision
  <2> DEFINE R == {k \in Keys : cred[k] = 0}
  <2>1. cred' = [k \in Keys |-> IF k \in R THEN Unused(k) ELSE cred[k]]
    BY <1>2 DEF Provision
  <2> QED
    BY <1>2, <2>1, NewCreds DEF Provision
<1>3. CASE ProvisionBlind
  <2>1. PICK b \in SUBSET Keys :
           cred' = [k \in Keys |-> IF cred[k] # 0 /\ k \notin b THEN cred[k] ELSE Unused(k)]
    BY <1>3 DEF ProvisionBlind
  <2> DEFINE R == {k \in Keys : cred[k] = 0 \/ k \in b}
  <2>2. cred' = [k \in Keys |-> IF k \in R THEN Unused(k) ELSE cred[k]]
    BY <2>1
  <2>3. Room' = Room + 1 /\ mine' = cred' /\ UNCHANGED <<env, keys, grant>>
    BY <1>3, RoomSteps DEF ProvisionBlind
  <2> QED
    BY <2>2, <2>3, NewCreds
<1>4. CASE ProvisionFails
  <2>1. PICK m \in SUBSET {k \in Keys : cred[k] = 0} :
           cred' = [k \in Keys |-> IF k \in m THEN Unused(k) ELSE cred[k]]
    BY <1>4 DEF ProvisionFails
  <2> QED
    BY <1>4, <2>1, NewCreds DEF ProvisionFails
<1>5. CASE LoseKeysDir
  <2>0. MaxId \in Nat
    BY Bounds DEF MaxId
  <2>1. env' = [k \in Keys |-> 0] /\ UNCHANGED <<cred, mine, keys, grant>>
    BY <1>5 DEF LoseKeysDir
  <2>2. IdKind'
    BY <2>0, <2>1 DEF IdKind
  <2>3. \A k \in Keys : Held(k)' \in SUBSET Held(k)
    BY <2>1 DEF Held
  <2> QED
    BY <2>1, <2>2, <2>3, NoNewIds DEF IdRoom
<1>6. CASE LatePut
  <2>1. PICK j \in Keys : cred' = [cred EXCEPT ![j] = Unused(j)]
    BY <1>6 DEF LatePut
  <2>2. cred' = [k \in Keys |-> IF k \in {j} THEN Unused(k) ELSE cred[k]]
    BY <2>1 DEF IdKind
  <2>3. Room' = Room + 1 /\ mine' = mine /\ UNCHANGED <<env, keys, grant>>
    BY <1>6, RoomSteps DEF LatePut
  <2> QED
    BY <2>2, <2>3, NewCreds
<1> QED
  BY <1>1, <1>2, <1>3, <1>4, <1>5, <1>6, SyncIds, ByHandIds DEF Next, PlayStep, Begin, Access, Vpn,
     Certificates, Garage, GarageStep, GarageFault, RenderConfig, Deploy, DeployFails, Layout,
     LayoutFails, Unreachable, SyncBuckets, SyncBucketsFails, RefuseKeys, RenderUi, DeployUi,
     DeployUiFails, Cut, Outside, GarageEvent, SpecChange, ContainerStops, Reboot, GarageBoot, vars,
     garageVars

LEMMA GarageTyped == PlayType /\ GarageKind /\ IdKind => GarageType
<1> SUFFICES ASSUME PlayType, GarageKind, IdKind PROVE GarageType
  OBVIOUS
<1>1. PICK n \in Nat : n = 1 + events
  BY PlayKinds, Bounds DEF PlayKind
<1>2. PICK m \in Nat : m = 1 + MaxEvents
  BY Bounds
<1>3. n <= m
  BY <1>1, <1>2, PlayKinds, Bounds DEF PlayKind
<1>4. wantTag \in 1..n /\ box \in BoxRecords(n) /\ ui \in UiRecords(n)
  BY <1>1 DEF GarageKind
<1>5. 1..n \subseteq 1..m /\ 0..n \subseteq 0..m
  BY <1>3
<1>6. wantTag \in 1..m /\ box \in BoxRecords(m) /\ ui \in UiRecords(m)
  BY <1>4, <1>5 DEF BoxRecords, UiRecords
<1> QED
  BY <1>2, <1>6 DEF GarageKind, IdKind, GarageType, BoxRecords, UiRecords

(* The state of the NAS stays of the kind the roles expect: there is never  *)
(* a certificate or a credential too many for its number, and no setting    *)
(* takes a value a role does not know.                                      *)
THEOREM NasTyped == Spec => []TypeOK
<1> DEFINE Inv == /\ PlayType /\ AccessInv /\ VpnInv /\ CertInv /\ CertRoom
                  /\ GarageKind /\ IdKind /\ IdRoom
<1>1. Inv => TypeOK
  BY CertTyped, GarageTyped DEF TypeOK, AccessInv, VpnInv, VpnType, VpnRecords
<1>2. Inv /\ [Next]_vars => Inv'
  BY NextPlay, NextAccess, NextVpn, NextCert, NextCertRoom, NextGarageKind, NextIds
<1>3. Init => Inv
  BY InitPlay, InitAccess, InitVpn, InitCert, InitCertRoom, InitGarageKind, InitIds
<1> QED
  BY <1>1, <1>2, <1>3, PTL DEF Spec
=============================================================================
