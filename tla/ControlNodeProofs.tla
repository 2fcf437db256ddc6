--------------------------- MODULE ControlNodeProofs ---------------------------
(***************************************************************************)
(* For any set of secrets, any number of commits, failing calls, lost       *)
(* secrets, runs by hand and reboots: the secrets the member's data depends *)
(* on are never replaced, one run of the reboots takes down one host at a   *)
(* time, and a green deploy means what it says.                             *)
(*                                                                         *)
(* The argument for the first: an entry the state tracks is what OpenBao    *)
(* has; one it does not track is only created where OpenBao has none,       *)
(* because nothing happens to either between the guard's look and the       *)
(* apply.                                                                   *)
(***************************************************************************)
EXTENDS ControlNode, FiniteSetTheorems, SequenceTheorems, TLAPS

Data == /\ kv \in [Secret -> Nat] /\ run \in [Secret -> Nat] /\ base \in [Secret -> Nat]
        /\ last \in [Secret -> Nat]
        /\ state \in [Secret -> [value : Nat, entry : BOOLEAN]]

NoExcuse == excuses \cap {"bypass", "blind", "rename"} = {}

(* A secret in use is the one in OpenBao; an entry of the state is true. *)
Kept == \A s \in Generated :
            /\ base[s] # 0 => kv[s] = base[s] /\ run[s] \in {0, base[s]}
            /\ state[s].entry => kv[s] # 0 /\ state[s].value = kv[s]

(* The script holds OpenTofu to itself, and what the guard saw still is so. *)
Holding == /\ tofu # "none" => script = "tofu"
           /\ tofu # "none" /\ mode \in {"approve", "replace"} => "bypass" \in excuses
           /\ NoExcuse /\ tofu = "apply" /\ target = "secrets" => Clobber = {}

LiveInv == Data /\ Holding /\ (NoExcuse => Kept)

LEMMA InitLive == Init => LiveInv
<1> SUFFICES ASSUME FleetInit, TofuInit PROVE LiveInv
  BY DEF Init
<1>1. Data
  BY DEF Data, FleetInit, TofuInit
<1>2. Kept
  BY DEF Kept, FleetInit, TofuInit, Secret
<1> QED
  BY <1>1, <1>2 DEF LiveInv, Holding, FleetInit, TofuInit

(* Steps that leave OpenBao and the OpenTofu state alone: at most the       *)
(* member's agent renders what OpenBao has, or a boot empties its files.    *)
LEMMA RenderKeeps ==
    ASSUME LiveInv, UNCHANGED <<kv, state, target, mode, tofu, last>>,
           \/ UNCHANGED <<run, base>>
           \/ run' = kv /\ Pins(kv)
           \/ run' = [s \in Secret |-> 0] /\ base' = base,
           excuses \subseteq excuses', tofu # "none" => script' = script
    PROVE  LiveInv'
<1>1. Data'
  BY DEF LiveInv, Data, Pins
<1>2. NoExcuse' => NoExcuse
  BY DEF NoExcuse
<1>3. Clobber' = Clobber
  BY DEF Clobber
<1>4. Holding'
  BY <1>2, <1>3 DEF LiveInv, Holding
<1>5. ASSUME Kept PROVE Kept'
  <2> SUFFICES ASSUME NEW s \in Generated
               PROVE  base'[s] # 0 => kv[s] = base'[s] /\ run'[s] \in {0, base'[s]}
    BY <1>5 DEF Kept
  <2>1. s \in Secret /\ (base[s] # 0 => kv[s] = base[s] /\ run[s] \in {0, base[s]})
    BY <1>5 DEF Kept, Secret
  <2> QED
    BY <2>1 DEF Pins
<1> QED
  BY <1>1, <1>2, <1>4, <1>5 DEF LiveInv

(* What the apply writes is a version, never "none". *)
LEMMA WritesVersion == ASSUME LiveInv, NEW s \in Secret
                       PROVE  Writes(s) \in Nat \ {0}
<1>1. state[s].value \in Nat /\ last[s] \in Nat
  BY DEF LiveInv, Data
<1> QED
  BY <1>1 DEF Writes

(* The apply, whole or cut. *)
LEMMA ApplyKeeps ==
    ASSUME LiveInv, tofu = "apply", NEW done \in SUBSET Of(target), Written(done),
           UNCHANGED <<run, base, excuses>>, tofu' = "none"
    PROVE  LiveInv'
<1>1. Of(target) \subseteq Secret
  BY DEF Of, Secret
<1>2. Data'
  <2>1. /\ \A s \in Secret : Writes(s) \in Nat
        /\ \A s \in Secret : state[s].entry \in BOOLEAN /\ state[s] \in [value : Nat, entry : BOOLEAN]
        /\ kv \in [Secret -> Nat] /\ last \in [Secret -> Nat]
        /\ run \in [Secret -> Nat] /\ base \in [Secret -> Nat]
    BY WritesVersion DEF LiveInv, Data
  <2>2. kv' \in [Secret -> Nat]
    BY <2>1 DEF Written
  <2>3. last' \in [Secret -> Nat]
    BY <2>1 DEF Written
  <2>4. state' \in [Secret -> [value : Nat, entry : BOOLEAN]]
    BY <2>1 DEF Written
  <2> QED
    BY <2>1, <2>2, <2>3, <2>4 DEF Data
<1>3. Holding'
  BY DEF Holding
<1>4. ASSUME NoExcuse PROVE Kept'
  <2> SUFFICES ASSUME NEW s \in Generated
               PROVE  /\ base[s] # 0 => kv'[s] = base[s] /\ run[s] \in {0, base[s]}
                      /\ state'[s].entry => kv'[s] # 0 /\ state'[s].value = kv'[s]
    BY DEF Kept
  <2>0. /\ s \in Secret
        /\ base[s] # 0 => kv[s] = base[s] /\ run[s] \in {0, base[s]}
        /\ state[s].entry => kv[s] # 0 /\ state[s].value = kv[s]
    BY <1>4 DEF LiveInv, Kept, Secret
  <2>1. CASE target = "secrets"
    <3>1. s \in Of(target) /\ Clobber = {} /\ mode # "replace"
      BY <1>4, <2>1 DEF Of, LiveInv, Holding, NoExcuse
    <3>2. state[s].entry \/ kv[s] = 0
      BY <3>1 DEF Clobber
    <3>3. state[s].entry => Writes(s) = kv[s]
      BY <2>0, <3>1 DEF Writes
    <3>4. /\ state'[s].value = Writes(s) /\ (state'[s].entry => state[s].entry \/ s \in done)
          /\ kv'[s] = IF s \in done THEN Writes(s) ELSE kv[s]
      BY <2>0, <3>1 DEF Written
    <3>5. Writes(s) # 0
      BY <2>0, WritesVersion
    <3> QED
      BY <2>0, <3>2, <3>3, <3>4, <3>5
  <2>2. CASE target # "secrets"
    <3>1. s \notin Of(target)
      BY <2>2, FleetAssumption DEF Of
    <3>2. state'[s] = state[s] /\ kv'[s] = kv[s]
      BY <2>0, <3>1 DEF Written
    <3> QED
      BY <2>0, <3>2
  <2> QED
    BY <2>1, <2>2
<1>5. NoExcuse' = NoExcuse
  BY DEF NoExcuse
<1> QED
  BY <1>2, <1>3, <1>4, <1>5 DEF LiveInv

(* The import adopts values of secrets that have none, and no entry. *)
LEMMA ImportKeeps == ASSUME LiveInv, Import PROVE LiveInv'
<1>1. PICK missed \in SUBSET Generated :
         state' = [s \in Secret |-> IF s \in Generated \ missed /\ state[s].value = 0
                                    THEN [state[s] EXCEPT !.value = kv[s]] ELSE state[s]]
  BY DEF Import
<1>2. /\ UNCHANGED <<kv, run, base, last, excuses>> /\ tofu' \in {"none", "guard"}
      /\ tofu = "import" /\ script = "tofu"
      /\ tofu' = "guard" => script' = script /\ mode' = mode
  BY DEF Import, TofuEnds, Tofu, hosts, bao
<1>3. /\ \A s \in Secret : kv[s] \in Nat /\ state[s] \in [value : Nat, entry : BOOLEAN]
      /\ run \in [Secret -> Nat] /\ base \in [Secret -> Nat] /\ last \in [Secret -> Nat]
      /\ kv \in [Secret -> Nat]
  BY DEF LiveInv, Data
<1>4. \A s \in Secret : LET e == [state[s] EXCEPT !.value = kv[s]]
                        IN  e \in [value : Nat, entry : BOOLEAN] /\ e.entry = state[s].entry
  <2> TAKE s \in Secret
  <2>1. PICK r \in [value : Nat, entry : BOOLEAN], v \in Nat : r = state[s] /\ v = kv[s]
    BY <1>3
  <2>2. [r EXCEPT !.value = v] \in [value : Nat, entry : BOOLEAN]
    OBVIOUS
  <2>3. [r EXCEPT !.value = v].entry = r.entry
    OBVIOUS
  <2> QED
    BY <2>1, <2>2, <2>3
<1>5. Data'
  BY <1>1, <1>2, <1>3, <1>4 DEF Data
<1>6. Holding'
  BY <1>2 DEF LiveInv, Holding
<1>7. ASSUME Kept PROVE Kept'
  <2> SUFFICES ASSUME NEW s \in Generated
               PROVE  state'[s].entry => kv[s] # 0 /\ state'[s].value = kv[s]
    BY <1>2, <1>7 DEF Kept
  <2>1. s \in Secret
    BY DEF Secret
  <2>2. state[s].entry => kv[s] # 0 /\ state[s].value = kv[s]
    BY <1>7 DEF Kept
  <2>3. CASE s \in Generated \ missed /\ state[s].value = 0
    BY <1>1, <1>4, <2>1, <2>2, <2>3
  <2>4. CASE ~(s \in Generated \ missed /\ state[s].value = 0)
    BY <1>1, <2>1, <2>2, <2>4
  <2> QED
    BY <2>3, <2>4
<1>8. NoExcuse' = NoExcuse
  BY <1>2 DEF NoExcuse
<1> QED
  BY <1>5, <1>6, <1>7, <1>8 DEF LiveInv

(* The guard lets pass only what creates nothing over an entry there is,    *)
(* unless it cannot look or is told not to.                                 *)
LEMMA GuardKeeps == ASSUME LiveInv, Guard \/ GuardBlind PROVE LiveInv'
<1>1. /\ UNCHANGED <<kv, run, base, last, state>> /\ tofu' \in {"none", "apply"}
      /\ tofu = "guard" /\ script = "tofu" /\ excuses \subseteq excuses'
      /\ tofu' = "apply" => UNCHANGED <<script, mode, target>>
  BY DEF Guard, GuardBlind, TofuEnds, Tofu, world, hosts, bao
<1>2. Data' /\ Clobber' = Clobber
  BY <1>1 DEF LiveInv, Data, Clobber
<1>3. ASSUME NoExcuse', tofu' = "apply", target' = "secrets" PROVE Clobber' = {}
  <2>1. ~GuardBlind
    BY <1>3 DEF GuardBlind, NoExcuse
  <2>2. target = "secrets" /\ mode \notin {"approve", "replace"}
    BY <1>1, <1>3 DEF LiveInv, Holding, NoExcuse
  <2>3. ~(Guarded /\ Clobber # {})
    BY <1>3, <2>1 DEF Guard, TofuEnds
  <2> QED
    BY <1>2, <2>2, <2>3 DEF Guarded
<1>4. Holding'
  BY <1>1, <1>3 DEF LiveInv, Holding
<1>5. (NoExcuse' => NoExcuse) /\ (Kept => Kept')
  BY <1>1 DEF NoExcuse, Kept
<1> QED
  BY <1>2, <1>4, <1>5 DEF LiveInv

(* The rest of the script, and its start, write nothing. *)
LEMMA TofuElseKeeps ==
    ASSUME LiveInv, UNCHANGED <<kv, run, base, last, state>>, excuses \subseteq excuses',
           tofu' \in {"none", "login", "import", "guard"}, tofu' # "none" => script' = "tofu",
           tofu' # "none" /\ mode' \in {"approve", "replace"} => "bypass" \in excuses'
    PROVE  LiveInv'
<1>1. Data' /\ Holding'
  BY DEF LiveInv, Data, Holding
<1>2. (NoExcuse' => NoExcuse) /\ (Kept => Kept')
  BY DEF NoExcuse, Kept
<1> QED
  BY <1>1, <1>2 DEF LiveInv

LEMMA TofuKeeps == ASSUME LiveInv, TofuStep PROVE LiveInv'
<1>1. CASE Guard \/ GuardBlind
  BY <1>1, GuardKeeps
<1>2. CASE Import
  BY <1>2, ImportKeeps
<1>3. CASE Apply \/ ApplyFails
  <2>1. PICK done \in SUBSET Of(target) : Written(done)
    BY <1>3 DEF Apply, ApplyFails
  <2>2. tofu = "apply" /\ tofu' = "none" /\ UNCHANGED <<run, base, excuses>>
    BY <1>3 DEF Apply, ApplyFails, Tofu, TofuEnds, hosts
  <2> QED
    BY <2>1, <2>2, ApplyKeeps
<1>4. CASE LoginFails \/ Skip \/ Refuse
  BY <1>4, TofuElseKeeps DEF LoginFails, Skip, Refuse, TofuEnds, world, hosts, bao
<1>5. CASE Materialize
  BY <1>5, TofuElseKeeps DEF Materialize, Tofu, world, hosts, bao, LiveInv, Holding
<1> QED
  BY <1>1, <1>2, <1>3, <1>4, <1>5 DEF TofuStep

LEMMA StartTofuKeeps ==
    ASSUME LiveInv, NEW t, NEW m, StartTofu(t, m), UNCHANGED <<kv, run, base>>
    PROVE  LiveInv'
BY TofuElseKeeps DEF StartTofu

(* The state forgets: the entry goes with the value, or it is an excuse. *)
LEMMA ForgetKeeps ==
    ASSUME LiveInv, NEW s \in Generated, Free, Forget(s), UNCHANGED <<run, base, script>>
    PROVE  LiveInv'
<1>0. s \in Secret /\ tofu = "none" /\ UNCHANGED <<tofu, kv, last, mode, target>>
  BY DEF Free, LiveInv, Holding, Forget, Secret
<1>1. state \in [Secret -> [value : Nat, entry : BOOLEAN]] /\ state[s] \in [value : Nat, entry : BOOLEAN]
  BY <1>0 DEF LiveInv, Data
<1>2. CASE state' = [state EXCEPT ![s].value = 0, ![s].entry = FALSE] /\ UNCHANGED excuses
  <2> DEFINE e == [state[s] EXCEPT !.value = 0, !.entry = FALSE]
  <2>1. e \in [value : Nat, entry : BOOLEAN] /\ ~e.entry
    BY <1>1
  <2>2. state' = [state EXCEPT ![s] = e]
    BY <1>0, <1>1, <1>2
  <2> HIDE DEF e
  <2>3. state' \in [Secret -> [value : Nat, entry : BOOLEAN]]
    BY <1>1, <2>1, <2>2
  <2>4. Data'
    BY <1>0, <2>3 DEF LiveInv, Data
  <2>5. ASSUME Kept PROVE Kept'
    <3> SUFFICES ASSUME NEW r \in Generated
                 PROVE  state'[r].entry => kv[r] # 0 /\ state'[r].value = kv[r]
      BY <1>0, <2>5 DEF Kept
    <3>1. r \in Secret /\ (state[r].entry => kv[r] # 0 /\ state[r].value = kv[r])
      BY <2>5 DEF Kept, Secret
    <3>2. CASE r = s
      BY <1>0, <1>1, <2>1, <2>2, <3>2
    <3>3. CASE r # s
      BY <1>1, <2>2, <3>1, <3>3
    <3> QED
      BY <3>2, <3>3
  <2>6. NoExcuse' = NoExcuse /\ Holding'
    BY <1>0, <1>2 DEF NoExcuse, Holding
  <2> QED
    BY <2>4, <2>5, <2>6 DEF LiveInv
<1>3. CASE state' = [state EXCEPT ![s].value = 0] /\ excuses' = excuses \cup {"rename"}
  <2> DEFINE e == [state[s] EXCEPT !.value = 0]
  <2>1. e \in [value : Nat, entry : BOOLEAN]
    BY <1>1
  <2>2. state' = [state EXCEPT ![s] = e]
    BY <1>0, <1>1, <1>3
  <2> HIDE DEF e
  <2>3. state' \in [Secret -> [value : Nat, entry : BOOLEAN]]
    BY <1>1, <2>1, <2>2
  <2>4. Data' /\ ~NoExcuse' /\ Holding'
    BY <1>0, <1>3, <2>3 DEF LiveInv, Data, NoExcuse, Holding
  <2> QED
    BY <2>4 DEF LiveInv
<1> QED
  BY <1>2, <1>3 DEF Forget

LEMMA NixosKeeps == ASSUME LiveInv, NixosStep, UNCHANGED <<tofuVars, rebootVars>> PROVE LiveInv'
<1>1. script = "nixos" /\ tofu = "none"
  BY DEF NixosStep, StageOec, NoSecretZero, StageSecretZero, PushCut, StepFails, Switch,
     SwitchExit4, SwitchLooksLike4, Excused, NotExcused, HostDone, Nixos, LiveInv, Holding
<1>2. UNCHANGED kv /\ excuses \subseteq excuses'
  BY DEF NixosStep, StageOec, NoSecretZero, StageSecretZero, PushCut, StepFails, Switch, Activate,
     SwitchExit4, SwitchLooksLike4, Excused, NotExcused, HostDone, world, hosts, bao
<1>3. UNCHANGED <<run, base>> \/ (run' = kv /\ Pins(kv))
  BY DEF NixosStep, StageOec, NoSecretZero, StageSecretZero, PushCut, StepFails, Switch, Activate,
     SwitchExit4, SwitchLooksLike4, Excused, NotExcused, HostDone, RestartAgent, world, hosts, bao
<1> QED
  BY <1>1, <1>2, <1>3, RenderKeeps DEF tofuVars

LEMMA NextLive == LiveInv /\ [Next]_vars => LiveInv'
<1> SUFFICES ASSUME LiveInv, [Next]_vars PROVE LiveInv'
  OBVIOUS
<1>0. Free \/ script = "none" => tofu = "none"
  BY DEF Free, LiveInv, Holding
<1>1. CASE StartDeploy
  BY <1>1, RenderKeeps DEF StartDeploy, hosts, bao, tofuVars
<1>2. CASE Legs
  <2>1. ASSUME NEW n, NEW S, NixosLeg(n, S) PROVE LiveInv'
    BY <1>0, <2>1, RenderKeeps DEF NixosLeg, Due, May, hosts, bao, tofuVars
  <2>2. ASSUME NEW n, NEW t, TofuLeg(n, t) PROVE LiveInv'
    BY <2>2, StartTofuKeeps DEF TofuLeg, hosts, bao
  <2>3. CASE RerenderLeg
    BY <2>3, RenderKeeps DEF RerenderLeg, Rerender, RestartAgent, bao, tofuVars
  <2>4. CASE Verify \/ LegFailed
    BY <2>4, RenderKeeps DEF Verify, LegFailed, world, hosts, bao, tofuVars
  <2> QED
    BY <1>2, <2>1, <2>2, <2>3, <2>4 DEF Legs
<1>3. CASE RunScript
  <2>1. CASE RebootStep /\ UNCHANGED <<nixosVars, tofuVars>>
    <3>1. script = "reboot" /\ tofu = "none" /\ UNCHANGED <<kv, run, base, excuses>>
      BY <2>1 DEF RebootStep, Issue, Unreachable, Back, TimedOut, world, hosts, bao, LiveInv,
            Holding
    <3> QED
      BY <2>1, <3>1, RenderKeeps DEF tofuVars
  <2> QED
    BY <1>3, <2>1, NixosKeeps, TofuKeeps DEF RunScript, Scripts
<1>4. CASE Push \/ Unseal
  BY <1>4, RenderKeeps DEF Push, Unseal, hosts, bao, tofuVars
<1>5. ASSUME NEW h \in Host, Hosts(h) PROVE LiveInv'
  BY <1>5, RenderKeeps DEF Hosts, GoesDown, Boots, bao, tofuVars
<1>6. ASSUME NEW h \in Host, Restarts(h) PROVE LiveInv'
  BY <1>6, RenderKeeps DEF Restarts, bao, tofuVars
<1>7. ASSUME NEW m, ByHand(m) PROVE LiveInv'
  BY <1>7, StartTofuKeeps DEF ByHand, hosts, bao
<1>8. ASSUME NEW hs, RebootFleet(hs) PROVE LiveInv'
  BY <1>0, <1>8, RenderKeeps DEF RebootFleet, world, hosts, bao, tofuVars
<1>9. ASSUME NEW s \in Generated, Lose(s) PROVE LiveInv'
  BY <1>9, ForgetKeeps DEF Lose, hosts
<1>10. CASE UNCHANGED vars
  BY <1>10, RenderKeeps DEF vars, world, hosts, bao, tofuVars
<1>11. ASSUME NEW h \in Host, NightlyUpgrade(h) PROVE LiveInv'
  <2>1. /\ UNCHANGED <<kv, script, excuses, tofuVars>>
        /\ UNCHANGED <<run, base>> \/ (run' = kv /\ Pins(kv))
    BY <1>11 DEF NightlyUpgrade, Activate, RestartAgent, bao
  <2> QED
    BY <2>1, RenderKeeps DEF tofuVars
<1> QED
  BY <1>1, <1>2, <1>3, <1>4, <1>5, <1>6, <1>7, <1>8, <1>9, <1>10, <1>11 DEF Next

(* A secret that a service created its data with is never replaced, in      *)
(* OpenBao or on the host, unless an operator bypassed the guard, the guard *)
(* could not look, or the secret's resource was renamed (deploy-tofu.sh).   *)
THEOREM LiveSecretsKept == Spec => []LiveKept
<1>1. LiveInv => LiveKept
  BY DEF LiveInv, NoExcuse, Kept, LiveKept
<1> QED
  BY <1>1, InitLive, NextLive, PTL DEF Spec

-----------------------------------------------------------------------------
(* --- One host at a time. --- *)

AllUp == \A h \in Host : power[h] = "up"

(* A run of reboot-fleet.sh has at most its current host away, and has it    *)
(* back once it has been seen to boot; a run that gave up may leave it so.  *)
RebootInv ==
    /\ power \in [Host -> {"up", "going", "down"}] /\ reboots \in Nat
    /\ reboots = 0 => AllUp /\ script # "reboot"
    /\ script = "reboot" =>
          /\ \A h \in Host : h # Head(todo) => power[h] = "up"
          /\ ~issued \/ Head(todo) \in booted => AllUp
    /\ \E x \in Host : \A h \in Host : h # x => power[h] = "up"

LEMMA InitReboot == Init => RebootInv
BY DEF Init, FleetInit, RebootInv, AllUp, Host

(* Steps without the reboot script and without a host's going or coming. *)
LEMMA RebootElsewhere ==
    ASSUME RebootInv, UNCHANGED <<power, reboots>>,
           \/ script' # "reboot"
           \/ script' = "reboot" /\ UNCHANGED <<script, todo, issued, booted>>
    PROVE  RebootInv'
BY DEF RebootInv, AllUp

LEMMA RebootKeeps == ASSUME RebootInv, RebootStep, UNCHANGED reboots PROVE RebootInv'
<1>0. script = "reboot" /\ power \in [Host -> {"up", "going", "down"}]
  BY DEF RebootInv, RebootStep, Issue, Unreachable, Back, TimedOut
<1>1. CASE Issue
  <2>1. /\ script' = "reboot" /\ todo' = todo /\ issued' /\ Head(todo') \notin booted' /\ AllUp
        /\ power' = [power EXCEPT ![Head(todo)] = "going"] \/ power' = power
    BY <1>0, <1>1 DEF Issue, RebootInv
  <2>2. /\ power' \in [Host -> {"up", "going", "down"}]
        /\ \A h \in Host : h # Head(todo) => power'[h] = "up"
    BY <1>0, <2>1 DEF AllUp
  <2>3. \E x \in Host : \A h \in Host : h # x => power'[h] = "up"
    <3>1. CASE Head(todo) \in Host
      BY <2>2, <3>1
    <3>2. CASE Head(todo) \notin Host
      BY <2>2, <3>2 DEF Host
    <3> QED
      BY <3>1, <3>2
  <2> QED
    BY <1>0, <2>1, <2>2, <2>3 DEF RebootInv
<1>2. CASE Back
  <2>1. AllUp /\ AllUp' /\ UNCHANGED power
    BY <1>0, <1>2 DEF Back, IsBack, RebootInv, world, hosts, AllUp
  <2> QED
    BY <1>0, <2>1 DEF RebootInv, AllUp
<1>3. CASE Unreachable \/ TimedOut
  BY <1>3, RebootElsewhere DEF Unreachable, TimedOut, RebootEnds, Ends, world, hosts
<1> QED
  BY <1>1, <1>2, <1>3 DEF RebootStep

LEMMA HostsKeep == ASSUME RebootInv, NEW h \in Host, Hosts(h) PROVE RebootInv'
<1>1. /\ UNCHANGED <<script, todo, reboots, issued>> /\ power \in [Host -> {"up", "going", "down"}]
      /\ \/ power' = [power EXCEPT ![h] = "down"] /\ power[h] = "going" /\ booted' = booted
         \/ /\ power' = [power EXCEPT ![h] = "up"] /\ power[h] = "down"
            /\ script = "reboot" => booted' = booted \cup {h}
  BY DEF RebootInv, Hosts, GoesDown, Boots, others
<1>2. power[h] # "up" /\ power' \in [Host -> {"up", "going", "down"}]
      /\ \A g \in Host \ {h} : power'[g] = power[g]
  BY <1>1
<1>3. \A g \in Host \ {h} : power[g] = "up"
  BY <1>2 DEF RebootInv
<1>4. script = "reboot" => Head(todo) = h /\ issued /\ h \notin booted
  BY <1>2 DEF RebootInv, AllUp
<1>5. h \in booted' /\ script = "reboot" => power'[h] = "up"
  BY <1>1, <1>4
<1>6. reboots # 0
  BY <1>2 DEF RebootInv, AllUp
<1> QED
  BY <1>1, <1>2, <1>3, <1>4, <1>5, <1>6 DEF RebootInv, AllUp

LEMMA NextReboot == ASSUME MaxReboots \in {0, 1}
                    PROVE  RebootInv /\ [Next]_vars => RebootInv'
<1> SUFFICES ASSUME RebootInv, [Next]_vars PROVE RebootInv'
  OBVIOUS
<1>1. CASE StartDeploy
  BY <1>1, RebootElsewhere DEF StartDeploy, hosts, rebootVars, others
<1>2. CASE Legs
  <2>1. ASSUME NEW n, NEW S, NixosLeg(n, S) PROVE RebootInv'
    BY <2>1, RebootElsewhere DEF NixosLeg, StartNixos, hosts, rebootVars, others
  <2>2. ASSUME NEW n, NEW t, TofuLeg(n, t) PROVE RebootInv'
    BY <2>2, RebootElsewhere DEF TofuLeg, StartTofu, hosts, rebootVars, others
  <2>3. CASE RerenderLeg \/ Verify \/ LegFailed
    BY <2>3, RebootElsewhere DEF RerenderLeg, Rerender, Verify, LegFailed, world, hosts,
          rebootVars, others
  <2> QED
    BY <1>2, <2>1, <2>2, <2>3 DEF Legs
<1>3. CASE RunScript
  <2>1. CASE NixosStep /\ UNCHANGED <<tofuVars, rebootVars>>
    <3>1. UNCHANGED power /\ script' # "reboot"
      BY <2>1 DEF NixosStep, StageOec, NoSecretZero, StageSecretZero, PushCut, StepFails, Switch,
            Activate, SwitchExit4, SwitchLooksLike4, Excused, NotExcused, HostDone, Nixos, Stops,
            Ends, world, hosts
    <3> QED
      BY <1>3, <3>1, RebootElsewhere DEF RunScript, others
  <2>2. CASE TofuStep /\ UNCHANGED <<nixosVars, rebootVars>>
    <3>1. UNCHANGED power /\ script' # "reboot"
      BY <2>2 DEF TofuStep, LoginFails, Skip, Refuse, Materialize, Import, Guard, GuardBlind,
            Apply, ApplyFails, Tofu, TofuEnds, Ends, world, hosts
    <3> QED
      BY <1>3, <3>1, RebootElsewhere DEF RunScript, others
  <2>3. CASE RebootStep
    BY <1>3, <2>3, RebootKeeps DEF RunScript, others
  <2> QED
    BY <1>3, <2>1, <2>2, <2>3 DEF RunScript, Scripts
<1>4. CASE Push \/ Unseal
  BY <1>4, RebootElsewhere DEF Push, Unseal, hosts, rebootVars, others
<1>5. ASSUME NEW h \in Host, Hosts(h) PROVE RebootInv'
  BY <1>5, HostsKeep
<1>6. ASSUME NEW h \in Host, Restarts(h) PROVE RebootInv'
  BY <1>6, RebootElsewhere DEF Restarts, rebootVars, others
<1>7. ASSUME NEW m, ByHand(m) PROVE RebootInv'
  BY <1>7, RebootElsewhere DEF ByHand, StartTofu, hosts, rebootVars
<1>8. ASSUME NEW hs, RebootFleet(hs) PROVE RebootInv'
  <2>1. reboots = 0 /\ reboots' = 1 /\ UNCHANGED power
    BY <1>8 DEF RebootFleet, RebootInv, world, hosts
  <2> QED
    BY <2>1 DEF RebootInv, AllUp
<1>9. ASSUME NEW s \in Generated, Lose(s) PROVE RebootInv'
  BY <1>9, RebootElsewhere DEF Lose, hosts, rebootVars
<1>10. CASE UNCHANGED vars
  BY <1>10, RebootElsewhere DEF vars, world, hosts, rebootVars, others
<1>11. ASSUME NEW h \in Host, NightlyUpgrade(h) PROVE RebootInv'
  BY <1>11, RebootElsewhere DEF NightlyUpgrade, Activate, rebootVars
<1> QED
  BY <1>1, <1>2, <1>3, <1>4, <1>5, <1>6, <1>7, <1>8, <1>9, <1>10, <1>11 DEF Next

(* One run of reboot-fleet.sh never has two hosts away at once, whatever its *)
(* commands did, however long a host takes, and whatever runs afterwards.   *)
THEOREM OneHostAtATime == ASSUME MaxReboots \in {0, 1} PROVE Spec => []OneDown
<1>1. RebootInv => OneDown
  <2> SUFFICES ASSUME RebootInv PROVE OneDown
    OBVIOUS
  <2>1. PICK x \in Host : \A h \in Host : h # x => power[h] = "up"
    BY DEF RebootInv
  <2>2. {h \in Host : power[h] # "up"} \in {{}, {x}}
    BY <2>1
  <2>3. Cardinality({}) = 0 /\ Cardinality({x}) = 1
    <3>1. Cardinality({x}) = 1
      BY FS_Singleton
    <3> QED
      BY <3>1, FS_EmptySet
  <2> DEFINE away == {h \in Host : power[h] # "up"}
  <2>4. away = {} \/ away = {x}
    BY <2>2
  <2>5. Cardinality(away) <= 1
    <3> HIDE DEF away
    <3>1. CASE away = {}
      BY <2>3, <3>1
    <3>2. CASE away = {x}
      BY <2>3, <3>2
    <3> QED
      BY <2>4, <3>1, <3>2
  <2> QED
    BY <2>5 DEF OneDown
<1> QED
  BY <1>1, InitReboot, NextReboot, PTL DEF Spec

-----------------------------------------------------------------------------
(* --- Type correctness. --- *)

FleetTypes ==
    /\ head \in 0 .. MaxCommit /\ want \in 0 .. head
    /\ gen \in [Host -> 0 .. head] /\ power \in [Host -> {"up", "going", "down"}]
    /\ staged \subseteq Host /\ sid \in {"none", "empty", "good"}
    /\ units \in [Host -> {"ok", "waits", "failed"}] /\ sealed \in BOOLEAN

ScriptTypes ==
    /\ script \in {"none", "nixos", "tofu", "reboot"} /\ todo \in Seq(Host)
    /\ (script \in {"nixos", "reboot"}) = (todo # <<>>)
    /\ (script = "nixos") = (step # "none") /\ (script = "tofu") = (tofu # "none")
    /\ result \in {"none", "running", "ok", "failed", "refused"}
    /\ excuses \subseteq {"eval", "bypass", "blind", "rename"}

(* No version is newer than the newest one generated. *)
Bounded == \A s \in Secret : {kv[s], state[s].value, run[s]} \subseteq 0 .. last[s]

LEMMA TypeParts == Data /\ FleetTypes /\ ScriptTypes /\ Bounded => TypeOK
BY DEF TypeOK, Data, FleetTypes, ScriptTypes, Bounded

LEMMA TypeInit == Init => FleetTypes /\ ScriptTypes /\ Bounded
<1> SUFFICES ASSUME Init PROVE FleetTypes /\ ScriptTypes /\ Bounded
  OBVIOUS
<1>1. FleetTypes
  <2>1. 0 \in 0 .. MaxCommit /\ 0 \in 0 .. 0
    BY BoundAssumption
  <2>2. sealed \in BOOLEAN
    BY DEF Init, FleetInit
  <2> QED
    BY <2>1, <2>2 DEF Init, FleetInit, FleetTypes
<1>2. ScriptTypes
  BY DEF Init, FleetInit, TofuInit, ScriptTypes
<1>3. Bounded
  BY DEF Init, FleetInit, TofuInit, Bounded
<1> QED
  BY <1>1, <1>2, <1>3

(* The host a script is with. *)
LEMMA Current ==
    ASSUME ScriptTypes, script \in {"nixos", "reboot"}
    PROVE  /\ Head(todo) \in Host /\ Tail(todo) \in Seq(Host) /\ Len(todo) \in Nat \ {0}
           /\ Len(todo) # 1 => Tail(todo) # <<>>
<1>1. todo \in Seq(Host) /\ todo # <<>>
  BY DEF ScriptTypes
<1>2. Len(todo) \in Nat \ {0} /\ Head(todo) \in Host
  BY <1>1
<1>3. Tail(todo) \in Seq(Host) /\ Len(Tail(todo)) = Len(todo) - 1
  BY <1>1, <1>2
<1>4. Len(todo) # 1 => Len(Tail(todo)) # 0
  BY <1>2, <1>3
<1> QED
  BY <1>2, <1>3, <1>4

(* A script that ends leaves the others as they are. *)
LEMMA EndTypes ==
    ASSUME ScriptTypes, NEW r \in {"ok", "failed", "refused"}, Ends(r),
           step' = "none", tofu' = "none", excuses' \subseteq {"eval", "bypass", "blind", "rename"}
    PROVE  ScriptTypes'
BY DEF ScriptTypes, Ends

LEMMA NixosTypes == ASSUME ScriptTypes, FleetTypes, NixosStep, UNCHANGED tofu
                    PROVE  ScriptTypes' /\ FleetTypes'
<1> USE DEF hosts, bao, world
<1>0. script = "nixos" /\ tofu = "none" /\ step # "none"
  BY DEF NixosStep, StageOec, NoSecretZero, StageSecretZero, PushCut, StepFails, Switch,
     SwitchExit4, SwitchLooksLike4, Excused, NotExcused, HostDone, Nixos, ScriptTypes
<1>1. Cur \in Host
  BY <1>0, Current DEF Cur
<1>2. ScriptTypes'
  <2>1. CASE PushCut \/ StepFails \/ NotExcused
    BY <1>0, <2>1, EndTypes DEF PushCut, StepFails, NotExcused, Stops, ScriptTypes
  <2>2. CASE HostDone
    <3>1. CASE Len(todo) = 1
      BY <1>0, <2>2, <3>1, EndTypes DEF HostDone, ScriptTypes
    <3>2. CASE Len(todo) # 1
      BY <1>0, <2>2, <3>2, Current DEF HostDone, ScriptTypes
    <3> QED
      BY <3>1, <3>2
  <2>3. CASE StageOec \/ NoSecretZero \/ StageSecretZero \/ Switch \/ SwitchExit4
               \/ SwitchLooksLike4 \/ Excused
    <3>1. /\ UNCHANGED <<script, todo, result>> /\ step' # "none"
          /\ excuses' \subseteq excuses \cup {"eval"}
      BY <2>3 DEF StageOec, NoSecretZero, StageSecretZero, Switch, SwitchExit4, Activate,
         SwitchLooksLike4, Excused
    <3> QED
      BY <1>0, <3>1 DEF ScriptTypes
  <2> QED
    BY <2>1, <2>2, <2>3 DEF NixosStep
<1>3. FleetTypes'
  <2>1. CASE StageOec
    BY <1>1, <2>1 DEF StageOec, FleetTypes
  <2>2. CASE PushCut \/ StageSecretZero
    BY <2>2 DEF PushCut, StageSecretZero, FleetTypes
  <2>3. CASE NoSecretZero \/ StepFails \/ SwitchLooksLike4 \/ Excused \/ NotExcused \/ HostDone
    BY <2>3 DEF NoSecretZero, StepFails, SwitchLooksLike4, Excused, NotExcused, HostDone, FleetTypes
  <2>4. CASE Switch \/ SwitchExit4
    <3>1. /\ UNCHANGED <<head, want, power, staged, sid, sealed>>
          /\ gen' = [gen EXCEPT ![Cur] = want]
          /\ \E u \in {"ok", "waits", "failed"} : units' = [units EXCEPT ![Cur] = u]
      BY <2>4 DEF Switch, SwitchExit4, Activate
    <3> QED
      BY <1>1, <3>1 DEF FleetTypes
  <2> QED
    BY <2>1, <2>2, <2>3, <2>4 DEF NixosStep
<1> QED
  BY <1>2, <1>3

(* Where hosts and the script stay as they are. *)
Rests == UNCHANGED <<script, todo, step, tofu, result, excuses>>

LEMMA RestTypes == ASSUME ScriptTypes, Rests PROVE ScriptTypes'
BY DEF ScriptTypes, Rests

LEMMA TofuTypes == ASSUME ScriptTypes, FleetTypes, TofuStep, UNCHANGED step
                   PROVE  ScriptTypes' /\ FleetTypes'
<1> USE DEF hosts, bao, world
<1>1. script = "tofu" /\ tofu # "none" /\ step = "none" /\ todo = <<>>
  BY DEF TofuStep, LoginFails, Skip, Refuse, Materialize, Import, Guard, GuardBlind, Apply,
     ApplyFails, Tofu, ScriptTypes
<1>2. UNCHANGED <<head, want, gen, power, staged, sid, units, sealed>>
  BY DEF TofuStep, LoginFails, Skip, Refuse, Materialize, Import, Guard, GuardBlind, Apply,
     ApplyFails
<1>3. \/ \E r \in {"ok", "failed", "refused"} : Ends(r) /\ tofu' = "none"
      \/ UNCHANGED <<script, todo, result>> /\ tofu' # "none"
  BY DEF TofuStep, LoginFails, Skip, Refuse, Materialize, Import, Guard, GuardBlind, Apply,
     ApplyFails, TofuEnds
<1>4. excuses' \subseteq excuses \cup {"blind"}
  BY DEF TofuStep, LoginFails, Skip, Refuse, Materialize, Import, Guard, GuardBlind, Apply,
     ApplyFails
<1>5. FleetTypes'
  BY <1>2 DEF FleetTypes
<1>6. excuses' \subseteq {"eval", "bypass", "blind", "rename"}
  BY <1>4 DEF ScriptTypes
<1>7. CASE \E r \in {"ok", "failed", "refused"} : Ends(r) /\ tofu' = "none"
  BY <1>1, <1>5, <1>6, <1>7, EndTypes
<1>8. CASE UNCHANGED <<script, todo, result>> /\ tofu' # "none"
  BY <1>1, <1>5, <1>6, <1>8 DEF ScriptTypes
<1> QED
  BY <1>3, <1>7, <1>8

LEMMA RebootTypes == ASSUME ScriptTypes, FleetTypes, RebootStep, UNCHANGED <<step, tofu>>
                     PROVE  ScriptTypes' /\ FleetTypes'
<1> USE DEF hosts, bao, world
<1>1. script = "reboot" /\ tofu = "none" /\ step = "none"
  BY DEF RebootStep, Issue, Unreachable, Back, TimedOut, ScriptTypes
<1>2. UNCHANGED excuses
  BY DEF RebootStep, Issue, Unreachable, Back, TimedOut
<1>3. ScriptTypes'
  <2>1. CASE Issue
    BY <1>1, <2>1, RestTypes DEF Issue, Rests
  <2>2. CASE Unreachable \/ TimedOut
    BY <1>1, <1>2, <2>2, EndTypes DEF Unreachable, TimedOut, RebootEnds, ScriptTypes
  <2>3. CASE Back /\ Len(todo) = 1
    BY <1>1, <1>2, <2>3, EndTypes DEF Back, RebootEnds, ScriptTypes
  <2>4. CASE Back /\ Len(todo) # 1
    BY <1>1, <1>2, <2>4, Current DEF Back, ScriptTypes
  <2> QED
    BY <2>1, <2>2, <2>3, <2>4 DEF RebootStep
<1>4. /\ power' \in [Host -> {"up", "going", "down"}]
      /\ UNCHANGED <<head, want, gen, staged, sid, units, sealed>>
  BY <1>1, Current DEF RebootStep, Issue, Unreachable, Back, TimedOut, FleetTypes
<1>5. FleetTypes'
  BY <1>4 DEF FleetTypes
<1> QED
  BY <1>3, <1>5

LEMMA HostTypes == ASSUME ScriptTypes, FleetTypes, NEW h \in Host,
                          GoesDown(h) \/ Boots(h), UNCHANGED <<step, tofu>>
                   PROVE  ScriptTypes' /\ FleetTypes'
<1>1. ScriptTypes'
  BY RestTypes DEF GoesDown, Boots, Rests
<1>2. /\ UNCHANGED <<head, want, gen, staged, sid>>
      /\ power' \in [Host -> {"up", "going", "down"}]
  BY DEF GoesDown, Boots, FleetTypes
<1>3. \/ units' = units
      \/ \E u \in {"ok", "waits", "failed"} : units' = [units EXCEPT ![h] = u]
  BY DEF GoesDown, Boots
<1>4. units' \in [Host -> {"ok", "waits", "failed"}]
  BY <1>3 DEF FleetTypes
<1>5. sealed' \in BOOLEAN
  <2>1. CASE GoesDown(h)
    BY <2>1 DEF GoesDown, bao, FleetTypes
  <2>2. CASE Boots(h)
    BY <2>2 DEF Boots
  <2> QED
    BY <2>1, <2>2
<1> QED
  BY <1>1, <1>2, <1>4, <1>5 DEF FleetTypes

LEMMA StartTypes ==
    ASSUME ScriptTypes, script = "none"
    PROVE  /\ \A S : StartNixos(S) /\ S # {} /\ UNCHANGED <<tofu, excuses>> => ScriptTypes'
           /\ \A t, m : StartTofu(t, m) /\ UNCHANGED step => ScriptTypes'
           /\ \A hs \in {ORDER, <<Member>>} :
                 StartReboot(hs) /\ UNCHANGED <<step, tofu, excuses>> => ScriptTypes'
<1>0. step = "none" /\ tofu = "none"
  BY DEF ScriptTypes
<1>1. ASSUME NEW S, StartNixos(S), S # {}, UNCHANGED <<tofu, excuses>> PROVE ScriptTypes'
  <2>1. PICK first \in DOMAIN ORDER, end \in DOMAIN ORDER :
            S = {ORDER[i] : i \in first .. end} /\ todo' = SubSeq(ORDER, first, end)
    BY <1>1 DEF StartNixos
  <2>2. first \in 1 .. 3 /\ end \in 1 .. 3 /\ first <= end
    BY <1>1, <2>1 DEF ORDER
  <2>3. ORDER \in Seq(Host) /\ Len(ORDER) = 3
    BY DEF ORDER, Host
  <2>4. todo' \in Seq(Host) /\ Len(todo') # 0
    <3>1. first \in Int /\ end \in Int /\ \A i \in first .. end : ORDER[i] \in Host
      BY <2>2 DEF ORDER, Host
    <3>2. SubSeq(ORDER, first, end) \in Seq(Host) /\ Len(SubSeq(ORDER, first, end)) = end - first + 1
      BY <2>2, <3>1, SubSeqProperties
    <3> QED
      BY <2>1, <2>2, <3>2
  <2>5. todo' # <<>>
    BY <2>4
  <2>6. script' = "nixos" /\ step' = "oec" /\ result' = "running"
    BY <1>1 DEF StartNixos
  <2> QED
    BY <1>0, <1>1, <2>4, <2>5, <2>6 DEF ScriptTypes
<1>2. ASSUME NEW t, NEW m, StartTofu(t, m), UNCHANGED step PROVE ScriptTypes'
  BY <1>0, <1>2 DEF StartTofu, ScriptTypes
<1>3. ASSUME NEW hs \in {ORDER, <<Member>>}, StartReboot(hs), UNCHANGED <<step, tofu, excuses>>
      PROVE  ScriptTypes'
  <2>1. ORDER \in Seq(Host) /\ <<Member>> \in Seq(Host)
    BY DEF ORDER, Host
  <2>2. ORDER # <<>> /\ <<Member>> # <<>>
    BY DEF ORDER
  <2>3. hs \in Seq(Host) /\ hs # <<>>
    BY <2>1, <2>2
  <2> QED
    BY <1>0, <1>3, <2>3 DEF StartReboot, ScriptTypes
<1> QED
  BY <1>1, <1>2, <1>3

(* Versions only leave the generator, and are only copied. *)
LEMMA BoundedRender ==
    ASSUME Bounded, UNCHANGED <<kv, state, last>>,
           UNCHANGED run \/ run' = kv \/ run' = [s \in Secret |-> 0], Data
    PROVE  Bounded'
<1> SUFFICES ASSUME NEW s \in Secret PROVE {kv'[s], state'[s].value, run'[s]} \subseteq 0 .. last'[s]
  BY DEF Bounded
<1>1. last[s] \in Nat
  BY DEF Data
<1>2. run'[s] \in {run[s], kv[s], 0}
  OBVIOUS
<1> QED
  BY <1>1, <1>2 DEF Bounded

LEMMA BoundedTofu == ASSUME Bounded, Data, TofuStep PROVE Bounded'
<1>1. CASE LoginFails \/ Skip \/ Refuse \/ Materialize \/ Guard \/ GuardBlind
  BY <1>1, BoundedRender DEF LoginFails, Skip, Refuse, Materialize, Guard, GuardBlind, world,
     hosts, bao
<1>2. CASE Import
  <2>1. UNCHANGED <<kv, run, last>>
    BY <1>2 DEF Import, hosts, bao
  <2>2. ASSUME NEW s \in Secret PROVE state'[s].value \in {state[s].value, kv[s]}
    BY <1>2, <2>2 DEF Import, Data
  <2> QED
    BY <2>1, <2>2 DEF Bounded
<1>3. CASE Apply \/ ApplyFails
  <2>1. PICK done \in SUBSET Of(target) : Written(done)
    BY <1>3 DEF Apply, ApplyFails
  <2>2. run' = run
    BY <1>3 DEF Apply, ApplyFails, hosts
  <2>3. ASSUME NEW s \in Secret
        PROVE  {kv'[s], state'[s].value, run'[s]} \subseteq 0 .. last'[s]
    <3>1. /\ last[s] \in Nat /\ state[s].value \in Nat /\ kv[s] \in Nat /\ run[s] \in Nat
          /\ {kv[s], state[s].value, run[s]} \subseteq 0 .. last[s]
      BY DEF Data, Bounded
    <3>2. Writes(s) \in Nat
      BY <3>1 DEF Writes
    <3>3. last'[s] = IF s \in Of(target) /\ Writes(s) > last[s] THEN Writes(s) ELSE last[s]
      BY <2>1 DEF Written
    <3>4. kv'[s] = IF s \in done THEN Writes(s) ELSE kv[s]
      BY <2>1 DEF Written
    <3>5. state'[s].value = IF s \in Of(target) THEN Writes(s) ELSE state[s].value
      BY <2>1 DEF Written
    <3> QED
      BY <2>2, <3>1, <3>2, <3>3, <3>4, <3>5
  <2> QED
    BY <2>3 DEF Bounded
<1> QED
  BY <1>1, <1>2, <1>3 DEF TofuStep

LEMMA BoundedForget == ASSUME Bounded, Data, NEW r \in Generated, Forget(r), UNCHANGED run
                       PROVE  Bounded'
<1>1. UNCHANGED <<kv, last>> /\ r \in Secret
  BY DEF Forget, Secret
<1>2. ASSUME NEW s \in Secret PROVE state'[s].value \in {state[s].value, 0}
  BY <1>1 DEF Forget, Data
<1>3. ASSUME NEW s \in Secret PROVE last[s] \in Nat
  BY DEF Data
<1> QED
  BY <1>1, <1>2, <1>3 DEF Bounded

Typed == LiveInv /\ FleetTypes /\ ScriptTypes /\ Bounded

(* Steps that only start a script or count. *)
LEMMA StartsTyped ==
    ASSUME Typed, ScriptTypes', UNCHANGED <<hosts, bao, state, last>>,
           head' \in head .. MaxCommit, want' \in {want, head}
    PROVE  FleetTypes' /\ Bounded'
<1>1. FleetTypes'
  <2>1. head \in Nat /\ head' \in Nat /\ head <= head' /\ head' \in 0 .. MaxCommit
    BY BoundAssumption DEF Typed, FleetTypes
  <2>2. want' \in 0 .. head'
    BY <2>1 DEF Typed, FleetTypes
  <2>3. gen' \in [Host -> 0 .. head']
    BY <2>1 DEF Typed, FleetTypes, hosts
  <2> QED
    BY <2>1, <2>2, <2>3 DEF Typed, FleetTypes, hosts, bao
<1>2. Bounded'
  BY BoundedRender DEF Typed, LiveInv, hosts, bao
<1> QED
  BY <1>1, <1>2

LEMMA ScriptsTyped == ASSUME Typed, RunScript PROVE FleetTypes' /\ ScriptTypes' /\ Bounded'
<1>1. CASE NixosStep /\ UNCHANGED <<tofuVars, rebootVars>>
  <2>1. ScriptTypes' /\ FleetTypes'
    BY <1>1, NixosTypes DEF Typed, tofuVars
  <2>2. UNCHANGED kv /\ (UNCHANGED run \/ run' = kv)
    BY <1>1 DEF NixosStep, StageOec, NoSecretZero, StageSecretZero, PushCut, StepFails, Switch,
       Activate, SwitchExit4, SwitchLooksLike4, Excused, NotExcused, HostDone, RestartAgent,
       world, hosts, bao
  <2>3. Bounded'
    BY <1>1, <2>2, BoundedRender DEF Typed, LiveInv, tofuVars
  <2> QED
    BY <2>1, <2>3
<1>2. CASE TofuStep /\ UNCHANGED <<nixosVars, rebootVars>>
  <2>1. ScriptTypes' /\ FleetTypes'
    BY <1>2, TofuTypes DEF Typed, nixosVars
  <2>2. Bounded'
    BY <1>2, BoundedTofu DEF Typed, LiveInv
  <2> QED
    BY <2>1, <2>2
<1>3. CASE RebootStep /\ UNCHANGED <<nixosVars, tofuVars>>
  <2>1. ScriptTypes' /\ FleetTypes'
    BY <1>3, RebootTypes DEF Typed, nixosVars, tofuVars
  <2>2. UNCHANGED <<kv, run>>
    BY <1>3 DEF RebootStep, Issue, Unreachable, Back, TimedOut, world, hosts, bao
  <2>3. Bounded'
    BY <1>3, <2>2, BoundedRender DEF Typed, LiveInv, tofuVars
  <2> QED
    BY <2>1, <2>3
<1> QED
  BY <1>1, <1>2, <1>3 DEF RunScript, Scripts

LEMMA LegsTyped == ASSUME Typed, Legs PROVE FleetTypes' /\ ScriptTypes' /\ Bounded'
<1>0. head \in head .. MaxCommit
  BY BoundAssumption DEF Typed, FleetTypes
<1>1. ASSUME NEW n, NEW S, S # {}, NixosLeg(n, S) PROVE FleetTypes' /\ ScriptTypes' /\ Bounded'
  <2>1. ScriptTypes'
    BY <1>1, StartTypes DEF Typed, NixosLeg, Due, May, tofuVars
  <2> QED
    BY <1>0, <1>1, <2>1, StartsTyped DEF NixosLeg, tofuVars
<1>2. ASSUME NEW n, NEW t, TofuLeg(n, t) PROVE FleetTypes' /\ ScriptTypes' /\ Bounded'
  <2>1. ScriptTypes'
    BY <1>2, StartTypes DEF Typed, TofuLeg, Due, May, nixosVars
  <2> QED
    BY <1>0, <1>2, <2>1, StartsTyped DEF TofuLeg, StartTofu
<1>3. CASE RerenderLeg
  <2>1. /\ UNCHANGED <<script, todo, step, tofu, result, excuses, kv, state, last>>
        /\ UNCHANGED <<head, want, gen, power, staged, sid, units, sealed>>
        /\ UNCHANGED run \/ run' = kv
    BY <1>3 DEF RerenderLeg, Rerender, RestartAgent, nixosVars, tofuVars, bao
  <2>2. Bounded'
    BY <2>1, BoundedRender DEF Typed, LiveInv
  <2>3. FleetTypes' /\ ScriptTypes'
    BY <2>1 DEF Typed, FleetTypes, ScriptTypes
  <2> QED
    BY <2>2, <2>3
<1>4. CASE Verify \/ LegFailed
  <2>1. UNCHANGED <<world, script, todo, nixosVars, tofuVars>> /\ result' = "none"
    BY <1>4 DEF Verify, LegFailed, Finish
  <2>2. ScriptTypes'
    BY <2>1 DEF Typed, ScriptTypes, world, nixosVars, tofuVars
  <2> QED
    BY <1>0, <2>1, <2>2, StartsTyped DEF world, tofuVars
<1>5. {Dc, Vault} # {} /\ {Member} # {}
  OBVIOUS
<1> QED
  BY <1>1, <1>2, <1>3, <1>4, <1>5 DEF Legs

LEMMA TypedNext == Typed /\ [Next]_vars => Typed'
<1> SUFFICES ASSUME Typed, [Next]_vars PROVE FleetTypes' /\ ScriptTypes' /\ Bounded'
  BY NextLive DEF Typed
<1>0. head \in head .. MaxCommit /\ head \in Nat /\ MaxCommit \in Nat
  BY BoundAssumption DEF Typed, FleetTypes
<1>1. CASE StartDeploy
  <2>1. ScriptTypes'
    BY <1>1 DEF StartDeploy, Typed, ScriptTypes, nixosVars, tofuVars
  <2> QED
    BY <1>0, <1>1, <2>1, StartsTyped DEF StartDeploy, tofuVars
<1>2. CASE Legs
  BY <1>2, LegsTyped
<1>3. CASE RunScript
  BY <1>3, ScriptsTyped
<1>4. CASE Push
  <2>1. ScriptTypes'
    BY <1>4, RestTypes DEF Push, Typed, Rests, nixosVars, tofuVars
  <2>2. head' \in head .. MaxCommit
    BY <1>0, <1>4 DEF Push
  <2> QED
    BY <1>4, <2>1, <2>2, StartsTyped DEF Push, tofuVars
<1>5. CASE Unseal
  <2>1. ScriptTypes'
    BY <1>5, RestTypes DEF Unseal, Typed, Rests, nixosVars, tofuVars
  <2>2. sealed' \in BOOLEAN
    BY <1>5 DEF Unseal
  <2>3. UNCHANGED <<head, want, hosts, kv, state, last>>
    BY <1>5 DEF Unseal, tofuVars
  <2>4. FleetTypes'
    BY <2>2, <2>3 DEF Typed, FleetTypes, hosts
  <2>5. Bounded'
    BY <2>3, BoundedRender DEF Typed, LiveInv, hosts
  <2> QED
    BY <2>1, <2>4, <2>5
<1>6. ASSUME NEW h \in Host, Hosts(h) PROVE FleetTypes' /\ ScriptTypes' /\ Bounded'
  <2>1. ScriptTypes' /\ FleetTypes'
    BY <1>6, HostTypes DEF Hosts, Typed, nixosVars, tofuVars
  <2>2. /\ UNCHANGED <<kv, state, last>>
        /\ UNCHANGED run \/ run' = kv \/ run' = [s \in Secret |-> 0]
    BY <1>6 DEF Hosts, GoesDown, Boots, bao, tofuVars
  <2>3. Bounded'
    BY <2>2, BoundedRender DEF Typed, LiveInv
  <2> QED
    BY <2>1, <2>3
<1>7. ASSUME NEW h \in Host, Restarts(h) PROVE FleetTypes' /\ ScriptTypes' /\ Bounded'
  <2>1. ScriptTypes'
    BY <1>7, RestTypes DEF Restarts, Typed, Rests, nixosVars, tofuVars
  <2>2. /\ UNCHANGED <<head, want, gen, power, staged, sid, run, kv, sealed, state, last>>
        /\ \E how \in {"ok", "failed"} : units' = [units EXCEPT ![h] = how]
    BY <1>7 DEF Restarts, bao, tofuVars
  <2>3. FleetTypes'
    BY <2>2 DEF Typed, FleetTypes
  <2>4. Bounded'
    BY <2>2, BoundedRender DEF Typed, LiveInv
  <2> QED
    BY <2>1, <2>3, <2>4
<1>8. ASSUME NEW m, ByHand(m) PROVE FleetTypes' /\ ScriptTypes' /\ Bounded'
  <2>1. ScriptTypes'
    BY <1>8, StartTypes DEF Typed, ByHand, Free, nixosVars
  <2> QED
    BY <1>0, <1>8, <2>1, StartsTyped DEF ByHand, StartTofu
<1>9. ASSUME NEW hs \in {ORDER, <<Member>>}, RebootFleet(hs)
      PROVE  FleetTypes' /\ ScriptTypes' /\ Bounded'
  <2>1. ScriptTypes'
    BY <1>9, StartTypes DEF Typed, RebootFleet, Free, nixosVars, tofuVars, world
  <2> QED
    BY <1>0, <1>9, <2>1, StartsTyped DEF RebootFleet, world, tofuVars
<1>10. ASSUME NEW s \in Generated, Lose(s) PROVE FleetTypes' /\ ScriptTypes' /\ Bounded'
  <2>1. ScriptTypes'
    BY <1>10 DEF Lose, Forget, Typed, ScriptTypes, nixosVars
  <2>2. FleetTypes'
    BY <1>10 DEF Lose, Forget, Typed, FleetTypes, hosts
  <2>3. Bounded'
    BY <1>10, BoundedForget DEF Lose, Typed, LiveInv, hosts
  <2> QED
    BY <2>1, <2>2, <2>3
<1>11. CASE UNCHANGED vars
  <2>1. ScriptTypes'
    BY <1>11, RestTypes DEF vars, world, Typed, Rests, nixosVars, tofuVars
  <2> QED
    BY <1>0, <1>11, <2>1, StartsTyped DEF vars, world, tofuVars
<1>12. ASSUME NEW h \in Host, NightlyUpgrade(h) PROVE FleetTypes' /\ ScriptTypes' /\ Bounded'
  <2>1. /\ UNCHANGED <<head, want, power, staged, sid, sealed, kv, state, last>>
        /\ UNCHANGED <<script, todo, step, tofu, result, excuses>>
        /\ gen' = [gen EXCEPT ![h] = head] /\ (UNCHANGED run \/ run' = kv)
        /\ \E u \in {"ok", "waits", "failed"} : units' = [units EXCEPT ![h] = u]
    BY <1>12 DEF NightlyUpgrade, Activate, RestartAgent, bao, tofuVars
  <2>2. ScriptTypes'
    BY <2>1, RestTypes DEF Typed, Rests
  <2>3. FleetTypes'
    BY <1>0, <2>1 DEF Typed, FleetTypes
  <2>4. Bounded'
    BY <2>1, BoundedRender DEF Typed, LiveInv
  <2> QED
    BY <2>2, <2>3, <2>4
<1> QED
  BY <1>1, <1>2, <1>3, <1>4, <1>5, <1>6, <1>7, <1>8, <1>9, <1>10, <1>11, <1>12 DEF Next

LEMMA TypedInvariant == Spec => []Typed
<1>1. Init => Typed
  BY InitLive, TypeInit DEF Typed
<1> QED
  BY <1>1, TypedNext, PTL DEF Spec

(* Every variable keeps its type, a script's place belongs to that script,  *)
(* and no secret is newer than the newest one that was generated.           *)
THEOREM ControlTyped == Spec => []TypeOK
<1>1. Typed => TypeOK
  BY TypeParts DEF Typed, LiveInv
<1> QED
  BY <1>1, TypedInvariant, PTL

-----------------------------------------------------------------------------
(* --- A green deploy means what it says. --- *)
(* Each leg leaves something behind that the later ones and the world keep: *)
(* hosts at the wanted commit, secrets in OpenBao, a whole secret-id, and,  *)
(* as long as nothing failed and nothing was done from outside, a member    *)
(* that is up and an OpenBao that answers.                                  *)

(* What runs, and in which phase (phase is already that of the next leg). *)
LegRuns ==
    script # "none" =>
       \/ phase = 0 /\ script # "nixos" /\ ~clean
       \/ phase = 2 /\ script = "nixos" /\ todo \in {<<Dc, Vault>>, <<Vault>>}
       \/ phase = 3 /\ script = "tofu" /\ target = "secrets" /\ mode = "push"
       \/ phase = 4 /\ script = "nixos" /\ todo = <<Member>>
       \/ phase = 5 /\ script = "tofu" /\ target = "authentik" /\ mode = "push"

SidGood == clean \/ "eval" \notin excuses => sid = "good"

(* What the running leg has already done. *)
Underway ==
    /\ script = "nixos" =>
          /\ step = "agent" => AtCommit(Cur)
          /\ Cur = Member /\ step \in {"switch", "judge", "agent"} => SidGood
          /\ Cur = Member /\ step \in {"judge", "agent"} /\ clean => power[Member] # "down"
          /\ phase = 2 /\ todo = <<Vault>> => AtCommit(Dc)
    /\ phase = 5 /\ script = "tofu" /\ tofu # "login" /\ clean => OpenBao

Passed(p) == phase > p \/ (phase = p /\ script = "none" /\ result \in {"none", "ok"})

(* What the legs that have passed left behind. *)
Progress ==
    /\ Passed(2) => AtCommit(Dc) /\ AtCommit(Vault)
    /\ Passed(3) => \A s \in Generated : kv[s] # 0
    /\ Passed(4) => AtCommit(Member) /\ SidGood /\ (clean => power[Member] # "down")
    /\ Passed(5) /\ clean => kv[Outpost] # 0 /\ OpenBao
    /\ Passed(6) /\ clean => run = kv

GreenInv == phase \in 0 .. 6 /\ faults \in Nat /\ LegRuns /\ Underway /\ Progress /\ Green

LEMMA GreenInit == Init => GreenInv
BY DEF Init, FleetInit, GreenInv, LegRuns, Underway, Progress, Passed, Green

LEMMA Places == /\ Dc # Vault /\ Dc # Member /\ Vault # Member
                /\ <<Dc, Vault>> # <<>> /\ <<Vault>> # <<>> /\ <<Member>> # <<>>
                /\ Head(<<Dc, Vault>>) = Dc /\ Tail(<<Dc, Vault>>) = <<Vault>>
                /\ Head(<<Vault>>) = Vault /\ Head(<<Member>>) = Member
                /\ Len(<<Dc, Vault>>) = 2 /\ Len(<<Vault>>) = 1 /\ Len(<<Member>>) = 1
                /\ <<Dc, Vault>> # <<Vault>> /\ <<Vault>> # <<Member>> /\ <<Dc, Vault>> # <<Member>>
BY DEF Dc, Vault, Member

(* The host the running leg is with, and what it runs in. *)
LEMMA LegAt ==
    ASSUME GreenInv, script = "nixos"
    PROVE  \/ phase = 2 /\ todo = <<Dc, Vault>> /\ Cur = Dc
           \/ phase = 2 /\ todo = <<Vault>> /\ Cur = Vault
           \/ phase = 4 /\ todo = <<Member>> /\ Cur = Member
BY Places DEF GreenInv, LegRuns, Cur

(* Where nothing switches a host, none falls behind. *)
LEMMA CommitKept == ASSUME UNCHANGED <<gen, want>>, clean' => clean
                    PROVE  \A h \in Host : AtCommit(h) => AtCommit(h)'
BY DEF AtCommit

(* Where neither the deploy nor a script goes on: pushes, nights, hosts,    *)
(* units, a state that forgets.  Only a step that is not clean touches      *)
(* what counts.                                                             *)
LEMMA GreenAside ==
    ASSUME GreenInv, UNCHANGED <<want, staged, sid, phase, outcome, script, todo, step, result>>,
           \A h \in Host : AtCommit(h) => AtCommit(h)',
           UNCHANGED <<target, mode, tofu>>, faults' \in Nat, excuses \subseteq excuses',
           \A s \in Generated : kv[s] # 0 => kv'[s] # 0,
           clean' => clean /\ UNCHANGED <<gen, power, sealed, run, kv>>
    PROVE  GreenInv'
<1>1. SidGood => SidGood'
  BY DEF SidGood
<1>2. clean' => OpenBao' = OpenBao
  BY DEF OpenBao, Resolves
<1>3. \A p : Passed(p)' <=> Passed(p)
  BY DEF Passed
<1>4. LegRuns' /\ phase' \in 0 .. 6
  BY DEF GreenInv, LegRuns
<1>5. Underway'
  <2>1. script = "nixos" => Cur \in Host
    BY LegAt DEF Host
  <2>2. Cur' = Cur
    BY DEF Cur
  <2>3. step = "agent" /\ script = "nixos" => AtCommit(Cur) /\ AtCommit(Cur)'
    BY <2>1, <2>2 DEF GreenInv, Underway, AtCommit
  <2> QED
    BY <1>1, <1>2, <2>1, <2>2, <2>3 DEF GreenInv, Underway, Host
<1>6. Progress'
  BY <1>1, <1>2, <1>3 DEF GreenInv, Progress, Host
<1>7. Green'
  BY DEF GreenInv, Green
<1> QED
  BY <1>4, <1>5, <1>6, <1>7 DEF GreenInv

(* Outside of a deploy: what a green one left stays, but for the outposts'  *)
(* secrets once something was done from outside.                            *)
LEMMA GreenFree ==
    ASSUME GreenInv, phase = 0, phase' = 0, faults' \in Nat, excuses \subseteq excuses', ~clean',
           UNCHANGED <<want, gen, staged, sid, outcome>>, script' # "nixos"
    PROVE  GreenInv'
<1>1. LegRuns' /\ Underway'
  BY DEF LegRuns, Underway
<1>2. \A p \in 2 .. 6 : ~Passed(p)'
  BY DEF Passed
<1>3. Progress'
  BY <1>2 DEF Progress
<1>4. Green'
  BY CommitKept DEF GreenInv, Green
<1> QED
  BY <1>1, <1>3, <1>4 DEF GreenInv

(* A failing call is not clean. *)
LEMMA NotedMeans == ASSUME Noted, faults \in Nat
                    PROVE  (clean' => clean /\ faults' = faults) /\ (clean' => ~Fault)
<1>1. clean' => clean /\ faults' = faults
  BY DEF Noted
<1>2. faults' = faults => ~Fault
  BY DEF Fault
<1> QED
  BY <1>1, <1>2

(* A leg whose script ends badly has not passed. *)
LEMMA NixosStops ==
    ASSUME GreenInv, script = "nixos", Ends("failed"), UNCHANGED <<phase, outcome>>,
           UNCHANGED <<want, gen, kv>>, clean' => clean, faults' \in Nat
    PROVE  GreenInv'
<1>1. phase \in {2, 4} /\ script' = "none" /\ result' = "failed"
  BY LegAt DEF Ends
<1>2. LegRuns' /\ Underway'
  BY <1>1 DEF LegRuns, Underway
<1>3. /\ ~Passed(4)' /\ ~Passed(5)' /\ ~Passed(6)'
      /\ (Passed(2)' => Passed(2)) /\ (Passed(3)' => Passed(3))
  BY <1>1 DEF Passed
<1>4. Progress'
  BY <1>3, CommitKept DEF GreenInv, Progress, Host
<1>5. Green'
  BY <1>1 DEF Green
<1> QED
  BY <1>1, <1>2, <1>4, <1>5 DEF GreenInv

(* Between two steps of a leg. *)
LEMMA NixosGoesOn ==
    ASSUME GreenInv, script = "nixos", script' = "nixos", UNCHANGED <<phase, outcome, todo, want, kv>>,
           Underway', faults' \in Nat,
           UNCHANGED gen \/ gen' = [gen EXCEPT ![Cur] = want],
           gen \in [Host -> Nat], want \in Nat, clean' => clean
    PROVE  GreenInv'
<1>1. phase \in {2, 4} /\ phase' = phase
  BY LegAt
<1>2. LegRuns'
  BY <1>1 DEF GreenInv, LegRuns
<1>3. \A h \in Host : AtCommit(h) => AtCommit(h)'
  BY DEF AtCommit
<1>4. /\ ~Passed(4)' /\ ~Passed(5)' /\ ~Passed(6)'
      /\ (Passed(2)' => Passed(2)) /\ (Passed(3)' => Passed(3))
  BY <1>1 DEF Passed
<1>5. Progress'
  BY <1>3, <1>4 DEF GreenInv, Progress, Host
<1>6. Green'
  BY <1>1 DEF Green
<1> QED
  BY <1>1, <1>2, <1>5, <1>6 DEF GreenInv

(* The last step of a host: the next one, or the leg has passed. *)
LEMMA NixosDone == ASSUME GreenInv, HostDone, Noted, UNCHANGED <<phase, outcome>>, faults' \in Nat
                   PROVE  GreenInv'
<1>0. script = "nixos" /\ step = "agent" /\ AtCommit(Cur)
  BY DEF HostDone, Nixos, GreenInv, Underway
<1>1. UNCHANGED <<want, gen, power, sid, kv, sealed, excuses>>
  BY DEF HostDone, bao
<1>2. (clean' => clean) /\ (SidGood => SidGood')
  BY <1>1 DEF SidGood, Noted
<1>6. \A h \in Host : AtCommit(h) => AtCommit(h)'
  BY <1>1, <1>2, CommitKept
<1>3. CASE todo = <<Dc, Vault>>
  <2>1. phase = 2 /\ Cur = Dc /\ script' = "nixos" /\ todo' = <<Vault>> /\ step' = "oec"
    BY <1>0, <1>3, LegAt, Places DEF HostDone, Cur
  <2>2. Head(todo') = Vault
    BY <2>1, Places
  <2>3. Underway'
    <3>1. AtCommit(Dc)'
      BY <1>0, <1>6, <2>1 DEF Host, AtCommit
    <3> QED
      BY <1>0, <1>1, <2>1, <2>2, <3>1, Places DEF Underway, Cur
  <2>4. LegRuns'
    BY <2>1 DEF LegRuns
  <2>5. Progress' /\ Green'
    BY <2>1 DEF Progress, Passed, Green
  <2> QED
    BY <2>1, <2>3, <2>4, <2>5 DEF GreenInv
<1>4. CASE todo = <<Vault>>
  <2>1. phase = 2 /\ Cur = Vault /\ script' = "none" /\ AtCommit(Dc) /\ AtCommit(Vault)
    BY <1>0, <1>4, LegAt, Places DEF HostDone, Cur, Ends, GreenInv, Underway, AtCommit
  <2>2. LegRuns' /\ Underway'
    BY <2>1 DEF LegRuns, Underway
  <2>3. Progress' /\ Green'
    BY <1>1, <1>6, <2>1 DEF Progress, Passed, Green, Host
  <2> QED
    BY <2>1, <2>2, <2>3 DEF GreenInv
<1>5. CASE todo = <<Member>>
  <2>1. phase = 4 /\ Cur = Member /\ script' = "none"
    BY <1>0, <1>5, LegAt, Places DEF HostDone, Cur, Ends
  <2>2. AtCommit(Member) /\ SidGood /\ (clean => power[Member] # "down")
    BY <1>0, <2>1 DEF GreenInv, Underway, AtCommit
  <2>3. LegRuns' /\ Underway'
    BY <2>1 DEF LegRuns, Underway
  <2>4. Passed(2) /\ Passed(3) /\ ~Passed(5)' /\ ~Passed(6)'
    BY <2>1 DEF Passed
  <2>5. Progress'
    BY <1>1, <1>2, <1>6, <2>2, <2>4 DEF GreenInv, Progress, Host
  <2>6. Green'
    BY <2>1 DEF Green
  <2> QED
    BY <2>1, <2>3, <2>5, <2>6 DEF GreenInv
<1> QED
  BY <1>0, <1>3, <1>4, <1>5, LegAt

LEMMA GreenNixos ==
    ASSUME GreenInv, Typed, NixosStep, Noted, UNCHANGED <<phase, outcome>>
    PROVE  GreenInv'
<1> USE DEF hosts, bao, world
<1>0. script = "nixos" /\ phase \in {2, 4} /\ faults \in Nat
  BY LegAt DEF NixosStep, StageOec, NoSecretZero, StageSecretZero, PushCut, StepFails, Switch,
     SwitchExit4, SwitchLooksLike4, Excused, NotExcused, HostDone, Nixos, GreenInv
<1>1. faults' \in Nat
  BY <1>0 DEF NixosStep, StageOec, NoSecretZero, StageSecretZero, PushCut, StepFails, Switch,
     SwitchExit4, SwitchLooksLike4, Excused, NotExcused, HostDone, Activate, Fault
<1>2. gen \in [Host -> Nat] /\ want \in Nat /\ Cur \in Host
  <2>1. Cur \in Host
    BY <1>0, LegAt DEF Host
  <2>2. gen \in [Host -> 0 .. head] /\ head \in Nat /\ want \in 0 .. head
    BY BoundAssumption DEF Typed, FleetTypes
  <2> QED
    BY <2>1, <2>2
<1>3. (clean' => clean) /\ (clean' => ~Fault)
  BY <1>0, NotedMeans
<1>4. CASE PushCut \/ StepFails \/ NotExcused
  <2>1. Ends("failed") /\ UNCHANGED <<want, gen, kv>>
    BY <1>4 DEF PushCut, StepFails, NotExcused, Stops
  <2> QED
    BY <1>0, <1>1, <1>3, <2>1, NixosStops
<1>5. CASE HostDone
  BY <1>1, <1>5, NixosDone
<1>6. ASSUME UNCHANGED <<script, todo, want, kv>>, Underway',
             UNCHANGED gen \/ gen' = [gen EXCEPT ![Cur] = want]
      PROVE  GreenInv'
  BY <1>0, <1>1, <1>2, <1>3, <1>6, NixosGoesOn
<1>7. ASSUME UNCHANGED todo PROVE Cur' = Cur
  BY <1>7 DEF Cur
<1>8. \A h \in Host : UNCHANGED <<want, gen>> /\ AtCommit(h) => AtCommit(h)'
  BY <1>3, CommitKept
<1>9. CASE StageOec
  <2>1. step' = "zero" /\ UNCHANGED <<script, todo, want, kv, gen>>
    BY <1>9 DEF StageOec
  <2>2. Underway'
    BY <1>0, <1>8, <2>1 DEF Underway, GreenInv, Host
  <2> QED
    BY <1>6, <2>1, <2>2
<1>10. CASE NoSecretZero
  <2>1. step' = "switch" /\ UNCHANGED <<script, todo, want, kv, gen, sid>>
    BY <1>10 DEF NoSecretZero
  <2>2. Cur = Member => "eval" \in excuses' /\ ~clean'
    BY <1>3, <1>10 DEF NoSecretZero
  <2>3. Cur = Member => SidGood'
    BY <2>2 DEF SidGood
  <2>4. Underway'
    BY <1>0, <1>7, <1>8, <2>1, <2>3 DEF Underway, GreenInv, Host
  <2> QED
    BY <1>6, <2>1, <2>4
<1>11. CASE StageSecretZero
  <2>1. step' = "switch" /\ sid' = "good" /\ UNCHANGED <<script, todo, want, kv, gen>>
    BY <1>11 DEF StageSecretZero
  <2>2. SidGood'
    BY <2>1 DEF SidGood
  <2>3. Underway'
    BY <1>0, <1>8, <2>1, <2>2 DEF Underway, GreenInv, Host
  <2> QED
    BY <1>6, <2>1, <2>3
<1>12. CASE Switch \/ SwitchExit4
  <2>1. /\ step = "switch" /\ step' \in {"agent", "judge"} /\ Reach(Cur)
        /\ UNCHANGED <<script, todo, want, kv, power, sid, excuses>>
        /\ gen' = [gen EXCEPT ![Cur] = want]
    BY <1>12 DEF Switch, SwitchExit4, Activate, Nixos
  <2>2. AtCommit(Cur)' /\ (AtCommit(Dc) => AtCommit(Dc)')
    BY <1>2, <1>3, <1>7, <2>1 DEF Host, AtCommit
  <2>3. Cur = Member => SidGood /\ power[Member] # "down"
    BY <1>0, <2>1 DEF GreenInv, Underway, Reach
  <2>4. Cur = Member => SidGood'
    BY <1>3, <2>1, <2>3 DEF SidGood
  <2>5. Underway'
    BY <1>0, <1>7, <2>1, <2>2, <2>3, <2>4 DEF Underway, GreenInv
  <2> QED
    BY <1>6, <2>1, <2>5
<1>13. CASE SwitchLooksLike4
  <2>1. /\ step = "switch" /\ step' = "judge" /\ Reach(Cur)
        /\ UNCHANGED <<script, todo, want, kv, power, sid, excuses, gen>>
    BY <1>13 DEF SwitchLooksLike4, Nixos
  <2>2. Cur = Member => SidGood /\ power[Member] # "down"
    BY <1>0, <2>1 DEF GreenInv, Underway, Reach
  <2>3. Cur = Member => SidGood'
    BY <1>3, <2>1, <2>2 DEF SidGood
  <2>4. Underway'
    BY <1>0, <1>3, <1>7, <1>8, <2>1, <2>2, <2>3 DEF Underway, GreenInv, Host
  <2> QED
    BY <1>6, <2>1, <2>4
<1>14. CASE Excused
  <2>1. /\ step = "judge" /\ step' = "agent" /\ AtCommit(Cur) /\ AtCommit(Cur)'
        /\ UNCHANGED <<script, todo, want, kv, power, sid, excuses, gen>>
    BY <1>2, <1>7, <1>14 DEF Excused, Recovered, Nixos, AtCommit
  <2>2. Cur = Member => SidGood /\ (clean => power[Member] # "down")
    BY <1>0, <2>1 DEF GreenInv, Underway
  <2>3. Cur = Member => SidGood'
    BY <1>3, <2>1, <2>2 DEF SidGood
  <2>4. Underway'
    BY <1>0, <1>3, <1>7, <1>8, <2>1, <2>2, <2>3 DEF Underway, GreenInv, Host
  <2> QED
    BY <1>6, <2>1, <2>4
<1> QED
  BY <1>4, <1>5, <1>9, <1>10, <1>11, <1>12, <1>13, <1>14 DEF NixosStep

(* OpenTofu in a leg: the generated secrets, then the one that Authentik mints. *)
LEMMA GreenTofu ==
    ASSUME GreenInv, Typed, TofuStep, Noted, phase # 0, UNCHANGED <<phase, outcome, step>>
    PROVE  GreenInv'
<1> USE DEF hosts, bao, world
<1>0. /\ script = "tofu" /\ mode = "push" /\ faults \in Nat /\ outcome' = outcome /\ phase' = phase
      /\ \/ phase = 3 /\ target = "secrets"
         \/ phase = 5 /\ target = "authentik"
  BY DEF TofuStep, LoginFails, Skip, Refuse, Materialize, Import, Guard, GuardBlind, Apply,
     ApplyFails, Tofu, GreenInv, LegRuns
<1>1. faults' \in Nat
  BY <1>0 DEF TofuStep, LoginFails, Skip, Refuse, Materialize, Import, Guard, GuardBlind, Apply,
     ApplyFails, Fault
<1>2. (clean' => clean) /\ (clean' => ~Fault)
  BY <1>0, NotedMeans
<1>3. UNCHANGED <<want, gen, power, sid, sealed, staged>> /\ excuses \subseteq excuses'
  BY DEF TofuStep, LoginFails, Skip, Refuse, Materialize, Import, Guard, GuardBlind, Apply,
     ApplyFails
<1>4. OpenBao' = OpenBao /\ (SidGood => SidGood')
  BY <1>2, <1>3 DEF OpenBao, Resolves, SidGood
<1>5. \A s \in Generated : kv[s] # 0 => kv'[s] # 0
  <2>1. CASE Apply \/ ApplyFails
    <3>1. PICK done \in SUBSET Of(target) : Written(done)
      BY <2>1 DEF Apply, ApplyFails
    <3>2. ASSUME NEW s \in Generated, kv[s] # 0 PROVE kv'[s] # 0
      <4>1. s \in Secret /\ last[s] \in Nat
        BY DEF Secret, Typed, LiveInv, Data
      <4>2. Writes(s) # 0
        BY <4>1 DEF Writes
      <4> QED
        BY <3>1, <3>2, <4>1, <4>2 DEF Written
    <3> QED
      BY <3>2
  <2>2. CASE ~(Apply \/ ApplyFails)
    <3>1. UNCHANGED kv
      BY <2>2 DEF TofuStep, LoginFails, Skip, Refuse, Materialize, Import, Guard, GuardBlind
    <3> QED
      BY <3>1
  <2> QED
    BY <2>1, <2>2
<1>6. Green' /\ phase' \in 0 .. 6
  BY <1>0 DEF Green
<1>7. \A p \in {2, 4} : Passed(p)' => Passed(p)
  BY <1>0 DEF Passed
<1>8. /\ Passed(2)' => AtCommit(Dc)' /\ AtCommit(Vault)'
      /\ Passed(4)' => AtCommit(Member)' /\ SidGood' /\ (clean' => power'[Member] # "down")
  <2>1. \A h \in Host : AtCommit(h) => AtCommit(h)'
    BY <1>2, <1>3, CommitKept
  <2> QED
    BY <1>2, <1>3, <1>4, <1>7, <2>1 DEF GreenInv, Progress, Host
<1>9. ~Passed(6)'
  BY <1>0 DEF Passed
<1>10. ASSUME LegRuns', Underway',
              Passed(3)' => \A s \in Generated : kv'[s] # 0,
              Passed(5)' /\ clean' => kv'[Outpost] # 0 /\ OpenBao'
       PROVE  GreenInv'
  <2>1. Progress'
    BY <1>8, <1>9, <1>10 DEF Progress
  <2> QED
    BY <1>1, <1>6, <1>10, <2>1 DEF GreenInv
<1>11. ASSUME NEW r \in {"failed", "refused"}, Ends(r) PROVE GreenInv'
  <2>1. LegRuns' /\ Underway'
    BY <1>11 DEF Ends, LegRuns, Underway
  <2>2. ~Passed(5)' /\ (Passed(3)' => Passed(3))
    BY <1>0, <1>11 DEF Passed, Ends
  <2>3. Passed(3)' => \A s \in Generated : kv'[s] # 0
    BY <1>5, <2>2 DEF GreenInv, Progress
  <2> QED
    BY <1>10, <2>1, <2>2, <2>3
<1>12. CASE LoginFails \/ Refuse \/ ApplyFails
  BY <1>11, <1>12 DEF LoginFails, Refuse, ApplyFails, TofuEnds
<1>13. CASE Guard /\ TofuEnds("refused")
  BY <1>11, <1>13 DEF TofuEnds
<1>14. ASSUME UNCHANGED <<script, target, mode>>, tofu # "login" \/ OpenBao PROVE GreenInv'
  <2>1. LegRuns'
    BY <1>0, <1>14 DEF LegRuns
  <2>2. phase = 5 /\ clean => OpenBao
    BY <1>0, <1>14 DEF GreenInv, Underway
  <2>3. Underway'
    BY <1>0, <1>2, <1>4, <1>14, <2>2 DEF Underway
  <2>4. ~Passed(5)' /\ (Passed(3)' => Passed(3))
    BY <1>0, <1>14 DEF Passed
  <2>5. Passed(3)' => \A s \in Generated : kv'[s] # 0
    BY <1>5, <2>4 DEF GreenInv, Progress
  <2> QED
    BY <1>10, <2>1, <2>3, <2>4, <2>5
<1>15. CASE Materialize \/ GuardBlind
  BY <1>14, <1>15 DEF Materialize, GuardBlind, Tofu
<1>16. CASE Guard /\ ~TofuEnds("refused")
  BY <1>14, <1>16 DEF Guard, Tofu
<1>17. CASE Import
  BY <1>0, <1>14, <1>17 DEF Import, Tofu
<1>18. CASE Skip
  <2>1. ~clean' /\ script' = "none" /\ phase = 5
    BY <1>0, <1>2, <1>18 DEF Skip, TofuEnds, Ends
  <2>2. LegRuns' /\ Underway'
    BY <2>1 DEF LegRuns, Underway
  <2>3. Passed(3)
    BY <2>1 DEF Passed
  <2>4. \A s \in Generated : kv'[s] # 0
    BY <1>5, <2>3 DEF GreenInv, Progress
  <2> QED
    BY <1>10, <2>1, <2>2, <2>4
<1>19. CASE Apply
  <2>1. script' = "none" /\ Written(Of(target)) /\ tofu = "apply"
    BY <1>19 DEF Apply, TofuEnds, Ends, Tofu
  <2>2. LegRuns' /\ Underway'
    BY <2>1 DEF LegRuns, Underway
  <2>3. ASSUME NEW s \in Of(target) PROVE kv'[s] # 0
    <3>1. s \in Secret
      BY DEF Of, Secret
    <3>2. last[s] \in Nat
      BY <3>1 DEF Typed, LiveInv, Data
    <3>3. Writes(s) # 0
      BY <3>2 DEF Writes
    <3> QED
      BY <2>1, <3>1, <3>3 DEF Written
  <2>4. CASE phase = 3
    <3>1. \A s \in Generated : kv'[s] # 0
      BY <1>0, <2>3, <2>4 DEF Of
    <3>2. ~Passed(5)'
      BY <1>0, <2>4 DEF Passed
    <3> QED
      BY <1>10, <2>2, <3>1, <3>2
  <2>5. CASE phase = 5
    <3>1. kv'[Outpost] # 0
      BY <1>0, <2>3, <2>5 DEF Of
    <3>2. Passed(3)
      BY <2>5 DEF Passed
    <3>3. \A s \in Generated : kv'[s] # 0
      BY <1>5, <3>2 DEF GreenInv, Progress
    <3>4. clean' => OpenBao'
      BY <1>0, <1>2, <1>4, <2>1, <2>5 DEF GreenInv, Underway
    <3> QED
      BY <1>10, <2>2, <3>1, <3>3, <3>4
  <2> QED
    BY <1>0, <2>4, <2>5
<1> QED
  BY <1>12, <1>13, <1>15, <1>16, <1>17, <1>18, <1>19 DEF TofuStep

LEMMA DuePhase == ASSUME GreenInv, NEW name, Due(name)
                  PROVE  /\ phase \in 1 .. 6 /\ Passed(phase) /\ script = "none"
                         /\ name = "foundation" => phase = 1
                         /\ name = "secrets" => phase = 2
                         /\ name = "members" => phase = 3
                         /\ name = "config" => phase = 4
                         /\ name = "rerender" => phase = 5
                         /\ name = "verify" => phase = 6
<1>1. phase \in 1 .. 6 /\ Phases[phase] = name /\ May(phase)
  BY DEF GreenInv, Due
<1>2. /\ Phases[1] = "foundation" /\ Phases[2] = "secrets" /\ Phases[3] = "members"
      /\ Phases[4] = "config" /\ Phases[5] = "rerender" /\ Phases[6] = "verify"
  BY DEF Phases
<1>3. Passed(phase) /\ script = "none"
  BY <1>1 DEF May, Passed
<1>4. phase = 1 \/ phase = 2 \/ phase = 3 \/ phase = 4 \/ phase = 5 \/ phase = 6
  BY <1>1
<1> QED
  BY <1>1, <1>2, <1>3, <1>4

(* A leg's hosts, from the selection and the order of lib.sh. *)
LEMMA LegHosts == ASSUME NEW S, StartNixos(S)
                  PROVE  /\ S = {Dc, Vault} => todo' = <<Dc, Vault>>
                         /\ S = {Member} => todo' = <<Member>>
<1>1. PICK first \in DOMAIN ORDER, end \in DOMAIN ORDER :
          S = {ORDER[i] : i \in first .. end} /\ todo' = SubSeq(ORDER, first, end)
  BY DEF StartNixos
<1>2. /\ ORDER[1] = Dc /\ ORDER[2] = Vault /\ ORDER[3] = Member
      /\ first \in 1 .. 3 /\ end \in 1 .. 3
  BY <1>1 DEF ORDER
<1>3. \A i \in 1 .. 3 : ORDER[i] \in S <=> i \in first .. end
  BY <1>1, <1>2 DEF Dc, Vault, Member
<1>4. ASSUME S = {Dc, Vault} PROVE todo' = <<Dc, Vault>>
  <2>1. first = 1 /\ end = 2
    <3>1. 1 \in first .. end /\ 2 \in first .. end /\ 3 \notin first .. end
      BY <1>2, <1>3, <1>4, Places
    <3> QED
      BY <1>2, <3>1
  <2>2. SubSeq(ORDER, 1, 2) = <<Dc, Vault>>
    <3> DEFINE q == SubSeq(ORDER, 1, 2)
    <3>1. \A i \in 1 .. 2 : ORDER[i] \in Host
      BY <1>2 DEF Host
    <3>2. q \in Seq(Host) /\ Len(q) = 2 /\ q[1] = ORDER[1] /\ q[2] = ORDER[2]
      BY <3>1, SubSeqProperties
    <3> HIDE DEF q
    <3>3. q = <<q[1], q[2]>>
      BY <3>2
    <3> QED
      BY <1>2, <3>2, <3>3 DEF q
  <2> QED
    BY <1>1, <2>1, <2>2
<1>5. ASSUME S = {Member} PROVE todo' = <<Member>>
  <2>1. first = 3 /\ end = 3
    <3>1. 1 \notin first .. end /\ 2 \notin first .. end /\ 3 \in first .. end
      BY <1>2, <1>3, <1>5, Places
    <3> QED
      BY <1>2, <3>1
  <2>2. SubSeq(ORDER, 3, 3) = <<Member>>
    <3> DEFINE q == SubSeq(ORDER, 3, 3)
    <3>1. \A i \in 3 .. 3 : ORDER[i] \in Host
      BY <1>2 DEF Host
    <3>2. q \in Seq(Host) /\ Len(q) = 1 /\ q[1] = ORDER[3]
      BY <3>1, SubSeqProperties
    <3> HIDE DEF q
    <3>3. q = <<q[1]>>
      BY <3>2
    <3> QED
      BY <1>2, <3>2, <3>3 DEF q
  <2> QED
    BY <1>1, <2>1, <2>2
<1> QED
  BY <1>4, <1>5

LEMMA GreenLegs == ASSUME GreenInv, Typed, Legs PROVE GreenInv'
<1> USE DEF hosts, bao, world
<1>0. faults \in Nat
  BY DEF GreenInv
<1>1. ASSUME NEW name \in {"foundation", "members"}, NEW S, NixosLeg(name, S),
             name = "foundation" => S = {Dc, Vault}, name = "members" => S = {Member}
      PROVE  GreenInv'
  <2>1. /\ Due(name) /\ StartNixos(S) /\ phase' = phase + 1 /\ Noted /\ script' = "nixos"
        /\ step' = "oec"
        /\ UNCHANGED <<want, gen, power, staged, sid, kv, sealed, excuses, outcome>>
    BY <1>1 DEF NixosLeg, StartNixos
  <2>2. faults' \in Nat
    BY <1>0, <2>1 DEF StartNixos, Fault
  <2>3. \/ phase' = 2 /\ todo' = <<Dc, Vault>>
        \/ phase' = 4 /\ phase = 3 /\ todo' = <<Member>>
    BY <1>1, <2>1, DuePhase, LegHosts
  <2>4. LegRuns'
    BY <2>1, <2>3 DEF LegRuns
  <2>5. Underway'
    BY <2>1, <2>3, Places DEF Underway
  <2>6. ASSUME phase = 3, phase' = 4 PROVE Progress'
    <3>1. Passed(2) /\ Passed(3) /\ ~Passed(4)' /\ ~Passed(5)' /\ ~Passed(6)'
      BY <2>1, <2>6, DuePhase DEF Passed
    <3> QED
      BY <2>1, <3>1, CommitKept, NotedMeans, <1>0 DEF GreenInv, Progress, Host
  <2>7. ASSUME phase' = 2 PROVE Progress'
    BY <2>1, <2>7 DEF Passed, Progress
  <2>8. Green'
    BY <2>3 DEF Green
  <2> QED
    BY <2>2, <2>3, <2>4, <2>5, <2>6, <2>7, <2>8 DEF GreenInv
<1>2. ASSUME NEW name \in {"secrets", "config"}, NEW t, TofuLeg(name, t),
             name = "secrets" => t = "secrets", name = "config" => t = "authentik"
      PROVE  GreenInv'
  <2>1. /\ Due(name) /\ phase' = phase + 1 /\ script' = "tofu" /\ target' = t /\ mode' = "push"
        /\ tofu' = "login" /\ excuses' = excuses
        /\ UNCHANGED <<want, gen, power, staged, sid, kv, sealed, outcome, faults>>
    BY <1>2 DEF TofuLeg, StartTofu
  <2>2. clean' = clean
    BY <1>2 DEF TofuLeg
  <2>3. \/ phase = 2 /\ phase' = 3 /\ t = "secrets"
        \/ phase = 4 /\ phase' = 5 /\ t = "authentik"
    BY <1>2, <2>1, DuePhase
  <2>4. LegRuns' /\ Underway'
    BY <2>1, <2>3 DEF LegRuns, Underway
  <2>5. SidGood' = SidGood
    BY <2>1, <2>2 DEF SidGood
  <2>6. Passed(phase)
    BY <2>1, DuePhase
  <2>7. /\ Passed(2) /\ (Passed(3)' => Passed(3)) /\ (Passed(4)' => Passed(4))
        /\ ~Passed(5)' /\ ~Passed(6)'
    BY <2>1, <2>3, <2>6 DEF Passed
  <2>8. Progress'
    BY <2>1, <2>2, <2>5, <2>7, CommitKept DEF GreenInv, Progress, Host
  <2>9. Green'
    BY <2>3 DEF Green
  <2> QED
    BY <1>0, <2>1, <2>3, <2>4, <2>8, <2>9 DEF GreenInv
<1>3. CASE RerenderLeg
  <2>1. /\ phase = 5 /\ phase' = 6 /\ script = "none" /\ script' = "none" /\ Passed(5) /\ Noted
        /\ UNCHANGED <<want, gen, power, staged, sid, kv, sealed, excuses, outcome, result>>
    BY <1>3, DuePhase DEF RerenderLeg, Rerender
  <2>2. faults' \in Nat
    BY <1>0, <1>3 DEF RerenderLeg, Rerender, Fault
  <2>3. (clean' => clean) /\ (clean' => ~Fault)
    BY <1>0, <2>1, NotedMeans
  <2>4. Passed(2) /\ Passed(3) /\ Passed(4)
    BY <2>1 DEF Passed
  <2>5. OpenBao' = OpenBao /\ (SidGood => SidGood')
    BY <2>1, <2>3 DEF OpenBao, Resolves, SidGood
  <2>6. clean => CanRender /\ Reach(Member)
    BY <2>1, <2>4 DEF GreenInv, Progress, SidGood, CanRender, OpenBao, Reach
  <2>7. clean' => run' = kv
    BY <1>3, <2>3, <2>6 DEF RerenderLeg, Rerender, RestartAgent
  <2>8. Progress'
    BY <2>1, <2>3, <2>4, <2>5, <2>7, CommitKept DEF GreenInv, Progress, Host
  <2>9. LegRuns' /\ Underway' /\ Green'
    BY <2>1 DEF LegRuns, Underway, Green
  <2> QED
    BY <2>1, <2>2, <2>8, <2>9 DEF GreenInv
<1>4. ASSUME UNCHANGED <<world, script, nixosVars, tofuVars, clean>>, phase' = 0, script = "none",
             Green'
      PROVE  GreenInv'
  <2>1. LegRuns' /\ Underway'
    BY <1>4 DEF LegRuns, Underway
  <2>2. Progress'
    BY <1>4 DEF Progress, Passed
  <2> QED
    BY <1>0, <1>4, <2>1, <2>2 DEF GreenInv
<1>5. CASE LegFailed
  <2>1. Green'
    BY <1>5 DEF LegFailed, Finish, Green
  <2>2. UNCHANGED <<world, script, nixosVars, tofuVars, clean>> /\ phase' = 0 /\ script = "none"
    BY <1>5 DEF LegFailed, Finish
  <2> QED
    BY <1>4, <2>1, <2>2
<1>6. CASE Verify
  <2>1. /\ phase = 6 /\ script = "none" /\ Passed(6) /\ phase' = 0
        /\ UNCHANGED <<world, script, nixosVars, tofuVars, clean>>
        /\ outcome' = "ok" => \A h \in Host : h \in staged
    BY <1>6, DuePhase DEF Verify, Finish
  <2>2. Passed(2) /\ Passed(3) /\ Passed(4) /\ Passed(5)
    BY <2>1 DEF Passed
  <2>3. /\ \A h \in Host : AtCommit(h)
        /\ "eval" \notin excuses => sid = "good"
        /\ clean => kv[Outpost] # 0 /\ run = kv
    BY <2>1, <2>2 DEF GreenInv, Progress, SidGood, Host
  <2>4. \A h \in Host : AtCommit(h)'
    BY <2>1, <2>3, CommitKept
  <2>5. Green'
    BY <2>1, <2>3, <2>4 DEF Green
  <2> QED
    BY <1>4, <2>1, <2>5
<1> QED
  BY <1>1, <1>2, <1>3, <1>5, <1>6 DEF Legs

LEMMA GreenNext == Typed /\ GreenInv /\ [Next]_vars => GreenInv'
<1> SUFFICES ASSUME Typed, GreenInv, [Next]_vars PROVE GreenInv'
  OBVIOUS
<1> USE DEF hosts, bao, world, nixosVars, tofuVars
<1>0. faults \in Nat
  BY DEF GreenInv
<1>1. CASE StartDeploy
  <2>1. phase' = 1 /\ script' = "none" /\ faults' = faults
    BY <1>1 DEF StartDeploy, Free
  <2> QED
    BY <1>0, <2>1 DEF GreenInv, LegRuns, Underway, Progress, Passed, Green
<1>2. CASE Legs
  BY <1>2, GreenLegs
<1>3. CASE RunScript
  <2>1. Noted /\ UNCHANGED <<phase, outcome>> /\ (NixosStep \/ TofuStep \/ RebootStep)
        /\ (TofuStep => UNCHANGED step \/ NixosStep)
    BY <1>3 DEF RunScript, Scripts
  <2>2. CASE NixosStep
    BY <2>1, <2>2, GreenNixos
  <2>3. CASE TofuStep /\ UNCHANGED step /\ phase # 0
    BY <2>1, <2>3, GreenTofu
  <2>4. CASE TofuStep /\ UNCHANGED step /\ phase = 0
    <3>1. /\ script = "tofu" /\ script' \in {"tofu", "none"} /\ excuses \subseteq excuses'
          /\ UNCHANGED <<want, gen, staged, sid>>
      BY <2>4 DEF TofuStep, LoginFails, Skip, Refuse, Materialize, Import, Guard, GuardBlind,
         Apply, ApplyFails, TofuEnds, Ends, Tofu
    <3>2. faults' \in Nat
      BY <1>0, <2>4 DEF TofuStep, LoginFails, Skip, Refuse, Materialize, Import, Guard, GuardBlind,
         Apply, ApplyFails, Fault
    <3>3. ~clean /\ ~clean'
      BY <2>1, <2>4, <3>1, <1>0, NotedMeans DEF GreenInv, LegRuns
    <3> QED
      BY <2>1, <2>4, <3>1, <3>2, <3>3, GreenFree
  <2>5. CASE RebootStep
    <3>1. /\ script = "reboot" /\ script' \in {"reboot", "none"} /\ excuses' = excuses
          /\ UNCHANGED <<want, gen, staged, sid>>
      BY <2>5 DEF RebootStep, Issue, Unreachable, Back, TimedOut, RebootEnds, Ends
    <3>2. faults' \in Nat
      BY <1>0, <2>5 DEF RebootStep, Issue, Unreachable, Back, TimedOut, Fault
    <3>3. phase = 0 /\ ~clean
      BY <3>1 DEF GreenInv, LegRuns
    <3>4. ~clean'
      BY <1>0, <2>1, <3>3, NotedMeans
    <3> QED
      BY <2>1, <3>1, <3>2, <3>3, <3>4, GreenFree
  <2> QED
    BY <2>1, <2>2, <2>3, <2>4, <2>5
<1>4. CASE Push \/ Unseal
  BY <1>0, <1>4, GreenAside, CommitKept DEF Push, Unseal, Outside
<1>5. ASSUME NEW h \in Host, Hosts(h) PROVE GreenInv'
  BY <1>0, <1>5, GreenAside, CommitKept DEF Hosts, GoesDown, Boots, Outside
<1>6. ASSUME NEW h \in Host, Restarts(h) PROVE GreenInv'
  BY <1>0, <1>6, GreenAside, CommitKept DEF Restarts
<1>7. ASSUME NEW m, ByHand(m) PROVE GreenInv'
  <2>1. /\ phase = 0 /\ phase' = 0 /\ ~clean' /\ script' = "tofu" /\ excuses \subseteq excuses'
        /\ faults' = faults /\ UNCHANGED <<want, gen, staged, sid, outcome>>
    BY <1>7 DEF ByHand, StartTofu, Outside, Free
  <2> QED
    BY <1>0, <2>1, GreenFree
<1>8. ASSUME NEW hs, RebootFleet(hs) PROVE GreenInv'
  <2>1. /\ phase = 0 /\ phase' = 0 /\ ~clean' /\ script' = "reboot" /\ excuses' = excuses
        /\ faults' = faults /\ UNCHANGED <<want, gen, staged, sid, outcome>>
    BY <1>8 DEF RebootFleet, StartReboot, Outside, Free
  <2> QED
    BY <1>0, <2>1, GreenFree
<1>9. ASSUME NEW s \in Generated, Lose(s) PROVE GreenInv'
  <2>1. /\ phase = 0 /\ phase' = 0 /\ ~clean' /\ script' = "none" /\ excuses \subseteq excuses'
        /\ faults' = faults /\ UNCHANGED <<want, gen, staged, sid, outcome>>
    BY <1>9 DEF Lose, Forget, Outside, Free
  <2> QED
    BY <1>0, <2>1, GreenFree
<1>10. CASE UNCHANGED vars
  BY <1>0, <1>10, GreenAside, CommitKept DEF vars
<1>11. ASSUME NEW h \in Host, NightlyUpgrade(h) PROVE GreenInv'
  <2>1. /\ gen' = [gen EXCEPT ![h] = head] /\ ~clean' /\ (faults' = faults \/ Fault)
        /\ UNCHANGED <<want, staged, sid, kv, phase, outcome, script, todo, step, result, excuses,
                       target, mode, tofu>>
    BY <1>11 DEF NightlyUpgrade, Activate, Outside
  <2>2. gen \in [Host -> 0 .. head] /\ head \in Nat /\ want \in 0 .. head
    BY BoundAssumption DEF Typed, FleetTypes
  <2>3. ASSUME NEW g \in Host, AtCommit(g) PROVE AtCommit(g)'
    BY <2>1, <2>2, <2>3 DEF AtCommit
  <2>4. faults' \in Nat
    BY <1>0, <2>1 DEF Fault
  <2> QED
    BY <2>1, <2>3, <2>4, GreenAside
<1> QED
  BY <1>1, <1>2, <1>3, <1>4, <1>5, <1>6, <1>7, <1>8, <1>9, <1>10, <1>11 DEF Next

(* A green deploy means what it says (deploy.yml, deploy-verify.sh): no     *)
(* host is behind its commit, and each is hardened, whatever hosts pull by  *)
(* night; the member's secret-id is whole unless the look at its            *)
(* configuration failed; and when nothing failed or went on beside it,      *)
(* every host is at that very commit and the member runs every secret.      *)
THEOREM GreenMeansGreen == Spec => []Green
<1>1. Init => GreenInv /\ Typed
  BY GreenInit, InitLive, TypeInit DEF Typed
<1>2. GreenInv /\ Typed /\ [Next]_vars => (GreenInv /\ Typed)'
  BY GreenNext, TypedNext
<1>3. GreenInv => Green
  BY DEF GreenInv
<1> QED
  BY <1>1, <1>2, <1>3, PTL DEF Spec
=============================================================================
