-------------------------- MODULE FleetDeployProofs --------------------------
(***************************************************************************)
(* What the gate, the barrier, the phases and the queue of FleetDeploy     *)
(* guarantee for any number of commits, workflows, hosts and failures.     *)
(***************************************************************************)
EXTENDS FleetDeploy, TLAPS

------------------------------------------------------------------------------
(* Type correctness *)

LEMMA NoRunIsNoRun == NoRun \notin Runs /\ NoRun \notin Requests
  BY DEF NoRun, Runs, Requests, Phases

\* A run with a phase is a run.
LEMMA RunHere ==
  ASSUME TypeOK, run.pc # "none"
  PROVE  run \in Runs
  <1>1. NoRun.pc = "none"
    BY DEF NoRun
  <1>2. QED
    BY <1>1 DEF TypeOK

\* The hosts are those of the list, and an index past a host is a place in the list.
LEMMA Places ==
  /\ Len(Order) \in Nat
  /\ \A at \in 1 .. Len(Order) + 1 :
       at <= Len(Order) => Order[at] \in Host /\ at + 1 \in 1 .. Len(Order) + 1
  /\ 1 \in 1 .. Len(Order) + 1
  <1>1. Len(Order) \in Nat /\ DOMAIN Order = 1 .. Len(Order)
    BY FleetAssumption
  <1>2. QED
    BY <1>1 DEF Host

\* A request joins the group as a run that starts or as the one that waits.
LEMMA QueueTypes ==
  ASSUME TypeOK, NEW request \in Requests, Queue(request)
  PROVE  run' \in Runs \cup {NoRun} /\ pending' \in Requests \cup {NoRun}
  <1>1. Starting(request) \in Runs
    BY Places DEF Starting, Runs, Requests
  <1>2. QED
    BY <1>1 DEF Queue, TypeOK

\* What the unit does once it has stopped the runner.
Switch ==
    \/ SwitchActivates \/ SwitchStartsRunner \/ SwitchReturns \/ SwitchFails
    \/ StartRunner \/ UnitExits

\* It concerns the control node alone.
LEMMA SwitchStays ==
  ASSUME Switch
  PROVE  /\ UNCHANGED <<github, pending, run, attempts, fleet>>
         /\ UNCHANGED <<reruns, foreigns, dispatches, nightlies>>
  BY DEF Switch, SwitchActivates, SwitchStartsRunner, SwitchReturns, SwitchFails, StartRunner,
         UnitExits, counters

\* Next with those steps under one name.
LEMMA NextCases ==
  ASSUME Next
  PROVE  \/ Push \/ CI \/ ForeignCICompletes \/ Dispatch \/ RunStarts
         \/ Deploy \/ RunFails \/ StopRunner \/ Switch
         \/ (\E h \in Host : NightlyUpgrade(h)) \/ NightlySelfUpgrade \/ NightlyAnsible
  BY DEF Next, Unit, Switch

LEMMA GotoTypes ==
  ASSUME TypeOK, run.pc # "none", NEW pc \in Phases, NEW phase \in Skippable,
         Goto(pc) \/ GotoSkipping(phase, pc)
  PROVE  run' \in Runs
  <1>1. CASE Goto(pc)
    BY <1>1, RunHere, Places DEF Goto, Runs
  <1>2. CASE GotoSkipping(phase, pc)
    <2>1. run \in Runs /\ run.skips \cup {phase} \in SUBSET Skippable
      BY RunHere DEF Runs
    <2>2. QED
      BY <1>2, <2>1, Places DEF GotoSkipping, Runs
  <1>3. QED
    BY <1>1, <1>2

LEMMA TypeInit == Init => TypeOK
  <1>1. 0 \in 0 .. MaxCommit /\ ControlOf[0] \in Nat
    BY FleetAssumption, BoundsAssumption
  <1>2. QED
    BY <1>1 DEF Init, TypeOK, Unknown, Commit

LEMMA TypeGithub ==
  ASSUME TypeOK
  PROVE  /\ Push => TypeOK'
         /\ CI => TypeOK'
         /\ ForeignCICompletes => TypeOK'
         /\ Dispatch => TypeOK'
         /\ RunStarts => TypeOK'
  <1> USE DEF fleet, node, counters, github
  <1>1. Push => TypeOK'
    BY BoundsAssumption DEF Push, TypeOK, Commit
  <1>2. ASSUME NEW c \in Commit, NEW w \in Workflow, NEW result \in {"success", "failure"},
               CICompletes(c, w, result)
        PROVE  TypeOK'
    <2>1. \A kind \in {"ci", "foreign"} : Request(kind, c, w) \in Requests
      BY BoundsAssumption DEF Request, Requests, Commit
    <2>2. run' \in Runs \cup {NoRun} /\ pending' \in Requests \cup {NoRun}
      BY <1>2, <2>1, QueueTypes DEF CICompletes
    <2>3. QED
      BY <1>2, <2>2 DEF CICompletes, TypeOK
  <1>3. ASSUME NEW c \in Commit, NEW w \in Workflow, CIRerun(c, w)
        PROVE  TypeOK'
    BY <1>3 DEF CIRerun, TypeOK
  <1>4. ForeignCICompletes => TypeOK'
    <2>1. Request("foreign", Unknown, Unknown) \in Requests
      BY BoundsAssumption DEF Request, Requests, Unknown
    <2>2. QED
      BY <2>1, QueueTypes DEF ForeignCICompletes, TypeOK
  <1>5. Dispatch => TypeOK'
    <2>1. Request("dispatch", head, Unknown) \in Requests
      BY DEF Request, Requests, Unknown, TypeOK
    <2>2. QED
      BY <2>1, QueueTypes DEF Dispatch, TypeOK
  <1>6. RunStarts => TypeOK'
    <2>1. ASSUME RunStarts PROVE Starting(pending) \in Runs
      BY <2>1, Places DEF RunStarts, TypeOK, Starting, Runs, Requests
    <2>2. QED
      BY <2>1 DEF RunStarts, TypeOK
  <1>7. QED
    BY <1>1, <1>2, <1>3, <1>4, <1>5, <1>6 DEF CI

\* A walk over the hosts.
LEMMA TypeSwitchHosts ==
  ASSUME TypeOK, NEW pc \in Phases, NEW selected, NEW next \in Phases,
         SwitchHosts(pc, selected, next)
  PROVE  TypeOK'
  <1> USE DEF fleet, node, counters, github
  <1>1. run \in Runs /\ run.pc # "none"
    BY RunHere DEF SwitchHosts, Phases
  <1>2. CASE run.at > Len(Order)
    BY <1>1, <1>2, GotoTypes DEF SwitchHosts, TypeOK, Skippable
  <1>3. CASE ~(run.at > Len(Order))
    <2>1. Order[run.at] \in Host /\ run.at + 1 \in 1 .. Len(Order) + 1
      BY <1>1, <1>3, Places DEF Runs
    <2>2. run' \in Runs
      BY <1>1, <1>3, <2>1 DEF SwitchHosts, Runs
    <2>3. gen' \in [Host -> 0 .. MaxCommit]
      BY <1>1, <1>3, <2>1 DEF SwitchHosts, TypeOK, Runs
    <2>4. QED
      BY <1>3, <2>2, <2>3 DEF SwitchHosts, TypeOK
  <1>4. QED
    BY <1>2, <1>3

LEMMA TypeDeploy ==
  ASSUME TypeOK, Deploy
  PROVE  TypeOK'
  <1> USE DEF fleet, node, counters, github
  <1>1. Phases # {} /\ {"foundation", "ansible", "secrets", "selfupdate", "await offline",
            "await online", "verify self", "systems", "tofu", "verify"} \subseteq Phases
         /\ "ansible" \in Skippable /\ "tofu" \in Skippable
    BY DEF Phases, Skippable
  <1>2. CASE Gate
    <2>1. run \in Runs
      BY <1>2, RunHere DEF Gate
    <2>2. [run EXCEPT !.pc = "foundation"] \in Runs
      BY <1>1, <2>1 DEF Runs
    <2>3. attempts' \in [Commit -> Nat]
      BY <1>2 DEF Gate, TypeOK
    <2>4. QED
      BY <1>2, <2>2, <2>3 DEF Gate, TypeOK
  <1>3. CASE Phase0
    BY <1>1, <1>3, TypeSwitchHosts DEF Phase0
  <1>4. CASE Phase1
    <2>1. run' \in Runs /\ run.commit \in 0 .. MaxCommit
      BY <1>1, <1>4, GotoTypes, RunHere DEF Phase1, Runs
    <2>2. QED
      BY <1>4, <2>1 DEF Phase1, TypeOK
  <1>5. CASE Phase1Secrets
    BY <1>1, <1>5, GotoTypes DEF Phase1Secrets, TypeOK
  <1>6. CASE SelfUpdate
    BY <1>1, <1>6, GotoTypes DEF SelfUpdate, TypeOK
  <1>7. CASE SeesOffline
    BY <1>1, <1>7, GotoTypes DEF SeesOffline, TypeOK
  <1>8. CASE MissesOffline
    BY <1>1, <1>8, GotoTypes DEF MissesOffline, TypeOK
  <1>9. CASE SeesOnline
    BY <1>1, <1>9, GotoTypes DEF SeesOnline, TypeOK
  <1>10. CASE VerifySelf
    BY <1>1, <1>10, GotoTypes DEF VerifySelf, TypeOK
  <1>11. CASE Phase2
    BY <1>1, <1>11, TypeSwitchHosts DEF Phase2
  <1>12. CASE Phase3
    <2>1. run' \in Runs /\ run.commit \in 0 .. MaxCommit
      BY <1>1, <1>12, GotoTypes, RunHere DEF Phase3, Runs
    <2>2. QED
      BY <1>12, <2>1 DEF Phase3, TypeOK
  <1>13. CASE Phase4
    BY <1>13 DEF Phase4, TypeOK
  <1>14. QED
    BY <1>2, <1>3, <1>4, <1>5, <1>6, <1>7, <1>8, <1>9, <1>10, <1>11, <1>12, <1>13 DEF Deploy

LEMMA TypeElsewhere ==
  ASSUME TypeOK
  PROVE  /\ RunFails => TypeOK'
         /\ StopRunner => TypeOK'
         /\ Switch => TypeOK'
         /\ \A h \in Host : NightlyUpgrade(h) => TypeOK'
         /\ NightlySelfUpgrade => TypeOK'
         /\ NightlyAnsible => TypeOK'
  <1> USE DEF fleet, node, counters, github
  <1>1. ControlOf[head] \in Nat
    BY FleetAssumption DEF TypeOK
  <1>2. RunFails => TypeOK'
    BY DEF RunFails, TypeOK
  <1>3. StopRunner => TypeOK'
    BY DEF StopRunner, TypeOK
  <1>4. CASE Switch
    <2>1. control' \in Nat
      BY <1>1, <1>4 DEF Switch, SwitchActivates, SwitchStartsRunner, SwitchReturns, SwitchFails,
         StartRunner, UnitExits, TypeOK
    <2>2. /\ unit' \in {"idle", "delayed", "switching", "activated", "done"}
          /\ runner' \in BOOLEAN
      BY <1>4 DEF Switch, SwitchActivates, SwitchStartsRunner, SwitchReturns, SwitchFails,
         StartRunner, UnitExits, TypeOK
    <2>3. QED
      BY <1>4, <2>1, <2>2, SwitchStays DEF TypeOK
  <1>5. ASSUME NEW h \in Host, NightlyUpgrade(h) PROVE TypeOK'
    BY <1>5 DEF NightlyUpgrade, TypeOK
  <1>6. NightlySelfUpgrade => TypeOK'
    BY <1>1 DEF NightlySelfUpgrade, TypeOK
  <1>7. NightlyAnsible => TypeOK'
    BY DEF NightlyAnsible, TypeOK
  <1>8. QED
    BY <1>2, <1>3, <1>4, <1>5, <1>6, <1>7

LEMMA TypeNext == TypeOK /\ [Next]_vars => TypeOK'
  <1> SUFFICES ASSUME TypeOK, [Next]_vars PROVE TypeOK'
    OBVIOUS
  <1>1. CASE UNCHANGED vars
    BY <1>1 DEF vars, TypeOK
  <1>2. CASE Next
    BY <1>2, NextCases, TypeGithub, TypeDeploy, TypeElsewhere
  <1>3. QED
    BY <1>1, <1>2

\* Whatever GitHub, the phases, the control node and the night do, every
\* variable keeps its type.
THEOREM TypeCorrect == Spec => []TypeOK
  BY TypeInit, TypeNext, PTL DEF Spec

------------------------------------------------------------------------------
(* deploy-post never runs before the control node's new system is active *)

\* The runner is away until the new system is active, and then only until the unit
\* is idle; while a unit is in its delay no run has seen the runner leave or is
\* past the watcher.
Barrier ==
    /\ unit = "switching" => ~runner
    /\ unit \in {"idle", "delayed"} => runner
    /\ unit = "delayed" => run.pc \notin PostJob \cup {"await online"}

LEMMA BarrierQueue ==
  ASSUME Barrier, NEW request, Queue(request), UNCHANGED unit
  PROVE  unit' = "delayed" => run'.pc \notin PostJob \cup {"await online"}
  <1>1. Starting(request).pc = "gate"
    BY DEF Starting
  <1>2. QED
    BY <1>1 DEF Queue, Barrier, PostJob

LEMMA BarrierNext ==
  ASSUME TypeOK, Barrier, [Next]_vars
  PROVE  Barrier'
  <1> USE DEF github, fleet, node, counters
  <1> DEFINE Elsewhere == UNCHANGED <<unit, runner>>
  <1> DEFINE Behind == run'.pc \notin PostJob \cup {"await online"}
  <1>1. ASSUME Elsewhere, unit = "delayed" => Behind
        PROVE  Barrier'
    BY <1>1 DEF Barrier
  <1>2. /\ \A pc : Goto(pc) /\ run.pc # "none" => run'.pc = pc
        /\ \A pc, phase : GotoSkipping(phase, pc) /\ run.pc # "none" => run'.pc = pc
    BY RunHere DEF Goto, GotoSkipping, Runs
  <1>3. NoRun.pc \notin PostJob \cup {"await online"}
    BY DEF NoRun, PostJob
  <1>4. CASE Push \/ CI \/ ForeignCICompletes \/ Dispatch \/ RunStarts
    <2>1. ASSUME NEW c \in Commit, NEW w \in Workflow, NEW result \in {"success", "failure"},
                 CICompletes(c, w, result)
          PROVE  Barrier'
      BY <1>1, <2>1, BarrierQueue DEF CICompletes
    <2>2. ASSUME NEW c \in Commit, NEW w \in Workflow, CIRerun(c, w)
          PROVE  Barrier'
      BY <1>1, <2>2 DEF CIRerun, Barrier
    <2>3. CASE ForeignCICompletes
      BY <1>1, <2>3, BarrierQueue DEF ForeignCICompletes
    <2>4. CASE Dispatch
      BY <1>1, <2>4, BarrierQueue DEF Dispatch
    <2>5. CASE RunStarts
      <3>1. Starting(pending).pc = "gate"
        BY DEF Starting
      <3>2. QED
        BY <1>1, <2>5, <3>1 DEF RunStarts, PostJob
    <2>6. CASE Push
      BY <1>1, <2>6 DEF Push, Barrier
    <2>7. QED
      BY <1>4, <2>1, <2>2, <2>3, <2>4, <2>5, <2>6 DEF CI
  <1>5. CASE Gate
    <2>1. run'.pc \in {"none", "foundation"}
      BY <1>5, RunHere DEF Gate, NoRun, Runs
    <2>2. QED
      BY <1>1, <1>5, <2>1 DEF Gate, PostJob
  <1>6. ASSUME NEW pc \in Phases, NEW selected, NEW next, SwitchHosts(pc, selected, next)
        PROVE  Elsewhere /\ run'.pc \in {pc, next}
    BY <1>2, <1>6, RunHere DEF SwitchHosts, Runs, Phases
  <1>7. CASE Phase0
    <2>1. "foundation" \in Phases /\ Elsewhere /\ run'.pc \in {"foundation", "ansible"}
      BY <1>6, <1>7 DEF Phase0, Phases
    <2>2. QED
      BY <1>1, <2>1 DEF PostJob
  <1>8. CASE Phase1 \/ Phase1Secrets
    BY <1>1, <1>2, <1>8 DEF Phase1, Phase1Secrets, PostJob
  <1>9. CASE SelfUpdate
    <2>1. CASE ControlOf[run.commit] = control
      <3>1. Elsewhere /\ unit # "delayed"
        BY <1>9, <2>1 DEF SelfUpdate
      <3>2. QED
        BY <1>1, <3>1
    <2>2. CASE ControlOf[run.commit] # control
      <3>1. run'.pc = "await offline"
        BY <1>2, <1>9, <2>2 DEF SelfUpdate
      <3>2. unit' # "switching" /\ runner' /\ runner
        BY <1>9, <2>2 DEF SelfUpdate, Barrier
      <3>3. QED
        BY <1>9, <3>1, <3>2 DEF SelfUpdate, Barrier, PostJob
    <2>3. QED
      BY <2>1, <2>2
  <1>10. CASE SeesOffline
    <2>1. unit # "delayed"
      BY <1>10 DEF SeesOffline, Barrier
    <2>2. QED
      BY <1>1, <1>10, <2>1 DEF SeesOffline
  <1>11. CASE MissesOffline
    BY <1>1, <1>11 DEF MissesOffline
  <1>12. CASE SeesOnline \/ VerifySelf \/ Phase2 \/ Phase3 \/ Phase4
    <2>1. run.pc \in PostJob \cup {"await online"} /\ Elsewhere
      BY <1>12 DEF SeesOnline, VerifySelf, Phase2, SwitchHosts, Phase3, Phase4, PostJob
    <2>2. QED
      BY <1>1, <2>1 DEF Barrier
  <1>13. CASE RunFails
    BY <1>1, <1>3, <1>13 DEF RunFails
  <1>14. CASE StopRunner
    BY <1>14 DEF StopRunner, Barrier
  <1>15. CASE Switch
    <2>1. unit' # "delayed" /\ unit' # "switching"
      BY <1>15 DEF Switch, SwitchActivates, SwitchStartsRunner, SwitchReturns, SwitchFails,
         StartRunner, UnitExits
    <2>2. unit' = "idle" => runner'
      BY <1>15 DEF Switch, SwitchActivates, SwitchStartsRunner, SwitchReturns, SwitchFails,
         StartRunner, UnitExits
    <2>3. QED
      BY <2>1, <2>2 DEF Barrier
  <1>16. ASSUME NEW h \in Host, NightlyUpgrade(h) PROVE Barrier'
    BY <1>1, <1>16 DEF NightlyUpgrade, Barrier
  <1>17. CASE NightlySelfUpgrade
    BY <1>1, <1>3, <1>17 DEF NightlySelfUpgrade, Barrier
  <1>18. CASE NightlyAnsible
    BY <1>1, <1>18 DEF NightlyAnsible, Barrier
  <1>19. CASE UNCHANGED vars
    BY <1>1, <1>19 DEF vars, Barrier
  <1>20. QED
    BY <1>4, <1>5, <1>7, <1>8, <1>9, <1>10, <1>11, <1>12, <1>13, <1>14, <1>15, <1>16,
       <1>17, <1>18, <1>19, NextCases DEF Deploy

\* The barrier of await-self-update.sh holds with failing switches, missed
\* polls, nightly pulls and deploys started by hand: while a job of deploy-post
\* runs, the unit is not in its delay, and not between stopping the runner and
\* activating what it switches to, though the runner may return before the switch
\* does.
THEOREM PostJobsOffSwitch == Spec => []PostOffSwitch
  <1>1. Init => Barrier
    BY DEF Init, Barrier
  <1>2. TypeOK /\ Barrier /\ [Next]_vars => Barrier'
    BY BarrierNext
  <1>3. TypeOK /\ Barrier => PostOffSwitch
    BY DEF TypeOK, Barrier, PostOffSwitch
  <1>4. QED
    BY <1>1, <1>2, <1>3, TypeCorrect, PTL DEF Spec

------------------------------------------------------------------------------
(* The gate lets through green commits only, and the fleet moves forward,   *)
(* where deploys are not started by hand and hosts do not pull main.        *)

\* No deploy, waiting or in progress, was started by hand.
NotByHand ==
    /\ pending # NoRun => pending.kind # "dispatch"
    /\ run # NoRun => run.req.kind # "dispatch"

LEMMA NotByHandQueue ==
  ASSUME NotByHand, NEW request, request.kind # "dispatch", Queue(request)
  PROVE  NotByHand'
  <1>1. Starting(request).req = request
    BY DEF Starting
  <1>2. QED
    BY <1>1 DEF Queue, NotByHand

\* A step that leaves the waiting run alone and keeps or ends the run in
\* progress, wherever it takes it.
KeepsRequest == pending' = pending /\ (run' = NoRun \/ (run # NoRun /\ run'.req = run.req))

LEMMA RunNotNone ==
  ASSUME TypeOK, run.pc # "none"
  PROVE  run # NoRun
  BY RunHere, NoRunIsNoRun

LEMMA DeployKeepsRequest ==
  ASSUME TypeOK, Deploy
  PROVE  KeepsRequest
  <1> USE DEF github, fleet, node, counters, KeepsRequest
  <1>1. ASSUME NEW pc, NEW phase, run.pc # "none", Goto(pc) \/ GotoSkipping(phase, pc)
        PROVE  run # NoRun /\ run'.req = run.req
    BY <1>1, RunHere, RunNotNone DEF Goto, GotoSkipping, Runs
  <1>2. CASE Gate
    BY <1>2, RunHere, RunNotNone DEF Gate, Runs
  <1>3. ASSUME NEW pc \in Phases, NEW selected, NEW next, SwitchHosts(pc, selected, next)
        PROVE  KeepsRequest
    BY <1>1, <1>3, RunHere, RunNotNone DEF SwitchHosts, Runs, Phases
  <1>4. CASE Phase0 \/ Phase2
    <2>1. "foundation" \in Phases /\ "systems" \in Phases
      BY DEF Phases
    <2>2. QED
      BY <1>3, <1>4, <2>1 DEF Phase0, Phase2
  <1>5. CASE Phase1 \/ Phase1Secrets
    BY <1>1, <1>5 DEF Phase1, Phase1Secrets
  <1>6. CASE SelfUpdate
    BY <1>1, <1>6 DEF SelfUpdate
  <1>7. CASE SeesOffline \/ MissesOffline \/ SeesOnline
    BY <1>1, <1>7 DEF SeesOffline, MissesOffline, SeesOnline
  <1>8. CASE VerifySelf \/ Phase3 \/ Phase4
    BY <1>1, <1>8 DEF VerifySelf, Phase3, Phase4
  <1>9. QED
    BY <1>2, <1>4, <1>5, <1>6, <1>7, <1>8 DEF Deploy

LEMMA NotByHandNext ==
  ASSUME MaxDispatch = 0, TypeOK, dispatches = 0, NotByHand, [Next]_vars
  PROVE  NotByHand' /\ dispatches' = 0
  <1> USE DEF github, fleet, node, counters
  <1>1. ASSUME KeepsRequest PROVE NotByHand'
    BY <1>1 DEF KeepsRequest, NotByHand
  <1>2. CASE Deploy
    BY <1>1, <1>2, DeployKeepsRequest
       DEF Deploy, Gate, Phase0, Phase1, Phase1Secrets, SelfUpdate, SeesOffline, MissesOffline,
           SeesOnline, VerifySelf, Phase2, Phase3, Phase4, SwitchHosts
  <1>3. ASSUME NEW c \in Commit, NEW w \in Workflow, NEW result \in {"success", "failure"},
               CICompletes(c, w, result)
        PROVE  NotByHand' /\ dispatches' = 0
    <2>1. \A kind \in {"ci", "foreign"} : Request(kind, c, w).kind # "dispatch"
      BY DEF Request
    <2>2. QED
      BY <1>3, <2>1, NotByHandQueue DEF CICompletes
  <1>4. ASSUME NEW c \in Commit, NEW w \in Workflow, CIRerun(c, w)
        PROVE  NotByHand' /\ dispatches' = 0
    BY <1>4 DEF CIRerun, NotByHand
  <1>5. CASE ForeignCICompletes
    <2>1. Request("foreign", Unknown, Unknown).kind # "dispatch"
      BY DEF Request
    <2>2. QED
      BY <1>5, <2>1, NotByHandQueue DEF ForeignCICompletes
  <1>6. ~Dispatch
    BY DEF Dispatch
  <1>7. CASE RunStarts
    <2>1. Starting(pending).req = pending
      BY DEF Starting
    <2>2. QED
      BY <1>7, <2>1 DEF RunStarts, NotByHand
  <1>8. CASE Push
    BY <1>8 DEF Push, NotByHand
  <1>9. CASE RunFails
    BY <1>9 DEF RunFails, NotByHand
  <1>10. CASE StopRunner
    BY <1>10 DEF StopRunner, NotByHand
  <1>11. CASE Switch
    BY <1>11, SwitchStays DEF NotByHand
  <1>12. ASSUME NEW h \in Host, NightlyUpgrade(h) PROVE NotByHand' /\ dispatches' = 0
    BY <1>12 DEF NightlyUpgrade, NotByHand
  <1>13. CASE NightlySelfUpgrade
    BY <1>13 DEF NightlySelfUpgrade, NotByHand
  <1>14. CASE NightlyAnsible
    BY <1>14 DEF NightlyAnsible, NotByHand
  <1>15. CASE UNCHANGED vars
    BY <1>15 DEF vars, NotByHand
  <1>16. QED
    BY <1>2, <1>3, <1>4, <1>5, <1>6, <1>7, <1>8, <1>9, <1>10, <1>11, <1>12, <1>13,
       <1>14, <1>15, NextCases DEF CI

LEMMA NotByHandInvariant ==
  ASSUME MaxDispatch = 0
  PROVE  Spec => [](NotByHand /\ dispatches = 0)
  <1>1. Init => NotByHand /\ dispatches = 0
    BY DEF Init, NotByHand
  <1>2. TypeOK /\ (NotByHand /\ dispatches = 0) /\ [Next]_vars => (NotByHand /\ dispatches = 0)'
    BY NotByHandNext
  <1>3. QED
    BY <1>1, <1>2, TypeCorrect, PTL DEF Spec

\* What a run that comes past the gate deploys is main's head, and green.
LEMMA GatePasses ==
  ASSUME TypeOK, NotByHand, Next, run.pc = "gate", run'.pc = "foundation"
  PROVE  Gate /\ run.commit = head /\ Green(run.commit) /\ run'.commit = run.commit
  <1> USE DEF github, fleet, node, counters
  <1>1. run \in Runs /\ run # NoRun
    BY RunHere, RunNotNone
  <1>2. CASE Gate
    BY <1>1, <1>2 DEF Gate, Owns, NotByHand, NoRun, Runs
  <1>3. ASSUME run' = run PROVE FALSE
    BY <1>3
  <1>4. ASSUME NEW request, Queue(request) PROVE run' = run
    BY <1>1, <1>4 DEF Queue
  <1>5. CASE Push \/ CI \/ ForeignCICompletes \/ Dispatch
    BY <1>3, <1>4, <1>5 DEF Push, CI, CICompletes, CIRerun, ForeignCICompletes, Dispatch
  <1>6. ~RunStarts /\ ~RunFails
    BY <1>1 DEF RunStarts, RunFails
  <1>7. CASE Deploy /\ ~Gate
    BY <1>7 DEF Deploy, Phase0, Phase1, Phase1Secrets, SelfUpdate, SeesOffline, MissesOffline,
                SeesOnline, VerifySelf, Phase2, Phase3, Phase4, SwitchHosts
  <1>8. CASE StopRunner
    BY <1>3, <1>8 DEF StopRunner, JobBegun
  <1>9. ~Switch
    BY <1>3, SwitchStays
  <1>10. CASE (\E h \in Host : NightlyUpgrade(h)) \/ NightlySelfUpgrade \/ NightlyAnsible
    BY <1>3, <1>10 DEF NightlyUpgrade, NightlySelfUpgrade, NightlyAnsible, JobBegun
  <1>11. QED
    BY <1>2, <1>5, <1>6, <1>7, <1>8, <1>9, <1>10, NextCases

\* "A broken commit never deploys": with any number of commits, workflows,
\* re-runs, foreign runs, nightly pulls and failures, a run passes the gate only
\* with every workflow of its commit succeeded, if no deploy is started by hand.
THEOREM OnlyGreen ==
  ASSUME MaxDispatch = 0
  PROVE  Spec => GreenOnly
  <1>1. TypeOK /\ NotByHand /\ [Next]_vars
          => [run.pc = "gate" /\ run'.pc = "foundation" => Green(run.commit)]_vars
    BY GatePasses
  <1>2. QED
    BY <1>1, TypeCorrect, NotByHandInvariant, PTL DEF Spec, GreenOnly

\* Everything on the fleet is at commit c or an older one.
Within(c) == (\A h \in Host : gen[h] <= c) /\ substrate <= c /\ config <= c

\* The fleet is nowhere ahead of main, nor of the deploy that is under way.
Forward ==
    /\ Within(head)
    /\ run.pc \in Phases => run.commit <= head /\ Within(run.commit)

\* What a step may write on the fleet: the commit of the deploy under way.
Writes ==
    /\ \A h \in Host : gen'[h] = gen[h] \/ (run.pc \in Phases /\ gen'[h] = run.commit)
    /\ substrate' = substrate \/ (run.pc \in Phases /\ substrate' = run.commit)
    /\ config' = config \/ (run.pc \in Phases /\ config' = run.commit)

\* A deploy under way after a step was under way before it.
Carries == run'.pc \in Phases => run.pc \in Phases /\ run'.commit = run.commit

LEMMA DeployWrites ==
  ASSUME TypeOK, Deploy
  PROVE  Writes /\ head' = head /\ nightlies' = nightlies /\ (Carries \/ Gate)
  <1> USE DEF github, fleet, node, counters
  <1>1. NoRun.pc \notin Phases
    BY DEF NoRun, Phases
  <1>2. ASSUME NEW pc, NEW phase, run.pc # "none", Goto(pc) \/ GotoSkipping(phase, pc)
        PROVE  run'.commit = run.commit
    BY <1>2, RunHere DEF Goto, GotoSkipping, Runs
  <1>3. CASE Gate
    BY <1>3 DEF Gate, Writes
  <1>4. ASSUME NEW pc \in Phases, NEW selected, NEW next, SwitchHosts(pc, selected, next)
        PROVE  Writes /\ head' = head /\ nightlies' = nightlies /\ Carries
    <2>1. run \in Runs /\ run.pc \in Phases /\ run.pc # "none"
      BY <1>4, RunHere DEF SwitchHosts, Phases
    <2>2. run'.commit = run.commit
      BY <1>2, <1>4, <2>1 DEF SwitchHosts, Runs
    <2>3. \A h \in Host : gen'[h] \in {gen[h], run.commit}
      BY <1>4 DEF SwitchHosts, TypeOK
    <2>4. QED
      BY <1>4, <2>1, <2>2, <2>3 DEF SwitchHosts, Writes, Carries
  <1>5. CASE Phase0 \/ Phase2
    <2>1. "foundation" \in Phases /\ "systems" \in Phases
      BY DEF Phases
    <2>2. QED
      BY <1>4, <1>5, <2>1 DEF Phase0, Phase2
  <1>6. CASE Phase1 \/ Phase3
    BY <1>2, <1>6 DEF Phase1, Phase3, Writes, Carries, Phases
  <1>7. CASE Phase1Secrets \/ SeesOffline \/ MissesOffline \/ SeesOnline
    BY <1>2, <1>7 DEF Phase1Secrets, SeesOffline, MissesOffline, SeesOnline, Writes, Carries, Phases
  <1>8. CASE SelfUpdate
    BY <1>2, <1>8 DEF SelfUpdate, Writes, Carries, Phases
  <1>9. CASE VerifySelf \/ Phase4
    BY <1>1, <1>2, <1>9 DEF VerifySelf, Phase4, Writes, Carries, Phases
  <1>10. QED
    BY <1>3, <1>5, <1>6, <1>7, <1>8, <1>9 DEF Deploy

\* Without nightly pulls only a deploy writes on the fleet, and only the gate
\* puts one under way.
LEMMA NextWrites ==
  ASSUME MaxNightly = 0, TypeOK, nightlies = 0, [Next]_vars
  PROVE  Writes /\ head' >= head /\ nightlies' = 0 /\ (Carries \/ Gate)
  <1> USE DEF github, fleet, node, counters
  <1>1. NoRun.pc \notin Phases /\ "gate" \notin Phases
    BY DEF NoRun, Phases
  <1>2. head \in Nat /\ head' = head => head' >= head
    OBVIOUS
  <1>3. head \in Nat
    BY DEF TypeOK
  <1>4. CASE Deploy
    BY <1>2, <1>3, <1>4, DeployWrites
  <1>5. ASSUME NEW request, Queue(request) PROVE Carries
    <2>1. Starting(request).pc = "gate"
      BY DEF Starting
    <2>2. QED
      BY <1>1, <1>5, <2>1 DEF Queue, Carries
  <1>6. CASE CI \/ ForeignCICompletes \/ Dispatch
    BY <1>2, <1>3, <1>5, <1>6 DEF CI, CICompletes, CIRerun, ForeignCICompletes, Dispatch,
                                  Writes, Carries
  <1>7. CASE RunStarts
    <2>1. Starting(pending).pc = "gate"
      BY DEF Starting
    <2>2. QED
      BY <1>1, <1>2, <1>3, <1>7, <2>1 DEF RunStarts, Writes, Carries
  <1>8. CASE Push
    BY <1>3, <1>8 DEF Push, Writes, Carries
  <1>9. CASE RunFails \/ StopRunner
    BY <1>1, <1>2, <1>3, <1>9 DEF RunFails, StopRunner, Writes, Carries
  <1>10. ASSUME Switch
         PROVE  Writes /\ head' = head /\ nightlies' = nightlies /\ Carries
    BY <1>10, SwitchStays DEF Writes, Carries
  <1>11. ~(\E h \in Host : NightlyUpgrade(h)) /\ ~NightlySelfUpgrade /\ ~NightlyAnsible
    BY DEF NightlyUpgrade, NightlySelfUpgrade, NightlyAnsible
  <1>12. CASE UNCHANGED vars
    BY <1>2, <1>3, <1>12 DEF vars, Writes, Carries
  <1>13. QED
    BY <1>2, <1>3, <1>4, <1>6, <1>7, <1>8, <1>9, <1>10, <1>11, <1>12, NextCases

LEMMA ForwardNext ==
  ASSUME MaxNightly = 0, TypeOK, TypeOK', NotByHand, nightlies = 0, Forward, [Next]_vars
  PROVE  Forward'
  <1>1. Writes /\ head' >= head /\ (Carries \/ Gate)
    BY NextWrites
  <1>2. \A pc : pc \in Phases => pc # "none"
    BY DEF Phases
  <1>3. head \in Nat /\ head' \in Nat /\ substrate \in Nat /\ config \in Nat
        /\ (\A h \in Host : gen[h] \in Nat)
    BY BoundsAssumption DEF TypeOK
  <1>4. run.pc \in Phases => run.commit \in Nat
    BY <1>2, RunHere, BoundsAssumption DEF Runs
  <1>5. Within(head)'
    BY <1>1, <1>3, <1>4 DEF Forward, Within, Writes
  <1>6. ASSUME Carries, run'.pc \in Phases
        PROVE  (run.commit <= head /\ Within(run.commit))'
    BY <1>1, <1>3, <1>4, <1>6 DEF Forward, Within, Writes, Carries
  <1>7. ASSUME Gate, run'.pc \in Phases
        PROVE  (run.commit <= head /\ Within(run.commit))'
    <2>1. run'.pc = "foundation" /\ run.pc = "gate"
      <3>1. run.pc = "gate"
        BY <1>7 DEF Gate
      <3>2. run \in Runs
        BY <3>1, RunHere
      <3>3. run' # NoRun
        <4>1. NoRun.pc \notin Phases
          BY DEF NoRun, Phases
        <4>2. QED
          BY <1>7, <4>1
      <3>4. [run EXCEPT !.pc = "foundation"].pc = "foundation"
        BY <3>2 DEF Runs
      <3>5. QED
        BY <1>7, <3>1, <3>3, <3>4 DEF Gate
    <2>2. Next
      BY <1>7 DEF Next, Deploy
    <2>3. run'.commit = head
      BY <2>1, <2>2, GatePasses
    <2>4. UNCHANGED fleet /\ head' = head
      BY <1>7 DEF Gate, github
    <2>5. QED
      BY <1>3, <2>3, <2>4 DEF Forward, Within, fleet
  <1>8. QED
    BY <1>5, <1>6, <1>7, <1>1 DEF Forward

\* "Can never roll the fleet backwards": with any number of commits, workflows,
\* re-runs, foreign runs and failures, no step takes a host, the substrate or
\* the configuration to an older commit, if no deploy is started by hand and no
\* host pulls main at night.
THEOREM NeverBackwards ==
  ASSUME MaxDispatch = 0, MaxNightly = 0
  PROVE  Spec => NoDowngrade
  <1>1. Init => Forward /\ nightlies = 0
    BY FleetAssumption DEF Init, Forward, Within, NoRun, Phases
  <1>2. TypeOK /\ TypeOK' /\ NotByHand /\ (Forward /\ nightlies = 0) /\ [Next]_vars
          => (Forward /\ nightlies = 0)'
    BY ForwardNext, NextWrites
  <1>3. ASSUME TypeOK, Forward, nightlies = 0, [Next]_vars
        PROVE  [/\ \A h \in Host : gen'[h] >= gen[h]
                /\ substrate' >= substrate /\ config' >= config]_vars
    <2>1. Writes
      BY <1>3, NextWrites
    <2>2. substrate \in Nat /\ config \in Nat /\ \A h \in Host : gen[h] \in Nat
      BY <1>3, BoundsAssumption DEF TypeOK
    <2>3. QED
      BY <1>3, <2>1, <2>2 DEF Writes, Forward, Within
  <1>4. QED
    BY <1>1, <1>2, <1>3, TypeCorrect, NotByHandInvariant, PTL DEF Spec, NoDowngrade

------------------------------------------------------------------------------
(* Phases build on each other, where hosts and the control node do not pull  *)
(* main at night.                                                            *)

\* What a walk over the hosts has behind it.
Switched(selected) == \A j \in 1 .. run.at - 1 : Order[j] \in selected => gen[Order[j]] = run.commit

\* A phase that may skip has applied the run's commit, or is recorded to have skipped.
AppliedOrSkipped(phase, applied) == applied = run.commit \/ phase \in run.skips

\* What each phase has behind it.
Walked ==
    /\ run.pc = "gate" => run.at = 1
    /\ run.pc = "foundation" => Switched(Foundation)
    /\ run.pc \in Phases \ {"foundation"} => \A h \in Foundation : gen[h] = run.commit
    /\ run.pc \in Phases \ {"foundation", "ansible"} => AppliedOrSkipped("ansible", substrate)
    /\ run.pc = "systems" => Switched(Host \ Foundation)
    /\ run.pc \in {"tofu", "verify"} => \A h \in Host : gen[h] = run.commit
    /\ run.pc = "verify" => AppliedOrSkipped("tofu", config)
    /\ run.pc \in {"systems", "tofu", "verify"} =>
         unit \notin {"delayed", "switching"} /\ control = ControlOf[run.commit]

WalkInv == TypeOK /\ Barrier /\ Walked

\* Nothing moves on the fleet, and the run, if it is not the same, is over or new.
WalkStays ==
    /\ UNCHANGED <<gen, substrate, config>>
    /\ \/ run' = run /\ UNCHANGED <<control, unit>>
       \/ run' = run /\ run.pc \notin {"systems", "tofu", "verify"}
       \/ run' = run /\ unit' \notin {"delayed", "switching"} /\ UNCHANGED control
       \/ run' = NoRun
       \/ run'.pc = "gate" /\ run'.at = 1

LEMMA WalkElsewhere == ASSUME Walked, WalkStays PROVE Walked'
  <1>1. NoRun.pc = "none" /\ "none" \notin Phases /\ "gate" \notin Phases
    BY DEF NoRun, Phases
  <1>2. CASE run' = run
    BY <1>1, <1>2 DEF Walked, WalkStays, Switched, AppliedOrSkipped
  <1>3. CASE run' = NoRun \/ (run'.pc = "gate" /\ run'.at = 1)
    <2>1. run'.pc \notin Phases /\ (run'.pc = "gate" => run'.at = 1)
      BY <1>1, <1>3
    <2>2. run'.pc \notin {"foundation", "systems", "tofu", "verify"}
      BY <2>1 DEF Phases
    <2>3. QED
      BY <2>1, <2>2 DEF Walked
  <1>4. QED
    BY <1>2, <1>3 DEF WalkStays

LEMMA StartWalk ==
  ASSUME NEW request, Queue(request)
  PROVE  run' = run \/ (run'.pc = "gate" /\ run'.at = 1)
  BY DEF Queue, Starting

\* A phase that is over hands the run to the next.
LEMMA NextPhase ==
  ASSUME TypeOK, run.pc # "none", NEW pc, Goto(pc)
  PROVE  /\ run'.pc = pc /\ run'.at = 1
         /\ run'.commit = run.commit /\ run'.skips = run.skips
  BY RunHere DEF Goto, Runs

LEMMA NextPhaseSkipping ==
  ASSUME TypeOK, run.pc # "none", NEW pc, NEW phase, GotoSkipping(phase, pc)
  PROVE  /\ run'.pc = pc /\ run'.at = 1 /\ run'.commit = run.commit
         /\ run'.skips = run.skips \cup {phase}
  BY RunHere DEF GotoSkipping, Runs

\* Every host has its place in the list.
LEMMA HostPlace == \A h \in Host : \E j \in 1 .. Len(Order) : Order[j] = h
  <1>1. DOMAIN Order = 1 .. Len(Order)
    BY FleetAssumption
  <1>2. QED
    BY <1>1 DEF Host

\* A step of a walk switches the host it is at, if that is selected.
LEMMA WalkStep ==
  ASSUME TypeOK, NEW pc \in Phases, NEW selected, NEW next \in Phases,
         SwitchHosts(pc, selected, next), Switched(selected)
  PROVE  /\ run \in Runs /\ run.pc = pc
         /\ run'.commit = run.commit /\ run'.skips = run.skips
         /\ \/ /\ run'.pc = pc /\ Switched(selected)'
               /\ \A h \in Host : gen'[h] = gen[h] \/ gen'[h] = run.commit
            \/ /\ run'.pc = next /\ run'.at = 1 /\ UNCHANGED gen
               /\ \A h \in Host \cap selected : gen[h] = run.commit
         /\ UNCHANGED <<substrate, config, control, unit>>
  <1> USE DEF node
  <1>1. run \in Runs /\ run.pc # "none" /\ run.pc = pc
    BY RunHere DEF SwitchHosts, Phases
  <1>2. run.at \in 1 .. Len(Order) + 1 /\ Len(Order) \in Nat /\ gen \in [Host -> 0 .. MaxCommit]
    BY <1>1, Places DEF Runs, TypeOK
  <1>3. CASE run.at > Len(Order)
    <2>1. Goto(next) /\ UNCHANGED gen
      BY <1>3 DEF SwitchHosts
    <2>2. \A h \in Host \cap selected : gen[h] = run.commit
      <3> SUFFICES ASSUME NEW h \in Host, h \in selected PROVE gen[h] = run.commit
        OBVIOUS
      <3>1. PICK j \in 1 .. Len(Order) : Order[j] = h
        BY HostPlace
      <3>2. j \in 1 .. run.at - 1
        BY <1>2, <1>3
      <3>3. QED
        BY <3>1, <3>2 DEF Switched
    <2>3. QED
      BY <1>1, <2>1, <2>2, NextPhase DEF SwitchHosts
  <1>4. CASE ~(run.at > Len(Order))
    <2>1. /\ run' = [run EXCEPT !.at = @ + 1]
          /\ gen' = IF Order[run.at] \in selected
                    THEN [gen EXCEPT ![Order[run.at]] = run.commit] ELSE gen
      BY <1>4 DEF SwitchHosts
    <2>2. /\ run'.pc = pc /\ run'.at = run.at + 1
          /\ run'.commit = run.commit /\ run'.skips = run.skips
      BY <1>1, <2>1 DEF Runs
    <2>3. Order[run.at] \in Host
      BY <1>2, <1>4, Places
    <2>4. /\ Order[run.at] \in selected => gen'[Order[run.at]] = run.commit
          /\ \A h \in Host : gen'[h] = gen[h] \/ gen'[h] = run.commit
          /\ \A h \in Host : gen[h] = run.commit => gen'[h] = run.commit
      BY <1>2, <2>1, <2>3
    <2>5. Switched(selected)'
      <3> SUFFICES ASSUME NEW j \in 1 .. run.at, Order[j] \in selected
                   PROVE  gen'[Order[j]] = run.commit
        BY <1>2, <2>2 DEF Switched
      <3>1. Order[j] \in Host
        BY <1>2, <1>4, Places
      <3>2. CASE j = run.at
        BY <2>4, <3>2
      <3>3. CASE j # run.at
        BY <1>2, <2>4, <3>1, <3>3 DEF Switched
      <3>4. QED
        BY <3>2, <3>3
    <2>6. QED
      BY <1>1, <2>2, <2>4, <2>5 DEF SwitchHosts
  <1>5. QED
    BY <1>3, <1>4

\* The steps of the deploy run build up what its phase has behind it.
LEMMA DeployWalks ==
  ASSUME WalkInv, Deploy
  PROVE  Walked'
  <1> USE DEF fleet, node, github
  <1>0. TypeOK /\ Barrier /\ Walked
    BY DEF WalkInv
  <1>1. Foundation \subseteq Host
    BY FleetAssumption
  <1>2. CASE Gate
    <2>1. run \in Runs /\ run.pc = "gate"
      BY <1>0, <1>2, RunHere DEF Gate
    <2>2. CASE run' = NoRun
      BY <1>0, <1>2, <2>2, WalkElsewhere DEF Gate, WalkStays
    <2>3. CASE run' = [run EXCEPT !.pc = "foundation"]
      <3>1. run'.pc = "foundation" /\ run'.at = 1
        BY <1>0, <2>1, <2>3 DEF Runs, Walked
      <3>2. Switched(Foundation)'
        BY <3>1 DEF Switched
      <3>3. QED
        BY <3>1, <3>2 DEF Walked
    <2>4. QED
      BY <1>2, <2>2, <2>3 DEF Gate
  <1>3. CASE Phase0
    <2>1. run.pc = "foundation" /\ "foundation" \in Phases /\ "ansible" \in Phases
      BY <1>3 DEF Phase0, SwitchHosts, Phases
    <2>2. SwitchHosts("foundation", Foundation, "ansible") /\ Switched(Foundation)
      BY <1>0, <1>3, <2>1 DEF Phase0, Walked
    <2>3. \/ run'.pc = "foundation" /\ Switched(Foundation)'
          \/ run'.pc = "ansible" /\ \A h \in Foundation : gen'[h] = run'.commit
      BY <1>0, <1>1, <2>1, <2>2, WalkStep
    <2>4. QED
      BY <2>3 DEF Walked
  <1>4. CASE Phase1
    <2>1. /\ run'.pc = "secrets" /\ run'.commit = run.commit /\ gen' = gen /\ run.pc = "ansible"
          /\ substrate' = run.commit \/ "ansible" \in run'.skips
      BY <1>0, <1>4, NextPhase, NextPhaseSkipping DEF Phase1
    <2>2. \A h \in Foundation : gen'[h] = run'.commit
      BY <1>0, <2>1 DEF Walked, Phases
    <2>3. QED
      BY <2>1, <2>2 DEF Walked, AppliedOrSkipped
  <1>5. CASE Phase1Secrets \/ SelfUpdate \/ SeesOffline \/ MissesOffline \/ SeesOnline
    <2>1. /\ run.pc \in Phases \ {"foundation", "ansible"}
          /\ run'.commit = run.commit /\ run'.skips = run.skips
          /\ run'.pc \in {"selfupdate", "await offline", "await online", "verify self"}
          /\ UNCHANGED <<gen, substrate>>
      BY <1>0, <1>5, NextPhase
         DEF Phase1Secrets, SelfUpdate, SeesOffline, MissesOffline, SeesOnline, Phases
    <2>2. /\ \A h \in Foundation : gen'[h] = run'.commit
          /\ substrate' = run'.commit \/ "ansible" \in run'.skips
      BY <1>0, <2>1 DEF Walked, AppliedOrSkipped
    <2>3. QED
      BY <2>1, <2>2 DEF Walked, AppliedOrSkipped
  <1>6. CASE VerifySelf
    <2>1. CASE run' = NoRun
      BY <1>0, <1>6, <2>1, WalkElsewhere DEF VerifySelf, WalkStays
    <2>2. CASE run' # NoRun
      <3>1. /\ run.pc = "verify self" /\ run'.pc = "systems" /\ run'.at = 1
            /\ run'.commit = run.commit /\ run'.skips = run.skips
            /\ UNCHANGED <<gen, substrate, control, unit>> /\ runner /\ control = ControlOf[run.commit]
        BY <1>0, <1>6, <2>2, NextPhase DEF VerifySelf
      <3>2. unit \notin {"delayed", "switching"}
        BY <1>0, <3>1 DEF Barrier, PostJob
      <3>3. /\ \A h \in Foundation : gen'[h] = run'.commit
            /\ substrate' = run'.commit \/ "ansible" \in run'.skips
        BY <1>0, <3>1 DEF Walked, Phases, AppliedOrSkipped
      <3>4. Switched(Host \ Foundation)'
        <4>1. run'.at = 1
          BY <3>1, Zenon
        <4>2. QED
          BY <4>1 DEF Switched
      <3>5. QED
        BY <3>1, <3>2, <3>3, <3>4 DEF Walked, AppliedOrSkipped
    <2>3. QED
      BY <2>1, <2>2
  <1>7. CASE Phase2
    <2>1. run.pc = "systems" /\ "systems" \in Phases \ {"foundation", "ansible"} /\ "tofu" \in Phases
      BY <1>7 DEF Phase2, SwitchHosts, Phases
    <2>2. /\ SwitchHosts("systems", Host \ Foundation, "tofu") /\ Switched(Host \ Foundation)
          /\ substrate = run.commit \/ "ansible" \in run.skips
          /\ unit \notin {"delayed", "switching"} /\ control = ControlOf[run.commit]
          /\ \A h \in Foundation : gen[h] = run.commit
      BY <1>0, <1>7, <2>1 DEF Phase2, Walked, AppliedOrSkipped
    <2>3. /\ run'.commit = run.commit /\ run'.skips = run.skips
          /\ UNCHANGED <<substrate, control, unit>>
          /\ \A h \in Host : gen'[h] = gen[h] \/ gen'[h] = run.commit
          /\ \/ run'.pc = "systems" /\ Switched(Host \ Foundation)'
             \/ run'.pc = "tofu" /\ UNCHANGED gen /\ \A h \in Host \ Foundation : gen[h] = run.commit
      BY <1>0, <2>1, <2>2, WalkStep
    <2>4. \A h \in Foundation : gen'[h] = run'.commit
      BY <1>1, <2>2, <2>3
    <2>5. run'.pc = "tofu" => \A h \in Host : gen'[h] = run'.commit
      BY <2>3, <2>4
    <2>6. run'.pc # "systems" \/ Switched(Host \ Foundation)'
      BY <2>3
    <2>7. QED
      BY <2>2, <2>3, <2>4, <2>5, <2>6 DEF Walked, AppliedOrSkipped
  <1>8. CASE Phase3
    <2>1. /\ run.pc = "tofu" /\ run'.pc = "verify" /\ run'.commit = run.commit
          /\ run.skips \subseteq run'.skips /\ (config' = run.commit \/ "tofu" \in run'.skips)
          /\ UNCHANGED <<gen, substrate, control, unit>>
      BY <1>0, <1>8, NextPhase, NextPhaseSkipping DEF Phase3
    <2>2. /\ substrate = run.commit \/ "ansible" \in run.skips
          /\ unit \notin {"delayed", "switching"} /\ control = ControlOf[run.commit]
          /\ \A h \in Host : gen[h] = run.commit
      BY <1>0, <2>1 DEF Walked, Phases, AppliedOrSkipped
    <2>3. QED
      BY <1>1, <2>1, <2>2 DEF Walked, AppliedOrSkipped
  <1>9. CASE Phase4
    BY <1>0, <1>9, WalkElsewhere DEF Phase4, WalkStays
  <1>10. QED
    BY <1>2, <1>3, <1>4, <1>5, <1>6, <1>7, <1>8, <1>9 DEF Deploy

LEMMA WalkNext ==
  ASSUME MaxNightly = 0, WalkInv, nightlies = 0, [Next]_vars
  PROVE  Walked'
  <1> USE DEF github, fleet, node, counters, WalkStays
  <1>0. TypeOK /\ Barrier /\ Walked
    BY DEF WalkInv
  <1>1. CASE Deploy
    BY <1>1, DeployWalks
  <1>2. CASE Push \/ CI \/ ForeignCICompletes \/ Dispatch
    BY <1>0, <1>2, StartWalk, WalkElsewhere DEF Push, CI, CICompletes, CIRerun, ForeignCICompletes, Dispatch
  <1>3. CASE RunStarts
    BY <1>0, <1>3, WalkElsewhere DEF RunStarts, Starting
  <1>4. CASE RunFails
    BY <1>0, <1>4, WalkElsewhere DEF RunFails
  <1>5. CASE StopRunner
    BY <1>0, <1>5, WalkElsewhere DEF StopRunner, JobBegun
  <1>6. CASE Switch
    <2>1. unit' \notin {"delayed", "switching"}
      BY <1>6 DEF Switch, SwitchActivates, SwitchStartsRunner, SwitchReturns, SwitchFails,
         StartRunner, UnitExits
    <2>2. UNCHANGED control \/ unit = "switching"
      BY <1>6 DEF Switch, SwitchActivates, SwitchStartsRunner, SwitchReturns, SwitchFails,
         StartRunner, UnitExits
    <2>3. unit = "switching" => run.pc \notin {"systems", "tofu", "verify"}
      BY <1>0 DEF Walked
    <2>4. QED
      BY <1>0, <1>6, <2>1, <2>2, <2>3, SwitchStays, WalkElsewhere
  <1>7. ~(\E h \in Host : NightlyUpgrade(h)) /\ ~NightlySelfUpgrade /\ ~NightlyAnsible
    BY DEF NightlyUpgrade, NightlySelfUpgrade, NightlyAnsible
  <1>8. CASE UNCHANGED vars
    BY <1>0, <1>8, WalkElsewhere DEF vars
  <1>9. QED
    BY <1>1, <1>2, <1>3, <1>4, <1>5, <1>6, <1>7, <1>8, NextCases

LEMMA WalkInvariant ==
  ASSUME MaxNightly = 0
  PROVE  Spec => [](WalkInv /\ nightlies = 0)
  <1>1. Init => WalkInv /\ nightlies = 0
    BY TypeInit DEF Init, WalkInv, Barrier, Walked, NoRun, Phases
  <1>2. ASSUME WalkInv, nightlies = 0, [Next]_vars
        PROVE  (WalkInv /\ nightlies = 0)'
    BY <1>2, TypeNext, BarrierNext, WalkNext, NextWrites DEF WalkInv
  <1>3. QED
    BY <1>1, <1>2, PTL DEF Spec

\* A deploy that comes to its end leaves every host, the substrate, the
\* configuration and the control node at its commit, but for what the scripts of
\* the substrate and the configuration skipped with success: nothing between its
\* phases, the switch of the control node included, undoes what one of them did.
\* Without nightly pulls, which may have moved any of them on.
THEOREM FinishConverges ==
  ASSUME MaxNightly = 0
  PROVE  Spec => FinishedMeansConverged
  <1>1. WalkInv => (run.pc = "verify" =>
                      /\ \A h \in Host : gen[h] = run.commit
                      /\ substrate = run.commit \/ "ansible" \in run.skips
                      /\ config = run.commit \/ "tofu" \in run.skips
                      /\ control = ControlOf[run.commit])
    BY DEF WalkInv, Walked, Phases, AppliedOrSkipped
  <1>2. QED
    BY <1>1, WalkInvariant, PTL DEF FinishedMeansConverged

\* ORDER is load-bearing: a deploy switches a host only after the hosts before it,
\* and a system only after the foundation and the substrate it did not skip.  Without
\* nightly pulls, which keep to no order.
THEOREM InOrder ==
  ASSUME MaxNightly = 0
  PROVE  Spec => DependenciesFirst
  <1> DEFINE Depends ==
        \A i \in DOMAIN Order :
           LET h == Order[i] IN
           gen'[h] # gen[h] /\ run # NoRun /\ gen'[h] = run.commit =>
               /\ \A j \in 1 .. i - 1 :
                    (Order[j] \in Foundation \/ h \notin Foundation) => gen[Order[j]] >= run.commit
               /\ h \notin Foundation => substrate >= run.commit \/ "ansible" \in run.skips
  <1>1. ASSUME NEW pc \in Phases, NEW selected, NEW next \in Phases, TypeOK,
               SwitchHosts(pc, selected, next), Switched(selected),
               NEW i \in DOMAIN Order, gen'[Order[i]] # gen[Order[i]]
        PROVE  /\ Order[i] \in selected /\ run \in Runs
               /\ \A j \in 1 .. i - 1 : Order[j] \in selected => gen[Order[j]] = run.commit
    <2>1. run \in Runs /\ gen' # gen /\ gen \in [Host -> 0 .. MaxCommit]
      BY <1>1, RunHere DEF SwitchHosts, Phases, TypeOK
    <2>2. /\ ~(run.at > Len(Order)) /\ Order[run.at] \in selected
          /\ gen' = [gen EXCEPT ![Order[run.at]] = run.commit]
      BY <1>1, <2>1 DEF SwitchHosts
    <2>3. run.at \in DOMAIN Order /\ DOMAIN Order = 1 .. Len(Order) /\ Order[i] \in Host
      BY <2>1, <2>2, Places, FleetAssumption DEF Runs
    <2>4. Order[i] = Order[run.at]
      BY <1>1, <2>1, <2>2, <2>3
    <2>5. i = run.at
      BY <2>3, <2>4, FleetAssumption
    <2>6. QED
      BY <1>1, <2>1, <2>2, <2>5 DEF Switched
  <1>2. ASSUME WalkInv, nightlies = 0, [Next]_vars PROVE [Depends]_vars
    <2> SUFFICES ASSUME NEW i \in DOMAIN Order, gen'[Order[i]] # gen[Order[i]], run # NoRun
                 PROVE  /\ \A j \in 1 .. i - 1 :
                             (Order[j] \in Foundation \/ Order[i] \notin Foundation)
                                => gen[Order[j]] >= run.commit
                        /\ Order[i] \notin Foundation =>
                             substrate >= run.commit \/ "ansible" \in run.skips
      BY Zenon
    <2>0. TypeOK /\ Walked /\ Len(Order) \in Nat /\ DOMAIN Order = 1 .. Len(Order)
      BY <1>2, Places, FleetAssumption DEF WalkInv
    <2>1. Phase0 \/ Phase2
      <3>1. gen' # gen
        OBVIOUS
      <3>2. CASE Deploy
        BY <3>1, <3>2 DEF Deploy, Gate, Phase1, Phase1Secrets, SelfUpdate, SeesOffline, MissesOffline,
           SeesOnline, VerifySelf, Phase3, Phase4, fleet
      <3>3. CASE Push \/ CI \/ ForeignCICompletes \/ Dispatch \/ RunStarts \/ RunFails
        BY <3>1, <3>3 DEF Push, CI, CICompletes, CIRerun, ForeignCICompletes, Dispatch, RunStarts,
           RunFails, fleet
      <3>4. CASE StopRunner \/ Switch
        BY <3>1, <3>4, SwitchStays DEF StopRunner, fleet
      <3>5. ~(\E h \in Host : NightlyUpgrade(h)) /\ ~NightlySelfUpgrade /\ ~NightlyAnsible
        BY <1>2 DEF NightlyUpgrade, NightlySelfUpgrade, NightlyAnsible
      <3>6. ~UNCHANGED vars
        BY <3>1 DEF vars
      <3>7. QED
        BY <1>2, <3>2, <3>3, <3>4, <3>5, <3>6, NextCases
    <2>2. {"foundation", "ansible", "systems", "tofu"} \subseteq Phases
      BY DEF Phases
    <2>3. run \in Runs => run.commit \in Nat
      BY BoundsAssumption DEF Runs
    <2>4. CASE Phase0
      <3>1. SwitchHosts("foundation", Foundation, "ansible") /\ Switched(Foundation)
        BY <2>0, <2>4 DEF Phase0, SwitchHosts, Walked
      <3>2. /\ Order[i] \in Foundation /\ run \in Runs
            /\ \A j \in 1 .. i - 1 : Order[j] \in Foundation => gen[Order[j]] = run.commit
        BY <1>1, <2>0, <2>2, <3>1
      <3>3. QED
        BY <2>3, <3>2
    <2>5. CASE Phase2
      <3>1. /\ SwitchHosts("systems", Host \ Foundation, "tofu") /\ Switched(Host \ Foundation)
            /\ substrate = run.commit \/ "ansible" \in run.skips
            /\ \A h \in Foundation : gen[h] = run.commit
        BY <2>0, <2>5 DEF Phase2, SwitchHosts, Walked, Phases, AppliedOrSkipped
      <3>2. /\ Order[i] \in Host \ Foundation /\ run \in Runs
            /\ \A j \in 1 .. i - 1 : Order[j] \in Host \ Foundation => gen[Order[j]] = run.commit
        BY <1>1, <2>0, <2>2, <3>1
      <3>3. \A j \in 1 .. i - 1 : Order[j] \in Host
        BY <2>0 DEF Host
      <3>4. QED
        BY <2>3, <3>1, <3>2, <3>3
    <2>6. QED
      BY <2>1, <2>4, <2>5
  <1>3. QED
    BY <1>2, WalkInvariant, PTL DEF Spec, DependenciesFirst

------------------------------------------------------------------------------
(* No commit is deployed twice, but for re-runs and deploys started by hand. *)
(* A completed CI run asks for a deploy that passes the gate only while that *)
(* run is the last to have completed, so what has passed, what waits to pass *)
(* and what a running workflow may still ask for are paid for by the first   *)
(* time the commit's CI runs, by re-runs and by dispatches.                  *)

\* The deploy run at the gate, and the one waiting, for workflow w of commit c.
AtGate(c, w) ==
    run.pc = "gate" /\ run.req.kind = "ci" /\ run.commit = c /\ run.req.workflow = w
Waits(c, w) ==
    pending # NoRun /\ pending.kind = "ci" /\ pending.commit = c /\ pending.workflow = w
Asked(c, w) == AtGate(c, w) \/ Waits(c, w)

\* Deploys of c started by hand that are not past the gate.
HandAtGate(c) == IF run.pc = "gate" /\ run.req.kind = "dispatch" /\ run.commit = c THEN 1 ELSE 0
HandWaits(c) ==
    IF pending # NoRun /\ pending.kind = "dispatch" /\ pending.commit = c THEN 1 ELSE 0
Used(c) == attempts[c] + HandAtGate(c) + HandWaits(c)

\* n more deploys of c would be paid for.
Spare(c, n) == Used(c) + n <= 1 + reruns + dispatches

Budget ==
    /\ reruns \in Nat /\ dispatches \in Nat
    /\ \A c \in Commit : Spare(c, 0)
    /\ \A c \in Commit, w \in Workflow :
         /\ ci[c][w] = "running" => Spare(c, 1)
         /\ Asked(c, w) => Spare(c, 1)
         /\ Asked(c, w) /\ ci[c][w] = "running" => Spare(c, 2)
         /\ Waits(c, w) => last[c] = w
         /\ AtGate(c, w) /\ last[c] = w /\ Waits(c, w) => Spare(c, 2)

\* Nothing is known of a commit before it is pushed, and a completed run has a name.
Unpushed ==
    /\ \A c \in Commit : c > head => attempts[c] = 0 /\ \A w \in Workflow : ci[c][w] = "none"
    /\ pending # NoRun =>
         pending.commit <= head /\ (pending.kind = "ci" => pending.workflow \in Workflow)
    /\ run # NoRun =>
         /\ run.commit <= head /\ run.commit = run.req.commit
         /\ run.req.kind = "ci" => run.req.workflow \in Workflow

OnceInv == TypeOK /\ Budget /\ Unpushed

LEMMA OnceInit == Init => OnceInv
  <1> SUFFICES ASSUME Init PROVE OnceInv
    OBVIOUS
  <1>1. NoRun.pc # "gate"
    BY DEF NoRun
  <1>2. \A c : HandAtGate(c) = 0 /\ HandWaits(c) = 0
    BY <1>1 DEF Init, HandAtGate, HandWaits
  <1>3. \A c \in Commit : Used(c) = 0
    BY <1>2 DEF Init, Used
  <1>4. \A c, w : ~Asked(c, w) /\ ~AtGate(c, w) /\ ~Waits(c, w)
    BY <1>1 DEF Init, Asked, AtGate, Waits
  <1>5. \A c \in Commit, w \in Workflow : ci[c][w] = "none" /\ attempts[c] = 0
    BY DEF Init
  <1>6. Budget
    BY <1>3, <1>4, <1>5 DEF Init, Budget, Spare
  <1>7. Unpushed
    BY <1>5 DEF Init, Unpushed
  <1>8. QED
    BY <1>6, <1>7, TypeInit DEF OnceInv

\* A request for a deploy of c after a completed run of w.
IsFor(request, c, w) == request.kind = "ci" /\ request.commit = c /\ request.workflow = w

LEMMA HandTypes == \A c : HandAtGate(c) \in 0 .. 1 /\ HandWaits(c) \in 0 .. 1
  BY DEF HandAtGate, HandWaits

LEMMA UsedTypes == ASSUME TypeOK PROVE \A c \in Commit : Used(c) \in Nat
  BY HandTypes DEF Used, TypeOK

\* Who is asked for after a request has joined the group.
LEMMA QueueAsks ==
  ASSUME OnceInv, NEW request \in Requests, Queue(request), NEW c, NEW w
  PROVE  /\ AtGate(c, w)' => AtGate(c, w) \/ (IsFor(request, c, w) /\ pending' = NoRun)
         /\ Waits(c, w)' => IsFor(request, c, w)
         /\ HandAtGate(c)' + HandWaits(c)'
              <= HandAtGate(c) + HandWaits(c)
                   + (IF request.kind = "dispatch" /\ request.commit = c THEN 1 ELSE 0)
  <1>1. CASE run' = Starting(request) /\ UNCHANGED pending /\ pending = NoRun
    <2>1. /\ Starting(request).pc = "gate" /\ Starting(request).req = request
          /\ Starting(request).commit = request.commit
      BY DEF Starting
    <2>2. HandWaits(c)' = 0 /\ ~Waits(c, w)'
      BY <1>1 DEF HandWaits, Waits
    <2>3. HandAtGate(c)' = IF request.kind = "dispatch" /\ request.commit = c THEN 1 ELSE 0
      BY <1>1, <2>1 DEF HandAtGate
    <2>4. AtGate(c, w)' => IsFor(request, c, w)
      BY <1>1, <2>1 DEF AtGate, IsFor
    <2>5. QED
      BY <1>1, <2>2, <2>3, <2>4, HandTypes
  <1>2. CASE pending' = request /\ UNCHANGED run
    <2>1. HandAtGate(c)' = HandAtGate(c) /\ (AtGate(c, w)' => AtGate(c, w))
      BY <1>2 DEF HandAtGate, AtGate
    <2>2. request # NoRun
      BY NoRunIsNoRun
    <2>3. HandWaits(c)' = IF request.kind = "dispatch" /\ request.commit = c THEN 1 ELSE 0
      BY <1>2, <2>2 DEF HandWaits
    <2>4. Waits(c, w)' => IsFor(request, c, w)
      BY <1>2 DEF Waits, IsFor
    <2>5. QED
      BY <2>1, <2>3, <2>4, HandTypes
  <1>3. QED
    BY <1>1, <1>2 DEF Queue

\* The commit of a request that joins the group is pushed.
LEMMA UnpushedQueue ==
  ASSUME OnceInv, NEW request \in Requests, request.commit <= head, Queue(request),
         request.kind = "ci" => request.workflow \in Workflow, UNCHANGED <<head, attempts>>,
         \A c \in Commit : c > head => \A w \in Workflow : ci'[c][w] = "none"
  PROVE  Unpushed'
  <1>1. Starting(request).commit = request.commit /\ Starting(request).req = request
    BY DEF Starting
  <1>2. QED
    BY <1>1 DEF Queue, OnceInv, Unpushed

LEMMA HandTypesNext == \A c : HandAtGate(c)' \in 0 .. 1 /\ HandWaits(c)' \in 0 .. 1
  BY DEF HandAtGate, HandWaits

\* The counters are compared once; the actions say by how much they differ.
LEMMA SpareMoves ==
  ASSUME OnceInv, reruns' \in Nat, dispatches' \in Nat, NEW c \in Commit, attempts'[c] \in Nat,
         NEW n \in 0 .. 2, NEW m \in 0 .. 2, Spare(c, n),
         attempts'[c] + HandAtGate(c)' + HandWaits(c)' + m + reruns + dispatches
           <= attempts[c] + HandAtGate(c) + HandWaits(c) + n + reruns' + dispatches'
  PROVE  Spare(c, m)'
  <1>1. attempts[c] \in Nat /\ reruns \in Nat /\ dispatches \in Nat
    BY DEF OnceInv, TypeOK, Budget
  <1>2. HandAtGate(c) \in 0 .. 1 /\ HandWaits(c) \in 0 .. 1
    BY HandTypes
  <1>3. HandAtGate(c)' \in 0 .. 1 /\ HandWaits(c)' \in 0 .. 1
    BY HandTypesNext
  <1>4. attempts[c] + HandAtGate(c) + HandWaits(c) + n <= 1 + reruns + dispatches
    BY DEF Spare, Used
  <1>5. attempts'[c] + HandAtGate(c)' + HandWaits(c)' + m <= 1 + reruns' + dispatches'
    BY <1>1, <1>2, <1>3, <1>4
  <1>6. QED
    BY <1>5 DEF Spare, Used

\* Nobody new asks, and nobody passes.
LEMMA BudgetStays ==
  ASSUME OnceInv, UNCHANGED <<attempts, reruns, dispatches, ci, last, pending>>,
         run' = run \/ run'.pc # "gate"
  PROVE  Budget'
  <1>1. \A c, w : (AtGate(c, w)' => AtGate(c, w)) /\ (Waits(c, w)' <=> Waits(c, w))
    BY DEF AtGate, Waits
  <1>2. \A c, w : Asked(c, w)' => Asked(c, w)
    BY <1>1 DEF Asked
  <1>3. \A c : HandAtGate(c)' <= HandAtGate(c) /\ HandWaits(c)' = HandWaits(c)
    BY HandTypes DEF HandAtGate, HandWaits
  <1>4. \A c \in Commit : attempts[c] \in Nat
    BY DEF OnceInv, TypeOK
  <1>5. reruns \in Nat /\ dispatches \in Nat
    BY DEF OnceInv, Budget
  <1>6. ASSUME NEW c \in Commit, NEW n \in 0 .. 2, Spare(c, n)
        PROVE  Spare(c, n)'
    <2>1. /\ HandAtGate(c) \in 0 .. 1 /\ HandWaits(c) \in 0 .. 1
          /\ HandAtGate(c)' \in 0 .. 1 /\ HandWaits(c)' \in 0 .. 1
      BY HandTypes, HandTypesNext
    <2>2. attempts'[c] + HandAtGate(c)' + HandWaits(c)' + n + reruns + dispatches
            <= attempts[c] + HandAtGate(c) + HandWaits(c) + n + reruns' + dispatches'
      BY <1>3, <1>4, <1>5, <2>1
    <2>3. QED
      BY <1>4, <1>5, <1>6, <2>2, SpareMoves
  <1>7. ASSUME NEW c \in Commit, NEW w \in Workflow
        PROVE  /\ ci'[c][w] = "running" => Spare(c, 1)'
               /\ Asked(c, w)' => Spare(c, 1)'
               /\ Asked(c, w)' /\ ci'[c][w] = "running" => Spare(c, 2)'
               /\ Waits(c, w)' => last'[c] = w
               /\ AtGate(c, w)' /\ last'[c] = w /\ Waits(c, w)' => Spare(c, 2)'
    BY <1>1, <1>2, <1>6 DEF OnceInv, Budget
  <1>8. (reruns \in Nat /\ dispatches \in Nat)' /\ \A c \in Commit : Spare(c, 0)'
    BY <1>6 DEF OnceInv, Budget
  <1>9. QED
    BY <1>7, <1>8 DEF Budget

\* A step after which nobody asks who did not, but for the counters.
LEMMA BudgetKept ==
  ASSUME OnceInv, reruns' \in Nat, dispatches' \in Nat, UNCHANGED <<ci, last>>,
         \A c \in Commit : attempts'[c] \in Nat,
         \A c \in Commit :
           attempts'[c] + HandAtGate(c)' + HandWaits(c)' + reruns + dispatches
             <= attempts[c] + HandAtGate(c) + HandWaits(c) + reruns' + dispatches',
         \A c \in Commit, w \in Workflow :
           (Asked(c, w)' => Asked(c, w)) /\ (Waits(c, w)' => Waits(c, w))
             /\ (AtGate(c, w)' /\ Waits(c, w)' => AtGate(c, w))
  PROVE  Budget'
  <1>1. reruns \in Nat /\ dispatches \in Nat /\ \A c \in Commit : attempts[c] \in Nat
    BY DEF OnceInv, Budget, TypeOK
  <1>2. ASSUME NEW c \in Commit, NEW n \in 0 .. 2, Spare(c, n)
        PROVE  Spare(c, n)'
    <2>1. /\ HandAtGate(c) \in 0 .. 1 /\ HandWaits(c) \in 0 .. 1
          /\ HandAtGate(c)' \in 0 .. 1 /\ HandWaits(c)' \in 0 .. 1
      BY HandTypes, HandTypesNext
    <2>2. attempts[c] \in Nat /\ attempts'[c] \in Nat
      BY <1>1
    <2>3. attempts'[c] + HandAtGate(c)' + HandWaits(c)' + reruns + dispatches
             <= attempts[c] + HandAtGate(c) + HandWaits(c) + reruns' + dispatches'
      OBVIOUS
    <2>4. attempts'[c] + HandAtGate(c)' + HandWaits(c)' + n + reruns + dispatches
            <= attempts[c] + HandAtGate(c) + HandWaits(c) + n + reruns' + dispatches'
      BY <1>1, <2>1, <2>2, <2>3
    <2>5. QED
      BY <1>1, <1>2, <2>2, <2>4, SpareMoves
  <1>3. ASSUME NEW c \in Commit, NEW w \in Workflow
        PROVE  /\ ci'[c][w] = "running" => Spare(c, 1)'
               /\ Asked(c, w)' => Spare(c, 1)'
               /\ Asked(c, w)' /\ ci'[c][w] = "running" => Spare(c, 2)'
               /\ Waits(c, w)' => last'[c] = w
               /\ AtGate(c, w)' /\ last'[c] = w /\ Waits(c, w)' => Spare(c, 2)'
    BY <1>2 DEF OnceInv, Budget
  <1>4. (reruns \in Nat /\ dispatches \in Nat)' /\ \A c \in Commit : Spare(c, 0)'
    BY <1>2 DEF OnceInv, Budget
  <1>5. QED
    BY <1>3, <1>4 DEF Budget

LEMMA BudgetRunStarts == ASSUME OnceInv, RunStarts PROVE Budget'
  <1>1. /\ Starting(pending).pc = "gate" /\ Starting(pending).req = pending
        /\ Starting(pending).commit = pending.commit
    BY DEF Starting
  <1>2. NoRun.pc # "gate"
    BY DEF NoRun
  <1>3. \A c, w : (AtGate(c, w)' <=> Waits(c, w)) /\ ~AtGate(c, w) /\ ~Waits(c, w)'
    BY <1>1, <1>2 DEF RunStarts, AtGate, Waits
  <1>4. \A c : /\ HandAtGate(c)' = HandWaits(c) /\ HandAtGate(c) = 0 /\ HandWaits(c)' = 0
    BY <1>1, <1>2 DEF RunStarts, HandAtGate, HandWaits
  <1>5. reruns \in Nat /\ dispatches \in Nat /\ \A c \in Commit : attempts[c] \in Nat
    BY DEF OnceInv, Budget, TypeOK
  <1>6. UNCHANGED <<ci, last, attempts, reruns, dispatches>>
    BY DEF RunStarts, github, counters
  <1>7. \A c \in Commit :
           attempts'[c] + HandAtGate(c)' + HandWaits(c)' + reruns + dispatches
             <= attempts[c] + HandAtGate(c) + HandWaits(c) + reruns' + dispatches'
    BY <1>4, <1>5, <1>6, HandTypes
  <1>8. \A c \in Commit, w \in Workflow :
           (Asked(c, w)' => Asked(c, w)) /\ (Waits(c, w)' => Waits(c, w))
             /\ (AtGate(c, w)' /\ Waits(c, w)' => AtGate(c, w))
    BY <1>3 DEF Asked
  <1>9. QED
    BY <1>5, <1>6, <1>7, <1>8, BudgetKept

\* A request that no completed run made joins the group; a dispatch pays for itself.
LEMMA BudgetQueue ==
  ASSUME OnceInv, NEW request \in Requests, request.kind # "ci", Queue(request),
         UNCHANGED <<ci, last, attempts, reruns>>, dispatches' \in Nat,
         dispatches' = IF request.kind = "dispatch" THEN dispatches + 1 ELSE dispatches
  PROVE  Budget'
  <1>1. \A c, w : ~IsFor(request, c, w)
    BY DEF IsFor
  <1>2. \A c, w : (AtGate(c, w)' => AtGate(c, w)) /\ ~Waits(c, w)'
    BY <1>1, QueueAsks
  <1>3. \A c \in Commit, w \in Workflow :
           (Asked(c, w)' => Asked(c, w)) /\ (Waits(c, w)' => Waits(c, w))
             /\ (AtGate(c, w)' /\ Waits(c, w)' => AtGate(c, w))
    BY <1>2 DEF Asked
  <1>4. reruns \in Nat /\ dispatches \in Nat /\ \A c \in Commit : attempts[c] \in Nat
    BY DEF OnceInv, Budget, TypeOK
  <1>5. ASSUME NEW c \in Commit
        PROVE  attempts'[c] + HandAtGate(c)' + HandWaits(c)' + reruns + dispatches
                 <= attempts[c] + HandAtGate(c) + HandWaits(c) + reruns' + dispatches'
    <2>1. HandAtGate(c)' + HandWaits(c)'
              <= HandAtGate(c) + HandWaits(c)
                   + (IF request.kind = "dispatch" /\ request.commit = c THEN 1 ELSE 0)
      BY QueueAsks
    <2>2. /\ HandAtGate(c) \in 0 .. 1 /\ HandWaits(c) \in 0 .. 1
          /\ HandAtGate(c)' \in 0 .. 1 /\ HandWaits(c)' \in 0 .. 1
      BY HandTypes, HandTypesNext
    <2>3. HandAtGate(c)' + HandWaits(c)' + dispatches
            <= HandAtGate(c) + HandWaits(c) + dispatches'
      BY <1>4, <2>1, <2>2
    <2>4. QED
      BY <1>4, <2>2, <2>3
  <1>6. QED
    BY <1>3, <1>4, <1>5, BudgetKept

LEMMA BudgetRerun ==
  ASSUME OnceInv, NEW c0 \in Commit, NEW w0 \in Workflow, CIRerun(c0, w0)
  PROVE  Budget'
  <1>1. reruns \in Nat /\ dispatches \in Nat /\ \A c \in Commit : attempts[c] \in Nat
    BY DEF OnceInv, Budget, TypeOK
  <1>2. /\ reruns' = reruns + 1 /\ UNCHANGED <<last, pending, run, attempts, dispatches>>
    BY DEF CIRerun
  <1>3. ASSUME NEW c \in Commit, NEW n \in 0 .. 1, Spare(c, n)
        PROVE  Spare(c, n)' /\ Spare(c, n + 1)'
    <2>1. HandAtGate(c)' = HandAtGate(c) /\ HandWaits(c)' = HandWaits(c)
      BY <1>2 DEF HandAtGate, HandWaits
    <2>2. HandAtGate(c) \in 0 .. 1 /\ HandWaits(c) \in 0 .. 1
      BY HandTypes
    <2>3. attempts'[c] = attempts[c] /\ attempts[c] \in Nat
      BY <1>1, <1>2
    <2>4. ASSUME NEW m \in 0 .. 2, m <= n + 1
          PROVE  Spare(c, m)'
      <3>1. attempts'[c] + HandAtGate(c)' + HandWaits(c)' + m + reruns + dispatches
              <= attempts[c] + HandAtGate(c) + HandWaits(c) + n + reruns' + dispatches'
        BY <1>1, <1>2, <2>1, <2>2, <2>3, <2>4
      <3>2. QED
        BY <1>1, <1>2, <1>3, <2>3, <3>1, SpareMoves
    <2>5. QED
      BY <2>4
  <1>4. \A c, w : (AtGate(c, w)' <=> AtGate(c, w)) /\ (Waits(c, w)' <=> Waits(c, w))
    BY <1>2 DEF AtGate, Waits
  <1>5. \A c, w : Asked(c, w)' <=> Asked(c, w)
    BY <1>4 DEF Asked
  <1>6. \A c \in Commit : Spare(c, 0)' /\ Spare(c, 1)'
    BY <1>3 DEF OnceInv, Budget
  <1>7. \A c \in Commit, w \in Workflow : Asked(c, w)' => Spare(c, 2)'
    BY <1>3, <1>5 DEF OnceInv, Budget
  <1>8. \A c \in Commit, w \in Workflow : Waits(c, w)' => last'[c] = w
    BY <1>2, <1>4 DEF OnceInv, Budget
  <1>9. \A c \in Commit, w \in Workflow : AtGate(c, w)' => Asked(c, w)'
    BY DEF Asked
  <1>10. QED
    BY <1>1, <1>2, <1>6, <1>7, <1>8, <1>9 DEF Budget

LEMMA BudgetCompletes ==
  ASSUME OnceInv, NEW c0 \in Commit, NEW w0 \in Workflow, NEW result \in {"success", "failure"},
         CICompletes(c0, w0, result)
  PROVE  Budget'
  <1> DEFINE request == Request(IF result = "success" THEN "ci" ELSE "foreign", c0, w0)
  <1>1. request \in Requests /\ request.kind # "dispatch"
    BY DEF Request, Requests, Commit
  <1>2. \A c, w : IsFor(request, c, w) => c = c0 /\ w = w0
    BY DEF IsFor, Request
  <1>3. Queue(request)
    BY DEF CICompletes
  <1>4. /\ ci[c0][w0] = "running" /\ ci' = [ci EXCEPT ![c0][w0] = result]
        /\ last' = [last EXCEPT ![c0] = w0] /\ UNCHANGED <<attempts, reruns, dispatches>>
    BY DEF CICompletes, counters
  <1> HIDE DEF request
  <1>5. reruns \in Nat /\ dispatches \in Nat /\ \A c \in Commit : attempts[c] \in Nat
    BY DEF OnceInv, Budget, TypeOK
  <1>6. ASSUME NEW c \in Commit, NEW n \in 0 .. 2, Spare(c, n)
        PROVE  Spare(c, n)'
    <2>1. HandAtGate(c)' + HandWaits(c)' <= HandAtGate(c) + HandWaits(c) + 0
      BY <1>1, <1>3, QueueAsks
    <2>2. /\ HandAtGate(c) \in 0 .. 1 /\ HandWaits(c) \in 0 .. 1
          /\ HandAtGate(c)' \in 0 .. 1 /\ HandWaits(c)' \in 0 .. 1
      BY HandTypes, HandTypesNext
    <2>3. attempts'[c] = attempts[c] /\ attempts[c] \in Nat
      BY <1>4, <1>5
    <2>4. attempts'[c] + HandAtGate(c)' + HandWaits(c)' + n + reruns + dispatches
            <= attempts[c] + HandAtGate(c) + HandWaits(c) + n + reruns' + dispatches'
      BY <1>4, <1>5, <2>1, <2>2, <2>3
    <2>5. QED
      BY <1>4, <1>5, <1>6, <2>3, <2>4, SpareMoves
  <1>7. ASSUME NEW c \in Commit, NEW w \in Workflow
        PROVE  /\ ci'[c][w] = "running" => ci[c][w] = "running" /\ ~(c = c0 /\ w = w0)
               /\ last'[c0] = w0
    BY <1>4 DEF OnceInv, TypeOK
  <1>8. \A c, w : /\ AtGate(c, w)' => AtGate(c, w) \/ (c = c0 /\ w = w0 /\ pending' = NoRun)
                  /\ Waits(c, w)' => c = c0 /\ w = w0
                  /\ Waits(c, w)' => pending' # NoRun
    BY <1>1, <1>2, <1>3, QueueAsks DEF Waits
  <1>9. ASSUME NEW c \in Commit, NEW w \in Workflow
        PROVE  /\ ci'[c][w] = "running" => Spare(c, 1)'
               /\ Asked(c, w)' => Spare(c, 1)'
               /\ Asked(c, w)' /\ ci'[c][w] = "running" => Spare(c, 2)'
               /\ Waits(c, w)' => last'[c] = w
               /\ AtGate(c, w)' /\ last'[c] = w /\ Waits(c, w)' => Spare(c, 2)'
    <2>1. ci'[c][w] = "running" => Spare(c, 1)'
      BY <1>6, <1>7 DEF OnceInv, Budget
    <2>2. Asked(c, w)' => Asked(c, w) \/ (c = c0 /\ w = w0)
      BY <1>8 DEF Asked
    <2>3. Asked(c, w)' => Spare(c, 1)'
      BY <1>4, <1>6, <2>2 DEF OnceInv, Budget
    <2>4. Asked(c, w)' /\ ci'[c][w] = "running" => Spare(c, 2)'
      BY <1>6, <1>7, <2>2 DEF OnceInv, Budget
    <2>5. Waits(c, w)' => last'[c] = w
      BY <1>7, <1>8
    <2>6. AtGate(c, w)' /\ Waits(c, w)' => Asked(c, w) /\ ci[c][w] = "running"
      BY <1>4, <1>8 DEF Asked
    <2>7. AtGate(c, w)' /\ last'[c] = w /\ Waits(c, w)' => Spare(c, 2)'
      BY <1>6, <2>6 DEF OnceInv, Budget
    <2>8. QED
      BY <2>1, <2>3, <2>4, <2>5, <2>7
  <1>10. (reruns \in Nat /\ dispatches \in Nat)' /\ \A c \in Commit : Spare(c, 0)'
    BY <1>4, <1>5, <1>6 DEF OnceInv, Budget
  <1>11. QED
    BY <1>9, <1>10 DEF Budget

\* A deploy started by hand that passes was counted when it was asked for.
LEMMA BudgetGateHand ==
  ASSUME OnceInv, run # NoRun, run.pc = "gate", run.req.kind = "dispatch", run'.pc # "gate",
         attempts' = [attempts EXCEPT ![run.commit] = @ + 1],
         UNCHANGED <<ci, last, pending, reruns, dispatches>>
  PROVE  Budget'
  <1>1. reruns \in Nat /\ dispatches \in Nat /\ \A c \in Commit : attempts[c] \in Nat
    BY DEF OnceInv, Budget, TypeOK
  <1>2. \A c, w : ~AtGate(c, w)' /\ (Waits(c, w)' <=> Waits(c, w))
    BY DEF AtGate, Waits
  <1>3. ASSUME NEW c \in Commit
        PROVE  /\ attempts'[c] \in Nat
               /\ attempts'[c] + HandAtGate(c)' + HandWaits(c)' + reruns + dispatches
                    <= attempts[c] + HandAtGate(c) + HandWaits(c) + reruns' + dispatches'
    <2>1. attempts'[c] = IF c = run.commit THEN attempts[c] + 1 ELSE attempts[c]
      BY DEF OnceInv, TypeOK
    <2>2. HandAtGate(c)' = 0 /\ HandAtGate(c) = IF c = run.commit THEN 1 ELSE 0
      BY DEF HandAtGate
    <2>3. HandWaits(c)' = HandWaits(c) /\ HandWaits(c) \in 0 .. 1
      BY HandTypes DEF HandWaits
    <2>4. QED
      BY <1>1, <2>1, <2>2, <2>3
  <1>4. \A c \in Commit, w \in Workflow :
           (Asked(c, w)' => Asked(c, w)) /\ (Waits(c, w)' => Waits(c, w))
             /\ (AtGate(c, w)' /\ Waits(c, w)' => AtGate(c, w))
    BY <1>2 DEF Asked
  <1>5. QED
    BY <1>1, <1>3, <1>4, BudgetKept

\* One asked for by CI owns its commit: no workflow of it is running, and whoever
\* else waits for it is the same workflow, paid for twice.
LEMMA BudgetGateOwned ==
  ASSUME OnceInv, run # NoRun, run.pc = "gate", run.req.kind = "ci", Owns(run.commit),
         run'.pc # "gate", attempts' = [attempts EXCEPT ![run.commit] = @ + 1],
         UNCHANGED <<ci, last, pending, reruns, dispatches>>
  PROVE  Budget'
  <1> DEFINE c1 == run.commit
             w1 == run.req.workflow
  <1>1. reruns \in Nat /\ dispatches \in Nat /\ \A c \in Commit : attempts[c] \in Nat
    BY DEF OnceInv, Budget, TypeOK
  <1>2. /\ c1 \in Commit /\ last[c1] = w1 /\ w1 \in Workflow
        /\ \A w \in Workflow : ci[c1][w] = "success"
    BY DEF Owns, Green, OnceInv, Unpushed
  <1>3. AtGate(c1, w1) /\ Asked(c1, w1)
    BY DEF AtGate, Asked
  <1>4. \A c, w : ~AtGate(c, w)' /\ (Waits(c, w)' <=> Waits(c, w)) /\ (Asked(c, w)' => Waits(c, w))
    BY DEF AtGate, Waits, Asked
  <1>5. ASSUME NEW c \in Commit
        PROVE  /\ HandAtGate(c)' = 0 /\ HandAtGate(c) = 0
               /\ HandWaits(c)' = HandWaits(c) /\ HandWaits(c) \in 0 .. 1
               /\ attempts'[c] = IF c = c1 THEN attempts[c] + 1 ELSE attempts[c]
    BY HandTypes DEF HandAtGate, HandWaits, OnceInv, TypeOK
  <1>6. ASSUME NEW c \in Commit, NEW n \in 0 .. 2, NEW m \in 0 .. 2, Spare(c, n),
               m <= (IF c = c1 THEN n - 1 ELSE n)
        PROVE  Spare(c, m)'
    <2>1. attempts[c] \in Nat /\ attempts'[c] \in Nat
      BY <1>1, <1>5
    <2>2. attempts'[c] + HandAtGate(c)' + HandWaits(c)' + m + reruns + dispatches
            <= attempts[c] + HandAtGate(c) + HandWaits(c) + n + reruns' + dispatches'
      BY <1>1, <1>5, <1>6, <2>1
    <2>3. QED
      BY <1>1, <1>6, <2>1, <2>2, SpareMoves
  <1>7. Spare(c1, 1) /\ \A w \in Workflow : Waits(c1, w) => Spare(c1, 2)
    <2>1. \A w \in Workflow : Waits(c1, w) => w = w1
      BY <1>2 DEF OnceInv, Budget
    <2>2. QED
      BY <1>2, <1>3, <2>1 DEF OnceInv, Budget
  <1> HIDE DEF c1, w1
  <1>8. ASSUME NEW c \in Commit
        PROVE  Spare(c, 0)'
    <2>1. CASE c = c1
      BY <1>6, <1>7, <2>1
    <2>2. CASE c # c1
      BY <1>6, <2>2 DEF OnceInv, Budget
    <2>3. QED
      BY <2>1, <2>2
  <1>9. ASSUME NEW c \in Commit, NEW w \in Workflow
        PROVE  /\ ci'[c][w] = "running" => Spare(c, 1)'
               /\ Asked(c, w)' => Spare(c, 1)'
               /\ Asked(c, w)' /\ ci'[c][w] = "running" => Spare(c, 2)'
               /\ Waits(c, w)' => last'[c] = w
    <2>1. CASE c = c1
      <3>1. ci'[c][w] # "running"
        BY <1>2, <2>1
      <3>2. Asked(c, w)' => Spare(c, 1)'
        BY <1>4, <1>6, <1>7, <2>1
      <3>3. Waits(c, w)' => last'[c] = w
        BY <1>4 DEF OnceInv, Budget
      <3>4. QED
        BY <3>1, <3>2, <3>3
    <2>2. CASE c # c1
      <3>1. \A n \in 0 .. 2 : Spare(c, n) => Spare(c, n)'
        BY <1>6, <2>2
      <3>2. Asked(c, w)' => Asked(c, w)
        BY <1>4 DEF Asked
      <3>3. QED
        BY <1>4, <3>1, <3>2 DEF OnceInv, Budget
    <2>3. QED
      BY <2>1, <2>2
  <1>10. QED
    BY <1>1, <1>4, <1>8, <1>9 DEF Budget

LEMMA BudgetGate == ASSUME OnceInv, Gate PROVE Budget'
  <1>1. NoRun.pc # "gate"
    BY DEF NoRun
  <1>2. run # NoRun /\ run.pc = "gate"
    BY <1>1 DEF Gate
  <1>3. UNCHANGED <<ci, last, pending, reruns, dispatches>>
    BY DEF Gate, github, counters
  <1>4. CASE run' = NoRun /\ UNCHANGED attempts
    BY <1>1, <1>3, <1>4, BudgetStays
  <1>5. CASE /\ run' = [run EXCEPT !.pc = "foundation"]
             /\ attempts' = [attempts EXCEPT ![run.commit] = @ + 1]
             /\ run.req.kind # "foreign"
             /\ run.req.kind = "dispatch" \/ Owns(run.commit)
    <2>1. run'.pc # "gate"
      BY <1>2, <1>5 DEF OnceInv, TypeOK, Runs
    <2>2. run.req.kind \in {"ci", "foreign", "dispatch"}
      BY <1>2 DEF OnceInv, TypeOK, Runs, Requests
    <2>3. QED
      BY <1>2, <1>3, <1>5, <2>1, <2>2, BudgetGateHand, BudgetGateOwned
  <1>6. QED
    BY <1>4, <1>5 DEF Gate

LEMMA BudgetPush == ASSUME OnceInv, Push PROVE Budget'
  <1>1. reruns \in Nat /\ dispatches \in Nat /\ \A c \in Commit : attempts[c] \in Nat
    BY DEF OnceInv, Budget, TypeOK
  <1>2. /\ head \in Nat /\ head' = head + 1 /\ head' \in Commit
        /\ ci' = [ci EXCEPT ![head'] = [w \in Workflow |-> "running"]]
        /\ UNCHANGED <<last, pending, run, attempts, reruns, dispatches>>
    BY BoundsAssumption DEF Push, counters, OnceInv, TypeOK, Commit
  <1>3. \A c, w : /\ AtGate(c, w)' <=> AtGate(c, w)
                  /\ Waits(c, w)' <=> Waits(c, w)
                  /\ Asked(c, w)' <=> Asked(c, w)
    BY <1>2 DEF AtGate, Waits, Asked
  <1>4. \A c \in Commit, n \in 0 .. 2 : Spare(c, n)' <=> Spare(c, n)
    BY <1>2 DEF Spare, Used, HandAtGate, HandWaits
  <1>5. ASSUME NEW c \in Commit, NEW w \in Workflow
        PROVE  /\ ci'[c][w] = "running" => Spare(c, 1)'
               /\ Asked(c, w)' => Spare(c, 1)'
               /\ Asked(c, w)' /\ ci'[c][w] = "running" => Spare(c, 2)'
               /\ Waits(c, w)' => last'[c] = w
               /\ AtGate(c, w)' /\ last'[c] = w /\ Waits(c, w)' => Spare(c, 2)'
    <2>1. CASE c = head'
      <3>1. c > head
        BY <1>2, <2>1
      <3>2. /\ pending # NoRun => pending.commit # c
            /\ run # NoRun => run.commit # c
        BY <1>2, <3>1 DEF OnceInv, Unpushed, TypeOK, Requests, Runs
      <3>3. NoRun.pc # "gate"
        BY DEF NoRun
      <3>4. ~AtGate(c, w) /\ ~Waits(c, w) /\ HandAtGate(c) = 0 /\ HandWaits(c) = 0
        BY <3>2, <3>3 DEF AtGate, Waits, HandAtGate, HandWaits
      <3>5. attempts[c] = 0
        BY <3>1 DEF OnceInv, Unpushed
      <3>6. Spare(c, 1)
        BY <1>1, <3>4, <3>5 DEF Spare, Used
      <3>7. QED
        BY <1>3, <1>4, <3>4, <3>6 DEF Asked
    <2>2. CASE c # head'
      <3>1. ci'[c][w] = ci[c][w] /\ last'[c] = last[c]
        BY <1>2, <2>2
      <3>2. QED
        BY <1>3, <1>4, <3>1 DEF OnceInv, Budget
    <2>3. QED
      BY <2>1, <2>2
  <1>6. \A c \in Commit : Spare(c, 0)'
    BY <1>4 DEF OnceInv, Budget
  <1>7. QED
    BY <1>1, <1>2, <1>5, <1>6 DEF Budget

\* The steps of a deploy after the gate, and its end.
Walks ==
    /\ UNCHANGED <<head, ci, last, pending, attempts, reruns, dispatches>>
    /\ \/ run' = NoRun
       \/ /\ run # NoRun /\ run'.pc # "gate"
          /\ run'.commit = run.commit /\ run'.req = run.req

LEMMA DeployIsWalk ==
  ASSUME TypeOK, Deploy
  PROVE  Gate \/ Walks
  <1> USE DEF github, fleet, node, counters, Walks
  <1>1. ASSUME NEW pc \in Phases, NEW phase, run.pc # "none",
               Goto(pc) \/ GotoSkipping(phase, pc)
        PROVE  /\ run # NoRun /\ run'.pc # "gate"
               /\ run'.commit = run.commit /\ run'.req = run.req
    BY <1>1, RunHere, RunNotNone DEF Goto, GotoSkipping, Runs, Phases
  <1>2. /\ {"secrets", "ansible", "selfupdate", "verify self", "systems", "verify", "tofu"} \subseteq Phases
        /\ {"await offline", "await online", "foundation"} \subseteq Phases
    BY DEF Phases
  <1>3. ASSUME NEW pc \in Phases, NEW selected, NEW next \in Phases, SwitchHosts(pc, selected, next)
        PROVE  Walks
    <2>1. run.pc = pc /\ pc # "none" /\ pc # "gate"
      BY <1>3 DEF SwitchHosts, Phases
    <2>2. CASE Goto(next)
      BY <1>1, <1>3, <2>1, <2>2 DEF SwitchHosts
    <2>3. CASE run' = [run EXCEPT !.at = @ + 1]
      BY <1>3, <2>1, <2>3, RunHere, RunNotNone DEF SwitchHosts, Runs
    <2>4. QED
      BY <1>3, <2>2, <2>3 DEF SwitchHosts
  <1>4. CASE Phase0 \/ Phase2
    BY <1>2, <1>3, <1>4 DEF Phase0, Phase2
  <1>5. CASE Phase1 \/ Phase1Secrets
    BY <1>1, <1>2, <1>5 DEF Phase1, Phase1Secrets
  <1>6. CASE SelfUpdate
    BY <1>1, <1>2, <1>6 DEF SelfUpdate
  <1>7. CASE SeesOffline \/ MissesOffline \/ SeesOnline
    BY <1>1, <1>2, <1>7 DEF SeesOffline, MissesOffline, SeesOnline
  <1>8. CASE VerifySelf \/ Phase3 \/ Phase4
    BY <1>1, <1>2, <1>8 DEF VerifySelf, Phase3, Phase4
  <1>9. QED
    BY <1>4, <1>5, <1>6, <1>7, <1>8 DEF Deploy

LEMMA WalksKeepOnce == ASSUME OnceInv, Walks PROVE Budget' /\ Unpushed'
  <1>1. NoRun.pc # "gate"
    BY DEF NoRun
  <1>2. Budget'
    BY <1>1, BudgetStays DEF Walks
  <1>3. Unpushed'
    BY DEF Walks, OnceInv, Unpushed
  <1>4. QED
    BY <1>2, <1>3

LEMMA UnpushedGate == ASSUME OnceInv, Gate PROVE Unpushed'
  <1>1. NoRun.pc # "gate"
    BY DEF NoRun
  <1>2. run # NoRun /\ run.pc = "gate" /\ run \in Runs
    BY <1>1 DEF Gate, OnceInv, TypeOK
  <1>3. UNCHANGED <<head, ci, pending>>
    BY DEF Gate, github
  <1>4. run' = NoRun \/ (run'.commit = run.commit /\ run'.req = run.req)
    BY <1>2 DEF Gate, Runs
  <1>5. attempts' = attempts \/ attempts' = [attempts EXCEPT ![run.commit] = @ + 1]
    BY DEF Gate
  <1>6. ASSUME NEW c \in Commit, c > head
        PROVE  attempts'[c] = 0
    <2>1. c # run.commit
      BY <1>2, <1>6 DEF OnceInv, Unpushed, TypeOK, Runs, Commit
    <2>2. attempts[c] = 0
      BY <1>6 DEF OnceInv, Unpushed
    <2>3. QED
      BY <1>5, <2>1, <2>2 DEF OnceInv, TypeOK
  <1>7. QED
    BY <1>2, <1>3, <1>4, <1>6 DEF OnceInv, Unpushed

LEMMA UnpushedPush == ASSUME OnceInv, Push PROVE Unpushed'
  <1>1. /\ head \in Nat /\ head' = head + 1
        /\ ci' = [ci EXCEPT ![head'] = [w \in Workflow |-> "running"]]
        /\ UNCHANGED <<pending, run, attempts>>
    BY BoundsAssumption DEF Push, OnceInv, TypeOK
  <1>2. /\ pending # NoRun => pending.commit \in Nat
        /\ run # NoRun => run.commit \in Nat
    BY BoundsAssumption DEF OnceInv, TypeOK, Requests, Runs
  <1>3. \A c \in Commit : c > head' => c > head /\ ci'[c] = ci[c]
    BY <1>1 DEF Commit, OnceInv, TypeOK
  <1>4. QED
    BY <1>1, <1>2, <1>3 DEF OnceInv, Unpushed

LEMMA UnpushedCI ==
  ASSUME OnceInv, NEW c0 \in Commit, NEW w0 \in Workflow
  PROVE  /\ CIRerun(c0, w0) => Unpushed'
         /\ \A result \in {"success", "failure"} : CICompletes(c0, w0, result) => Unpushed'
  <1>1. c0 \in Nat /\ head \in Nat
    BY BoundsAssumption DEF OnceInv, TypeOK, Commit
  <1>2. ASSUME CIRerun(c0, w0)
        PROVE  Unpushed'
    <2>1. /\ ci[c0][w0] # "none" /\ ci' = [ci EXCEPT ![c0][w0] = "running"]
          /\ UNCHANGED <<head, pending, run, attempts>>
      BY <1>2 DEF CIRerun
    <2>2. c0 <= head
      BY <1>1, <2>1 DEF OnceInv, Unpushed
    <2>3. \A c \in Commit : c > head => ci'[c] = ci[c]
      BY <1>1, <2>1, <2>2 DEF OnceInv, TypeOK
    <2>4. QED
      BY <2>1, <2>3 DEF OnceInv, Unpushed
  <1>3. ASSUME NEW result \in {"success", "failure"}, CICompletes(c0, w0, result)
        PROVE  Unpushed'
    <2> DEFINE request == Request(IF result = "success" THEN "ci" ELSE "foreign", c0, w0)
    <2>1. request \in Requests /\ request.commit = c0 /\ request.workflow = w0
      BY DEF Request, Requests, Commit
    <2>2. Queue(request) /\ UNCHANGED <<head, attempts>>
      BY <1>3 DEF CICompletes
    <2>3. /\ ci[c0][w0] = "running" /\ ci' = [ci EXCEPT ![c0][w0] = result]
      BY <1>3 DEF CICompletes
    <2> HIDE DEF request
    <2>4. c0 <= head
      BY <1>1, <2>3 DEF OnceInv, Unpushed
    <2>5. ASSUME NEW c \in Commit, c > head, NEW w \in Workflow
          PROVE  ci'[c][w] = "none"
      <3>1. c # c0
        BY <1>1, <2>4, <2>5
      <3>2. QED
        BY <2>3, <2>5, <3>1 DEF OnceInv, Unpushed, TypeOK
    <2>6. QED
      BY <2>1, <2>2, <2>4, <2>5, UnpushedQueue
  <1>4. QED
    BY <1>2, <1>3

LEMMA OnceGithub ==
  ASSUME OnceInv, Push \/ CI \/ ForeignCICompletes \/ Dispatch \/ RunStarts
  PROVE  Budget' /\ Unpushed'
  <1>1. CASE Push
    BY <1>1, BudgetPush, UnpushedPush
  <1>2. CASE CI
    BY <1>2, BudgetCompletes, BudgetRerun, UnpushedCI DEF CI
  <1>3. CASE ForeignCICompletes
    <2>1. Request("foreign", Unknown, Unknown) \in Requests
      BY BoundsAssumption DEF Request, Requests, Unknown
    <2>2. /\ Request("foreign", Unknown, Unknown).kind = "foreign"
          /\ Request("foreign", Unknown, Unknown).commit = 0
      BY DEF Request, Unknown
    <2>3. /\ Queue(Request("foreign", Unknown, Unknown))
          /\ UNCHANGED <<head, ci, last, attempts, reruns, dispatches>>
      BY <1>3 DEF ForeignCICompletes, github
    <2>4. 0 <= head /\ dispatches \in Nat
      BY BoundsAssumption DEF OnceInv, TypeOK, Budget
    <2>5. Budget'
      BY <2>1, <2>2, <2>3, <2>4, BudgetQueue
    <2>6. \A c \in Commit : c > head => \A w \in Workflow : ci'[c][w] = "none"
      BY <2>3 DEF OnceInv, Unpushed
    <2>7. Unpushed'
      BY <2>1, <2>2, <2>3, <2>4, <2>6, UnpushedQueue
    <2>8. QED
      BY <2>5, <2>7
  <1>4. CASE Dispatch
    <2>1. Request("dispatch", head, Unknown) \in Requests
      BY DEF Request, Requests, Unknown, OnceInv, TypeOK
    <2>2. /\ Request("dispatch", head, Unknown).kind = "dispatch"
          /\ Request("dispatch", head, Unknown).commit = head
      BY DEF Request
    <2>3. /\ Queue(Request("dispatch", head, Unknown))
          /\ UNCHANGED <<head, ci, last, attempts, reruns>> /\ dispatches' = dispatches + 1
      BY <1>4 DEF Dispatch, github
    <2>4. head <= head /\ dispatches \in Nat
      BY BoundsAssumption DEF OnceInv, TypeOK, Budget
    <2>5. Budget'
      BY <2>1, <2>2, <2>3, <2>4, BudgetQueue
    <2>6. \A c \in Commit : c > head => \A w \in Workflow : ci'[c][w] = "none"
      BY <2>3 DEF OnceInv, Unpushed
    <2>7. Unpushed'
      BY <2>1, <2>2, <2>3, <2>4, <2>6, UnpushedQueue
    <2>8. QED
      BY <2>5, <2>7
  <1>5. CASE RunStarts
    <2>1. Starting(pending).commit = pending.commit /\ Starting(pending).req = pending
      BY DEF Starting
    <2>2. Unpushed'
      BY <1>5, <2>1 DEF RunStarts, github, OnceInv, Unpushed
    <2>3. QED
      BY <1>5, <2>2, BudgetRunStarts
  <1>6. QED
    BY <1>1, <1>2, <1>3, <1>4, <1>5

LEMMA OnceNext == OnceInv /\ [Next]_vars => OnceInv'
  <1> SUFFICES ASSUME OnceInv, [Next]_vars PROVE Budget' /\ Unpushed'
    BY TypeNext DEF OnceInv
  <1> USE DEF github, fleet, node, counters
  <1>1. CASE Push \/ CI \/ ForeignCICompletes \/ Dispatch \/ RunStarts
    BY <1>1, OnceGithub
  <1>2. CASE Deploy
    <2>1. Gate \/ Walks
      BY <1>2, DeployIsWalk DEF OnceInv
    <2>2. QED
      BY <2>1, BudgetGate, UnpushedGate, WalksKeepOnce
  <1>3. ASSUME UNCHANGED <<head, ci, last, pending, attempts, reruns, dispatches>>,
               run' = run \/ run' = NoRun
        PROVE  Budget' /\ Unpushed'
    <2>1. NoRun.pc # "gate"
      BY DEF NoRun
    <2>2. Budget'
      BY <1>3, <2>1, BudgetStays
    <2>3. Unpushed'
      BY <1>3 DEF OnceInv, Unpushed
    <2>4. QED
      BY <2>2, <2>3
  <1>4. CASE RunFails \/ StopRunner
    BY <1>3, <1>4 DEF RunFails, StopRunner
  <1>5. CASE Switch
    BY <1>3, <1>5, SwitchStays
  <1>6. ASSUME NEW h \in Host, NightlyUpgrade(h)
        PROVE  Budget' /\ Unpushed'
    BY <1>3, <1>6 DEF NightlyUpgrade
  <1>7. CASE NightlySelfUpgrade \/ NightlyAnsible
    BY <1>3, <1>7 DEF NightlySelfUpgrade, NightlyAnsible
  <1>8. CASE UNCHANGED vars
    BY <1>3, <1>8 DEF vars
  <1>9. QED
    BY <1>1, <1>2, <1>4, <1>5, <1>6, <1>7, <1>8, NextCases

\* "Exactly-once": a commit's deploys that pass the gate are no more than the
\* first time its CI ran, the CI runs started again and the deploys started by
\* hand, however the completions, the waiting run and pushes interleave.
THEOREM DeployedOnce == Spec => []ExactlyOnce
  <1>1. OnceInv => ExactlyOnce
    <2> SUFFICES ASSUME OnceInv, NEW c \in Commit
                 PROVE  attempts[c] <= 1 + reruns + dispatches
      BY DEF ExactlyOnce
    <2>1. attempts[c] \in Nat /\ reruns \in Nat /\ dispatches \in Nat
      BY DEF OnceInv, TypeOK, Budget
    <2>2. HandAtGate(c) \in 0 .. 1 /\ HandWaits(c) \in 0 .. 1
      BY HandTypes
    <2>3. attempts[c] + HandAtGate(c) + HandWaits(c) + 0 <= 1 + reruns + dispatches
      BY DEF OnceInv, Budget, Spare, Used
    <2>4. QED
      BY <2>1, <2>2, <2>3
  <1>2. QED
    BY <1>1, OnceInit, OnceNext, PTL DEF Spec
=============================================================================
