------------------------- MODULE ComposeReloadProofs -------------------------
(***************************************************************************)
(* Proofs about ComposeReload, for any stack, any sequence of deploys and  *)
(* any number of failed docker calls, kills and stack restarts.            *)
(***************************************************************************)
EXTENDS ComposeReload, FiniteSetTheorems, TLAPS

USE DEF Slot, Version, Handoff, Fingerprints

\* What the two slots of a service are to each other.
LEMMA OtherSlot == \A k \in Slot : Other(k) \in Slot /\ Other(k) # k /\ Other(Other(k)) = k
  BY DEF Other

\* Containers that are created, started or stopped are containers.
LEMMA ContainerTypes ==
  ASSUME TypeOK
  PROVE  /\ Absent \in Container
         /\ \A s \in Service : Fresh(s) \in Container
         /\ \A s \in Service : \A c \in Container : Started(s, c) \in Container
         /\ \A c \in Container : Stopped(c) \in Container
         /\ \A c \in Container : [c EXCEPT !.drained = TRUE] \in Container
         /\ \A c \in Container : \A st \in Status : [c EXCEPT !.st = st] \in Container
  <1>1. Absent \in Container
    BY DEF Absent, Container, Status, RunningStatus
  <1>2. \A s \in Service : Fresh(s) \in Container
    BY DEF Fresh, Container, Status, RunningStatus, TypeOK
  <1>3. \A s \in Service : \A c \in Container : Started(s, c) \in Container
    BY DEF Started, Container, Status, RunningStatus, TypeOK
  <1>4. \A c \in Container : Stopped(c) \in Container
    BY DEF Stopped, Container, Status, RunningStatus
  <1>5. \A c \in Container : [c EXCEPT !.drained = TRUE] \in Container
    BY DEF Container
  <1>6. \A c \in Container : \A st \in Status : [c EXCEPT !.st = st] \in Container
    BY DEF Container
  <1>7. QED
    BY <1>1, <1>2, <1>3, <1>4, <1>5, <1>6

\* Replacing one container, or both of a service, keeps the type of cont.
LEMMA ContUpdate ==
  ASSUME cont \in [Service -> [Slot -> Container]], NEW s \in Service
  PROVE  /\ \A k \in Slot : \A c \in Container :
              [cont EXCEPT ![s][k] = c] \in [Service -> [Slot -> Container]]
         /\ \A f \in [Slot -> Container] :
              [cont EXCEPT ![s] = f] \in [Service -> [Slot -> Container]]
  OBVIOUS

\* A failed docker call leaves containers where they were, or had its effect.
LEMMA CallEffectsType ==
  ASSUME TypeOK, NEW c \in CallEffects
  PROVE  c \in [Service -> [Slot -> Container]]
  <1> USE ContainerTypes, OtherSlot
  <1>0. /\ cont \in [Service -> [Slot -> Container]] /\ cur \in Service
        /\ old[cur] \in Slot /\ new \in Slot
    BY DEF TypeOK, new
  <1>1. ScaledUp(cur) \in [Slot -> Container]
    BY <1>0 DEF ScaledUp, TypeOK
  <1>2. CASE pc = "scale"
    BY <1>0, <1>1, <1>2 DEF CallEffects
  <1>3. CASE pc = "touch"
    <2>1. [cont EXCEPT ![cur][old[cur]].drained = TRUE]
            = [cont EXCEPT ![cur][old[cur]] = [cont[cur][old[cur]] EXCEPT !.drained = TRUE]]
      BY <1>0
    <2>2. [cont EXCEPT ![cur][old[cur]].drained = TRUE] \in [Service -> [Slot -> Container]]
      BY <1>0, <2>1, ContUpdate
    <2>3. QED
      BY <1>0, <1>3, <2>2 DEF CallEffects
  <1>4. CASE pc \in {"stop", "rm", "abortStop", "abortRm"}
    <2>1. \A k \in Slot : /\ [cont EXCEPT ![cur][k] = Stopped(@)] \in [Service -> [Slot -> Container]]
                          /\ [cont EXCEPT ![cur][k] = Absent] \in [Service -> [Slot -> Container]]
      BY <1>0, ContUpdate
    <2>2. QED
      BY <1>0, <1>4, <2>1 DEF CallEffects
  <1>5. CASE pc \notin {"scale", "touch", "stop", "rm", "abortStop", "abortRm"}
    BY <1>0, <1>5 DEF CallEffects
  <1>6. QED
    BY <1>2, <1>3, <1>4, <1>5

------------------------------------------------------------------------------
(* Type correctness *)

\* The end of the process leaves its variables as they were at the start.
LEMMA EndsType ==
  ASSUME TypeOK, Ends, cont' \in [Service -> [Slot -> Container]],
         spec' \in [Service -> Version], link' \in [Service -> Version],
         shot' \in [Service -> OneShot], migrated' \in [Service -> Version], cut' \subseteq Service,
         recorded' \in BOOLEAN, saved' \in [Service -> Version], deploys' \in Nat, mishaps' \in Nat
  PROVE  TypeOK'
  <1>1. (CHOOSE s \in Service : TRUE) \in Service
    BY SetsAssumption
  <1>2. QED
    BY <1>1 DEF Ends, TypeOK, Phase

LEMMA TypeInit == Init => TypeOK
  <1> SUFFICES ASSUME Init PROVE TypeOK
    OBVIOUS
  <1>1. [Absent EXCEPT !.st = "healthy"] \in Container /\ Absent \in Container
    BY DEF Absent, Container, Status, RunningStatus
  <1>2. cont \in [Service -> [Slot -> Container]]
    BY <1>1 DEF Init
  <1>3. (CHOOSE s \in Service : TRUE) \in Service
    BY SetsAssumption
  <1>4. QED
    BY <1>2, <1>3, BoundsAssumption DEF Init, TypeOK, Phase, OneShot

\* What happens to the stack outside the reload process keeps the types.
LEMMA TypeEnvironment ==
  ASSUME TypeOK
  PROVE  /\ Deploy => TypeOK'
         /\ StackRestart => TypeOK'
         /\ (\E s \in Service : Relink(s)) => TypeOK'
         /\ ContainerStep => TypeOK'
  <1> USE ContainerTypes DEF environment, schema, reload
  <1>1. Deploy => TypeOK'
    BY DEF Deploy, TypeOK
  <1>2. StackRestart => TypeOK'
    BY DEF StackRestart, RestartedSchema, Mishap, TypeOK, OneShot
  <1>3. ASSUME NEW s \in Service, Relink(s) PROVE TypeOK'
    BY <1>3 DEF Relink, TypeOK
  <1>4. ASSUME NEW s \in Service, NEW k \in Slot,
               Report(s, k) \/ PolicyRestart(s, k) \/ Fault(s, k)
        PROVE  TypeOK'
    <2>1. \A st \in Status : [cont EXCEPT ![s][k].st = st] \in [Service -> [Slot -> Container]]
      <3>1. \A st \in Status : [cont EXCEPT ![s][k].st = st]
                = [cont EXCEPT ![s][k] = [cont[s][k] EXCEPT !.st = st]]
        BY DEF TypeOK
      <3>2. QED
        BY <3>1, ContUpdate DEF TypeOK
    <2>2. [cont EXCEPT ![s][k] = Started(s, @)] \in [Service -> [Slot -> Container]]
      BY ContUpdate DEF TypeOK
    <2>3. cont' \in [Service -> [Slot -> Container]]
      <3>1. "healthy" \in Status /\ "unhealthy" \in Status /\ "crashed" \in Status
        BY DEF Status, RunningStatus
      <3>2. CASE Report(s, k)
        <4>1. \E st \in Status : SetStatus(s, k, st)
          BY <3>1, <3>2 DEF Report
        <4>2. QED
          BY <2>1, <4>1 DEF SetStatus
      <3>3. CASE PolicyRestart(s, k)
        BY <2>2, <3>3 DEF PolicyRestart
      <3>4. CASE Fault(s, k)
        BY <2>1, <3>1, <3>4 DEF Fault, SetStatus
      <3>5. QED
        BY <1>4, <3>2, <3>3, <3>4
    <2>4. QED
      <3>1. CASE Report(s, k) \/ PolicyRestart(s, k)
        BY <2>3, <3>1 DEF Report, PolicyRestart, TypeOK
      <3>2. CASE Fault(s, k)
        <4>1. lapsed' = IF s = cur /\ k = new /\ pc \in {"touch", "drain", "stop"} THEN TRUE ELSE lapsed
          BY <3>2 DEF Fault
        <4>2. lapsed \in BOOLEAN
          BY DEF TypeOK
        <4>3. lapsed' \in BOOLEAN
          BY <4>1, <4>2, Zenon
        <4>4. mishaps' \in Nat
          BY <3>2 DEF Fault, Mishap, TypeOK
        <4>5. QED
          BY <2>3, <3>2, <4>3, <4>4 DEF Fault, TypeOK
      <3>3. QED
        BY <1>4, <3>1, <3>2
  <1>5. ASSUME NEW s \in Service, OneShotDone(s) PROVE TypeOK'
    BY <1>5 DEF OneShotDone, TypeOK, OneShot
  <1>6. ASSUME NEW s \in Service, OneShotFails(s) PROVE TypeOK'
    <2>1. shot' \in [Service -> OneShot] /\ cut' \subseteq Service /\ mishaps' \in Nat
      BY <1>6 DEF OneShotFails, Mishap, Unfinished, TypeOK, OneShot
    <2>2. CASE Ends
      BY <1>6, <2>1, <2>2, EndsType DEF OneShotFails, TypeOK
    <2>3. CASE UNCHANGED <<pc, reload>>
      BY <1>6, <2>1, <2>3 DEF OneShotFails, TypeOK
    <2>4. QED
      BY <1>6, <2>2, <2>3 DEF OneShotFails
  <1>7. QED
    BY <1>1, <1>2, <1>3, <1>4, <1>5, <1>6 DEF ContainerStep

\* So do the steps of a handoff.
LEMMA TypeHandoff ==
  ASSUME TypeOK, HandoffStep
  PROVE  TypeOK'
  <1> USE ContainerTypes, OtherSlot DEF environment, schema, reload, Goto, HandoffFails, Mishap, Phase, HandoffPhase
  <1>0. /\ cont \in [Service -> [Slot -> Container]] /\ cur \in Service
        /\ old[cur] \in Slot /\ new \in Slot
    BY DEF TypeOK, new
  <1>1. CASE ScaleUp
    <2>1. cont' \in [Service -> [Slot -> Container]]
      BY <1>0, <1>1 DEF ScaleUp, ScaledUp
    <2>2. QED
      BY <1>1, <2>1 DEF ScaleUp, TypeOK
  <1>2. CASE ScaleUpWithout \/ FindNew \/ NewHealthy \/ NewFailed \/ Drained \/ CleanUp
    BY <1>2 DEF ScaleUpWithout, FindNew, NewHealthy, NewFailed, Drained, CleanUp, TypeOK
  <1>3. CASE TouchDrainFile
    <2>1. [cont EXCEPT ![cur][old[cur]].drained = TRUE]
            = [cont EXCEPT ![cur][old[cur]] = [cont[cur][old[cur]] EXCEPT !.drained = TRUE]]
      BY <1>0
    <2>2. cont' \in [Service -> [Slot -> Container]]
      BY <1>0, <1>3, <2>1, ContUpdate DEF TouchDrainFile
    <2>3. QED
      BY <1>3, <2>2 DEF TouchDrainFile, TypeOK
  <1>4. CASE StopOld \/ RemoveOld \/ AbortStop \/ AbortRemove
    <2>1. cont' \in [Service -> [Slot -> Container]]
      BY <1>0, <1>4, ContUpdate DEF StopOld, RemoveOld, AbortStop, AbortRemove
    <2>2. QED
      BY <1>4, <2>1 DEF StopOld, RemoveOld, AbortStop, AbortRemove, TypeOK
  <1>5. CASE CallFails \/ CleanUpFails
    <2>1. cont' \in [Service -> [Slot -> Container]]
      BY <1>5, CallEffectsType DEF CallFails, CleanUpFails
    <2>2. CASE CallFails
      BY <2>1, <2>2 DEF CallFails, TypeOK
    <2>3. CASE CleanUpFails
      BY <2>1, <2>3 DEF CleanUpFails, TypeOK
    <2>4. QED
      BY <1>5, <2>2, <2>3
  <1>6. QED
    BY <1>1, <1>2, <1>3, <1>4, <1>5 DEF HandoffStep

\* And the plan and the rest of main.
LEMMA TypeMain ==
  ASSUME TypeOK, Plan \/ PlanFails \/ Killed \/ MainStep
  PROVE  TypeOK'
  <1> USE ContainerTypes DEF environment, schema, reload, Goto, Mishap, Phase, HandoffPhase
  <1>1. CASE Plan
    <2>1. \A s \in Service : PlannedHandoff(s) => s \in Handoff /\ \E k \in Slot : Running(s, k)
      <3>1. \A s \in Service : RunningSlots(s) = {} => Cardinality(RunningSlots(s)) = 0
        BY FS_EmptySet
      <3>2. QED
        BY <3>1 DEF PlannedHandoff, RunningSlots
    <2>2. old' \in [Service -> Slot]
      BY <1>1, <2>1 DEF Plan, TypeOK
    <2>3. QED
      BY <1>1, <2>1, <2>2 DEF Plan, TypeOK
  <1>2. CASE PlanFails \/ Killed
    <2>1. CASE PlanFails
      BY <2>1, EndsType DEF PlanFails, TypeOK
    <2>2. CASE Killed
      BY <2>2, EndsType DEF Killed, Unfinished, TypeOK
    <2>3. QED
      BY <1>2, <2>1, <2>2
  <1>3. CASE NextHandoff
    BY <1>3, SetsAssumption DEF NextHandoff, TypeOK
  <1>4. CASE HandoffsDone \/ Recreated \/ UpDone
    <2>1. CASE HandoffsDone /\ failed
      BY <2>1, EndsType DEF HandoffsDone, TypeOK
    <2>2. CASE (HandoffsDone /\ ~failed) \/ Recreated \/ UpDone
      BY <2>2 DEF HandoffsDone, Recreated, UpDone, TypeOK
    <2>3. QED
      BY <1>4, <2>1, <2>2
  <1>5. CASE SaveState
    BY <1>5, EndsType DEF SaveState, TypeOK
  <1>6. ASSUME NEW s \in Service, ForceRecreate(s) PROVE TypeOK'
    <2>1. InOneSlot(s, Fresh(s)) \in [Slot -> Container]
      BY DEF InOneSlot
    <2>2. cont' \in [Service -> [Slot -> Container]]
      BY <1>6, <2>1 DEF ForceRecreate, TypeOK
    <2>3. QED
      BY <1>6, <2>2 DEF ForceRecreate, TypeOK
  <1>7. ASSUME NEW s \in Service, UpService(s) PROVE TypeOK'
    <2>1. InOneSlot(s, Fresh(s)) \in [Slot -> Container]
      BY DEF InOneSlot
    <2>2. cont' \in [Service -> [Slot -> Container]]
      <3>1. CASE Changed(s)
        BY <1>7, <2>1, <3>1, ContUpdate DEF UpService, TypeOK
      <3>2. CASE ~Changed(s)
        <4>1. PICK k \in Slot : cont' = [cont EXCEPT ![s] = [j \in Slot |->
                                  IF j = k THEN Started(s, cont[s][j]) ELSE Absent]]
          BY <1>7, <3>2 DEF UpService
        <4>2. [j \in Slot |-> IF j = k THEN Started(s, cont[s][j]) ELSE Absent] \in [Slot -> Container]
          BY DEF TypeOK
        <4>3. QED
          BY <4>1, <4>2, ContUpdate DEF TypeOK
      <3>3. QED
        BY <3>1, <3>2
    <2>3. QED
      BY <1>7, <2>2 DEF UpService, TypeOK
  <1>8. ASSUME NEW s \in Service, UpOneShot(s) PROVE TypeOK'
    BY <1>8 DEF UpOneShot, TypeOK, OneShot
  <1>9. QED
    BY <1>1, <1>2, <1>3, <1>4, <1>5, <1>6, <1>7, <1>8 DEF MainStep

\* The containers, the state file and the reload's own bookkeeping keep their
\* types through every step of the reload and of everything around it.
THEOREM TypeCorrect == Spec => []TypeOK
  <1>1. TypeOK /\ [Next]_vars => TypeOK'
    <2>1. TypeOK /\ UNCHANGED vars => TypeOK'
      BY DEF TypeOK, vars
    <2>2. QED
      BY <2>1, TypeEnvironment, TypeHandoff, TypeMain DEF Next, ReloadStep
  <1>2. QED
    BY TypeInit, <1>1, PTL DEF Spec

------------------------------------------------------------------------------
(* A healthy old container is retired only beside a new one that was found  *)
(* healthy and has not failed on its own since.                             *)

\* The container beside the old one, if healthy, is not one being drained.
NewNotDrained ==
    \A s \in Service :
        ((s \in todo \/ (s = cur /\ pc \in HandoffPhase)) /\ cont[s][Other(old[s])].st = "healthy")
           => ~cont[s][Other(old[s])].drained

\* From the verdict on the new container until the old one is stopped, the new one
\* serves, unless it has failed on its own.
NewServes == pc \in {"touch", "drain", "stop"} => cont[cur][new].st = "healthy" \/ lapsed

\* Once stopped, the old container stays so until it is removed.
OldStopped == pc = "rm" => cont[cur][old[cur]].st \in {"exited", "absent"}

HandoffInv == TypeOK /\ NewNotDrained /\ NewServes /\ OldStopped

LEMMA HandoffInvInit == Init => HandoffInv
  BY TypeInit, OtherSlot DEF Init, HandoffInv, NewNotDrained, NewServes, OldStopped, HandoffPhase, Absent

\* The steps of the stack's containers: those of a migration touch no container of
\* a service, and end the reload or leave it alone.
LEMMA OneShotSteps ==
  ASSUME ContainerStep
  PROVE  \/ /\ UNCHANGED <<spec, link, cont, recorded, saved, deploys>>
            /\ (Ends /\ pc = "up") \/ UNCHANGED <<pc, reload>>
         \/ \E s \in Service, k \in Slot : Report(s, k) \/ PolicyRestart(s, k) \/ Fault(s, k)
  BY DEF ContainerStep, OneShotDone, OneShotFails

\* What the environment does to the one container of a step.
LEMMA HandoffInvContainer ==
  ASSUME HandoffInv, ContainerStep
  PROVE  HandoffInv'
  <1> USE OtherSlot DEF environment, schema, reload
  <1>0. TypeOK /\ TypeOK'
    BY TypeEnvironment DEF HandoffInv
  <1>1. CASE UNCHANGED cont /\ (Ends \/ UNCHANGED <<pc, reload>>)
    BY <1>0, <1>1 DEF Ends, HandoffInv, NewNotDrained, NewServes, OldStopped, HandoffPhase, new
  <1>2. ASSUME NEW s \in Service, NEW k \in Slot, Report(s, k) \/ PolicyRestart(s, k) \/ Fault(s, k)
        PROVE  HandoffInv'
    <2>0. UNCHANGED <<pc, todo, old, cur>> /\ (lapsed => lapsed')
      BY <1>2 DEF Report, PolicyRestart, Fault
    <2>1. \A t \in Service, j \in Slot :
             /\ cont'[t][j].drained = cont[t][j].drained
             /\ cont'[t][j].st = "healthy" => cont[t][j].st = "healthy" \/ ~cont[t][j].drained
             /\ (cont[t][j].st = "healthy" /\ ~cont[t][j].drained)
                  => cont'[t][j].st = "healthy" \/ (Fault(s, k) /\ t = s /\ j = k)
             /\ cont[t][j].st \in {"exited", "absent"} => cont'[t][j].st = cont[t][j].st
      <3>1. CASE Report(s, k)
        <4>1. PICK st \in Status : /\ cont' = [cont EXCEPT ![s][k].st = st]
                                   /\ st = "healthy" => ~cont[s][k].drained
                                   /\ cont[s][k].st = "healthy" => cont[s][k].drained
                                   /\ cont[s][k].st \notin {"exited", "absent"}
          BY <3>1 DEF Report, SetStatus, Status, RunningStatus
        <4>2. QED
          BY <1>0, <4>1 DEF TypeOK, Container
      <3>2. CASE PolicyRestart(s, k)
        BY <1>0, <3>2 DEF PolicyRestart, Started, RunningStatus, TypeOK, Container
      <3>3. CASE Fault(s, k)
        <4>1. PICK st : cont' = [cont EXCEPT ![s][k].st = st] /\ cont[s][k].st = "healthy" /\ st # "healthy"
          BY <3>3 DEF Fault, SetStatus
        <4>2. QED
          BY <1>0, <3>3, <4>1 DEF TypeOK, Container
      <3>4. QED
        BY <1>2, <3>1, <3>2, <3>3
    <2>2. NewNotDrained'
      <3> SUFFICES ASSUME NEW t \in Service, t \in todo \/ (t = cur /\ pc \in HandoffPhase),
                          cont'[t][Other(old[t])].st = "healthy"
                   PROVE  ~cont'[t][Other(old[t])].drained
        BY <2>0 DEF NewNotDrained
      <3>1. Other(old[t]) \in Slot
        BY <1>0 DEF TypeOK
      <3>2. QED
        BY <2>1, <3>1 DEF HandoffInv, NewNotDrained
    <2>3. NewServes'
      <3> SUFFICES ASSUME pc \in {"touch", "drain", "stop"}, ~lapsed'
                   PROVE  cont'[cur][new].st = "healthy"
        BY <2>0 DEF NewServes, new
      <3>1. cur \in Service /\ new \in Slot /\ ~(Fault(s, k) /\ cur = s /\ new = k)
        BY <1>0 DEF Fault, TypeOK, new
      <3>2. cont[cur][new].st = "healthy" /\ ~cont[cur][new].drained
        BY <2>0 DEF HandoffInv, NewServes, NewNotDrained, HandoffPhase, new, TypeOK
      <3>3. QED
        BY <2>1, <3>1, <3>2
    <2>4. OldStopped'
      BY <2>0, <2>1 DEF HandoffInv, OldStopped, TypeOK
    <2>5. QED
      BY <1>0, <2>2, <2>3, <2>4 DEF HandoffInv
  <1>3. QED
    BY <1>1, <1>2, OneShotSteps

\* What a step of the current handoff may do to containers.
LEMMA HandoffShapes ==
  ASSUME TypeOK, HandoffStep
  PROVE  \/ UNCHANGED cont
         \/ cont' = [cont EXCEPT ![cur] = ScaledUp(cur)]
         \/ cont' = [cont EXCEPT ![cur][old[cur]].drained = TRUE]
         \/ \E k \in Slot : \E c \in {Stopped(cont[cur][k]), Absent} : cont' = [cont EXCEPT ![cur][k] = c]
  <1> USE OtherSlot DEF environment, reload, Goto, HandoffFails, Mishap
  <1>0. /\ cur \in Service /\ old[cur] \in Slot /\ new \in Slot
        /\ cont \in [Service -> [Slot -> Container]]
    BY DEF TypeOK, new
  <1>1. \A c \in CallEffects :
        \/ c = cont
        \/ c = [cont EXCEPT ![cur] = ScaledUp(cur)]
        \/ c = [cont EXCEPT ![cur][old[cur]].drained = TRUE]
        \/ \E k \in Slot : \E x \in {Stopped(cont[cur][k]), Absent} : c = [cont EXCEPT ![cur][k] = x]
    BY <1>0 DEF CallEffects
  <1>2. CASE CallFails \/ CleanUpFails
    BY <1>1, <1>2 DEF CallFails, CleanUpFails
  <1>3. CASE ScaleUp \/ TouchDrainFile \/ StopOld \/ RemoveOld \/ AbortStop \/ AbortRemove
    BY <1>0, <1>3 DEF ScaleUp, TouchDrainFile, StopOld, RemoveOld, AbortStop, AbortRemove
  <1>4. CASE ScaleUpWithout \/ FindNew \/ NewHealthy \/ NewFailed \/ Drained \/ CleanUp
    BY <1>4 DEF ScaleUpWithout, FindNew, NewHealthy, NewFailed, Drained, CleanUp
  <1>5. QED
    BY <1>2, <1>3, <1>4 DEF HandoffStep

\* It does nothing to another service, no container of its own turns healthy, and
\* only the old one is drained.
LEMMA HandoffFootprint ==
  ASSUME TypeOK, HandoffStep
  PROVE  /\ cur \in Service /\ old[cur] \in Slot /\ new \in Slot /\ new # old[cur]
         /\ \A t \in Service, j \in Slot : t # cur => cont'[t][j] = cont[t][j]
         /\ \A j \in Slot : cont'[cur][j].st = "healthy" => cont[cur][j].st = "healthy"
         /\ cont'[cur][new].drained => cont[cur][new].drained \/ cont'[cur][new].st # "healthy"
         /\ UNCHANGED <<todo, old, cur, lapsed>>
  <1> USE OtherSlot DEF environment, reload, Goto, HandoffFails, Mishap
  <1>0. /\ cur \in Service /\ old[cur] \in Slot /\ new \in Slot /\ new # old[cur]
        /\ cont \in [Service -> [Slot -> Container]]
    BY DEF TypeOK, new
  <1>1. UNCHANGED <<todo, old, cur, lapsed>>
    BY DEF HandoffStep, ScaleUp, ScaleUpWithout, FindNew, NewHealthy, NewFailed, TouchDrainFile,
           Drained, StopOld, RemoveOld, AbortStop, AbortRemove, CallFails, CleanUp, CleanUpFails
  <1>2. \/ UNCHANGED cont
        \/ cont' = [cont EXCEPT ![cur] = ScaledUp(cur)]
        \/ cont' = [cont EXCEPT ![cur][old[cur]].drained = TRUE]
        \/ \E k \in Slot : \E c \in {Stopped(cont[cur][k]), Absent} : cont' = [cont EXCEPT ![cur][k] = c]
    BY HandoffShapes
  <1>3. CASE UNCHANGED cont
    BY <1>0, <1>1, <1>3
  <1>4. CASE cont' = [cont EXCEPT ![cur] = ScaledUp(cur)]
    <2>1. \A j \in Slot : cont'[cur][j] = ScaledUp(cur)[j]
      BY <1>0, <1>4
    <2>2. \A j \in Slot : /\ ScaledUp(cur)[j].st = "healthy" => ScaledUp(cur)[j] = cont[cur][j]
      BY <1>0 DEF ScaledUp, Exists, Started, Fresh, RunningStatus, Container
    <2>3. QED
      BY <1>0, <1>1, <1>4, <2>1, <2>2
  <1>5. CASE cont' = [cont EXCEPT ![cur][old[cur]].drained = TRUE]
    BY <1>0, <1>1, <1>5 DEF Container
  <1>6. CASE \E k \in Slot : \E c \in {Stopped(cont[cur][k]), Absent} : cont' = [cont EXCEPT ![cur][k] = c]
    BY <1>0, <1>1, <1>6 DEF Container, Stopped, Absent
  <1>7. QED
    BY <1>2, <1>3, <1>4, <1>5, <1>6

LEMMA HandoffInvHandoff ==
  ASSUME HandoffInv, HandoffStep
  PROVE  HandoffInv'
  <1> USE OtherSlot DEF environment, reload, Goto, HandoffFails, Mishap
  <1>0. TypeOK /\ TypeOK'
    BY TypeHandoff DEF HandoffInv
  <1>1. pc \in HandoffPhase
    BY DEF HandoffStep, ScaleUp, ScaleUpWithout, FindNew, NewHealthy, NewFailed, TouchDrainFile,
           Drained, StopOld, RemoveOld, AbortStop, AbortRemove, CallFails, CleanUp, CleanUpFails,
           HandoffPhase
  <1>2. NewNotDrained'
    BY <1>0, <1>1, HandoffFootprint DEF HandoffInv, NewNotDrained, TypeOK, new
  <1>3. NewServes'
    <2>1. CASE NewHealthy
      BY <1>0, <2>1 DEF NewHealthy, NewServes, new
    <2>2. CASE TouchDrainFile
      <3>1. cont'[cur][new].st = cont[cur][new].st
        BY <1>0, <2>2, HandoffFootprint DEF TouchDrainFile, TypeOK, Container
      <3>2. QED
        BY <2>2, <3>1, HandoffFootprint DEF TouchDrainFile, NewServes, HandoffInv, new
    <2>3. CASE Drained
      BY <2>3 DEF Drained, reload, NewServes, HandoffInv, new
    <2>4. CASE ~(NewHealthy \/ TouchDrainFile \/ Drained)
      <3>1. pc' \notin {"touch", "drain", "stop"}
        BY <2>4 DEF HandoffStep, ScaleUp, ScaleUpWithout, FindNew, NewFailed, StopOld, RemoveOld,
                    AbortStop, AbortRemove, CallFails, CleanUp, CleanUpFails
      <3>2. QED
        BY <3>1 DEF NewServes
    <2>5. QED
      BY <2>1, <2>2, <2>3, <2>4
  <1>4. OldStopped'
    <2>1. CASE StopOld
      BY <1>0, <2>1, HandoffFootprint DEF StopOld, Stopped, OldStopped, TypeOK, Container
    <2>2. CASE ~StopOld
      <3>1. pc' # "rm"
        BY <2>2 DEF HandoffStep, ScaleUp, ScaleUpWithout, FindNew, NewHealthy, NewFailed,
                    TouchDrainFile, Drained, RemoveOld, AbortStop, AbortRemove, CallFails,
                    CleanUp, CleanUpFails
      <3>2. QED
        BY <3>1 DEF OldStopped
    <2>3. QED
      BY <2>1, <2>2
  <1>5. QED
    BY <1>0, <1>2, <1>3, <1>4 DEF HandoffInv

\* plan() hands off a service with one running container, which is the old one.
LEMMA PlanSeesOld ==
  ASSUME Plan, NEW s \in Service, PlannedHandoff(s)
  PROVE  old'[s] \in Slot /\ Running(s, old'[s]) /\ ~Running(s, Other(old'[s]))
  <1> USE OtherSlot
  <1>1. IsFiniteSet(RunningSlots(s)) /\ Cardinality(RunningSlots(s)) = 1
    <2>1. IsFiniteSet(Slot)
      <3>1. IsFiniteSet({} \cup {1})
        BY FS_EmptySet, FS_AddElement
      <3>2. IsFiniteSet(({} \cup {1}) \cup {2})
        BY <3>1, FS_AddElement
      <3>3. QED
        BY <3>2
    <2>2. QED
      BY <2>1, FS_Subset DEF RunningSlots, PlannedHandoff
  <1>2. PICK k : RunningSlots(s) = {k}
    BY <1>1, FS_Singleton
  <1>3. k \in Slot /\ Running(s, k) /\ ~Running(s, Other(k))
    BY <1>2 DEF RunningSlots
  <1>4. old'[s] = k
    <2>1. \A j \in Slot : Running(s, j) => j = k
      BY <1>2 DEF RunningSlots
    <2>2. old'[s] = CHOOSE j \in Slot : Running(s, j)
      BY DEF Plan
    <2>3. QED
      BY <1>3, <2>1, <2>2
  <1>5. QED
    BY <1>3, <1>4

\* Outside a handoff only Plan and NextHandoff matter: they choose what is handed off.
LEMMA HandoffInvElsewhere ==
  ASSUME HandoffInv,
         Deploy \/ StackRestart \/ Plan \/ PlanFails \/ Killed \/ MainStep
           \/ (\E s \in Service : Relink(s))
  PROVE  HandoffInv'
  <1> USE OtherSlot DEF environment, schema, reload, Goto, Ends, Mishap, HandoffPhase
  <1>0. TypeOK /\ TypeOK'
    BY TypeEnvironment, TypeMain DEF HandoffInv
  <1>1. CASE Plan
    <2>1. \A s \in todo' : cont[s][Other(old'[s])].st # "healthy"
      <3> SUFFICES ASSUME NEW s \in Service, PlannedHandoff(s), s \in todo'
                   PROVE  cont[s][Other(old'[s])].st # "healthy"
        BY <1>1 DEF Plan
      <3>1. QED
        BY <1>1, PlanSeesOld DEF Running, RunningStatus
    <2>2. QED
      BY <1>0, <1>1, <2>1 DEF Plan, HandoffInv, NewNotDrained, NewServes, OldStopped, TypeOK
  <1>2. CASE NextHandoff
    BY <1>0, <1>2 DEF NextHandoff, HandoffInv, NewNotDrained, NewServes, OldStopped, new
  <1>3. CASE Deploy \/ PlanFails \/ Killed \/ HandoffsDone \/ Recreated \/ UpDone \/ SaveState
    BY <1>0, <1>3 DEF Deploy, PlanFails, Killed, HandoffsDone, Recreated, UpDone, SaveState,
                      HandoffInv, NewNotDrained, NewServes, OldStopped
  <1>4. ASSUME NEW s \in Service, Relink(s) PROVE HandoffInv'
    BY <1>0, <1>4 DEF Relink, HandoffInv, NewNotDrained, NewServes, OldStopped, new
  <1>5. CASE StackRestart
    <2>1. \A s \in Service, k \in Slot : cont'[s][k].st # "healthy"
      BY <1>5 DEF StackRestart, Fresh, Absent
    <2>2. QED
      BY <1>0, <1>5, <2>1 DEF StackRestart, HandoffInv, NewNotDrained, NewServes, OldStopped, TypeOK
  <1>6. ASSUME NEW s \in Service, ForceRecreate(s) \/ UpService(s) PROVE HandoffInv'
    <2>1. \A t \in Service, k \in Slot : cont'[t][k].st = "healthy" => cont'[t][k] = cont[t][k]
      <3>1. \A k \in Slot : /\ InOneSlot(s, Fresh(s))[k].st # "healthy"
                            /\ Started(s, cont[s][k]).st = "healthy" => Started(s, cont[s][k]) = cont[s][k]
        BY <1>0 DEF InOneSlot, Fresh, Absent, Started, RunningStatus, TypeOK, Container
      <3>2. CASE cont' = [cont EXCEPT ![s] = InOneSlot(s, Fresh(s))]
        BY <1>0, <3>1, <3>2 DEF TypeOK
      <3>3. CASE \E k \in Slot : cont' = [cont EXCEPT ![s] = [j \in Slot |->
                                    IF j = k THEN Started(s, cont[s][j]) ELSE Absent]]
        BY <1>0, <3>1, <3>3 DEF TypeOK, Absent
      <3>4. QED
        BY <1>6, <3>2, <3>3 DEF ForceRecreate, UpService
    <2>2. UNCHANGED <<pc, todo, old, cur>> /\ pc \in {"recreate", "up"}
      BY <1>6 DEF ForceRecreate, UpService
    <2>3. NewNotDrained'
      <3> SUFFICES ASSUME NEW t \in Service, t \in todo, cont'[t][Other(old[t])].st = "healthy"
                   PROVE  ~cont'[t][Other(old[t])].drained
        BY <2>2 DEF NewNotDrained
      <3>1. Other(old[t]) \in Slot
        BY <1>0 DEF TypeOK
      <3>2. QED
        BY <2>1, <3>1 DEF HandoffInv, NewNotDrained
    <2>4. NewServes' /\ OldStopped'
      BY <2>2 DEF NewServes, OldStopped
    <2>5. QED
      BY <1>0, <2>3, <2>4 DEF HandoffInv
  <1>7. ASSUME NEW s \in Service, UpOneShot(s) PROVE HandoffInv'
    BY <1>0, <1>7 DEF UpOneShot, HandoffInv, NewNotDrained, NewServes, OldStopped
  <1>8. QED
    BY <1>1, <1>2, <1>3, <1>4, <1>5, <1>6, <1>7 DEF MainStep

LEMMA HandoffInvInductive == HandoffInv /\ [Next]_vars => HandoffInv'
  <1>1. HandoffInv /\ UNCHANGED vars => HandoffInv'
    BY DEF HandoffInv, TypeOK, NewNotDrained, NewServes, OldStopped, vars, new
  <1>2. QED
    BY <1>1, HandoffInvContainer, HandoffInvHandoff, HandoffInvElsewhere DEF Next, ReloadStep

\* No step of a handoff, failing docker calls and clean-up included, takes a
\* service whose old container is healthy to one that nothing serves, whatever
\* the stack, unless the new one failed on its own after it was found healthy.
THEOREM OldServes == Spec => OldServesUntilNewHealthy
  <1> DEFINE Keeps == \A s \in Service :
                (pc \in HandoffPhase /\ pc' # pc /\ s = cur /\ cont[s][old[s]].st = "healthy")
                   => Serving(s)' \/ lapsed
  <1>1. HandoffInv /\ Next => Keeps
    <2> SUFFICES ASSUME HandoffInv, Next, pc \in HandoffPhase, pc' # pc,
                        cont[cur][old[cur]].st = "healthy", ~lapsed
                 PROVE  \E k \in Slot : cont'[cur][k].st = "healthy"
      BY DEF Serving
    <2>0. TypeOK /\ cur \in Service /\ old[cur] \in Slot /\ new \in Slot /\ new # old[cur]
      BY OtherSlot DEF HandoffInv, TypeOK, new
    <2>1. HandoffStep \/ Killed
      <3>1. ~(Deploy \/ StackRestart \/ Plan \/ PlanFails \/ MainStep)
        BY DEF Deploy, StackRestart, Plan, PlanFails, MainStep, NextHandoff, HandoffsDone,
               Recreated, UpDone, SaveState, ForceRecreate, UpOneShot, UpService, HandoffPhase
      <3>2. ~(ContainerStep \/ \E s \in Service : Relink(s))
        BY OneShotSteps DEF Report, PolicyRestart, Fault, Relink, HandoffPhase
      <3>3. QED
        BY <3>1, <3>2 DEF Next, ReloadStep
    <2>3. \/ cont'[cur][old[cur]].st = "healthy"
          \/ pc = "stop" /\ cont'[cur][new] = cont[cur][new]
      <3>1. CASE Killed
        BY <3>1 DEF Killed
      <3>2. CASE ScaleUp
        BY <2>0, <3>2 DEF ScaleUp, ScaledUp, Exists, Started, RunningStatus, TypeOK
      <3>3. CASE StopOld
        BY <2>0, <3>3 DEF StopOld, TypeOK
      <3>4. CASE CallFails \/ CleanUpFails
        <4>1. cont' \in CallEffects
          BY <3>4 DEF CallFails, CleanUpFails
        <4>2. pc # "rm"
          BY DEF HandoffInv, OldStopped
        <4>3. CASE pc \notin {"scale", "touch", "stop", "abortStop", "abortRm"}
          BY <4>1, <4>2, <4>3 DEF CallEffects
        <4>4. CASE pc = "scale"
          BY <2>0, <4>1, <4>4 DEF CallEffects, ScaledUp, Exists, Started, RunningStatus, TypeOK
        <4>5. CASE pc = "touch"
          BY <2>0, <4>1, <4>5 DEF CallEffects, TypeOK, Container
        <4>6. CASE pc = "stop"
          BY <2>0, <4>1, <4>6 DEF CallEffects, TypeOK
        <4>7. CASE pc \in {"abortStop", "abortRm"}
          BY <2>0, <4>1, <4>7 DEF CallEffects, TypeOK
        <4>8. QED
          BY <4>3, <4>4, <4>5, <4>6, <4>7
      <3>5. CASE TouchDrainFile
        <4>1. cont' = cont \/ cont' = [cont EXCEPT ![cur][old[cur]].drained = TRUE]
          BY <3>5 DEF TouchDrainFile
        <4>2. cont[cur][old[cur]] \in Container
          BY <2>0 DEF TypeOK
        <4>3. QED
          BY <2>0, <4>1, <4>2 DEF TypeOK, Container
      <3>6. CASE AbortStop \/ AbortRemove
        BY <2>0, <3>6 DEF AbortStop, AbortRemove, TypeOK
      <3>7. CASE RemoveOld
        BY <3>7 DEF RemoveOld, HandoffInv, OldStopped
      <3>8. CASE ScaleUpWithout \/ FindNew \/ NewHealthy \/ NewFailed \/ Drained \/ CleanUp
        BY <3>8 DEF ScaleUpWithout, FindNew, NewHealthy, NewFailed, Drained, CleanUp
      <3>9. QED
        BY <2>1, <3>1, <3>2, <3>3, <3>4, <3>5, <3>6, <3>7, <3>8 DEF HandoffStep
    <2>4. QED
      BY <2>0, <2>3 DEF HandoffInv, NewServes
  <1>2. HandoffInv /\ [Next]_vars => [Keeps]_vars
    BY <1>1
  <1>3. Spec => [][Keeps]_vars
    BY HandoffInvInit, HandoffInvInductive, <1>2, PTL DEF Spec
  <1>4. QED
    BY <1>3 DEF OldServesUntilNewHealthy

------------------------------------------------------------------------------
(* What is started runs the compose spec and the mounts of that moment.     *)

\* After a handoff's step a container is as it was, gone or stopped, or, for the
\* service handed off, has the spec or the mounts asked for.
LEMMA HandoffStarts ==
  ASSUME TypeOK, HandoffStep, NEW s \in Service, NEW k \in Slot
  PROVE  /\ Exists(s, k)' => \/ Exists(s, k) /\ cont'[s][k].spec = cont[s][k].spec
                             \/ s = cur /\ cont'[s][k].spec = spec[s]
         /\ Running(s, k)' => \/ Running(s, k) /\ cont'[s][k].mount = cont[s][k].mount
                              \/ cont'[s][k].mount = link[s]
  <1> USE OtherSlot
  <1>0. /\ cur \in Service /\ old[cur] \in Slot /\ cont \in [Service -> [Slot -> Container]]
    BY DEF TypeOK
  <1>1. CASE UNCHANGED cont
    BY <1>1 DEF Exists, Running
  <1>2. CASE cont' = [cont EXCEPT ![cur] = ScaledUp(cur)]
    <2>1. CASE s # cur
      BY <1>0, <1>2, <2>1 DEF Exists, Running
    <2>2. CASE s = cur
      <3>1. cont'[s][k] = IF Exists(s, k) THEN Started(s, cont[s][k]) ELSE Fresh(s)
        BY <1>0, <1>2, <2>2 DEF ScaledUp
      <3>2. cont[s][k] \in Container
        BY <1>0
      <3>3. QED
        BY <2>2, <3>1, <3>2 DEF Exists, Running, Started, Fresh, Container, RunningStatus
    <2>3. QED
      BY <2>1, <2>2
  <1>3. CASE cont' = [cont EXCEPT ![cur][old[cur]].drained = TRUE]
    BY <1>0, <1>3 DEF Exists, Running, Container
  <1>4. CASE \E j \in Slot : \E c \in {Stopped(cont[cur][j]), Absent} : cont' = [cont EXCEPT ![cur][j] = c]
    <2>1. \/ cont'[s][k] = cont[s][k]
          \/ cont'[s][k] = Stopped(cont[s][k])
          \/ cont'[s][k] = Absent
      BY <1>0, <1>4
    <2>2. cont[s][k] \in Container
      BY <1>0
    <2>3. QED
      BY <2>1, <2>2 DEF Exists, Running, Stopped, Absent, Container, RunningStatus
  <1>5. QED
    BY <1>1, <1>2, <1>3, <1>4, HandoffShapes

\* Nor does what happens to one container outside the reload start another version.
LEMMA ContainerStarts ==
  ASSUME TypeOK, ContainerStep, NEW s \in Service, NEW k \in Slot
  PROVE  /\ Exists(s, k)' => Exists(s, k) /\ cont'[s][k].spec = cont[s][k].spec
         /\ Running(s, k)' => \/ Running(s, k) /\ cont'[s][k].mount = cont[s][k].mount
                              \/ cont'[s][k].mount = link[s]
  <1>0. cont \in [Service -> [Slot -> Container]]
    BY DEF TypeOK
  <1> SUFFICES ASSUME NEW t \in Service, NEW j \in Slot,
                      Report(t, j) \/ PolicyRestart(t, j) \/ Fault(t, j)
               PROVE  /\ Exists(s, k)' => Exists(s, k) /\ cont'[s][k].spec = cont[s][k].spec
                      /\ Running(s, k)' => \/ Running(s, k) /\ cont'[s][k].mount = cont[s][k].mount
                                           \/ cont'[s][k].mount = link[s]
    BY OneShotSteps DEF Exists, Running
  <1>2. CASE Report(t, j) \/ Fault(t, j)
    <2>1. PICK st : cont' = [cont EXCEPT ![t][j].st = st] /\ Running(t, j)
      BY <1>2 DEF Report, Fault, SetStatus, Running, RunningStatus
    <2>2. cont'[s][k].spec = cont[s][k].spec /\ cont'[s][k].mount = cont[s][k].mount
      BY <1>0, <2>1 DEF Container
    <2>3. cont'[s][k].st = cont[s][k].st \/ Running(s, k)
      BY <1>0, <2>1
    <2>4. QED
      BY <2>2, <2>3 DEF Exists, Running, RunningStatus
  <1>3. CASE PolicyRestart(t, j)
    <2>1. cont' = [cont EXCEPT ![t][j] = Started(t, cont[t][j])] /\ Exists(t, j)
      BY <1>0, <1>3 DEF PolicyRestart, Exists
    <2>2. cont'[s][k] = cont[s][k] \/ (cont'[s][k] = Started(s, cont[s][k]) /\ Exists(s, k))
      BY <1>0, <2>1
    <2>3. cont[s][k] \in Container
      BY <1>0
    <2>4. QED
      BY <2>2, <2>3 DEF Exists, Running, Started, Container, RunningStatus
  <1>4. QED
    BY <1>2, <1>3

\* One container of a service, or none, is left by the rest of main: a new one, or
\* the one that was up to date.
LEMMA MainStarts ==
  ASSUME TypeOK, NEW t \in Service, ForceRecreate(t) \/ UpService(t),
         NEW s \in Service, NEW k \in Slot
  PROVE  /\ s # t => cont'[s][k] = cont[s][k]
         /\ s = t /\ Exists(s, k)' => cont'[s][k].spec = spec[s]
         /\ Running(s, k)' => \/ Running(s, k) /\ cont'[s][k].mount = cont[s][k].mount
                              \/ cont'[s][k].mount = link[s]
  <1>0. cont \in [Service -> [Slot -> Container]] /\ cont[s][k] \in Container
    BY DEF TypeOK
  <1>1. CASE cont' = [cont EXCEPT ![t] = InOneSlot(t, Fresh(t))]
    <2>1. s = t => cont'[s][k] \in {Fresh(s), Absent}
      BY <1>0, <1>1 DEF InOneSlot
    <2>2. s # t => cont'[s][k] = cont[s][k]
      BY <1>0, <1>1
    <2>3. QED
      BY <2>1, <2>2 DEF Exists, Running, Fresh, Absent, RunningStatus
  <1>2. CASE \E j \in Slot : UpToDate(t, j) /\ cont' = [cont EXCEPT ![t] = [i \in Slot |->
                                IF i = j THEN Started(t, cont[t][i]) ELSE Absent]]
    <2>1. s = t => \/ cont'[s][k] = Absent
                   \/ cont'[s][k] = Started(s, cont[s][k]) /\ UpToDate(s, k)
      BY <1>0, <1>2
    <2>2. s # t => cont'[s][k] = cont[s][k]
      BY <1>0, <1>2
    <2>3. CASE s # t
      BY <2>2, <2>3 DEF Running
    <2>4. CASE s = t /\ cont'[s][k] = Absent
      BY <2>4 DEF Exists, Running, Absent, RunningStatus
    <2>5. CASE s = t /\ cont'[s][k] = Started(s, cont[s][k]) /\ UpToDate(s, k)
      <3>1. cont'[s][k].spec = spec[s]
        BY <1>0, <2>5 DEF UpToDate, Started, Container
      <3>2. Running(s, k) \/ cont'[s][k].mount = link[s]
        BY <1>0, <2>5 DEF Running, Started, Container
      <3>3. Running(s, k) => cont'[s][k] = cont[s][k]
        BY <2>5 DEF Running, Started
      <3>4. QED
        BY <2>5, <3>1, <3>2, <3>3
    <2>6. QED
      BY <2>1, <2>3, <2>4, <2>5
  <1>3. QED
    BY <1>1, <1>2 DEF ForceRecreate, UpService

------------------------------------------------------------------------------
(* Nothing starts before its migration while no migration of the service has  *)
(* failed or outlived its `up -d`, where no service that has a migration      *)
(* mounts config as well: that one is force-recreated before `up -d`.         *)

\* What is being handed off has its migration behind it.
MigratedBefore ==
    pc # "idle" => \A s \in Migrating \ cut :
        (s \in todo \/ (s = cur /\ pc \in HandoffPhase))
            => shot[s] = [image |-> spec[s], st |-> "done"]

\* A one-shot that is not cut runs only while an `up -d` waits for it, and one that
\* failed as the stack came up left nothing of its service.
OneShotInv ==
    \A s \in Migrating \ cut :
        /\ shot[s].st = "running" => pc = "up" /\ s \in upTodo
        /\ shot[s].st = "failed" => \A k \in Slot : ~Exists(s, k)
        /\ shot[s].st = "done" => shot[s].image <= migrated[s]

\* Only services that mount config are ever found to have changed mounts.
OnlyMounted ==
    /\ \A s \in Service \ Mounted : link[s] = 0 /\ saved[s] = 0 /\ mounts[s] = 0
    /\ recreate \subseteq Mounted
    /\ pc \in {"recreate", "up", "save"} => todo = {}

MigrationInv == TypeOK /\ MigrationFirst /\ MigratedBefore /\ OneShotInv /\ OnlyMounted

LEMMA MigrationInit == Init => MigrationInv
  <1> SUFFICES ASSUME Init PROVE MigrationInv
    OBVIOUS
  <1>1. \A s \in Service, k \in Slot : cont[s][k].spec = 0
    BY DEF Init, Absent
  <1>2. MigrationFirst
    BY <1>1, SetsAssumption DEF Init, MigrationFirst
  <1>3. MigratedBefore /\ OneShotInv /\ OnlyMounted
    BY SetsAssumption DEF Init, MigratedBefore, OneShotInv, OnlyMounted
  <1>4. QED
    BY <1>2, <1>3, TypeInit DEF MigrationInv

\* A step that ends the process keeps the invariant if it leaves no one-shot running
\* that is not cut.
LEMMA MigrationEnds ==
  ASSUME MigrationInv, Ends, TypeOK', UNCHANGED <<spec, link, cont, migrated>>, cut \subseteq cut',
         saved' \in {saved, mounts},
         \A s \in Migrating \ cut' : shot'[s] = shot[s] /\ shot[s].st # "running"
  PROVE  MigrationInv'
  <1> USE SetsAssumption
  <1>1. MigrationFirst' /\ MigratedBefore'
    BY DEF Ends, MigrationInv, MigrationFirst, MigratedBefore, Exists
  <1>2. OneShotInv'
    BY DEF MigrationInv, OneShotInv, Exists
  <1>3. OnlyMounted'
    BY DEF Ends, MigrationInv, OnlyMounted
  <1>4. QED
    BY <1>1, <1>2, <1>3 DEF MigrationInv

\* So does one that starts no container, or only on a version that is migrated,
\* and neither plans nor touches a one-shot.
LEMMA MigrationStays ==
  ASSUME MigrationInv, TypeOK', UNCHANGED <<spec, link, schema, saved, mounts>>,
         pc' = "up" \/ pc # "up" \/ upTodo = {}, pc' = "idle" \/ pc # "idle",
         recreate' \subseteq recreate, todo' \subseteq todo,
         pc' \in {"recreate", "up", "save"} => todo' = {},
         \A s \in Service : s \in todo' \/ (s = cur' /\ pc' \in HandoffPhase)
                             => s \in todo \/ (s = cur /\ pc \in HandoffPhase),
         \A s \in Migrating \ cut : s \in upTodo => s \in upTodo' \/ shot[s].st # "running",
         \A s \in Migrating \ cut, k \in Slot :
            Exists(s, k)' => \/ Exists(s, k) /\ cont'[s][k].spec = cont[s][k].spec
                             \/ /\ cont'[s][k].spec = spec[s]
                                /\ shot[s] = [image |-> spec[s], st |-> "done"]
  PROVE  MigrationInv'
  <1> USE SetsAssumption DEF schema
  <1>1. MigrationFirst'
    <2> SUFFICES ASSUME NEW s \in Migrating \ cut, NEW k \in Slot, Exists(s, k)'
                 PROVE  cont'[s][k].spec <= migrated[s]
      BY DEF MigrationFirst
    <2>1. CASE Exists(s, k) /\ cont'[s][k].spec = cont[s][k].spec
      BY <2>1 DEF MigrationInv, MigrationFirst
    <2>2. CASE cont'[s][k].spec = spec[s] /\ shot[s] = [image |-> spec[s], st |-> "done"]
      <3>1. shot[s].st = "done" /\ shot[s].image = spec[s]
        BY <2>2
      <3>2. QED
        BY <2>2, <3>1 DEF MigrationInv, OneShotInv
    <2>3. QED
      BY <2>1, <2>2
  <1>2. MigratedBefore'
    BY DEF MigrationInv, MigratedBefore
  <1>3. OneShotInv'
    <2> SUFFICES ASSUME NEW s \in Migrating \ cut
                 PROVE  /\ shot[s].st = "running" => pc' = "up" /\ s \in upTodo'
                        /\ shot[s].st = "failed" => \A k \in Slot : ~Exists(s, k)'
                        /\ shot[s].st = "done" => shot[s].image <= migrated[s]
      BY DEF OneShotInv
    <2>1. shot[s].st = "running" => pc' = "up" /\ s \in upTodo'
      BY DEF MigrationInv, OneShotInv
    <2>2. ASSUME shot[s].st = "failed", NEW k \in Slot PROVE ~Exists(s, k)'
      <3>1. ~Exists(s, k)
        BY <2>2 DEF MigrationInv, OneShotInv
      <3>2. shot[s] # [image |-> spec[s], st |-> "done"]
        BY <2>2
      <3>3. QED
        BY <3>1, <3>2
    <2>3. shot[s].st = "done" => shot[s].image <= migrated[s]
      BY DEF MigrationInv, OneShotInv
    <2>4. QED
      BY <2>1, <2>2, <2>3
  <1>4. OnlyMounted'
    BY DEF MigrationInv, OnlyMounted
  <1>5. QED
    BY <1>1, <1>2, <1>3, <1>4 DEF MigrationInv

LEMMA MigrationInductive ==
  ASSUME Mounted \cap Migrating = {}
  PROVE  MigrationInv /\ [Next]_vars => MigrationInv'
  <1> SUFFICES ASSUME MigrationInv, [Next]_vars PROVE MigrationInv'
    OBVIOUS
  <1> USE SetsAssumption DEF environment, schema, reload, Goto, HandoffFails, Mishap
  <1>0. TypeOK /\ TypeOK'
    BY TypeEnvironment, TypeHandoff, TypeMain DEF MigrationInv, Next, ReloadStep, TypeOK, vars
  <1>1. CASE Deploy
    <2>1. MigrationFirst' /\ MigratedBefore' /\ OneShotInv' /\ OnlyMounted'
      BY <1>0, <1>1 DEF Deploy, MigrationInv, MigrationFirst, MigratedBefore, OneShotInv, OnlyMounted, Exists
    <2>2. QED
      BY <1>0, <2>1 DEF MigrationInv
  <1>2. CASE StackRestart
    <2>1. PICK F \in SUBSET Migrating :
            /\ cont' = [s \in Service |->
                          [k \in Slot |-> IF k = 1 /\ s \notin F THEN Fresh(s) ELSE Absent]]
            /\ RestartedSchema(F)
      BY <1>2 DEF StackRestart
    <2>2. ASSUME NEW s \in Migrating
          PROVE  /\ spec[s] \in Nat /\ migrated'[s] \in Nat
                 /\ shot'[s].image = spec[s]
                 /\ s \in F => shot'[s].st = "failed"
                 /\ s \notin F => shot'[s].st = "done" /\ spec[s] <= migrated'[s]
      BY <1>0, <2>1 DEF RestartedSchema, TypeOK
    <2>3. ASSUME NEW s \in Migrating, NEW k \in Slot
          PROVE  /\ s \in F => ~Exists(s, k)'
                 /\ s \notin F => cont'[s][k].spec <= spec[s]
      <3>1. cont'[s][k] = IF k = 1 /\ s \notin F THEN Fresh(s) ELSE Absent
        BY <2>1
      <3>2. 0 <= spec[s]
        BY <2>2
      <3>3. CASE s \in F
        BY <3>1, <3>3 DEF Exists, Absent
      <3>4. CASE s \notin F
        BY <2>2, <3>1, <3>2, <3>4 DEF Fresh, Absent
      <3>5. QED
        BY <3>3, <3>4
    <2>4. MigrationFirst'
      <3> SUFFICES ASSUME NEW s \in Migrating, NEW k \in Slot, Exists(s, k)'
                   PROVE  cont'[s][k].spec <= migrated'[s]
        BY DEF MigrationFirst
      <3>1. s \notin F /\ cont'[s][k].spec \in Nat /\ cont'[s][k].spec <= spec[s]
        BY <1>0, <2>3 DEF TypeOK, Container
      <3>2. spec[s] \in Nat /\ migrated'[s] \in Nat /\ spec[s] <= migrated'[s]
        BY <2>2, <3>1
      <3>3. QED
        BY <3>1, <3>2
    <2>5. OneShotInv'
      <3> SUFFICES ASSUME NEW s \in Migrating
                   PROVE  /\ shot'[s].st # "running"
                          /\ shot'[s].st = "failed" => \A k \in Slot : ~Exists(s, k)'
                          /\ shot'[s].st = "done" => shot'[s].image <= migrated'[s]
        BY DEF OneShotInv
      <3>1. CASE s \in F
        BY <2>2, <2>3, <3>1
      <3>2. CASE s \notin F
        BY <2>2, <3>2
      <3>3. QED
        BY <3>1, <3>2
    <2>6. MigratedBefore' /\ OnlyMounted'
      BY <1>2 DEF StackRestart, MigrationInv, MigratedBefore, OnlyMounted
    <2>7. QED
      BY <1>0, <2>4, <2>5, <2>6 DEF MigrationInv
  <1>3. CASE Plan
    <2>1. ASSUME NEW s \in Migrating \ cut, PlannedHandoff(s)
          PROVE  shot[s] = [image |-> spec[s], st |-> "done"]
      <3>1. shot[s] \in OneShot /\ shot[s].image = spec[s] /\ shot[s].st # "running"
        BY <1>0, <1>3, <2>1 DEF Plan, PlannedHandoff, MigrationPending, MigrationInv, OneShotInv, TypeOK
      <3>2. shot[s].st # "failed"
        <4>1. PICK k \in Slot : Running(s, k)
          BY <1>3, <2>1, PlanSeesOld
        <4>2. QED
          BY <2>1, <4>1 DEF MigrationInv, OneShotInv, Running, Exists, RunningStatus
      <3>3. QED
        BY <3>1, <3>2 DEF OneShot
    <2>2. \A s \in Service : Forced(s) => s \in Mounted
      BY DEF Forced, MigrationInv, OnlyMounted
    <2>3. MigratedBefore'
      BY <1>3, <2>1 DEF Plan, MigratedBefore, HandoffPhase
    <2>4. OnlyMounted'
      BY <1>3, <2>2 DEF Plan, MigrationInv, OnlyMounted
    <2>5. MigrationFirst' /\ OneShotInv'
      BY <1>3 DEF Plan, MigrationInv, MigrationFirst, OneShotInv, Exists
    <2>6. QED
      BY <1>0, <2>3, <2>4, <2>5 DEF MigrationInv
  <1>4. CASE PlanFails \/ Killed \/ (HandoffsDone /\ failed) \/ SaveState
    <2>1. \A s \in Migrating \ cut' : shot'[s] = shot[s] /\ shot[s].st # "running"
      BY <1>4 DEF PlanFails, Killed, Unfinished, HandoffsDone, SaveState, MigrationInv, OneShotInv
    <2>2. UNCHANGED <<spec, link, cont, migrated>> /\ cut \subseteq cut' /\ saved' \in {saved, mounts} /\ Ends
      BY <1>4 DEF PlanFails, Killed, HandoffsDone, SaveState
    <2>3. QED
      BY <1>0, <2>1, <2>2, MigrationEnds
  <1>5. CASE NextHandoff \/ (HandoffsDone /\ ~failed) \/ Recreated \/ UpDone
    BY <1>0, <1>5, MigrationStays DEF NextHandoff, HandoffsDone, Recreated, UpDone, HandoffPhase, Exists,
       MigrationInv, OnlyMounted
  <1>6. ASSUME NEW s \in Service, Relink(s) PROVE MigrationInv'
    <2>1. MigrationFirst' /\ MigratedBefore' /\ OneShotInv' /\ OnlyMounted'
      BY <1>0, <1>6 DEF Relink, MigrationInv, MigrationFirst, MigratedBefore, OneShotInv, OnlyMounted, Exists, TypeOK
    <2>2. QED
      BY <1>0, <2>1 DEF MigrationInv
  <1>7. ASSUME NEW t \in Service, OneShotDone(t) PROVE MigrationInv'
    <2>1. /\ UNCHANGED <<spec, link, cont, cut, saved, pc, reload>>
          /\ shot[t].st = "running" /\ shot' = [shot EXCEPT ![t].st = "done"]
      BY <1>7 DEF OneShotDone
    <2>2. \A s \in Service : /\ migrated[s] \in Nat /\ migrated'[s] \in Nat /\ migrated[s] <= migrated'[s]
                             /\ s # t => shot'[s] = shot[s]
                             /\ s = t => shot'[s].image <= migrated'[s] /\ shot'[s].st = "done"
      BY <1>0, <1>7 DEF OneShotDone, TypeOK, OneShot
    <2>3. MigrationFirst'
      <3> SUFFICES ASSUME NEW s \in Migrating \ cut, NEW k \in Slot, Exists(s, k)
                   PROVE  cont[s][k].spec <= migrated'[s]
        BY <2>1 DEF MigrationFirst, Exists
      <3>1. cont[s][k].spec \in Nat /\ cont[s][k].spec <= migrated[s]
        BY <1>0 DEF TypeOK, Container, MigrationInv, MigrationFirst
      <3>2. QED
        BY <2>2, <3>1
    <2>4. MigratedBefore'
      BY <1>0, <2>1, <2>2 DEF MigrationInv, MigratedBefore, OneShotInv, HandoffPhase
    <2>5. OneShotInv'
      <3> SUFFICES ASSUME NEW s \in Migrating \ cut
                   PROVE  /\ shot'[s].st = "running" => pc = "up" /\ s \in upTodo
                          /\ shot'[s].st = "failed" => \A k \in Slot : ~Exists(s, k)
                          /\ shot'[s].st = "done" => shot'[s].image <= migrated'[s]
        BY <2>1 DEF OneShotInv, Exists
      <3>1. CASE s = t
        BY <2>2, <3>1
      <3>2. CASE s # t
        <4>1. shot[s] \in OneShot /\ shot'[s] = shot[s]
          BY <1>0, <2>2, <3>2 DEF TypeOK
        <4>2. QED
          BY <2>2, <4>1 DEF MigrationInv, OneShotInv, OneShot
      <3>3. QED
        BY <3>1, <3>2
    <2>6. QED
      BY <1>0, <2>1, <2>3, <2>4, <2>5 DEF MigrationInv, OnlyMounted
  <1>8. ASSUME NEW t \in Service, OneShotFails(t) PROVE MigrationInv'
    <2>1. /\ UNCHANGED <<spec, link, cont, migrated, saved>> /\ t \in cut' /\ cut \subseteq cut'
          /\ \A s \in Service : s # t => shot'[s] = shot[s]
      BY <1>0, <1>8 DEF OneShotFails, Unfinished, TypeOK
    <2>2. CASE Ends /\ cut' = cut \cup Unfinished
      <3>1. \A s \in Migrating \ cut' : shot'[s] = shot[s] /\ shot[s].st # "running"
        BY <2>1, <2>2 DEF Unfinished
      <3>2. QED
        BY <1>0, <2>1, <2>2, <3>1, MigrationEnds
    <2>3. CASE UNCHANGED <<pc, reload>>
      <3>1. MigrationFirst' /\ MigratedBefore' /\ OneShotInv' /\ OnlyMounted'
        BY <2>1, <2>3 DEF MigrationInv, MigrationFirst, MigratedBefore, OneShotInv, OnlyMounted, Exists
      <3>2. QED
        BY <1>0, <3>1 DEF MigrationInv
    <2>4. QED
      BY <1>8, <2>2, <2>3 DEF OneShotFails
  <1>9. ASSUME NEW t \in Service, NEW j \in Slot, Report(t, j) \/ PolicyRestart(t, j) \/ Fault(t, j)
        PROVE  MigrationInv'
    <2>1. UNCHANGED <<environment, pc, mounts, todo, recreate, upTodo, cur>>
      BY <1>9 DEF Report, PolicyRestart, Fault
    <2>2. ContainerStep
      BY <1>9 DEF ContainerStep
    <2>3. \A s \in Service, k \in Slot :
             Exists(s, k)' => Exists(s, k) /\ cont'[s][k].spec = cont[s][k].spec
      BY <1>0, <2>2, ContainerStarts
    <2>4. pc \in {"recreate", "up", "save"} => todo = {}
      BY DEF MigrationInv, OnlyMounted
    <2>5. QED
      BY <1>0, <2>1, <2>3, <2>4, MigrationStays
  <1>10. CASE HandoffStep
    <2>1. /\ UNCHANGED <<environment, mounts, todo, old, recreate, upTodo, cur>>
          /\ pc \in HandoffPhase /\ pc' \in HandoffPhase \cup {"next"}
      BY <1>10 DEF HandoffStep, ScaleUp, ScaleUpWithout, FindNew, NewHealthy, NewFailed, TouchDrainFile,
             Drained, StopOld, RemoveOld, AbortStop, AbortRemove, CallFails, CleanUp, CleanUpFails,
             HandoffPhase
    <2>2. cur \in Migrating \ cut => shot[cur] = [image |-> spec[cur], st |-> "done"]
      BY <2>1 DEF MigrationInv, MigratedBefore, HandoffPhase
    <2>3. \A s \in Service, k \in Slot :
             Exists(s, k)' => \/ Exists(s, k) /\ cont'[s][k].spec = cont[s][k].spec
                              \/ s = cur /\ cont'[s][k].spec = spec[s]
      BY <1>0, <1>10, HandoffStarts
    <2>4. QED
      BY <1>0, <2>1, <2>2, <2>3, MigrationStays DEF HandoffPhase
  <1>11. ASSUME NEW t \in Service, ForceRecreate(t) PROVE MigrationInv'
    <2>1. UNCHANGED <<environment, pc, mounts, todo, upTodo, cur>> /\ recreate' \subseteq recreate
          /\ pc = "recreate" /\ t \notin Migrating
      BY <1>11 DEF ForceRecreate, MigrationInv, OnlyMounted
    <2>2. \A s \in Migrating, k \in Slot : cont'[s][k] = cont[s][k]
      BY <1>0, <1>11, <2>1, MainStarts
    <2>3. todo = {}
      BY <2>1 DEF MigrationInv, OnlyMounted
    <2>4. QED
      BY <1>0, <2>1, <2>2, <2>3, MigrationStays DEF Exists, HandoffPhase
  <1>12. ASSUME NEW t \in Service, UpService(t) PROVE MigrationInv'
    <2>1. UNCHANGED <<environment, pc, mounts, todo, cur, recreate>> /\ upTodo' = upTodo \ {t} /\ pc = "up"
          /\ (t \in Migrating => shot[t] = [image |-> spec[t], st |-> "done"])
      BY <1>12 DEF UpService
    <2>2. \A s \in Service, k \in Slot : /\ s # t => cont'[s][k] = cont[s][k]
                                         /\ s = t /\ Exists(s, k)' => cont'[s][k].spec = spec[s]
      BY <1>0, <1>12, MainStarts
    <2>3. todo = {}
      BY <2>1 DEF MigrationInv, OnlyMounted
    <2>4. \A s \in Migrating, k \in Slot :
            Exists(s, k)' => \/ Exists(s, k) /\ cont'[s][k].spec = cont[s][k].spec
                             \/ /\ cont'[s][k].spec = spec[s]
                                /\ shot[s] = [image |-> spec[s], st |-> "done"]
      BY <2>1, <2>2 DEF Exists
    <2>5. QED
      BY <1>0, <2>1, <2>3, <2>4, MigrationStays DEF HandoffPhase
  <1>13. ASSUME NEW t \in Service, UpOneShot(t) PROVE MigrationInv'
    <2>1. /\ UNCHANGED <<spec, link, cont, migrated, cut, saved, pc, reload>> /\ pc = "up" /\ t \in upTodo
          /\ \A s \in Service : IF s = t THEN shot'[s].st = "running" ELSE shot'[s] = shot[s]
      BY <1>0, <1>13 DEF UpOneShot, TypeOK
    <2>2. todo = {}
      BY <2>1 DEF MigrationInv, OnlyMounted
    <2>3. MigrationFirst' /\ MigratedBefore' /\ OneShotInv' /\ OnlyMounted'
      BY <2>1, <2>2 DEF MigrationInv, MigrationFirst, MigratedBefore, OneShotInv, OnlyMounted, Exists, HandoffPhase
    <2>4. QED
      BY <1>0, <2>3 DEF MigrationInv
  <1>14. CASE UNCHANGED vars
    BY <1>0, <1>14 DEF vars, MigrationInv, MigrationFirst, MigratedBefore, OneShotInv, OnlyMounted, Exists
  <1>15. QED
    BY <1>1, <1>2, <1>3, <1>4, <1>5, <1>6, <1>7, <1>8, <1>9, <1>10, <1>11, <1>12, <1>13, <1>14
    DEF Next, ReloadStep, MainStep, ContainerStep

\* changed_oneshots(): no container exists on a version whose migration has not
\* completed, through handoffs, kills and deploys that go back as well, as long as
\* no migration of the service failed in an `up -d` or outlived it, and provided no
\* service with a migration mounts config from the store.  changed_oneshots() does
\* not see a migration that was cut: then it is false (MigrationAlwaysFirst).
THEOREM MigratesFirst ==
  ASSUME Mounted \cap Migrating = {}
  PROVE  Spec => []MigrationFirst
  <1>1. MigrationInv => MigrationFirst
    BY DEF MigrationInv
  <1>2. QED
    BY <1>1, MigrationInit, MigrationInductive, PTL DEF Spec

------------------------------------------------------------------------------
(* The state file calls no outdated container current, where it was there    *)
(* from the start and no deploy brings back an earlier version.              *)

\* What runs of a service has the mounts the links point to.
Clean(s) == \A k \in Slot : Running(s, k) => cont[s][k].mount = link[s]

\* Versions are those of past deploys.
PastDeploys ==
    /\ recorded = TRUE /\ deploys \in Nat
    /\ \A s \in Service : link[s] <= deploys /\ saved[s] <= deploys /\ mounts[s] <= deploys

\* What the state file calls current is.
SavedClean == \A s \in Service : saved[s] = link[s] => Clean(s)

\* Unless its handoff failed, a service is either still to be replaced or on the
\* mounts this reload has read, if they still are the present ones.
InHand(s) == s \in todo \/ (s = cur /\ pc \in HandoffPhase)

Replaced ==
    pc # "idle" => \A s \in Service :
        mounts[s] = link[s] => failed \/ Clean(s) \/ s \in recreate \/ InHand(s)

\* The container beside the old one was started by this reload.
BesideClean ==
    pc # "idle" => \A s \in Service :
        (InHand(s) /\ mounts[s] = link[s] /\ Running(s, Other(old[s])))
            => cont[s][Other(old[s])].mount = link[s]

\* A failed handoff ends the reload; later phases have no services left.
PhaseOrder ==
    /\ pc \in {"recreate", "up", "save"} => ~failed /\ todo = {}
    /\ pc \in {"up", "save"} => recreate = {}

DriftInv == TypeOK /\ PastDeploys /\ SavedClean /\ Replaced /\ BesideClean /\ PhaseOrder

LEMMA DriftInit == ASSUME FirstRun = FALSE, Init PROVE DriftInv
  <1>1. \A s \in Service, k \in Slot : cont[s][k].mount = 0 /\ link[s] = 0
    BY DEF Init, Absent
  <1>2. recorded = TRUE
    BY DEF Init
  <1>3. PastDeploys
    BY <1>2 DEF Init, PastDeploys
  <1>4. SavedClean
    BY <1>1 DEF SavedClean, Clean
  <1>5. Replaced /\ BesideClean /\ PhaseOrder
    BY DEF Init, Replaced, BesideClean, PhaseOrder
  <1>6. QED
    BY <1>3, <1>4, <1>5, TypeInit DEF DriftInv

\* A step that starts containers, if any, on the present mounts, and neither moves
\* a link nor writes the state file, keeps services clean.
Renews == \A s \in Service, k \in Slot :
    Running(s, k)' => \/ Running(s, k) /\ cont'[s][k].mount = cont[s][k].mount
                      \/ cont'[s][k].mount = link[s]

LEMMA CleanStays ==
  ASSUME Renews, UNCHANGED link, NEW s \in Service, Clean(s)
  PROVE  Clean(s)'
  BY DEF Renews, Clean

LEMMA SavedCleanStays ==
  ASSUME DriftInv, Renews, UNCHANGED <<link, saved>>
  PROVE  SavedClean'
  BY CleanStays DEF DriftInv, SavedClean

LEMMA ReplacedStays ==
  ASSUME DriftInv, Renews, UNCHANGED <<link, mounts, failed>>, pc # "idle",
         \A s \in Service : s \in recreate => s \in recreate' \/ Clean(s)',
         \A s \in Service : InHand(s) => InHand(s)' \/ (mounts[s] = link[s] => Clean(s)')
  PROVE  Replaced'
  BY CleanStays DEF DriftInv, Replaced

LEMMA BesideStays ==
  ASSUME DriftInv, Renews, UNCHANGED <<link, mounts, old>>, pc # "idle",
         \A s \in Service : InHand(s)' => InHand(s)
  PROVE  BesideClean'
  <1>1. \A s \in Service : Other(old[s]) \in Slot
    BY OtherSlot DEF DriftInv, TypeOK
  <1>2. QED
    BY <1>1 DEF DriftInv, BesideClean, Renews

\* Where links move, they move to a version nothing has been read or saved of.
LEMMA DriftLinks ==
  ASSUME MayRevert = FALSE, DriftInv,
         Deploy \/ \E s \in Service : Relink(s)
  PROVE  DriftInv'
  <1> USE DEF environment, reload
  <1>0. TypeOK /\ TypeOK'
    BY TypeEnvironment DEF DriftInv
  <1>1. /\ deploys' = deploys + 1 /\ deploys \in Nat
        /\ \A s \in Service : link'[s] = link[s] \/ link'[s] = deploys + 1
    <2>1. CASE Deploy
      <3>1. ASSUME NEW s \in Service PROVE link'[s] = link[s] \/ link'[s] = deploys + 1
        BY <2>1 DEF Deploy, Choices
      <3>2. QED
        BY <1>0, <2>1, <3>1 DEF Deploy, TypeOK
    <2>2. CASE \E s \in Service : Relink(s)
      BY <1>0, <2>2 DEF Relink, TypeOK
    <2>3. QED
      BY <2>1, <2>2
  <1>2. UNCHANGED <<cont, saved, recorded, pc, mounts, todo, old, recreate, cur, failed>>
    BY DEF Deploy, Relink
  <1>3. \A s \in Service : /\ saved[s] \in Nat /\ mounts[s] \in Nat /\ link[s] \in Nat
                           /\ saved[s] <= deploys /\ mounts[s] <= deploys /\ link[s] <= deploys
    BY <1>0 DEF DriftInv, PastDeploys, TypeOK
  <1>4. \A s \in Service : /\ saved[s] = link'[s] => link'[s] = link[s] /\ saved[s] = link[s]
                           /\ mounts[s] = link'[s] => link'[s] = link[s] /\ mounts[s] = link[s]
    BY <1>1, <1>3
  <1>5. PastDeploys'
    BY <1>1, <1>2, <1>3 DEF DriftInv, PastDeploys
  <1>6. \A s \in Service : link'[s] = link[s] /\ Clean(s) => Clean(s)'
    BY <1>2 DEF Clean, Running
  <1>7. SavedClean'
    BY <1>2, <1>4, <1>6 DEF DriftInv, SavedClean
  <1>8. Replaced'
    BY <1>2, <1>4, <1>6 DEF DriftInv, Replaced, InHand
  <1>9. BesideClean'
    BY <1>2, <1>4 DEF DriftInv, BesideClean, InHand, Running
  <1>10. PhaseOrder'
    BY <1>2 DEF DriftInv, PhaseOrder
  <1>11. QED
    BY <1>0, <1>5, <1>7, <1>8, <1>9, <1>10 DEF DriftInv

\* What plan() leaves out is what the state file calls current, which it is.
LEMMA DriftPlan == ASSUME DriftInv, Plan PROVE DriftInv'
  <1> USE DEF environment
  <1>0. TypeOK /\ TypeOK'
    BY TypeMain DEF DriftInv
  <1>1. /\ UNCHANGED <<link, cont, saved, recorded, deploys>> /\ pc' = "next" /\ mounts' = link
        /\ todo' = {s \in Service : PlannedHandoff(s)}
        /\ recreate' = {s \in Service : Forced(s) /\ ~PlannedHandoff(s)}
    BY DEF Plan
  <1>2. \A s \in Service : saved[s] = link[s] \/ s \in recreate' \/ s \in todo'
    BY <1>1 DEF Forced, DriftInv, PastDeploys
  <1>3. PastDeploys'
    BY <1>1 DEF DriftInv, PastDeploys
  <1>4. \A s \in Service : Clean(s) => Clean(s)'
    BY <1>1 DEF Clean, Running
  <1>5. SavedClean'
    BY <1>1, <1>4 DEF DriftInv, SavedClean
  <1>6. Replaced'
    BY <1>1, <1>2, <1>4 DEF DriftInv, SavedClean, Replaced, InHand
  <1>7. \A s \in todo' : ~Running(s, Other(old'[s]))
    BY <1>1, PlanSeesOld
  <1>8. BesideClean'
    <2>1. \A s \in Service : InHand(s)' => s \in todo'
      BY <1>1 DEF InHand, HandoffPhase
    <2>2. \A s \in todo' : ~(Running(s, Other(old[s])))'
      BY <1>1, <1>7 DEF Running
    <2>3. QED
      BY <2>1, <2>2 DEF BesideClean
  <1>9. PhaseOrder'
    BY <1>1 DEF PhaseOrder
  <1>10. QED
    BY <1>0, <1>3, <1>5, <1>6, <1>8, <1>9 DEF DriftInv

\* A handoff that ends well leaves the container beside the old one.
LEMMA DriftHandoff == ASSUME DriftInv, HandoffStep PROVE DriftInv'
  <1> USE DEF environment, reload, Goto, HandoffFails, Mishap
  <1>0. TypeOK /\ TypeOK'
    BY TypeHandoff DEF DriftInv
  <1>1. /\ UNCHANGED <<link, saved, recorded, deploys, mounts, todo, old, recreate, cur>>
        /\ pc \in HandoffPhase
        /\ \/ pc' \in HandoffPhase /\ UNCHANGED failed
           \/ pc' = "next" /\ failed' = TRUE
           \/ RemoveOld
    BY DEF HandoffStep, ScaleUp, ScaleUpWithout, FindNew, NewHealthy, NewFailed, TouchDrainFile,
           Drained, StopOld, RemoveOld, AbortStop, AbortRemove, CallFails, CleanUp, CleanUpFails,
           HandoffPhase
  <1>2. pc # "idle" /\ pc' \notin {"idle", "recreate", "up", "save"}
    BY <1>1 DEF RemoveOld, HandoffPhase
  <1>3. Renews
    BY <1>0, HandoffStarts DEF Renews
  <1>4. PastDeploys' /\ PhaseOrder'
    BY <1>1, <1>2 DEF DriftInv, PastDeploys, PhaseOrder
  <1>5. SavedClean'
    BY <1>1, <1>3, SavedCleanStays
  <1>6. \A s \in Service : InHand(s)' => InHand(s)
    BY <1>1 DEF InHand
  <1>7. BesideClean'
    BY <1>1, <1>2, <1>3, <1>6, BesideStays
  <1>8. Replaced'
    <2>1. CASE pc' \in HandoffPhase /\ UNCHANGED failed
      BY <1>1, <1>2, <1>3, <2>1, ReplacedStays DEF InHand
    <2>2. CASE pc' = "next" /\ failed' = TRUE
      BY <2>2 DEF Replaced
    <2>3. CASE RemoveOld
      <3>1. /\ cont' = [cont EXCEPT ![cur][old[cur]] = Absent] /\ UNCHANGED failed /\ pc' = "next"
        BY <2>3 DEF RemoveOld
      <3>2. cur \in Service /\ old[cur] \in Slot /\ new \in Slot /\ cont \in [Service -> [Slot -> Container]]
        BY <1>0, OtherSlot DEF TypeOK, new
      <3>3. mounts[cur] = link[cur] => Clean(cur)'
        <4> SUFFICES ASSUME mounts[cur] = link[cur], NEW k \in Slot, cont'[cur][k].st \in RunningStatus
                     PROVE  cont'[cur][k].mount = link[cur]
          BY <1>1 DEF Clean, Running
        <4>1. k # old[cur]
          BY <3>1, <3>2 DEF Absent, RunningStatus
        <4>2. k = Other(old[cur])
          <5>1. (k = 1 \/ k = 2) /\ (old[cur] = 1 \/ old[cur] = 2)
            BY <3>2
          <5>2. QED
            BY <4>1, <5>1 DEF Other
        <4>3. cont'[cur][k] = cont[cur][k]
          BY <3>1, <3>2, <4>1
        <4>4. Running(cur, k) /\ InHand(cur)
          BY <1>1, <4>3 DEF Running, InHand
        <4>5. QED
          BY <1>1, <1>2, <3>2, <4>2, <4>3, <4>4 DEF DriftInv, BesideClean
      <3>4. \A s \in Service : InHand(s) => InHand(s)' \/ s = cur
        BY <1>1 DEF InHand
      <3>5. QED
        BY <1>1, <1>2, <1>3, <3>1, <3>3, <3>4, ReplacedStays
    <2>4. QED
      BY <1>1, <2>1, <2>2, <2>3
  <1>9. QED
    BY <1>0, <1>4, <1>5, <1>7, <1>8 DEF DriftInv

\* Where the process ends without saving, the state file still says what it said.
LEMMA DriftEnds ==
  ASSUME DriftInv, Ends, TypeOK', UNCHANGED <<link, cont, saved, recorded, deploys>>
  PROVE  DriftInv'
  <1>1. PastDeploys' /\ Replaced' /\ BesideClean' /\ PhaseOrder'
    BY DEF Ends, DriftInv, PastDeploys, Replaced, BesideClean, PhaseOrder
  <1>2. SavedClean'
    BY SavedCleanStays DEF Renews, Running
  <1>3. QED
    BY <1>1, <1>2 DEF DriftInv

LEMMA DriftMain ==
  ASSUME DriftInv, PlanFails \/ Killed \/ MainStep
  PROVE  DriftInv'
  <1> USE DEF environment, schema, reload, Goto, Mishap
  <1>0. TypeOK /\ TypeOK'
    BY TypeMain DEF DriftInv
  <1>1. CASE PlanFails \/ Killed \/ (HandoffsDone /\ failed)
    <2>1. UNCHANGED <<link, cont, saved, recorded, deploys>> /\ Ends
      BY <1>1 DEF PlanFails, Killed, HandoffsDone
    <2>2. QED
      BY <1>0, <2>1, DriftEnds
  <1>2. CASE NextHandoff \/ (HandoffsDone /\ ~failed) \/ Recreated \/ UpDone
    <2>1. /\ UNCHANGED <<link, cont, saved, recorded, deploys, mounts, old, recreate, failed>>
          /\ pc # "idle" /\ pc \notin HandoffPhase
      BY <1>2 DEF NextHandoff, HandoffsDone, Recreated, UpDone, HandoffPhase
    <2>2. Renews
      BY <2>1 DEF Renews, Running
    <2>3. \A s \in Service : InHand(s) <=> InHand(s)'
      BY <1>2, <2>1 DEF NextHandoff, HandoffsDone, Recreated, UpDone, HandoffPhase, InHand
    <2>4. Replaced' /\ BesideClean' /\ SavedClean'
      BY <2>1, <2>2, <2>3, ReplacedStays, BesideStays, SavedCleanStays
    <2>5. PastDeploys' /\ PhaseOrder'
      BY <1>2, <2>1 DEF NextHandoff, HandoffsDone, Recreated, UpDone, DriftInv, PastDeploys, PhaseOrder
    <2>6. QED
      BY <1>0, <2>4, <2>5 DEF DriftInv
  <1>3. ASSUME NEW t \in Service, ForceRecreate(t) PROVE DriftInv'
    <2>1. /\ UNCHANGED <<link, saved, recorded, deploys, mounts, old, todo, cur, failed>>
          /\ pc = "recreate" /\ pc' = pc /\ recreate' = recreate \ {t}
          /\ cont' = [cont EXCEPT ![t] = InOneSlot(t, Fresh(t))]
      BY <1>3 DEF ForceRecreate
    <2>2. Renews
      BY <1>0, <1>3, MainStarts DEF Renews
    <2>3. Clean(t)'
      <3>1. \A k \in Slot : cont'[t][k] \in {Fresh(t), Absent}
        BY <1>0, <2>1 DEF TypeOK, InOneSlot
      <3>2. QED
        BY <2>1, <3>1 DEF Clean, Running, Fresh, Absent, RunningStatus
    <2>4. \A s \in Service : InHand(s)' <=> InHand(s)
      BY <2>1 DEF InHand
    <2>5. Replaced' /\ BesideClean' /\ SavedClean'
      BY <2>1, <2>2, <2>3, <2>4, ReplacedStays, BesideStays, SavedCleanStays
    <2>6. PastDeploys' /\ PhaseOrder'
      BY <2>1 DEF DriftInv, PastDeploys, PhaseOrder
    <2>7. QED
      BY <1>0, <2>5, <2>6 DEF DriftInv
  <1>4. ASSUME NEW t \in Service, UpService(t) PROVE DriftInv'
    <2>1. /\ UNCHANGED <<link, saved, recorded, deploys, mounts, old, todo, cur, failed, recreate>>
          /\ pc = "up" /\ pc' = pc
      BY <1>4 DEF UpService
    <2>2. Renews
      BY <1>0, <1>4, MainStarts DEF Renews
    <2>3. \A s \in Service : InHand(s)' <=> InHand(s)
      BY <2>1 DEF InHand
    <2>4. Replaced' /\ BesideClean' /\ SavedClean'
      BY <2>1, <2>2, <2>3, ReplacedStays, BesideStays, SavedCleanStays
    <2>5. PastDeploys' /\ PhaseOrder'
      BY <2>1 DEF DriftInv, PastDeploys, PhaseOrder
    <2>6. QED
      BY <1>0, <2>4, <2>5 DEF DriftInv
  <1>5. CASE SaveState
    <2>1. /\ UNCHANGED <<link, cont, deploys>> /\ pc = "save" /\ Ends
          /\ recorded' = TRUE /\ saved' = mounts
      BY <1>5 DEF SaveState
    <2>2. ~failed /\ todo = {} /\ recreate = {}
      BY <2>1 DEF DriftInv, PhaseOrder
    <2>3. \A s \in Service : mounts[s] = link[s] => Clean(s)
      BY <2>1, <2>2 DEF DriftInv, Replaced, InHand, HandoffPhase
    <2>4. SavedClean'
      BY <2>1, <2>3 DEF SavedClean, Clean, Running
    <2>5. PastDeploys'
      BY <2>1 DEF Ends, DriftInv, PastDeploys
    <2>6. Replaced' /\ BesideClean' /\ PhaseOrder'
      BY <2>1 DEF Ends, Replaced, BesideClean, PhaseOrder
    <2>7. QED
      BY <1>0, <2>4, <2>5, <2>6 DEF DriftInv
  <1>6. ASSUME NEW t \in Service, UpOneShot(t) PROVE DriftInv'
    <2>1. UNCHANGED <<link, cont, saved, recorded, deploys, pc, reload>>
      BY <1>6 DEF UpOneShot
    <2>2. QED
      BY <1>0, <2>1 DEF DriftInv, PastDeploys, SavedClean, Clean, Replaced, BesideClean, InHand, PhaseOrder, Running
  <1>7. QED
    BY <1>1, <1>2, <1>3, <1>4, <1>5, <1>6 DEF MainStep

LEMMA DriftInductive ==
  ASSUME MayRevert = FALSE
  PROVE  DriftInv /\ [Next]_vars => DriftInv'
  <1> SUFFICES ASSUME DriftInv, [Next]_vars PROVE DriftInv'
    OBVIOUS
  <1>1. CASE StackRestart
    <2>1. /\ UNCHANGED <<link, saved, recorded, deploys, mounts, pc>> /\ pc = "idle"
          /\ \E F \in SUBSET Migrating : cont' = [s \in Service |->
                [k \in Slot |-> IF k = 1 /\ s \notin F THEN Fresh(s) ELSE Absent]]
      BY <1>1 DEF StackRestart, reload
    <2>2. Renews
      BY <2>1 DEF Renews, Running, Fresh, Absent, RunningStatus
    <2>3. SavedClean'
      BY <2>1, <2>2, SavedCleanStays
    <2>4. PastDeploys' /\ Replaced' /\ BesideClean' /\ PhaseOrder'
      BY <2>1 DEF DriftInv, PastDeploys, Replaced, BesideClean, PhaseOrder
    <2>5. TypeOK'
      BY <1>1, TypeEnvironment DEF DriftInv
    <2>6. QED
      BY <2>3, <2>4, <2>5 DEF DriftInv
  <1>2. CASE UNCHANGED <<link, cont, saved, recorded, deploys>> /\ Ends /\ ContainerStep
    BY <1>2, DriftEnds, TypeEnvironment DEF DriftInv
  <1>3. CASE \/ \E s \in Service, k \in Slot : Report(s, k) \/ PolicyRestart(s, k) \/ Fault(s, k)
             \/ UNCHANGED <<link, cont, saved, recorded, deploys, pc, reload>> /\ ContainerStep
             \/ UNCHANGED vars
    <2>1. UNCHANGED <<link, saved, recorded, deploys, mounts, old, todo, cur, failed, recreate, pc>>
      BY <1>3 DEF Report, PolicyRestart, Fault, environment, reload, vars
    <2>2. Renews
      <3>1. CASE ContainerStep
        BY <3>1, ContainerStarts DEF DriftInv, Renews
      <3>2. CASE UNCHANGED vars
        BY <3>2 DEF vars, Renews, Running
      <3>3. QED
        BY <1>3, <3>1, <3>2 DEF ContainerStep
    <2>3. \A s \in Service : InHand(s)' <=> InHand(s)
      BY <2>1 DEF InHand
    <2>4. SavedClean'
      BY <2>1, <2>2, SavedCleanStays
    <2>5. Replaced' /\ BesideClean'
      <3>1. CASE pc = "idle"
        BY <2>1, <3>1 DEF Replaced, BesideClean
      <3>2. CASE pc # "idle"
        BY <2>1, <2>2, <2>3, <3>2, ReplacedStays, BesideStays
      <3>3. QED
        BY <3>1, <3>2
    <2>6. PastDeploys' /\ PhaseOrder'
      BY <2>1 DEF DriftInv, PastDeploys, PhaseOrder
    <2>7. TypeOK'
      BY <1>3, TypeEnvironment DEF ContainerStep, DriftInv, TypeOK, vars
    <2>8. QED
      BY <2>4, <2>5, <2>6, <2>7 DEF DriftInv
  <1>4. QED
    BY <1>1, <1>2, <1>3, OneShotSteps, DriftLinks, DriftPlan, DriftHandoff, DriftMain DEF Next, ReloadStep

\* mounts_changed() sees every container left on outdated mounts: whatever calls
\* fail, whenever a reload is killed or a link moves under it, the state file never
\* calls such a container current.  It must have been there from the start, and no
\* deploy may bring back an earlier version: with either it is false.
THEOREM DriftIsSeen ==
  ASSUME FirstRun = FALSE, MayRevert = FALSE
  PROVE  Spec => []NoSilentDrift
  <1>1. Init => DriftInv
    BY DriftInit
  <1>2. DriftInv => NoSilentDrift
    BY DEF DriftInv, SavedClean, Clean, NoSilentDrift
  <1>3. QED
    BY <1>1, <1>2, DriftInductive, PTL DEF Spec
=============================================================================
