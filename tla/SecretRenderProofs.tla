--------------------------- MODULE SecretRenderProofs ---------------------------
(***************************************************************************)
(* What the units of a host hold, for any files, certificates, units, any   *)
(* lifetimes, outages, rotations, deploys and boots.  A file is missing     *)
(* only until the agent has rendered it after a boot, and no unit runs      *)
(* then; a unit that does not hold what is rendered has a reload to come,   *)
(* because the agent still has the file's command to run.  A certificate is *)
(* renewed so early that an outage may pass before it expires.              *)
(***************************************************************************)
EXTENDS SecretRender, TLAPS

Kinds == /\ now \in Nat \ {0} /\ kv \in [Template -> Nat \ {0}]
         /\ file \in [Template -> Nat] /\ mem \in [Consumer -> Nat]
         /\ job \in [Consumer -> {"none", "start", "reload"}]
         /\ up \subseteq Consumer /\ todo \subseteq Template /\ fails \in Nat

(* What is rendered stays rendered: what the agent has done, and all of it  *)
(* once it is active or a unit runs.                                        *)
RenderedInv ==
    /\ agent = "activating" => \A t \in Template \ todo : file[t] # Absent
    /\ agent = "active" \/ up # {} => \A t \in Template : file[t] # Absent
    /\ \A c \in up : mem[c] # Absent

EmptyInv == Kinds /\ RenderedInv

LEMMA InitEmpty == Init => EmptyInv
<1> SUFFICES ASSUME Init PROVE EmptyInv
  OBVIOUS
<1>1. Kinds
  BY DEF Init, Kinds, Absent
<1>2. RenderedInv
  BY DEF Init, RenderedInv
<1> QED
  BY <1>1, <1>2 DEF EmptyInv

(* Beginning again forgets no file. *)
LEMMA BeginKeeps ==
    ASSUME EmptyInv, Begin, UNCHANGED <<now, kv, file, mem, fails>>, up' \subseteq up,
           job' \in [Consumer -> {"none", "start", "reload"}]
    PROVE  EmptyInv'
BY DEF EmptyInv, Kinds, RenderedInv, Begin

(* Nothing about files, units or the agent. *)
LEMMA EmptyElsewhere ==
    ASSUME EmptyInv, UNCHANGED <<file, agent, todo, mem>>, up' \subseteq up,
           now' \in Nat \ {0}, kv' \in [Template -> Nat \ {0}], fails' \in Nat,
           job' \in [Consumer -> {"none", "start", "reload"}]
    PROVE  EmptyInv'
BY DEF EmptyInv, Kinds, RenderedInv

LEMMA FreshIs == ASSUME EmptyInv, NEW t \in Template PROVE Fresh(t) \in Nat \ {0}
BY DEF EmptyInv, Kinds, Fresh

LEMMA RestartJobs ==
    ASSUME EmptyInv, RestartAgent
    PROVE  /\ up' \subseteq up /\ UNCHANGED mem /\ Begin
           /\ job' \in [Consumer -> {"none", "start", "reload"}]
BY DEF EmptyInv, Kinds, RestartAgent

LEMMA NextEmpty == EmptyInv /\ [Next]_vars => EmptyInv'
<1> SUFFICES ASSUME EmptyInv, [Next]_vars PROVE EmptyInv'
  OBVIOUS
<1> USE DEF openbao, units, counters
<1>k. Kinds
  BY DEF EmptyInv
<1>1. ASSUME NEW t \in Template, Render(t) PROVE EmptyInv'
  <2>1. /\ file' = [file EXCEPT ![t] = Fresh(t)] /\ todo' = todo \ {t} /\ t \in Template
        /\ Fresh(t) \in Nat \ {0} /\ UNCHANGED <<now, kv, mem, job, up, fails, agent>>
    BY <1>1, FreshIs DEF Render
  <2>2. file' \in [Template -> Nat] /\ file'[t] # Absent
    BY <1>k, <2>1 DEF Kinds, Absent
  <2>3. \A u \in Template \ {t} : file'[u] = file[u]
    BY <1>k, <2>1 DEF Kinds
  <2>4. Kinds'
    BY <1>k, <2>1, <2>2 DEF Kinds
  <2>5. RenderedInv'
    BY <2>1, <2>2, <2>3 DEF EmptyInv, RenderedInv
  <2> QED
    BY <2>4, <2>5 DEF EmptyInv
<1>2. ASSUME NEW t \in Template, Command(t) PROVE EmptyInv'
  BY <1>k, <1>2, EmptyElsewhere DEF Command, Kinds
<1>3. CASE AgentDone
  BY <1>3 DEF AgentDone, EmptyInv, Kinds, RenderedInv
<1>4. CASE AgentFails
  BY <1>4 DEF AgentFails, EmptyInv, Kinds, RenderedInv
<1>5. ASSUME NEW c \in Consumer, Start(c) PROVE EmptyInv'
  <2>1. file[Uses[c]] # Absent /\ file[Uses[c]] \in Nat /\ \A t \in Template : file[t] # Absent
    BY <1>5, RenderAssumption DEF Start, EmptyInv, RenderedInv, Kinds
  <2>2. mem' \in [Consumer -> Nat] /\ mem'[c] # Absent /\ \A d \in Consumer \ {c} : mem'[d] = mem[d]
    BY <1>k, <1>5, <2>1 DEF Start, Kinds
  <2>3. Kinds'
    BY <1>k, <1>5, <2>2 DEF Start, Kinds
  <2>4. RenderedInv'
    BY <1>k, <1>5, <2>1, <2>2 DEF Start, EmptyInv, RenderedInv, Kinds
  <2> QED
    BY <2>3, <2>4 DEF EmptyInv
<1>6. ASSUME NEW c \in Consumer, StartRefused(c) PROVE EmptyInv'
  <2>1. job' \in [Consumer -> {"none", "start", "reload"}]
    BY <1>k, <1>6 DEF StartRefused, Kinds
  <2> QED
    BY <1>k, <1>6, <2>1, BeginKeeps, EmptyElsewhere DEF StartRefused, Kinds
<1>7. ASSUME NEW c \in Consumer, NEW w \in BOOLEAN, Reload(c, w) PROVE EmptyInv'
  <2>0. fails' \in Nat /\ job' \in [Consumer -> {"none", "start", "reload"}]
    BY <1>k, <1>7 DEF Reload, Kinds
  <2>1. CASE ~w
    BY <1>k, <1>7, <2>0, <2>1, EmptyElsewhere DEF Reload, Kinds
  <2>2. CASE w
    <3>1. Uses[c] \in Template /\ file[Uses[c]] \in Nat
      BY <1>k, RenderAssumption DEF Kinds
    <3>2. /\ mem' \in [Consumer -> Nat] /\ mem'[c] = file[Uses[c]]
          /\ \A d \in Consumer \ {c} : mem'[d] = mem[d]
      BY <1>k, <1>7, <2>2, <3>1 DEF Reload, Kinds
    <3>3. UNCHANGED <<now, kv, file, up, agent, todo>>
      BY <1>7 DEF Reload
    <3>4. Kinds'
      BY <1>k, <2>0, <3>2, <3>3 DEF Kinds
    <3>5. \A d \in up : mem'[d] # Absent
      <4> SUFFICES ASSUME NEW d \in up PROVE mem'[d] # Absent
        OBVIOUS
      <4>1. d \in Consumer /\ mem[d] # Absent /\ file[Uses[c]] # Absent
        BY <1>k, <3>1 DEF EmptyInv, RenderedInv, Kinds
      <4> QED
        BY <3>2, <4>1
    <3>6. RenderedInv'
      BY <3>3, <3>5 DEF EmptyInv, RenderedInv
    <3> QED
      BY <3>4, <3>6 DEF EmptyInv
  <2> QED
    BY <2>1, <2>2
<1>8. CASE Switch
  <2>1. job' \in [Consumer -> {"none", "start", "reload"}]
    BY <1>8 DEF Switch
  <2> QED
    BY <1>k, <1>8, <2>1, BeginKeeps, EmptyElsewhere DEF Switch, Kinds
<1>9. CASE Rerender
  BY <1>9, RestartJobs, BeginKeeps DEF Rerender
<1>10. CASE Renew
  BY <1>k, <1>10, RestartJobs, BeginKeeps, EmptyElsewhere DEF Renew, Kinds
<1>11. CASE Boot
  <2>1. /\ file' = [t \in Template |-> Absent] /\ up' = {} /\ todo' = Template
        /\ agent' = "activating" /\ job' = [c \in Consumer |-> "start"]
        /\ UNCHANGED <<now, kv, mem, fails>>
    BY <1>11 DEF Boot, Begin
  <2>2. Kinds'
    BY <1>k, <2>1 DEF Kinds, Absent
  <2>3. RenderedInv'
    BY <2>1 DEF RenderedInv
  <2> QED
    BY <2>2, <2>3 DEF EmptyInv
<1>12. ASSUME NEW t \in Template, Rotate(t) PROVE EmptyInv'
  BY <1>k, <1>12, EmptyElsewhere DEF Rotate, Kinds
<1>13. CASE BaoDown \/ BaoUp \/ Tick
  BY <1>k, <1>13, EmptyElsewhere DEF BaoDown, BaoUp, Tick, Kinds
<1>14. CASE UNCHANGED vars
  BY <1>k, <1>14, EmptyElsewhere DEF vars, Kinds
<1> QED
  BY <1>1, <1>2, <1>3, <1>4, <1>5, <1>6, <1>7, <1>8, <1>9, <1>10, <1>11, <1>12, <1>13, <1>14
     DEF Next, Agent

(* Fails closed: whatever is cut short, out of reach, booted or rotated, no *)
(* unit runs that has read a missing file (vault-agent.nix).                *)
THEOREM NothingEmpty == Spec => []NeverEmpty
<1>1. EmptyInv => NeverEmpty
  BY DEF EmptyInv, RenderedInv, NeverEmpty
<1> QED
  BY <1>1, InitEmpty, NextEmpty, PTL DEF Spec

-----------------------------------------------------------------------------
(* --- What is rendered reaches what runs. --- *)

(* Whoever does not hold what is rendered has a command or a job to come;   *)
(* the units that require the agent are stopped before it begins.           *)
PendingInv ==
    /\ agent # "activating" => commands = {}
    /\ agent # "active" => up \cap Requiring = {}
    /\ \A c \in up : /\ job[c] # "start"
                     /\ job[c] = "none" => mem[c] = file[Uses[c]] \/ Uses[c] \in commands

DeliveredInv == EmptyInv /\ PendingInv

LEMMA InitDelivered == Init => PendingInv
BY DEF Init, PendingInv

(* Begin, from an agent at rest. *)
LEMMA BeginPending ==
    ASSUME DeliveredInv, agent # "activating", Begin, UNCHANGED <<mem, file>>,
           up' \subseteq up \ Requiring,
           \A c \in up' : job'[c] = job[c]
    PROVE  PendingInv'
BY DEF DeliveredInv, PendingInv, Begin

LEMMA PendingElsewhere ==
    ASSUME DeliveredInv, UNCHANGED <<agent, commands, up, mem, file>>,
           \A c \in up : job'[c] = job[c]
    PROVE  PendingInv'
BY DEF DeliveredInv, PendingInv

LEMMA RestartPending ==
    ASSUME DeliveredInv, MayCut = FALSE, RestartAgent, UNCHANGED file
    PROVE  PendingInv'
<1>1. /\ agent # "activating" /\ Begin /\ up' = up \ Requiring /\ UNCHANGED mem
      /\ job' = [c \in Consumer |-> IF c \in Requiring \cap up THEN "start" ELSE job[c]]
      /\ up \subseteq Consumer
  BY DEF RestartAgent, DeliveredInv, EmptyInv, Kinds
<1> QED
  BY <1>1, BeginPending

LEMMA NextDelivered == ASSUME MayCut = FALSE, MaxFail = 0
                       PROVE  DeliveredInv /\ [Next]_vars => DeliveredInv'
<1> SUFFICES ASSUME DeliveredInv, [Next]_vars PROVE PendingInv'
  BY NextEmpty DEF DeliveredInv
<1> USE DEF openbao, units, counters
<1>k. Kinds /\ PendingInv
  BY DEF DeliveredInv, EmptyInv
<1>u. Uses \in [Consumer -> Template] /\ up \subseteq Consumer
  BY <1>k, RenderAssumption DEF Kinds
<1>1. ASSUME NEW t \in Template, Render(t) PROVE PendingInv'
  <2>1. /\ file' = [file EXCEPT ![t] = Fresh(t)] /\ agent = "activating" /\ commands \subseteq commands'
        /\ t \in commands' \/ file[t] = Fresh(t)
        /\ UNCHANGED <<agent, up, mem, job>> /\ file \in [Template -> Nat]
    BY <1>k, <1>1 DEF Render, Kinds
  <2>2. \A u \in Template : file'[u] = file[u] \/ u \in commands'
    BY <2>1
  <2> QED
    BY <1>k, <1>u, <2>1, <2>2 DEF PendingInv
<1>2. ASSUME NEW t \in Template, Command(t) PROVE PendingInv'
  <2>1. /\ agent = "activating" /\ commands' = commands \ {t} /\ UNCHANGED <<agent, up, mem, file>>
        /\ job' = [c \in Consumer |->
                     IF c \in FailClosed /\ Uses[c] = t /\ c \in up /\ job[c] = "none"
                     THEN "reload" ELSE job[c]]
    BY <1>2 DEF Command
  <2>2. up \subseteq FailClosed
    BY <1>k, <1>u, <2>1 DEF PendingInv, FailClosed
  <2>3. \A c \in up : job'[c] # "start" /\ (job'[c] = "none" => job[c] = "none" /\ Uses[c] # t)
    BY <1>k, <1>u, <2>1, <2>2 DEF PendingInv
  <2> QED
    BY <1>k, <2>1, <2>3 DEF PendingInv
<1>3. CASE AgentDone
  BY <1>k, <1>3 DEF AgentDone, PendingInv
<1>4. CASE AgentFails
  <2>1. /\ commands' = {} /\ commands = {} /\ agent = "activating" /\ UNCHANGED <<up, mem, file>>
        /\ \A c \in up : c \notin Requiring => job'[c] = job[c]
    BY <1>u, <1>4 DEF AgentFails
  <2> QED
    BY <1>k, <2>1 DEF PendingInv
<1>5. ASSUME NEW c \in Consumer, Start(c) PROVE PendingInv'
  <2>1. /\ agent = "active" /\ up' = up \cup {c} /\ mem' = [mem EXCEPT ![c] = file[Uses[c]]]
        /\ job' = [job EXCEPT ![c] = "none"] /\ UNCHANGED <<agent, commands, file>>
    BY <1>5 DEF Start
  <2>2. /\ mem'[c] = file[Uses[c]] /\ job'[c] = "none"
        /\ \A d \in Consumer \ {c} : mem'[d] = mem[d] /\ job'[d] = job[d]
    BY <1>k, <2>1 DEF Kinds
  <2> QED
    BY <1>k, <1>u, <2>1, <2>2 DEF PendingInv
<1>6. ASSUME NEW c \in Consumer, StartRefused(c) PROVE PendingInv'
  <2>1. CASE Begin /\ UNCHANGED job
    <3>1. /\ agent = "failed" /\ UNCHANGED <<up, mem, file>>
      BY <1>6 DEF StartRefused
    <3>2. up' \subseteq up \ Requiring
      BY <1>k, <3>1 DEF PendingInv
    <3> QED
      BY <2>1, <3>1, <3>2, BeginPending
  <2>2. CASE job' = [job EXCEPT ![c] = "none"] /\ UNCHANGED <<agent, todo, commands>>
    <3>1. /\ job[c] = "start" /\ UNCHANGED <<up, mem, file>>
      BY <1>6 DEF StartRefused
    <3>2. c \notin up
      BY <1>k, <3>1 DEF PendingInv
    <3>3. \A d \in up : job'[d] = job[d]
      BY <1>k, <1>u, <2>2, <3>2 DEF Kinds
    <3> QED
      BY <1>k, <2>2, <3>1, <3>3, PendingElsewhere DEF PendingInv
  <2> QED
    BY <1>6, <2>1, <2>2 DEF StartRefused
<1>7. ASSUME NEW c \in Consumer, NEW w \in BOOLEAN, Reload(c, w) PROVE PendingInv'
  <2>1. w
    BY <1>k, <1>7 DEF Reload, Kinds
  <2>2. /\ UNCHANGED <<agent, commands, up, file>>
        /\ mem' = [mem EXCEPT ![c] = file[Uses[c]]] /\ job' = [job EXCEPT ![c] = "none"]
    BY <1>7, <2>1 DEF Reload
  <2>3. mem'[c] = file[Uses[c]] /\ \A d \in Consumer \ {c} : mem'[d] = mem[d] /\ job'[d] = job[d]
    BY <1>k, <2>2 DEF Kinds
  <2> QED
    BY <1>k, <1>u, <2>2, <2>3 DEF PendingInv
<1>8. CASE Switch
  <2>1. /\ agent # "activating" /\ UNCHANGED <<mem, file>> /\ up' \subseteq Consumer
        /\ \A c \in up' : job'[c] = job[c]
    BY <1>u, <1>8 DEF Switch
  <2>2. CASE Begin
    <3>1. up' \subseteq up \ Requiring
      BY <1>k, <1>8, <2>2 DEF Switch, PendingInv, Begin
    <3> QED
      BY <1>u, <2>1, <2>2, <3>1, BeginPending
  <2>3. CASE UNCHANGED <<agent, todo, commands>> /\ UNCHANGED up
    BY <1>u, <2>1, <2>3, PendingElsewhere
  <2> QED
    BY <1>8, <2>2, <2>3 DEF Switch
<1>9. CASE Rerender
  BY <1>9, RestartPending DEF Rerender
<1>10. CASE Renew
  BY <1>10, RestartPending, PendingElsewhere DEF Renew
<1>11. CASE Boot
  BY <1>11 DEF Boot, Begin, PendingInv
<1>12. ASSUME NEW t \in Template, Rotate(t) PROVE PendingInv'
  BY <1>12, PendingElsewhere DEF Rotate
<1>13. CASE BaoDown \/ BaoUp \/ Tick
  BY <1>13, PendingElsewhere DEF BaoDown, BaoUp, Tick
<1>14. CASE UNCHANGED vars
  BY <1>14, PendingElsewhere DEF vars
<1> QED
  BY <1>1, <1>2, <1>3, <1>4, <1>5, <1>6, <1>7, <1>8, <1>9, <1>10, <1>11, <1>12, <1>13, <1>14
     DEF Next, Agent

(* A rotated secret propagates (vault-agent.nix): once the agent is done and *)
(* nothing is under way, what runs holds what is rendered.  No restart may  *)
(* cut a rendering short, and no reload may fail: with either it is false.  *)
THEOREM RotationDelivered == ASSUME MayCut = FALSE, MaxFail = 0
                             PROVE  Spec => []Delivered
<1>1. Init => DeliveredInv
  BY InitEmpty, InitDelivered DEF DeliveredInv
<1>2. DeliveredInv => Delivered
  BY DEF DeliveredInv, PendingInv, Delivered
<1> QED
  BY <1>1, <1>2, NextDelivered, PTL DEF Spec

-----------------------------------------------------------------------------
(* --- No certificate expires in a process. --- *)

(* What is left of a certificate, in hundredths of a tick: the window, less *)
(* the ticks of the present outage, this tick included.                     *)
Window == Life * Percent
Left(issued) == (issued + Life - now) * 100
Spent == IF bao = "up" THEN 100 * outage + 100 ELSE 100 * outage

(* A file, and what runs, is within the window only by the ticks in which   *)
(* OpenBao was out of reach; in a tick in which it was not, the renewal is  *)
(* under way or has left nothing in the window.                             *)
FreshInv ==
    /\ bao \in {"up", "down", "back"} /\ outage \in 0 .. MaxOutage
    /\ \A t \in Cert : file[t] # Absent => Left(file[t]) >= Window - Spent
    /\ \A c \in up : Uses[c] \in Cert => Left(mem[c]) >= Window - Spent
    /\ bao = "up" /\ ~due =>
         \A t \in Cert : \/ file[t] = Absent
                         \/ agent = "activating" /\ t \in todo
                         \/ Left(file[t]) >= Window

ExpiryInv == DeliveredInv /\ FreshInv

LEMMA WindowIs == Window \in Nat /\ Window <= Life * 100
<1>1. Life \in Nat /\ Percent \in Nat /\ Percent <= 100
  BY RenderAssumption
<1>2. Life * Percent \in Nat /\ Life * Percent <= Life * 100
  BY <1>1
<1> QED
  BY <1>2 DEF Window

(* Time and OpenBao stand still, the files and what runs stay or go. *)
LEMMA FreshElsewhere ==
    ASSUME ExpiryInv, UNCHANGED <<now, bao, outage, file, mem>>, up' \subseteq up,
           due' = due,
           \/ UNCHANGED <<agent, todo>>
           \/ agent' = "activating" /\ todo' = Template
           \/ agent = "activating" /\ (todo = {} \/ bao = "down")
    PROVE  FreshInv'
<1>1. Cert \subseteq Template
  BY RenderAssumption
<1>2. Spent' = Spent /\ \A n \in Nat : Left(n)' = Left(n)
  BY DEF Spent, Left
<1>3. \A t \in Cert : Left(file[t])' = Left(file[t])
  BY DEF Left
<1>4. \A c \in up' : Left(mem[c])' = Left(mem[c])
  BY DEF Left
<1> QED
  BY <1>1, <1>2, <1>3, <1>4 DEF ExpiryInv, FreshInv

(* A consumer reads its file. *)
LEMMA FreshRead ==
    ASSUME ExpiryInv, NEW c \in Consumer, file[Uses[c]] # Absent,
           UNCHANGED <<now, bao, outage, file, due, agent, todo>>,
           up' \subseteq up \cup {c}, mem' = [mem EXCEPT ![c] = file[Uses[c]]]
    PROVE  FreshInv'
<1>1. Spent' = Spent
  BY DEF Spent
<1>2. \A t \in Cert : Left(file[t])' = Left(file[t])
  BY DEF Left
<1>3. mem'[c] = file[Uses[c]] /\ \A d \in Consumer \ {c} : mem'[d] = mem[d]
  BY DEF ExpiryInv, DeliveredInv, EmptyInv, Kinds
<1>4. ASSUME NEW d \in up', Uses[d] \in Cert PROVE Left(mem[d])' >= Window - Spent
  <2>1. d \in up \/ d = c
    OBVIOUS
  <2>2. up \subseteq Consumer
    BY DEF ExpiryInv, DeliveredInv, EmptyInv, Kinds
  <2>3. CASE d = c
    <3>1. Left(mem[d])' = Left(file[Uses[c]])
      BY <1>3, <2>3 DEF Left
    <3> QED
      BY <1>4, <2>3, <3>1 DEF ExpiryInv, FreshInv
  <2>4. CASE d # c
    <3>1. Left(mem[d])' = Left(mem[d])
      BY <1>3, <2>1, <2>2, <2>4 DEF Left
    <3> QED
      BY <1>4, <2>1, <2>4, <3>1 DEF ExpiryInv, FreshInv
  <2> QED
    BY <2>3, <2>4
<1> QED
  BY <1>1, <1>2, <1>4 DEF ExpiryInv, FreshInv

LEMMA RestartFresh ==
    ASSUME ExpiryInv, RestartAgent, UNCHANGED <<now, bao, outage, file>>
    PROVE  FreshInv'
<1>1. /\ agent' = "activating" /\ todo' = Template /\ up' \subseteq up /\ UNCHANGED mem
  BY DEF RestartAgent, Begin
<1>2. Spent' = Spent
  BY DEF Spent
<1>3. \A t \in Cert : Left(file[t])' = Left(file[t])
  BY DEF Left
<1>4. \A c \in up' : Left(mem[c])' = Left(mem[c])
  BY <1>1 DEF Left
<1> QED
  BY <1>1, <1>2, <1>3, <1>4, RenderAssumption DEF ExpiryInv, FreshInv

LEMMA NextFresh ==
    ASSUME MayCut = FALSE, MaxFail = 0
    PROVE  ExpiryInv /\ [Next]_vars => ExpiryInv'
<1> SUFFICES ASSUME ExpiryInv, [Next]_vars PROVE FreshInv'
  BY NextDelivered DEF ExpiryInv
<1> USE DEF openbao, units, counters
<1>k. Kinds /\ RenderedInv /\ PendingInv /\ FreshInv
  BY DEF ExpiryInv, DeliveredInv, EmptyInv
<1>u. /\ Uses \in [Consumer -> Template] /\ up \subseteq Consumer /\ Cert \subseteq Template
      /\ now \in Nat /\ outage \in Nat /\ file \in [Template -> Nat] /\ mem \in [Consumer -> Nat]
  BY <1>k, RenderAssumption DEF Kinds, FreshInv
<1>w. Window \in Nat /\ Window <= Life * 100 /\ Spent \in Nat /\ Life \in Nat
  BY <1>u, WindowIs, RenderAssumption DEF Spent
<1>1. ASSUME NEW t \in Template, Render(t) PROVE FreshInv'
  <2>1. /\ bao # "down" /\ t \in todo /\ todo' = todo \ {t} /\ file' = [file EXCEPT ![t] = Fresh(t)]
        /\ UNCHANGED <<now, bao, outage, agent, up, mem, due>>
    BY <1>1 DEF Render
  <2>2. Spent' = Spent
    BY <2>1 DEF Spent
  <2>3. ASSUME NEW u \in Cert PROVE \/ file'[u] = file[u] /\ Left(file[u])' = Left(file[u]) /\ u # t
                                    \/ Left(file[u])' >= Window
    <3>1. CASE u = t
      <4>1. file'[u] = now
        BY <1>u, <2>1, <2>3, <3>1 DEF Fresh
      <4>2. Left(file[u])' = (now + Life - now) * 100
        BY <2>1, <4>1 DEF Left
      <4> QED
        BY <1>u, <1>w, <4>2
    <3>2. CASE u # t
      BY <1>u, <2>1, <3>2 DEF Left
    <3> QED
      BY <3>1, <3>2
  <2>4. ASSUME NEW u \in Cert, file'[u] # Absent PROVE Left(file[u])' >= Window - Spent
    <3>1. CASE file'[u] = file[u] /\ Left(file[u])' = Left(file[u])
      BY <1>k, <2>4, <3>1 DEF FreshInv
    <3>2. CASE Left(file[u])' >= Window
      <4>1. Left(file[u])' \in Int
        BY <1>u, <1>w, <2>1 DEF Left, Fresh, Kinds
      <4> QED
        BY <1>w, <3>2, <4>1
    <3> QED
      BY <2>3, <3>1, <3>2
  <2>5. ASSUME NEW c \in up', Uses[c] \in Cert PROVE Left(mem[c])' >= Window - Spent
    BY <1>k, <2>1, <2>5 DEF FreshInv, Left
  <2>6. ASSUME bao = "up", ~due, NEW u \in Cert
        PROVE  \/ file'[u] = Absent
               \/ agent' = "activating" /\ u \in todo'
               \/ Left(file[u])' >= Window
    BY <1>k, <2>1, <2>3, <2>6 DEF FreshInv
  <2> QED
    BY <1>k, <2>1, <2>2, <2>4, <2>5, <2>6 DEF FreshInv
<1>2. ASSUME NEW t \in Template, Command(t) PROVE FreshInv'
  BY <1>2, FreshElsewhere DEF Command
<1>3. CASE AgentDone
  BY <1>3, FreshElsewhere DEF AgentDone
<1>4. CASE AgentFails
  BY <1>4, FreshElsewhere DEF AgentFails
<1>5. ASSUME NEW c \in Consumer, Start(c) PROVE FreshInv'
  <2>1. file[Uses[c]] # Absent
    BY <1>k, <1>u, <1>5 DEF Start, RenderedInv
  <2> QED
    BY <1>5, <2>1, FreshRead DEF Start
<1>6. ASSUME NEW c \in Consumer, StartRefused(c) PROVE FreshInv'
  BY <1>6, FreshElsewhere DEF StartRefused, Begin
<1>7. ASSUME NEW c \in Consumer, NEW w \in BOOLEAN, Reload(c, w) PROVE FreshInv'
  <2>1. CASE ~w
    BY <1>7, <2>1, FreshElsewhere DEF Reload
  <2>2. CASE w
    <3>1. UNCHANGED <<now, bao, outage, file, due, agent, todo, up>> /\ mem' = [mem EXCEPT ![c] = file[Uses[c]]]
      BY <1>7, <2>2 DEF Reload
    <3>2. CASE c \in up
      <4>1. file[Uses[c]] # Absent
        BY <1>k, <1>u, <3>2 DEF RenderedInv
      <4> QED
        BY <3>1, <4>1, FreshRead
    <3>3. CASE c \notin up
      <4>1. \A d \in up : mem'[d] = mem[d]
        BY <1>u, <3>1, <3>3
      <4> QED
        BY <1>k, <3>1, <4>1 DEF FreshInv, Left, Spent
    <3> QED
      BY <3>2, <3>3
  <2> QED
    BY <2>1, <2>2
<1>8. CASE Switch
  <2>1. /\ UNCHANGED <<now, bao, outage, file, mem, due>> /\ up' \subseteq up
        /\ UNCHANGED <<agent, todo>> \/ (agent' = "activating" /\ todo' = Template)
    BY <1>8 DEF Switch, Begin
  <2> QED
    BY <2>1, FreshElsewhere
<1>9. CASE Rerender
  BY <1>9, RestartFresh DEF Rerender
<1>10. CASE Renew
  <2>1. CASE \E t \in Template : NeedsRender(t)
    BY <1>10, <2>1, RestartFresh DEF Renew
  <2>2. CASE ~ \E t \in Template : NeedsRender(t)
    <3>1. UNCHANGED <<now, bao, outage, file, mem, up, agent, todo>>
      BY <1>10, <2>2 DEF Renew
    <3>2. \A t \in Cert : Left(file[t]) >= Window
      <4> SUFFICES ASSUME NEW t \in Cert PROVE Left(file[t]) >= Window
        OBVIOUS
      <4>1. ~ ((file[t] + Life - now) * 100 < Life * Percent)
        BY <1>u, <2>2 DEF NeedsRender, InWindow
      <4>2. ~ (Left(file[t]) < Window) /\ Left(file[t]) \in Int
        BY <1>u, <1>w, <4>1 DEF Left, Window
      <4> QED
        BY <1>w, <4>2
    <3> QED
      BY <1>k, <3>1, <3>2 DEF FreshInv, Left, Spent
  <2> QED
    BY <2>1, <2>2
<1>11. CASE Boot
  <2>1. /\ file' = [t \in Template |-> Absent] /\ up' = {} /\ UNCHANGED <<now, bao, outage>>
    BY <1>11 DEF Boot
  <2>2. \A t \in Cert : file'[t] = Absent
    BY <1>u, <2>1
  <2>3. (bao \in {"up", "down", "back"} /\ outage \in 0 .. MaxOutage)'
    BY <1>k, <2>1 DEF FreshInv
  <2>4. \A c \in up' : FALSE
    BY <2>1
  <2>5. \A c \in up' : Uses[c] \in Cert => Left(mem[c])' >= Window - Spent'
    BY <2>4
  <2>6. \A t \in Cert : file'[t] # Absent => Left(file[t])' >= Window - Spent'
    BY <2>2
  <2>7. bao' = "up" /\ ~due' => \A t \in Cert : \/ file'[t] = Absent
                                                \/ agent' = "activating" /\ t \in todo'
                                                \/ Left(file[t])' >= Window
    BY <2>2
  <2> QED
    BY <2>3, <2>5, <2>6, <2>7 DEF FreshInv
<1>12. ASSUME NEW t \in Template, Rotate(t) PROVE FreshInv'
  BY <1>12, FreshElsewhere DEF Rotate
<1>13. CASE BaoDown
  <2>1. /\ bao = "up" /\ outage < MaxOutage /\ bao' = "down" /\ outage' = outage + 1
        /\ UNCHANGED <<now, file, mem, up>>
    BY <1>13 DEF BaoDown
  <2>2. Spent' = Spent /\ outage' \in 0 .. MaxOutage
    BY <1>k, <1>u, <2>1, RenderAssumption DEF Spent, FreshInv
  <2> QED
    BY <1>k, <2>1, <2>2 DEF FreshInv, Left
<1>14. CASE BaoUp
  <2>1. /\ bao = "down" /\ bao' = "back" /\ UNCHANGED <<now, outage, file, mem, up>>
    BY <1>14 DEF BaoUp
  <2>2. Spent' = Spent
    BY <2>1 DEF Spent
  <2> QED
    BY <1>k, <2>1, <2>2 DEF FreshInv, Left
<1>15. CASE Tick
  <2>1. /\ ~due /\ due' /\ agent # "activating" /\ now' = now + 1 /\ UNCHANGED <<file, mem, up>>
        /\ \A c \in Consumer : job[c] = "none"
        /\ bao = "down" => outage < MaxOutage
        /\ bao' = IF bao = "back" THEN "up" ELSE bao
        /\ outage' = CASE bao = "up" -> 0 [] bao = "back" -> outage [] bao = "down" -> outage + 1
    BY <1>15 DEF Tick
  <2>2. /\ bao' \in {"up", "down", "back"} /\ outage' \in 0 .. MaxOutage
        /\ Spent' = IF bao = "up" THEN 100 ELSE Spent + 100
    BY <1>k, <1>u, <2>1, RenderAssumption DEF FreshInv, Spent
  <2>3. \A n \in Nat : Left(n) \in Int /\ (n + Life - now') * 100 = Left(n) - 100
    BY <1>u, <1>w, <2>1 DEF Left
  <2>4. ASSUME NEW t \in Cert, file[t] # Absent PROVE Left(file[t]) - 100 >= Window - Spent'
    <3>1. file[t] \in Nat /\ Left(file[t]) \in Int
      BY <1>u, <2>3
    <3>2. CASE bao = "up"
      <4>1. Left(file[t]) >= Window
        BY <1>k, <2>1, <2>4, <3>2 DEF FreshInv
      <4> QED
        BY <1>w, <2>2, <3>1, <3>2, <4>1
    <3>3. CASE bao # "up"
      <4>1. Left(file[t]) >= Window - Spent
        BY <1>k, <2>4 DEF FreshInv
      <4> QED
        BY <1>w, <2>2, <3>1, <3>3, <4>1
    <3> QED
      BY <3>2, <3>3
  <2>5. ASSUME NEW c \in up, Uses[c] \in Cert
        PROVE  mem[c] = file[Uses[c]] /\ file[Uses[c]] # Absent
    BY <1>k, <1>u, <2>1 DEF PendingInv, RenderedInv
  <2>6. \A t \in Cert : file'[t] # Absent => Left(file[t])' >= Window - Spent'
    BY <1>u, <2>1, <2>3, <2>4 DEF Left
  <2>7. \A c \in up' : Uses[c] \in Cert => Left(mem[c])' >= Window - Spent'
    BY <1>u, <2>1, <2>3, <2>4, <2>5 DEF Left
  <2> QED
    BY <2>1, <2>2, <2>6, <2>7 DEF FreshInv
<1>16. CASE UNCHANGED vars
  BY <1>16, FreshElsewhere DEF vars
<1> QED
  BY <1>1, <1>2, <1>3, <1>4, <1>5, <1>6, <1>7, <1>8, <1>9, <1>10, <1>11, <1>12, <1>13, <1>14,
     <1>15, <1>16 DEF Next, Agent

(* "Comfortably exceed" (vault-agent.nix), as arithmetic: no process holds  *)
(* an expired certificate if the renewal window is longer than the longest  *)
(* outage and one round of the timer, whatever is deployed, rotated and     *)
(* booted meanwhile.                                                        *)
THEOREM NothingExpires == ASSUME MayCut = FALSE, MaxFail = 0,
                                 Life * Percent > 100 * (MaxOutage + 1)
                          PROVE  Spec => []NeverExpired
<1>1. Init => FreshInv
  BY RenderAssumption DEF Init, FreshInv
<1>2. Init => ExpiryInv
  BY <1>1, InitEmpty, InitDelivered DEF ExpiryInv, DeliveredInv
<1>3. ExpiryInv => NeverExpired
  <2> SUFFICES ASSUME ExpiryInv, NEW c \in up, Uses[c] \in Cert PROVE now < mem[c] + Life
    BY DEF NeverExpired
  <2>1. /\ Left(mem[c]) >= Window - Spent /\ outage \in 0 .. MaxOutage
        /\ now \in Nat /\ mem[c] \in Nat
    BY DEF ExpiryInv, FreshInv, DeliveredInv, EmptyInv, Kinds
  <2>2. Spent \in Nat /\ Spent <= 100 * (MaxOutage + 1)
    BY <2>1, RenderAssumption DEF Spent
  <2>3. Window > 100 * (MaxOutage + 1) /\ Window \in Nat /\ Life \in Nat
    BY WindowIs, RenderAssumption DEF Window
  <2>4. Window - Spent > 0
    BY <2>2, <2>3, RenderAssumption
  <2>5. (mem[c] + Life - now) * 100 > 0
    BY <2>1, <2>2, <2>3, <2>4 DEF Left
  <2> QED
    BY <2>1, <2>3, <2>5
<1> QED
  BY <1>2, <1>3, NextFresh, PTL DEF Spec

-----------------------------------------------------------------------------
(* --- The shape of the state. --- *)

TypedInv == EmptyInv /\ TypeOK

LEMMA BeginTyped == ASSUME Begin
                    PROVE  /\ agent' \in {"activating", "active", "failed"} /\ todo' \subseteq Template
                           /\ commands' \subseteq Template /\ agent' = "activating"
BY DEF Begin

LEMMA NextTyped == TypedInv /\ [Next]_vars => TypedInv'
<1> SUFFICES ASSUME TypedInv, [Next]_vars PROVE TypeOK'
  BY NextEmpty DEF TypedInv
<1> USE DEF openbao, units, counters
<1>k. Kinds /\ TypeOK
  BY DEF TypedInv, EmptyInv
<1>u. Uses \in [Consumer -> Template] /\ Cert \subseteq Template
  BY RenderAssumption
<1>e. EmptyInv'
  BY NextEmpty DEF TypedInv
<1>m. file' \in [Template -> Nat] /\ mem' \in [Consumer -> Nat] /\ up' \subseteq Consumer
      /\ job' \in [Consumer -> {"none", "start", "reload"}]
  BY <1>e DEF EmptyInv, Kinds
<1>1. ASSUME NEW t \in Template, Render(t) PROVE TypeOK'
  BY <1>k, <1>m, <1>1 DEF Render, TypeOK
<1>2. ASSUME NEW t \in Template, Command(t) PROVE TypeOK'
  BY <1>k, <1>m, <1>2 DEF Command, TypeOK
<1>3. CASE AgentDone
  BY <1>k, <1>m, <1>3 DEF AgentDone, TypeOK
<1>4. CASE AgentFails
  BY <1>k, <1>m, <1>4 DEF AgentFails, TypeOK
<1>5. ASSUME NEW c \in Consumer, Start(c) PROVE TypeOK'
  BY <1>k, <1>m, <1>5 DEF Start, TypeOK
<1>6. ASSUME NEW c \in Consumer, StartRefused(c) PROVE TypeOK'
  BY <1>k, <1>m, <1>6, BeginTyped DEF StartRefused, TypeOK
<1>7. ASSUME NEW c \in Consumer, NEW w \in BOOLEAN, Reload(c, w) PROVE TypeOK'
  BY <1>k, <1>m, <1>7 DEF Reload, TypeOK
<1>8. CASE Switch
  BY <1>k, <1>m, <1>8, BeginTyped DEF Switch, TypeOK
<1>9. CASE Rerender
  BY <1>k, <1>m, <1>9, BeginTyped DEF Rerender, RestartAgent, TypeOK
<1>10. CASE Renew
  <2>1. due' \in BOOLEAN /\ UNCHANGED <<now, kv, bao, outage>>
    BY <1>10, Zenon DEF Renew
  <2>2. \/ agent' = "activating" /\ todo' \subseteq Template /\ commands' \subseteq Template
        \/ UNCHANGED <<agent, todo, commands>>
    BY <1>10, BeginTyped DEF Renew, RestartAgent
  <2> QED
    BY <1>k, <1>m, <2>1, <2>2 DEF TypeOK
<1>11. CASE Boot
  BY <1>k, <1>m, <1>11, BeginTyped DEF Boot, TypeOK
<1>12. ASSUME NEW t \in Template, Rotate(t) PROVE TypeOK'
  <2>1. kv' \in [Template -> 1 .. MaxRotate + 1]
    BY <1>k, <1>12, BoundsAssumption DEF Rotate, TypeOK
  <2> QED
    BY <1>k, <1>m, <1>12, <2>1 DEF Rotate, TypeOK
<1>13. CASE BaoDown \/ BaoUp
  BY <1>k, <1>m, <1>13, RenderAssumption DEF BaoDown, BaoUp, TypeOK
<1>14. CASE Tick
  <2>1. now' \in 1 .. MaxTime
    BY <1>k, <1>14, BoundsAssumption DEF Tick, TypeOK
  <2>2. bao' \in {"up", "down", "back"} /\ outage' \in 0 .. MaxOutage
    BY <1>k, <1>14, RenderAssumption DEF Tick, TypeOK
  <2>3. due' \in BOOLEAN
    BY <1>14, Zenon DEF Tick
  <2> QED
    BY <1>k, <1>m, <1>14, <2>1, <2>2, <2>3 DEF Tick, TypeOK
<1>15. CASE UNCHANGED vars
  BY <1>k, <1>m, <1>15 DEF vars, TypeOK
<1> QED
  BY <1>1, <1>2, <1>3, <1>4, <1>5, <1>6, <1>7, <1>8, <1>9, <1>10, <1>11, <1>12, <1>13, <1>14,
     <1>15 DEF Next, Agent

(* The state stays in shape: outages within their bound, and nothing left to *)
(* render or to reload by an agent that is at rest.                         *)
THEOREM RenderTyped == Spec => []TypeOK
<1>1. Init => TypeOK
  <2> SUFFICES ASSUME Init PROVE TypeOK
    OBVIOUS
  <2>1. due \in BOOLEAN
    BY Zenon DEF Init
  <2>2. now \in 1 .. MaxTime /\ outage \in 0 .. MaxOutage
    BY BoundsAssumption, RenderAssumption DEF Init
  <2>3. /\ kv \in [Template -> 1 .. MaxRotate + 1] /\ file \in [Template -> Nat]
        /\ mem \in [Consumer -> Nat] /\ job \in [Consumer -> {"none", "start", "reload"}]
    BY BoundsAssumption DEF Init, Absent
  <2>4. up \subseteq Consumer /\ todo \subseteq Template /\ commands \subseteq Template
    BY DEF Init
  <2>5. agent = "activating" /\ bao = "up"
    BY DEF Init
  <2> QED
    BY <2>1, <2>2, <2>3, <2>4, <2>5 DEF TypeOK
<1>2. Init => TypedInv
  BY <1>1, InitEmpty DEF TypedInv
<1>3. TypedInv => TypeOK
  BY DEF TypedInv
<1> QED
  BY <1>2, <1>3, NextTyped, PTL DEF Spec
=============================================================================
