----------------------------- MODULE FleetReboot -----------------------------
(***************************************************************************)
(* reboot-fleet.sh: one host after the other, each watched until its boot   *)
(* id has changed.                                                          *)
(***************************************************************************)
EXTENDS FleetHosts

VARIABLES issued,  \* whether the reboot of the first host of todo was issued
          booted   \* hosts that have booted since the script began

rebootVars == <<issued, booted>>

StartReboot(hs) ==
    /\ script' = "reboot" /\ result' = "running" /\ todo' = hs
    /\ issued' = FALSE /\ booted' = {}

RebootEnds(r) == Ends(r) /\ issued' = FALSE /\ booted' = {}

(* The boot id is read first; the exit status of the reboot command is not  *)
(* looked at, so one that did nothing goes unnoticed here.                  *)
Issue ==
    /\ script = "reboot" /\ ~issued /\ Reach(Head(todo))
    /\ \/ power' = [power EXCEPT ![Head(todo)] = "going"] /\ UNCHANGED faults
       \/ Fault /\ UNCHANGED power
    /\ issued' = TRUE /\ booted' = booted \ {Head(todo)}
    /\ UNCHANGED <<head, want, gen, staged, sid, units, run, base, bao, excuses,
                   script, todo, result>>

Unreachable ==
    /\ script = "reboot" /\ ~issued /\ ~Reach(Head(todo))
    /\ RebootEnds("failed") /\ UNCHANGED world

(* Mutant: it answers, so it is back. *)
Answers == Reach(Head(todo))
IsBack == Reach(Head(todo)) /\ Head(todo) \in booted

Back ==
    /\ script = "reboot" /\ issued /\ IsBack
    /\ IF Len(todo) = 1 THEN RebootEnds("ok")
       ELSE todo' = Tail(todo) /\ issued' = FALSE /\ UNCHANGED <<script, result, booted>>
    /\ UNCHANGED world

(* After the timeout the other hosts are left alone.  A host that was about *)
(* to go down has done so by then.                                          *)
TimedOut ==
    /\ script = "reboot" /\ issued /\ ~IsBack /\ power[Head(todo)] # "going"
    /\ RebootEnds("failed") /\ UNCHANGED world

(* The hosts themselves.  The timer of systemd-run shuts the host down, and *)
(* /run is empty after a boot; OpenBao comes back sealed.                   *)
GoesDown(h) ==
    /\ power[h] = "going" /\ power' = [power EXCEPT ![h] = "down"]
    /\ UNCHANGED <<head, want, gen, staged, sid, units, run, base, bao, faults, excuses,
                   script, todo, result, issued, booted>>

Boots(h) ==
    /\ power[h] = "down" /\ power' = [power EXCEPT ![h] = "up"]
    /\ booted' = IF script = "reboot" THEN booted \cup {h} ELSE {}
    /\ sealed' = (sealed \/ h = Vault)
    /\ IF h # Member THEN units' = [units EXCEPT ![h] = "ok"] /\ UNCHANGED <<run, base>>
       ELSE IF CanRender THEN run' = kv /\ Pins(kv) /\ units' = [units EXCEPT ![h] = "ok"]
       ELSE /\ run' = [s \in Secret |-> 0] /\ units' = [units EXCEPT ![h] = "failed"]
            /\ UNCHANGED base
    /\ UNCHANGED <<head, want, gen, staged, sid, kv, faults, excuses,
                   script, todo, result, issued>>

RebootStep == Issue \/ Unreachable \/ Back \/ TimedOut
=============================================================================
