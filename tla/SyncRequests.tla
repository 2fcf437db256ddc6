---------------------------- MODULE SyncRequests ----------------------------
(***************************************************************************)
(* What the roster is promised about Authentik: every change it makes in   *)
(* the directory is, in the end, in Authentik, which never goes back to an *)
(* older state of the directory.  Changes may be served together.          *)
(***************************************************************************)
EXTENDS Naturals

CONSTANT MaxChange  \* bound: changes made by the roster

VARIABLES
    made,   \* the number of changes made in the directory
    served  \* how many of them Authentik shows

vars == <<made, served>>

Init == made = 0 /\ served = 0

Change ==
    /\ made < MaxChange
    /\ made' = made + 1
    /\ UNCHANGED served

Serve ==
    /\ served' \in served + 1 .. made
    /\ UNCHANGED made

Next == Change \/ Serve

\* Serving may need several steps, but the last change is served.
Spec == Init /\ [][Next]_vars /\ WF_vars(Serve)
=============================================================================
