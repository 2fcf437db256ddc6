--------------------------- MODULE NasCertificate ---------------------------
(***************************************************************************)
(* The Let's Encrypt certificates of the NAS (synology_certificate).  All   *)
(* have the same common name; DSM renews on its own, and then adds a        *)
(* certificate instead of replacing one.  Certificates are numbered in the  *)
(* order of their expiry.  Name sets: 0 is what the first certificates      *)
(* carried, 1 what the spec asks for once an alias was added.               *)
(*                                                                         *)
(* The nightly timer and the deploy share no lock, so another play may run  *)
(* beside the one that is followed here.  What it does to the certificates  *)
(* is to look (LateLook), and to ask for one some time after (LateIssue).   *)
(***************************************************************************)
EXTENDS NasTask

VARIABLES certs,    \* [the certificates DSM has -> Certificate]
          dflt,     \* the default certificate; 0 is the factory's
          bound,    \* which certificate each service presents
          want,     \* the spec's set of names
          tool,     \* can openssl read the archive at all?
          issued, demands,  \* certificates the role had issued, and the reasons there were
          late      \* {}, or {the names for which another play is about to ask}

certVars == <<certs, dflt, bound, want, tool, issued, demands, late>>

MaxCerts    == 1 + 2 * MaxEvents + MaxFaults
Certificate == [names : {0, 1}, aging : BOOLEAN, dated : BOOLEAN, pem : BOOLEAN]
Services    == {"dsm", "proxy"}   \* one listed in the spec; a reverse proxy of the alias
Unknown     == 2

CertInit == /\ certs = <<>>
            /\ dflt = 0 /\ bound = [s \in Services |-> 0]
            /\ want = 0 /\ tool = TRUE
            /\ issued = 0 /\ demands = 1 /\ late = {}

Have      == DOMAIN certs
Newest(S) == CHOOSE i \in S : \A j \in S : j <= i
Dated(S)  == {i \in S : certs[i].dated}

(* An expiry that does not parse counts as the oldest.  (Among several such *)
(* DSM's order decides, taken as theirs.)                                   *)
Best(S) == Newest(IF Dated(S) # {} THEN Dated(S) ELSE S)

Sans(i) == IF tool /\ certs[i].pem THEN certs[i].names ELSE Unknown

(* Mutant: the newest certificate wins, whatever its names. *)
NewestKeeper == Best(Have)

(* _find_by_domain_all: the wanted names first, then the expiry. *)
Keeper == LET right == {i \in Have : Sans(i) = want}
          IN  Best(IF right # {} THEN right ELSE Have)

(* A new certificate expires later than all others, and its expiry parses. *)
Add(n) == LET new == IF Have = {} THEN 1 ELSE Newest(Have) + 1
          IN  certs' = [i \in Have \cup {new} |->
                          IF i = new THEN [names |-> n, aging |-> FALSE, dated |-> TRUE, pem |-> TRUE]
                                     ELSE certs[i]]

-----------------------------------------------------------------------------
NeedIssue == Have # {} => \/ Sans(Keeper) \notin {want, Unknown}
                          \/ ~certs[Keeper].dated \/ certs[Keeper].aging

NoIssue == /\ At("cert_issue") /\ ~NeedIssue /\ Done
           /\ UNCHANGED certVars

Issue == /\ At("cert_issue") /\ NeedIssue /\ Done
         /\ Add(want) /\ issued' = issued + 1
         /\ UNCHANGED <<dflt, bound, want, tool, demands, late>>

(* The certificate is there, but the answer is lost. *)
IssueLost == /\ At("cert_issue") /\ NeedIssue /\ Faulted
             /\ Add(want) /\ issued' = issued + 1
             /\ UNCHANGED <<dflt, bound, want, tool, demands, late>>

(* The certificate was issued in this play or before it: there is one. *)
SetDefault == /\ At("cert_default") /\ Have # {} /\ Done
              /\ dflt' = Keeper
              /\ UNCHANGED <<certs, bound, want, tool, issued, demands, late>>

(* Mutant: reverse-proxy entries stay where DSM put them. *)
BindListed == /\ At("cert_bind") /\ Have # {} /\ Done
              /\ bound' = [bound EXCEPT !["dsm"] = Keeper]
              /\ UNCHANGED <<certs, dflt, want, tool, issued, demands, late>>

(* The services of the spec, and the reverse proxies whose host name the    *)
(* certificate carries, as far as its names can be read.                    *)
Bind == /\ At("cert_bind") /\ Have # {} /\ Done
        /\ bound' = [s \in Services |->
                       IF s = "dsm" \/ Sans(Keeper) = 1 THEN Keeper ELSE bound[s]]
        /\ UNCHANGED <<certs, dflt, want, tool, issued, demands, late>>

CertStep == NoIssue \/ Issue \/ SetDefault \/ Bind

-----------------------------------------------------------------------------
(* DSM's own renewal, with the names of a certificate it has. *)
DsmRenews == /\ Have # {} /\ Event
             /\ \E i \in Have : Add(certs[i].names)
             /\ UNCHANGED <<dflt, bound, want, tool, issued, demands, late>>

(* Time passes: whatever exists now expires within the buffer. *)
TimePasses == /\ Have # {} /\ Event
              /\ certs' = [i \in Have |-> [certs[i] EXCEPT !.aging = TRUE]]
              /\ demands' = demands + 1
              /\ UNCHANGED <<dflt, bound, want, tool, issued, late>>

SpecNames == /\ Idle /\ want = 0 /\ Event
             /\ want' = 1 /\ demands' = demands + 1
             /\ UNCHANGED <<certs, dflt, bound, tool, issued, late>>

(* The archive's layout changes, or openssl is gone. *)
LoseTool == /\ tool /\ Event
            /\ tool' = FALSE
            /\ UNCHANGED <<certs, dflt, bound, want, issued, demands, late>>

(* One certificate's file becomes unreadable: when it is the one with the   *)
(* wanted names, a newer one without them is kept, and replaced.            *)
LosePem == /\ Event
           /\ \E i \in Have : certs[i].pem /\ certs' = [certs EXCEPT ![i].pem = FALSE]
           /\ demands' = demands + 1
           /\ UNCHANGED <<dflt, bound, want, tool, issued, late>>

(* Expiries that do not parse.  The role then asks in every play; here, the *)
(* date of what it is given parses until this event strikes again, so each  *)
(* such play counts as a reason.                                            *)
OddDates == /\ Event
            /\ \E S \in SUBSET Dated(Have) \ {{}} :
                  certs' = [i \in Have |-> IF i \in S THEN [certs[i] EXCEPT !.dated = FALSE]
                                                     ELSE certs[i]]
            /\ demands' = demands + 1
            /\ UNCHANGED <<dflt, bound, want, tool, issued, late>>

(* Another play finds that a certificate is due; it asks for the names of   *)
(* the spec it has.                                                         *)
LateLook == /\ late = {} /\ NeedIssue /\ Event
            /\ late' = {want} /\ demands' = demands + 1
            /\ UNCHANGED <<certs, dflt, bound, want, tool, issued>>

(* It asks, whatever has been issued meanwhile. *)
LateIssue == /\ Event
             /\ \E n \in late : Add(n)
             /\ issued' = issued + 1 /\ late' = {}
             /\ UNCHANGED <<dflt, bound, want, tool, demands>>

(* A superseded certificate, neither the newest nor the one with the wanted *)
(* names, is deleted in the DSM interface.                                  *)
DeleteOld == /\ Have # {} /\ Event
             /\ \E i \in Have \ {dflt, Newest(Have), Keeper} :
                   /\ \A s \in Services : bound[s] # i
                   /\ certs' = [j \in Have \ {i} |-> certs[j]]
             /\ UNCHANGED <<dflt, bound, want, tool, issued, demands, late>>

CertEvent == \/ DsmRenews \/ TimePasses \/ SpecNames \/ LoseTool \/ LosePem \/ OddDates
             \/ DeleteOld \/ LateLook \/ LateIssue

CertType == /\ Have \subseteq 1..MaxCerts /\ \A i \in Have : certs[i] \in Certificate
            /\ dflt \in 0..MaxCerts
            /\ bound \in [Services -> 0..MaxCerts]
            /\ want \in {0, 1} /\ tool \in BOOLEAN
            /\ issued \in 0..MaxCerts /\ demands \in 1..(MaxEvents + 1)
            /\ late \in {{}, {0}, {1}}
=============================================================================
