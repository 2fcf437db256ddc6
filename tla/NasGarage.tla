------------------------------ MODULE NasGarage ------------------------------
(***************************************************************************)
(* Garage, the object store on the NAS, and its web interface               *)
(* (synology_garage), with the key credentials the control node keeps in    *)
(* OpenBao (deploy-ansible.sh).  A container reads its configuration when   *)
(* it starts.  One bucket stands for all; the credentials of different keys *)
(* are never equal, so each key numbers its own.                            *)
(***************************************************************************)
EXTENDS NasTask, FiniteSets

CONSTANT Keys

MaxId == 2 + MaxEvents + MaxFaults

VARIABLES token,    \* the admin token in OpenBao
          cred,     \* [Keys -> credential in OpenBao, 0 for none]
          mine,     \* [Keys -> the credential the play was given, 0 for none]
          wantTag,  \* the image the spec asks for
          box,      \* garage.toml's token, compose file's image; container: image, up, token read
          layout,
          bucket,
          keys,     \* [Keys -> the credentials Garage has under this name]
          grant,    \* [Keys -> are the key's permissions those of the spec?]
          env,      \* [Keys -> credential in the rendered <name>.env, 0 for none]
          ui        \* wanted, rendered and loaded configuration; did this play render it?

garageVars == <<token, cred, mine, wantTag, box, layout, bucket, keys, grant, env, ui>>

GarageInit == /\ token = 1 /\ wantTag = 1
              /\ cred = [k \in Keys |-> 0] /\ mine = cred
              /\ box = [toml |-> 0, compose |-> 0, image |-> 0, up |-> FALSE, conf |-> 0]
              /\ layout = "none" /\ bucket = "absent"
              /\ keys = [k \in Keys |-> {}] /\ grant = [k \in Keys |-> FALSE]
              /\ env = [k \in Keys |-> 0]
              /\ ui = [want |-> 1, file |-> 0, run |-> 0, up |-> FALSE, changed |-> FALSE]

-----------------------------------------------------------------------------
(* --- The control node. --- *)

Unused(k) == CHOOSE i \in 1..MaxId : i \notin {cred[k], mine[k], env[k]} \cup keys[k]

(* Read or create once. *)
Provision == /\ At("provision") /\ Done
             /\ cred' = [k \in Keys |-> IF cred[k] # 0 THEN cred[k] ELSE Unused(k)]
             /\ mine' = cred'
             /\ UNCHANGED <<token, wantTag, box, layout, bucket, keys, grant, env, ui>>

(* A `bao kv get` that fails looks like a key that is not there yet. *)
ProvisionBlind == /\ At("provision") /\ faults < MaxFaults /\ faults' = faults + 1
                  /\ at' = at + 1 /\ UNCHANGED <<quiet, result, broken, events>>
                  /\ \E b \in SUBSET Keys \ {{}} :
                        /\ \A k \in b : cred[k] # 0
                        /\ cred' = [k \in Keys |-> IF cred[k] # 0 /\ k \notin b THEN cred[k]
                                                   ELSE Unused(k)]
                  /\ mine' = cred'
                  /\ UNCHANGED <<token, wantTag, box, layout, bucket, keys, grant, env, ui>>

(* A `bao kv put` that fails ends the run; the keys before it are written. *)
ProvisionFails == /\ At("provision") /\ Faulted
                  /\ \E m \in SUBSET {k \in Keys : cred[k] = 0} :
                        cred' = [k \in Keys |-> IF k \in m THEN Unused(k) ELSE cred[k]]
                  /\ UNCHANGED <<token, mine, wantTag, box, layout, bucket, keys, grant, env, ui>>

-----------------------------------------------------------------------------
(* --- The server. --- *)

RenderConfig == /\ At("garage_config") /\ Done
                /\ box' = [box EXCEPT !.toml = token]
                /\ UNCHANGED <<token, cred, mine, wantTag, layout, bucket, keys, grant, env, ui>>

(* A changed garage.toml alone is no reason to start the container again. *)
Drift == box.compose # wantTag \/ box.image # wantTag \/ ~box.up

(* `docker compose up -d` creates the container anew for another image.     *)
Upped(b) == IF b.up /\ b.image = wantTag THEN [b EXCEPT !.compose = wantTag]
            ELSE [b EXCEPT !.compose = wantTag, !.image = wantTag, !.up = TRUE,
                           !.conf = b.toml]

Deploy == /\ At("garage_deploy") /\ Done
          /\ box' = IF Drift THEN Upped(box) ELSE box
          /\ UNCHANGED <<token, cred, mine, wantTag, layout, bucket, keys, grant, env, ui>>

(* The compose file is written; the pull fails, or the new container is     *)
(* there and does not start.                                                *)
DeployFails == /\ At("garage_deploy") /\ Drift /\ Faulted
               /\ \E b \in {box, [box EXCEPT !.image = wantTag, !.up = FALSE]} :
                     box' = [b EXCEPT !.compose = wantTag]
               /\ UNCHANGED <<token, cred, mine, wantTag, layout, bucket, keys, grant, env, ui>>

(* A layout once applied is never touched again. *)
Layout == /\ At("garage_layout") /\ box.up /\ Done
          /\ layout' = "applied"
          /\ UNCHANGED <<token, cred, mine, wantTag, box, bucket, keys, grant, env, ui>>

LayoutFails == /\ At("garage_layout") /\ box.up /\ layout # "applied" /\ Faulted
               /\ layout' \in {layout, "staged"}
               /\ UNCHANGED <<token, cred, mine, wantTag, box, bucket, keys, grant, env, ui>>

(* The admin API answers, and takes the token the deploy sends. *)
Admin == box.up /\ box.conf = token

(* No answer within ninety seconds, or none, or a 403. *)
Unreachable == /\ \/ At("garage_layout") /\ ~box.up
                  \/ (At("garage_buckets") \/ At("garage_keys")) /\ ~Admin
               /\ Failed
               /\ UNCHANGED garageVars

-----------------------------------------------------------------------------
(* --- Buckets and keys. --- *)

(* A missing bucket is created, then given its CORS rules; rules that differ *)
(* are set again.                                                           *)
SyncBuckets == /\ At("garage_buckets") /\ Admin /\ Done
               /\ bucket' = "spec"
               /\ UNCHANGED <<token, cred, mine, wantTag, box, layout, keys, grant, env, ui>>

SyncBucketsFails == /\ At("garage_buckets") /\ Admin /\ bucket # "spec" /\ Faulted
                    /\ bucket' \in {bucket, "bare"}
                    /\ UNCHANGED <<token, cred, mine, wantTag, box, layout, keys, grant, env, ui>>

(* Mutant: a key that exists is taken for the right one. *)
TrustNames == bucket = "absent" \/ \E k \in Keys : mine[k] = 0 \/ Cardinality(keys[k]) > 1

(* What sync-keys does not repair: the bucket or a credential is missing,   *)
(* two keys have one name, or a key is not the one the play was given.      *)
Refused == \/ bucket = "absent"
           \/ \E k \in Keys : \/ mine[k] = 0
                              \/ Cardinality(keys[k]) > 1
                              \/ keys[k] # {} /\ keys[k] # {mine[k]}

RefuseKeys == /\ At("garage_keys") /\ Admin /\ Refused /\ Failed
              /\ UNCHANGED garageVars

ToImport == {k \in Keys : keys[k] = {}}
ToWrite  == {k \in Keys : env[k] # mine[k]}
ToGrant  == {k \in Keys : ~grant[k]}

Import(S)    == keys'  = [k \in Keys |-> IF k \in S THEN {mine[k]} ELSE keys[k]]
WriteEnv(S)  == env'   = [k \in Keys |-> IF k \in S THEN mine[k] ELSE env[k]]
SetGrants(S) == grant' = [k \in Keys |-> IF k \in S THEN TRUE ELSE grant[k]]

SyncKeys == /\ At("garage_keys") /\ Admin /\ ~Refused /\ Done
            /\ Import(ToImport) /\ WriteEnv(ToWrite) /\ SetGrants(ToGrant)
            /\ UNCHANGED <<token, cred, mine, wantTag, box, layout, bucket, ui>>

(* Mutant: the files are written before the imports. *)
EnvFirst == /\ At("garage_keys") /\ Admin /\ ~Refused /\ Faulted
            /\ WriteEnv(ToWrite)
            /\ \E i \in SUBSET ToImport : Import(i)
            /\ UNCHANGED <<token, cred, mine, wantTag, box, layout, bucket, grant, ui>>

(* A call fails: all imports come before all files, and these before all    *)
(* grants.  The keys' order is left open.                                   *)
SyncKeysFails ==
    /\ At("garage_keys") /\ Admin /\ ~Refused /\ Faulted
    /\ \E i \in SUBSET ToImport, w \in SUBSET ToWrite, g \in SUBSET ToGrant :
          /\ w # {} => i = ToImport
          /\ g # {} => i = ToImport /\ w = ToWrite
          /\ Import(i) /\ WriteEnv(w) /\ SetGrants(g)
    /\ UNCHANGED <<token, cred, mine, wantTag, box, layout, bucket, ui>>

-----------------------------------------------------------------------------
(* --- The web interface. --- *)

(* The content covers the admin token, the OIDC secret and the signing key, *)
(* which is generated when it is missing; the owner is part of it.          *)
RenderUi == /\ At("ui_config") /\ Done
            /\ ui' = [ui EXCEPT !.file = ui.want, !.changed = (ui.file # ui.want)]
            /\ UNCHANGED <<token, cred, mine, wantTag, box, layout, bucket, keys, grant, env>>

DeployUi == /\ At("ui_deploy") /\ Done
            /\ ui' = IF ui.up /\ ~ui.changed THEN ui
                     ELSE [ui EXCEPT !.up = TRUE, !.run = ui.file]
            /\ UNCHANGED <<token, cred, mine, wantTag, box, layout, bucket, keys, grant, env>>

(* The old container stays, or was stopped for the restart. *)
DeployUiFails == /\ At("ui_deploy") /\ (~ui.up \/ ui.changed) /\ Faulted
                 /\ \E u \in {ui.up, FALSE} : ui' = [ui EXCEPT !.up = u]
                 /\ UNCHANGED <<token, cred, mine, wantTag, box, layout, bucket, keys, grant, env>>

GarageStep == \/ Provision \/ RenderConfig \/ Deploy \/ Layout \/ Unreachable
              \/ SyncBuckets \/ RefuseKeys \/ SyncKeys \/ RenderUi \/ DeployUi

GarageFault == \/ ProvisionBlind \/ ProvisionFails \/ DeployFails \/ LayoutFails
               \/ SyncBucketsFails \/ SyncKeysFails \/ DeployUiFails

-----------------------------------------------------------------------------
(* --- Events. --- *)

(* A commit between plays: a new image; a new interface configuration, which *)
(* a lost signing key or a new secret amounts to.                           *)
SpecChange == /\ Idle /\ Event
              /\ \/ wantTag' = wantTag + 1 /\ UNCHANGED ui
                 \/ ui' = [ui EXCEPT !.want = @ + 1] /\ UNCHANGED wantTag
              /\ UNCHANGED <<token, cred, mine, box, layout, bucket, keys, grant, env>>

ContainerStops == /\ Event
                  /\ \/ box.up /\ box' = [box EXCEPT !.up = FALSE] /\ UNCHANGED ui
                     \/ ui.up /\ ui' = [ui EXCEPT !.up = FALSE] /\ UNCHANGED box
                  /\ UNCHANGED <<token, cred, mine, wantTag, layout, bucket, keys, grant, env>>

(* With garage's own tools: the rules or a permission change; a key is      *)
(* deleted, or added under a name that is taken or whose key it replaces.   *)
ByHand == /\ box.up /\ layout = "applied" /\ Event
          /\ \/ bucket = "spec" /\ bucket' = "bare" /\ UNCHANGED <<keys, grant>>
             \/ \E k \in Keys : /\ grant[k] /\ grant' = [grant EXCEPT ![k] = FALSE]
                                /\ UNCHANGED <<bucket, keys>>
             \/ \E k \in Keys : \E now \in {{}, {Unused(k)}, keys[k] \cup {Unused(k)}} :
                   /\ keys[k] # {}
                   /\ keys' = [keys EXCEPT ![k] = now]
                   /\ grant' = [grant EXCEPT ![k] = @ /\ cred[k] \in now]
                   /\ UNCHANGED bucket
          /\ UNCHANGED <<token, cred, mine, wantTag, box, layout, env, ui>>

LoseKeysDir == /\ Event /\ \E k \in Keys : env[k] # 0
               /\ env' = [k \in Keys |-> 0]
               /\ UNCHANGED <<token, cred, mine, wantTag, box, layout, bucket, keys, grant, ui>>

(* Another play puts a key of its own over the one that is there: its       *)
(* `kv get`, before the first put of all, found none.  (The nightly timer   *)
(* and the deploy share no lock; any number of plays may have looked.)      *)
LatePut == /\ Event
           /\ \E k \in Keys : cred' = [cred EXCEPT ![k] = Unused(k)]
           /\ UNCHANGED <<token, mine, wantTag, box, layout, bucket, keys, grant, env, ui>>

GarageEvent == SpecChange \/ ContainerStops \/ ByHand \/ LoseKeysDir \/ LatePut

(* A new admin token is put into OpenBao between plays. *)
RotateToken == /\ Idle /\ token = 1 /\ Event
               /\ token' = 2
               /\ UNCHANGED <<cred, mine, wantTag, box, layout, bucket, keys, grant, env, ui>>

(* Containers that ran start again, with the configuration there is. *)
GarageBoot == /\ box' = IF box.up THEN [box EXCEPT !.conf = box.toml] ELSE box
              /\ ui' = IF ui.up THEN [ui EXCEPT !.run = ui.file] ELSE ui
              /\ UNCHANGED <<token, cred, mine, wantTag, layout, bucket, keys, grant, env>>

GarageType ==
    /\ token \in 1..2 /\ wantTag \in 1..(1 + MaxEvents)
    /\ cred \in [Keys -> 0..MaxId] /\ env \in [Keys -> 0..MaxId]
    /\ mine \in [Keys -> 0..MaxId]
    /\ keys \in [Keys -> SUBSET (1..MaxId)] /\ grant \in [Keys -> BOOLEAN]
    /\ box \in [toml : 0..2, compose : 0..(1 + MaxEvents), image : 0..(1 + MaxEvents),
                up : BOOLEAN, conf : 0..2]
    /\ layout \in {"none", "staged", "applied"}
    /\ bucket \in {"absent", "bare", "spec"}
    /\ ui \in [want : 1..(1 + MaxEvents), file : 0..(1 + MaxEvents),
               run : 0..(1 + MaxEvents), up : BOOLEAN, changed : BOOLEAN]
=============================================================================
