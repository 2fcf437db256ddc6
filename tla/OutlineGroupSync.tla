-------------------------- MODULE OutlineGroupSync --------------------------
(***************************************************************************)
(* The Outline group sync: a Temporal activity, started every five minutes *)
(* and retried on failure, that copies the LDAP-backed groups of Authentik *)
(* to Outline.  Everything is read one API list after another, while LDAP  *)
(* syncs rewrite the directory in Authentik and people edit Outline; then  *)
(* a plan is computed from what was read and applied one call at a time.   *)
(*                                                                         *)
(* A page-wise list is one step.  An account that exists, unambiguously    *)
(* and active, on both sides is an "eligible" user; a duplicate address or *)
(* any other malformed answer is one more reason for Abort.                *)
(***************************************************************************)
EXTENDS Naturals, FiniteSets

CONSTANTS Pks,        \* LDAP groups, by their Authentik key
          Names,      \* group names
          Users,      \* people
          Ids,        \* Outline group ids
          Gone,       \* an LDAP group without a source connection; a deleted Outline group
          Absent,     \* an Outline group id not in use
          Local,      \* no externalId
          Other,      \* an externalId of something else
          Starts,     \* <<directory, Outline contents>> a behaviour may start from
          MaxLdap, MaxEdits, MaxFails

VARIABLES dir,       \* [Pks -> LdapGroup]: Authentik's copy of the directory
          ldap,      \* the source's sync status: running, last result, generation
          good,      \* every directory a successful LDAP sync has left (history)
          eligible,  \* the users that may be members
          og,        \* [Ids -> OutlineGroup]
          pc, snap,  \* the activity: where it is and what it has read
          ops,       \* the operations of the plan not yet applied
          made,      \* [Pks -> Ids or Gone]: the groups it has created
          edits, fails

vars == <<dir, ldap, good, eligible, og, pc, snap, ops, made, edits, fails>>

LdapGroup    == [name : Names, members : SUBSET Users]
OutlineGroup == [name : Names, ext : Pks \cup {Local, Other}, prov : BOOLEAN,
                 members : SUBSET Users]
Status       == [running : BOOLEAN, last : {"done", "error"}, fresh : BOOLEAN, gen : Nat]
Phases       == {"idle", "links", "groups", "users", "accounts", "outline", "members", "apply"}

Live(s) == {o \in Ids : s[o] \notin {Absent, Gone}}

ASSUME Distinct == /\ Gone \notin LdapGroup \cup OutlineGroup
                   /\ Absent \notin OutlineGroup /\ Absent # Gone
                   /\ Local \notin Pks /\ Other \notin Pks /\ Local # Other
                   /\ Pks \cap Ids = {}
                   /\ MaxLdap \in Nat /\ MaxEdits \in Nat /\ MaxFails \in Nat

(* At first, no LDAP group has two Outline groups. *)
ASSUME StartsAssumption ==
    \A s \in Starts :
       /\ s[1] \in [Pks -> LdapGroup \cup {Gone}]
       /\ s[2] \in [Ids -> OutlineGroup \cup {Absent}]
       /\ \A o, q \in Live(s[2]) : s[2][o].ext = s[2][q].ext /\ s[2][o].ext \in Pks => o = q

Linked(d) == {p \in Pks : d[p] # Gone}
NewId      == CHOOSE o \in Ids : og[o] = Absent
Spare      == \E o \in Ids : og[o] = Absent
Foreign(g) == g.prov \/ g.ext = Other
Mark(d) == [p \in Pks |-> IF d[p] = Gone THEN {} ELSE d[p].members]

(* assert_sync_healthy: idle, last result good, not older than the limit. *)
Healthy(s) == ~s.running /\ s.last = "done" /\ s.fresh

-----------------------------------------------------------------------------
(* plan_sync over what was read: s.links, s.name, s.akm, s.elig, s.og, s.mem *)

Owned(s, p) == {o \in Live(s.og) : s.og[o].ext = p}
SameName(s, p) == {o \in Live(s.og) : s.og[o].name = s.name[p]}

(* Mutant: a group is recognised by its name only. *)
TargetsByName(s, p) == SameName(s, p)

Targets(s, p) == IF Owned(s, p) # {} THEN Owned(s, p) ELSE SameName(s, p)
Desired(s, p) == s.akm[p] \cap s.elig
Retired(s) == {o \in Live(s.og) : /\ s.og[o].ext \in Pks
                                  /\ \A p \in s.links : o \notin Targets(s, p)}

(* Mutant: ownership is not looked at. *)
RefusedForCollisions(s) ==
    \/ \E o, q \in Live(s.og) :
          /\ o # q
          /\ \/ s.og[o].name = s.og[q].name
             \/ s.og[o].ext = s.og[q].ext /\ s.og[o].ext # Local
    \/ \E p \in s.links : Owned(s, p) # {} /\ ~(SameName(s, p) \subseteq Owned(s, p))

(* The snapshots plan_sync raises on. *)
Refused(s) ==
    \/ \E o, q \in Live(s.og) :
          /\ o # q
          /\ \/ s.og[o].name = s.og[q].name
             \/ s.og[o].ext = s.og[q].ext /\ s.og[o].ext # Local
    \/ \E p \in s.links :
          \/ Owned(s, p) # {} /\ ~(SameName(s, p) \subseteq Owned(s, p))
          \/ \E o \in Targets(s, p) : s.og[o].prov \/ s.og[o].ext \notin {Local, p}
          \/ \E q \in s.links \ {p} : Targets(s, p) \cap Targets(s, q) # {}
    \/ \E o \in Retired(s) : s.og[o].prov

(* An operation names an Outline id, or the LDAP key of a group to create. *)
Op(kind, pk, id, user) == [kind |-> kind, pk |-> pk, id |-> id, user |-> user]

PlanOf(s, p) ==
    LET t   == Targets(s, p)
        cur == UNION {s.mem[o] : o \in t}
        id  == IF t = {} THEN p ELSE CHOOSE o \in t : TRUE
    IN  {Op("create", p, p, Gone) : x \in {y \in {1} : t = {}}}
        \cup {Op("update", p, o, Gone) : o \in {o \in t : \/ s.og[o].ext # p
                                                          \/ s.og[o].name # s.name[p]}}
        \cup {Op("add", p, id, u) : u \in Desired(s, p) \ cur}
        \cup {Op("remove", p, id, u) : u \in cur \ Desired(s, p)}

(* Mutant: groups that left the directory keep their members. *)
PlanLinked(s) == UNION {PlanOf(s, p) : p \in s.links}

Plan(s) == (UNION {PlanOf(s, p) : p \in s.links})
           \cup (UNION {{Op("empty", Gone, o, u) : u \in s.mem[o]} : o \in Retired(s)})

Relevant(s) == {o \in Live(s.og) : \/ s.og[o].ext \in Pks
                                   \/ \E p \in s.links : s.og[o].name = s.name[p]}

-----------------------------------------------------------------------------
Empty == [before |-> Gone]

Init == /\ \E s \in Starts : dir = s[1] /\ og = s[2]
        /\ ldap = [running |-> FALSE, last |-> "done", fresh |-> TRUE, gen |-> 0]
        /\ good = {dir}
        /\ eligible = Users
        /\ pc = "idle" /\ snap = Empty /\ ops = {} /\ made = [p \in Pks |-> Gone]
        /\ edits = 0 /\ fails = 0

(* --- Authentik's LDAP source: a sync rewrites the groups one at a time. --- *)

LdapBegin == /\ ~ldap.running /\ ldap.gen < MaxLdap
             /\ ldap' = [ldap EXCEPT !.running = TRUE]
             /\ UNCHANGED <<dir, good, eligible, og, made, pc, snap, ops, edits, fails>>

LdapWrite(p, g) == /\ ldap.running /\ edits < MaxEdits /\ edits' = edits + 1
                   /\ dir' = [dir EXCEPT ![p] = g]
                   /\ \A q \in Linked(dir') \ {p} : p \in Linked(dir') => dir[q].name # g.name
                   /\ UNCHANGED <<ldap, good, eligible, og, made, pc, snap, ops, fails>>

LdapDone == /\ ldap.running
            /\ ldap' = [running |-> FALSE, last |-> "done", fresh |-> TRUE, gen |-> ldap.gen + 1]
            /\ good' = good \cup {dir}
            /\ UNCHANGED <<dir, eligible, og, made, pc, snap, ops, edits, fails>>

LdapFail == /\ ldap.running /\ fails < MaxFails /\ fails' = fails + 1
            /\ ldap' = [ldap EXCEPT !.running = FALSE, !.last = "error"]
            /\ UNCHANGED <<dir, good, eligible, og, made, pc, snap, ops, edits>>

(* No LDAP sync for longer than LDAP_MAX_AGE_HOURS. *)
LdapStale == /\ ~ldap.running /\ ldap.fresh /\ ldap.gen < MaxLdap
             /\ ldap' = [ldap EXCEPT !.fresh = FALSE]
             /\ UNCHANGED <<dir, good, eligible, og, made, pc, snap, ops, edits, fails>>

(* --- People: in Outline, and accounts being disabled or enabled. --- *)

(* Outline refuses a group name that is in use. *)
Free(n, o) == \A q \in Live(og) \ {o} : og[q].name # n

PeopleMembers(o, m) ==
    /\ o \in Live(og) /\ edits < MaxEdits /\ edits' = edits + 1
    /\ og' = [og EXCEPT ![o].members = m]
    /\ UNCHANGED <<dir, ldap, good, eligible, made, pc, snap, ops, fails>>

PeopleCreate(g) ==
    /\ Spare /\ g.ext \notin Pks /\ Free(g.name, Gone)
    /\ edits < MaxEdits /\ edits' = edits + 1
    /\ og' = [og EXCEPT ![NewId] = g]
    /\ UNCHANGED <<dir, ldap, good, eligible, made, pc, snap, ops, fails>>

PeopleRename(o, n) ==
    /\ o \in Live(og) /\ Free(n, o) /\ edits < MaxEdits /\ edits' = edits + 1
    /\ og' = [og EXCEPT ![o].name = n]
    /\ UNCHANGED <<dir, ldap, good, eligible, made, pc, snap, ops, fails>>

PeopleDelete(o) ==
    /\ o \in Live(og) /\ edits < MaxEdits /\ edits' = edits + 1
    /\ og' = [og EXCEPT ![o] = Gone]
    /\ UNCHANGED <<dir, ldap, good, eligible, made, pc, snap, ops, fails>>

(* A group changes its owner: another provider or integration claims it, or *)
(* somebody takes its externalId away.                                      *)
PeopleClaim(o, e, v) ==
    /\ o \in Live(og) /\ e \in {og[o].ext, Local, Other} /\ edits < MaxEdits /\ edits' = edits + 1
    /\ og' = [og EXCEPT ![o].ext = e, ![o].prov = v]
    /\ UNCHANGED <<dir, ldap, good, eligible, made, pc, snap, ops, fails>>

PeopleAccount(u) ==
    /\ edits < MaxEdits /\ edits' = edits + 1
    /\ eligible' = IF u \in eligible THEN eligible \ {u} ELSE eligible \cup {u}
    /\ UNCHANGED <<dir, ldap, good, og, made, pc, snap, ops, fails>>

(* --- The activity: reconcile. --- *)

Read(from, to, s) == /\ pc = from /\ pc' = to /\ snap' = s
                     /\ UNCHANGED <<dir, ldap, good, eligible, og, made, ops, edits, fails>>

Begin == /\ Healthy(ldap)
         /\ Read("idle", "links", [before |-> ldap])

ReadLinks == /\ Linked(dir) # {}
             /\ Read("links", "groups", [before |-> snap.before, links |-> Linked(dir)])

ReadGroups ==
    /\ pc = "groups" /\ snap.links \subseteq Linked(dir)
    /\ Read("groups", "users", [before |-> snap.before, links |-> snap.links,
                                name |-> [p \in snap.links |-> dir[p].name]])

ReadUsers ==
    /\ pc = "users"
    /\ Read("users", "accounts", [before |-> snap.before, links |-> snap.links,
                                  name |-> snap.name, akm |-> Mark(dir)])

ReadAccounts ==
    /\ pc = "accounts"
    /\ Read("accounts", "outline", [before |-> snap.before, links |-> snap.links,
                                    name |-> snap.name, akm |-> snap.akm, elig |-> eligible])

ReadOutline ==
    /\ pc = "outline"
    /\ Read("outline", "members", [before |-> snap.before, links |-> snap.links,
                                   name |-> snap.name, akm |-> snap.akm, elig |-> snap.elig,
                                   og |-> og, mem |-> [o \in Ids |-> {}], read |-> {}])

ReadMembers(o) ==
    /\ pc = "members" /\ o \in Relevant(snap) \ snap.read
    /\ o \in Live(og)          \* groups.memberships of a deleted group is an error
    /\ Read("members", "members", [before |-> snap.before, links |-> snap.links,
                                   name |-> snap.name, akm |-> snap.akm, elig |-> snap.elig,
                                   og |-> snap.og, mem |-> [snap.mem EXCEPT ![o] = og[o].members],
                                   read |-> snap.read \cup {o}])

(* Mutant: the second status is only looked at by itself. *)
VerifyHealthy ==
    /\ pc = "members" /\ Relevant(snap) \subseteq snap.read
    /\ Healthy(ldap) /\ ~Refused(snap)
    /\ pc' = "apply" /\ ops' = Plan(snap)
    /\ UNCHANGED <<dir, ldap, good, eligible, og, made, snap, edits, fails>>

(* The second status read, and the plan. *)
Verify ==
    /\ pc = "members" /\ Relevant(snap) \subseteq snap.read
    /\ Healthy(ldap) /\ snap.before = ldap /\ ~Refused(snap)
    /\ pc' = "apply" /\ ops' = Plan(snap)
    /\ UNCHANGED <<dir, ldap, good, eligible, og, made, snap, edits, fails>>

(* Within one group: create or update, then additions, then removals; the  *)
(* retired groups come last.  The sort order of the keys is left open.     *)
Rank(op) == CASE op.kind \in {"create", "update"} -> 1 [] op.kind = "add" -> 2
              [] op.kind = "remove" -> 3 [] OTHER -> 4

Ready(op) == /\ op \in ops
             /\ \A x \in ops : Rank(x) < Rank(op) => x.pk # op.pk /\ op.kind # "empty"

(* The id of a group created by this plan is known once groups.create answers. *)
Resolve(op) == IF op.id \in Ids THEN op.id ELSE made[op.pk]

(* What Outline does with one call: it refuses a name in use, and a call    *)
(* on a group that was deleted meanwhile.                                   *)
Accepted(op) ==
    IF op.kind = "create" THEN Spare /\ Free(snap.name[op.pk], Gone)
    ELSE /\ Resolve(op) \in Live(og)
         /\ op.kind = "update" => Free(snap.name[op.pk], Resolve(op))

Changed(op, g) ==
    CASE op.kind = "update" -> [g EXCEPT !.name = snap.name[op.pk], !.ext = op.pk]
      [] op.kind = "add"    -> [g EXCEPT !.members = @ \cup {op.user}]
      [] OTHER              -> [g EXCEPT !.members = @ \ {op.user}]

Effect(op) ==
    IF op.kind = "create"
    THEN og' = [og EXCEPT ![NewId] = [name |-> snap.name[op.pk], ext |-> op.pk,
                                      prov |-> FALSE, members |-> {}]]
    ELSE og' = [og EXCEPT ![Resolve(op)] = Changed(op, @)]

Apply(op) == /\ pc = "apply" /\ Ready(op) /\ Accepted(op) /\ Effect(op)
             /\ ops' = ops \ {op}
             /\ made' = IF op.kind = "create" THEN [made EXCEPT ![op.pk] = NewId] ELSE made
             /\ UNCHANGED <<dir, ldap, good, eligible, pc, snap, edits, fails>>

(* Mutant: a run that ended is not followed by another. *)
StayStopped == pc' = "stopped" /\ snap' = Empty /\ ops' = {} /\ made' = [p \in Pks |-> Gone]

Stop == pc' = "idle" /\ snap' = Empty /\ ops' = {} /\ made' = [p \in Pks |-> Gone]

(* A call is applied, but its answer is lost. *)
ApplyLost(op) == /\ pc = "apply" /\ fails < MaxFails /\ fails' = fails + 1
                 /\ Ready(op) /\ Accepted(op) /\ Effect(op) /\ Stop
                 /\ UNCHANGED <<dir, ldap, good, eligible, edits>>

Finish == /\ pc = "apply" /\ ops = {} /\ Stop
          /\ UNCHANGED <<dir, ldap, good, eligible, og, edits, fails>>

(* SyncError: what was read is refused, or a call fails; the workflow's     *)
(* retry, or the next five-minute slot, starts over.                        *)
MustAbort ==
    \/ pc = "links" /\ Linked(dir) = {}
    \/ pc = "groups" /\ ~(snap.links \subseteq Linked(dir))
    \/ pc = "members" /\ \E o \in Relevant(snap) \ snap.read : o \notin Live(og)
    \/ /\ pc = "members" /\ Relevant(snap) \subseteq snap.read
       /\ ~(Healthy(ldap) /\ snap.before = ldap /\ ~Refused(snap))
    \/ pc = "apply" /\ \E op \in ops : Ready(op) /\ ~Accepted(op)

Abort == /\ MustAbort /\ Stop
         /\ UNCHANGED <<dir, ldap, good, eligible, og, edits, fails>>

(* The network, a worker restart, a heartbeat or activity timeout. *)
Crash == /\ pc # "idle" /\ fails < MaxFails /\ fails' = fails + 1 /\ Stop
         /\ UNCHANGED <<dir, ldap, good, eligible, og, edits>>

SyncStep == \/ Begin \/ ReadLinks \/ ReadGroups \/ ReadUsers \/ ReadAccounts \/ ReadOutline
            \/ \E o \in Ids : ReadMembers(o)
            \/ Verify \/ \E op \in ops : Apply(op)
            \/ Finish \/ Abort

Ldap == \/ LdapBegin \/ LdapDone \/ LdapFail \/ LdapStale
        \/ \E p \in Pks, g \in LdapGroup \cup {Gone} : LdapWrite(p, g)

People == \/ \E o \in Ids, m \in SUBSET Users : PeopleMembers(o, m)
          \/ \E g \in OutlineGroup : PeopleCreate(g)
          \/ \E o \in Ids, n \in Names : PeopleRename(o, n)
          \/ \E o \in Ids : PeopleDelete(o)
          \/ \E o \in Ids, e \in Pks \cup {Local, Other}, v \in BOOLEAN : PeopleClaim(o, e, v)
          \/ \E u \in Users : PeopleAccount(u)

Next == SyncStep \/ Ldap \/ People \/ Crash \/ \E op \in ops : ApplyLost(op)

Spec     == Init /\ [][Next]_vars
FairSpec == Spec /\ WF_vars(SyncStep)

-----------------------------------------------------------------------------
TypeOK ==
    /\ dir \in [Pks -> LdapGroup \cup {Gone}]
    /\ ldap \in Status
    /\ good \subseteq [Pks -> LdapGroup \cup {Gone}]
    /\ eligible \subseteq Users
    /\ og \in [Ids -> OutlineGroup \cup {Absent, Gone}]
    /\ pc \in Phases /\ made \in [Pks -> Ids \cup {Gone}]
    /\ edits \in Nat /\ fails \in Nat

(* A plan is made from one directory, as one successful LDAP sync left it:  *)
(* the group links, the names and the memberships are read by separate      *)
(* calls, and LDAP syncs that begin, fail or finish between them must make  *)
(* the two status reads differ or unhealthy (sync.py, reconcile).           *)
OneDirectory ==
    pc = "apply" => \E d \in good : /\ snap.links = Linked(d)
                                    /\ snap.name = [p \in Linked(d) |-> d[p].name]
                                    /\ snap.akm = Mark(d)

(* A call of the sync changes no group that belongs to another external     *)
(* source, whatever is renamed, created, claimed or adopted around it       *)
(* (plan_sync: "Outline group belongs to another external source"), unless  *)
(* the group was nobody else's when this run read or created it: who claims *)
(* a group between the read and the calls still gets this run's calls, and  *)
(* those of no later one.                                                   *)
ForeignKept ==
    [][\A o \in Live(og) : ops' # ops /\ Foreign(og[o]) /\ og'[o] # og[o] =>
          \/ o \in Live(snap.og) /\ ~Foreign(snap.og[o])
          \/ \E p \in snap.links : made[p] = o]_vars

(* An LDAP group never has two Outline groups: not after a lost answer to   *)
(* groups.create, and not after a rename on either side (plan_sync's        *)
(* externalId is looked up before the name).                                *)
OneGroupEach == \A o, q \in Live(og) : og[o].ext = og[q].ext /\ og[o].ext \in Pks => o = q

(* Every active member of an LDAP group, and nobody else, is in its Outline *)
(* group; the groups LDAP no longer has are empty.                          *)
Mirrored ==
    /\ \A p \in Linked(dir) : \E o \in Live(og) :
          og[o].ext = p /\ og[o].name = dir[p].name /\ og[o].members = Mark(dir)[p] \cap eligible
    /\ \A o \in Live(og) : og[o].ext \in Pks \ Linked(dir) => og[o].members = {}

(* What a run would read if nothing moved while it reads. *)
Now == [links |-> Linked(dir), name |-> [p \in Linked(dir) |-> dir[p].name],
        akm |-> Mark(dir), elig |-> eligible, og |-> og,
        mem |-> [o \in Ids |-> IF o \in Live(og) THEN og[o].members ELSE {}]]

(* Somebody else's group is in the way: it has the name of a directory      *)
(* group, or a provider has claimed a group of this sync, or two have one   *)
(* externalId.                                                              *)
OthersInTheWay(s) ==
    \/ \E p \in s.links : \E o \in SameName(s, p) :
          s.og[o].ext \notin Pks /\ (Foreign(s.og[o]) \/ Owned(s, p) # {})
    \/ \E o \in Live(s.og) : s.og[o].ext \in Pks /\ s.og[o].prov
    \/ \E o, q \in Live(s.og) : o # q /\ s.og[o].ext = Other /\ s.og[q].ext = Other

(* One of the sync's own groups is in the way: a directory group has the    *)
(* name that the Outline group of another one, retired or not, still has.   *)
(* plan_sync refuses this for ever, although nobody else is concerned.      *)
OwnInTheWay(s) == \E p \in s.links : \E o \in SameName(s, p) : s.og[o].ext \in Pks \ {p}

(* Once LDAP stays healthy, lost answers, crashes in the middle of a plan   *)
(* and edits during a run notwithstanding, Outline comes to mirror the      *)
(* directory and stays so, unless the directory is empty, or a group of     *)
(* somebody else or one of the sync's own is in the way, where the code     *)
(* refuses to act until a person helps.                                     *)
Converges ==
    <>[]Healthy(ldap) =>
        <>[](Mirrored \/ Linked(dir) = {} \/ OthersInTheWay(Now) \/ OwnInTheWay(Now))
=============================================================================
