----------------------- MODULE OutlineGroupSyncProofs -----------------------
(***************************************************************************)
(* A plan is made from one directory, leaves the groups of others alone and *)
(* gives no LDAP group a second Outline group, for every set of groups,     *)
(* people and starting contents, and however many syncs and edits happen.   *)
(*                                                                         *)
(* The argument for the first: the status that the run read first never    *)
(* comes back once it has changed, because the only step that makes it     *)
(* healthy again also counts the generation up.  As long as it has not     *)
(* changed, the directory is a good one and every part read so far is a    *)
(* part of it.                                                             *)
(***************************************************************************)
EXTENDS OutlineGroupSync, TLAPS

(* The LDAP source's status has its type, and outside a sync that failed or *)
(* still runs the directory is one a successful sync has left.              *)
SourceInv == /\ ldap \in Status
             /\ ~ldap.running /\ ldap.last = "done" => dir \in good

LinksRead == {"groups", "users", "accounts", "outline", "members", "apply"}
NamesRead == LinksRead \ {"groups"}
MarksRead == NamesRead \ {"users"}

(* What the run has read is what the directory holds. *)
PartsRead ==
    /\ pc \in LinksRead => snap.links = Linked(dir)
    /\ pc \in NamesRead => snap.name = [p \in Linked(dir) |-> dir[p].name]
    /\ pc \in MarksRead => snap.akm = Mark(dir)

(* The first status is healthy and of the past; while it still stands, so   *)
(* does everything read since.                                              *)
ReadInv == pc \notin {"idle", "apply"} =>
               /\ snap.before \in Status /\ Healthy(snap.before)
               /\ snap.before.gen <= ldap.gen
               /\ ldap = snap.before => PartsRead

IInv == SourceInv /\ ReadInv /\ OneDirectory

-----------------------------------------------------------------------------
LEMMA InitIInv == Init => IInv
BY DEF Init, IInv, SourceInv, ReadInv, OneDirectory, Status

(* A step that touches neither the source, the run nor the history keeps    *)
(* the invariant.                                                           *)
LEMMA Elsewhere == IInv /\ UNCHANGED <<dir, ldap, good, pc, snap>> => IInv'
<1> SUFFICES ASSUME IInv, UNCHANGED <<dir, ldap, good, pc, snap>> PROVE IInv'
    OBVIOUS
<1>1. SourceInv'
    BY DEF IInv, SourceInv
<1>2. ReadInv'
    BY DEF IInv, ReadInv, PartsRead, Healthy, Linked, Mark
<1>3. OneDirectory'
    BY DEF IInv, OneDirectory, Linked, Mark
<1> QED BY <1>1, <1>2, <1>3 DEF IInv

(* Only syncs change the status, and never back to what a run read first.   *)
LEMMA LdapKeeps == ASSUME IInv, Ldap PROVE IInv'
<1> USE DEF IInv
<1>1. CASE LdapBegin
  <2>1. SourceInv'
      BY <1>1 DEF LdapBegin, SourceInv, Status
  <2>2. ReadInv'
      BY <1>1 DEF LdapBegin, SourceInv, ReadInv, Status, Healthy
  <2>3. OneDirectory'
      BY <1>1 DEF LdapBegin, OneDirectory, Linked, Mark
  <2> QED BY <2>1, <2>2, <2>3
<1>2. CASE LdapDone
  <2>1. SourceInv'
      BY <1>2 DEF LdapDone, SourceInv, Status
  <2>2. ReadInv'
      BY <1>2 DEF LdapDone, SourceInv, ReadInv, Status, Healthy
  <2>3. OneDirectory'
      BY <1>2 DEF LdapDone, OneDirectory, Linked, Mark
  <2> QED BY <2>1, <2>2, <2>3
<1>3. CASE LdapFail
  <2>1. SourceInv'
      BY <1>3 DEF LdapFail, SourceInv, Status
  <2>2. ReadInv'
      BY <1>3 DEF LdapFail, SourceInv, ReadInv, Status, Healthy
  <2>3. OneDirectory'
      BY <1>3 DEF LdapFail, OneDirectory, Linked, Mark
  <2> QED BY <2>1, <2>2, <2>3
<1>4. CASE LdapStale
  <2>1. SourceInv'
      BY <1>4 DEF LdapStale, SourceInv, Status
  <2>2. ReadInv'
      BY <1>4 DEF LdapStale, SourceInv, ReadInv, Status, Healthy
  <2>3. OneDirectory'
      BY <1>4 DEF LdapStale, OneDirectory, Linked, Mark
  <2> QED BY <2>1, <2>2, <2>3
<1>5. ASSUME NEW p \in Pks, NEW g \in LdapGroup \cup {Gone}, LdapWrite(p, g)
      PROVE IInv'
  <2>1. SourceInv'
      BY <1>5 DEF LdapWrite, SourceInv
  <2>2. ReadInv'
      BY <1>5 DEF LdapWrite, ReadInv, Healthy
  <2>3. OneDirectory'
      BY <1>5 DEF LdapWrite, OneDirectory, Linked, Mark
  <2> QED BY <2>1, <2>2, <2>3
<1> QED BY <1>1, <1>2, <1>3, <1>4, <1>5 DEF Ldap

LEMMA PeopleKeep == ASSUME IInv, People PROVE IInv'
<1>1. UNCHANGED <<dir, ldap, good, pc, snap>>
    BY DEF People, PeopleMembers, PeopleCreate, PeopleRename, PeopleDelete, PeopleClaim, PeopleAccount
<1> QED BY <1>1, Elsewhere

(* A run that ended has read nothing. *)
LEMMA StopKeeps == ASSUME IInv, Stop, UNCHANGED <<dir, ldap, good>> PROVE IInv'
BY DEF IInv, Stop, SourceInv, ReadInv, OneDirectory

(* Each read adds a part of the directory as it is, and Verify accepts the  *)
(* parts only with the status unchanged.                                    *)
LEMMA SyncKeeps == ASSUME IInv, SyncStep PROVE IInv'
<1> USE DEF IInv
<1>1. CASE Begin
    BY <1>1 DEF Begin, Read, SourceInv, ReadInv, OneDirectory, PartsRead, Status,
                LinksRead, NamesRead, MarksRead
<1>2. CASE ReadLinks
    BY <1>2 DEF ReadLinks, Read, SourceInv, ReadInv, OneDirectory, PartsRead,
                LinksRead, NamesRead, MarksRead, Linked
<1>3. CASE ReadGroups
    BY <1>3 DEF ReadGroups, Read, SourceInv, ReadInv, OneDirectory, PartsRead,
                LinksRead, NamesRead, MarksRead, Linked
<1>4. CASE ReadUsers
    BY <1>4 DEF ReadUsers, Read, SourceInv, ReadInv, OneDirectory, PartsRead,
                LinksRead, NamesRead, MarksRead, Linked, Mark
<1>5. CASE ReadAccounts
    BY <1>5 DEF ReadAccounts, Read, SourceInv, ReadInv, OneDirectory, PartsRead,
                LinksRead, NamesRead, MarksRead, Linked, Mark
<1>6. CASE ReadOutline
    BY <1>6 DEF ReadOutline, Read, SourceInv, ReadInv, OneDirectory, PartsRead,
                LinksRead, NamesRead, MarksRead, Linked, Mark
<1>7. ASSUME NEW o \in Ids, ReadMembers(o) PROVE IInv'
    BY <1>7 DEF ReadMembers, Read, SourceInv, ReadInv, OneDirectory, PartsRead,
                LinksRead, NamesRead, MarksRead, Linked, Mark
<1>8. CASE Verify
  <2>1. dir \in good
      BY <1>8 DEF Verify, Healthy, SourceInv
  <2>2. /\ snap.links = Linked(dir)
        /\ snap.name = [p \in Linked(dir) |-> dir[p].name]
        /\ snap.akm = Mark(dir)
      BY <1>8 DEF Verify, ReadInv, PartsRead, LinksRead, NamesRead, MarksRead
  <2>3. OneDirectory'
      BY <1>8, <2>1, <2>2 DEF Verify, OneDirectory, Linked, Mark
  <2> QED BY <1>8, <2>3 DEF Verify, SourceInv, ReadInv
<1>9. ASSUME NEW op \in ops, Apply(op) PROVE IInv'
    BY <1>9, Elsewhere DEF Apply
<1>10. CASE Finish
    BY <1>10, StopKeeps DEF Finish
<1>11. CASE Abort
    BY <1>11, StopKeeps DEF Abort
<1> QED BY <1>1, <1>2, <1>3, <1>4, <1>5, <1>6, <1>7, <1>8, <1>9, <1>10, <1>11 DEF SyncStep

LEMMA NextKeeps == IInv /\ [Next]_vars => IInv'
<1> SUFFICES ASSUME IInv, [Next]_vars PROVE IInv'
    OBVIOUS
<1>1. CASE SyncStep  BY <1>1, SyncKeeps
<1>2. CASE Ldap      BY <1>2, LdapKeeps
<1>3. CASE People    BY <1>3, PeopleKeep
<1>4. CASE Crash     BY <1>4, StopKeeps DEF Crash
<1>5. ASSUME NEW op \in ops, ApplyLost(op) PROVE IInv'
    BY <1>5, StopKeeps DEF ApplyLost
<1>6. CASE UNCHANGED vars
    BY <1>6, Elsewhere DEF vars
<1> QED BY <1>1, <1>2, <1>3, <1>4, <1>5, <1>6 DEF Next

(* reconcile: every plan that is applied was computed from the groups,      *)
(* names and memberships of one directory that a successful LDAP sync left. *)
THEOREM PlansFromOneDirectory == Spec => []OneDirectory
<1>1. IInv => OneDirectory
    BY DEF IInv
<1> QED BY InitIInv, NextKeeps, <1>1, PTL DEF Spec

-----------------------------------------------------------------------------
(* --- What was read, and what a plan does. --- *)

Contents == [Ids -> OutlineGroup \cup {Absent, Gone}]

EligRead == MarksRead \ {"accounts"}
OgRead   == {"members", "apply"}

(* The parts of a snapshot have their types once they are read. *)
SnapKind == /\ pc \in LinksRead => snap.links \subseteq Pks
            /\ pc \in NamesRead => \A p \in snap.links : snap.name[p] \in Names
            /\ pc \in MarksRead => \A p \in snap.links : snap.akm[p] \subseteq Users
            /\ pc \in EligRead  => snap.elig \subseteq Users
            /\ pc \in OgRead    => snap.og \in Contents

(* A plan is applied only if its snapshot was not refused. *)
Planned == pc = "apply" => ~Refused(snap) /\ ops \subseteq Plan(snap)

Create(p) == Op("create", p, p, Gone)

(* How a group stands to the snapshot: it was there, and its key, if it has *)
(* one, is the one it had; adopted or created by this run; or made by       *)
(* people since.                                                            *)
Same(o)    == /\ o \in Live(snap.og)
              /\ og[o].ext = snap.og[o].ext \/ og[o].ext \notin Pks
Adopted(o) == \E p \in snap.links : o \in Targets(snap, p) /\ og[o].ext = p
Created(o) == /\ o \notin Live(snap.og)
              /\ \E p \in snap.links : /\ Targets(snap, p) = {} /\ og[o].ext = p
                                       /\ Create(p) \notin ops
Since(o)   == o \notin Live(snap.og) /\ og[o].ext \notin Pks

Known == pc \in OgRead =>
            /\ \A o \in Live(og) : \/ Same(o) \/ Since(o)
                                   \/ pc = "apply" /\ (Adopted(o) \/ Created(o))
            /\ \A o \in Live(snap.og) : og[o] # Absent

GroupInv == TypeOK /\ SnapKind /\ Planned /\ Known /\ OneGroupEach

(* The kinds of operations a plan has, and what they refer to. *)
LEMMA PlanIs ==
    ASSUME NEW s, NEW op \in Plan(s)
    PROVE  \/ \E p \in s.links : op = Create(p) /\ Targets(s, p) = {}
           \/ \E p \in s.links : \E o \in Targets(s, p) : op = Op("update", p, o, Gone)
           \/ \E p \in s.links : \E id \in Targets(s, p) \cup {p}, u \in s.akm[p] \cap s.elig :
                 (id = p => Targets(s, p) = {} \/ p \in Targets(s, p)) /\ op = Op("add", p, id, u)
           \/ \E p \in s.links : \E id \in Targets(s, p) \cup {p} : \E u :
                 (id = p => Targets(s, p) = {} \/ p \in Targets(s, p)) /\ op = Op("remove", p, id, u)
           \/ \E o \in Retired(s) : \E u : op = Op("empty", Gone, o, u)
<1>1. CASE \E o \in Retired(s) : op \in {Op("empty", Gone, o, u) : u \in s.mem[o]}
  BY <1>1
<1>2. ASSUME NEW p \in s.links, op \in PlanOf(s, p)
      PROVE  \/ op = Create(p) /\ Targets(s, p) = {}
             \/ \E o \in Targets(s, p) : op = Op("update", p, o, Gone)
             \/ \E id \in Targets(s, p) \cup {p}, u \in s.akm[p] \cap s.elig :
                   (id = p => Targets(s, p) = {} \/ p \in Targets(s, p)) /\ op = Op("add", p, id, u)
             \/ \E id \in Targets(s, p) \cup {p} : \E u :
                   (id = p => Targets(s, p) = {} \/ p \in Targets(s, p)) /\ op = Op("remove", p, id, u)
  <2> DEFINE t   == Targets(s, p)
             cur == UNION {s.mem[o] : o \in t}
             id  == IF t = {} THEN p ELSE CHOOSE o \in t : TRUE
  <2>1. \/ op \in {Op("create", p, p, Gone) : x \in {y \in {1} : t = {}}}
        \/ op \in {Op("update", p, o, Gone) : o \in {o \in t : \/ s.og[o].ext # p
                                                               \/ s.og[o].name # s.name[p]}}
        \/ op \in {Op("add", p, id, u) : u \in Desired(s, p) \ cur}
        \/ op \in {Op("remove", p, id, u) : u \in cur \ Desired(s, p)}
    BY <1>2 DEF PlanOf
  <2>2. id \in t \cup {p} /\ (id = p => t = {} \/ p \in t)
    OBVIOUS
  <2> HIDE DEF t, cur, id
  <2>3. Desired(s, p) \subseteq s.akm[p] \cap s.elig
    BY DEF Desired
  <2>4. \/ op = Create(p) /\ t = {}
        \/ \E o \in t : op = Op("update", p, o, Gone)
        \/ \E u \in s.akm[p] \cap s.elig : op = Op("add", p, id, u)
        \/ \E u : op = Op("remove", p, id, u)
    BY <2>1, <2>3 DEF Create
  <2> QED
    BY <2>2, <2>4 DEF t
<1> QED
  BY <1>1, <1>2 DEF Plan

(* A snapshot that is not refused has one group for a key at most. *)
LEMMA OneTarget ==
    ASSUME NEW s, ~Refused(s), NEW p \in s.links, p # Local, NEW o \in Targets(s, p)
    PROVE  /\ o \in Live(s.og) /\ ~s.og[o].prov /\ s.og[o].ext \in {Local, p}
           /\ \A q \in Targets(s, p) : q = o
           /\ \A q \in Live(s.og) : s.og[q].ext = p => q = o
<1>1. o \in Live(s.og) /\ \A q \in Targets(s, p) : q \in Live(s.og)
  BY DEF Targets, Owned, SameName
<1>2. ~s.og[o].prov /\ s.og[o].ext \in {Local, p}
  BY DEF Refused
<1>3. \A q \in Live(s.og) \ {o} : s.og[q].name # s.og[o].name
                                  /\ (s.og[q].ext = s.og[o].ext => s.og[o].ext = Local)
  BY <1>1 DEF Refused
<1>4. CASE Owned(s, p) # {}
  <2>1. s.og[o].ext = p
    BY <1>4 DEF Targets, Owned
  <2>2. \A q \in Targets(s, p) : s.og[q].ext = p
    BY <1>4 DEF Targets, Owned
  <2> QED
    BY <1>1, <1>2, <1>3, <2>1, <2>2
<1>5. CASE Owned(s, p) = {}
  <2>1. s.og[o].name = s.name[p] /\ \A q \in Targets(s, p) : s.og[q].name = s.name[p]
    BY <1>5 DEF Targets, SameName
  <2>2. \A q \in Live(s.og) : s.og[q].ext # p
    BY <1>5 DEF Owned
  <2> QED
    BY <1>1, <1>2, <1>3, <2>1, <2>2
<1> QED
  BY <1>4, <1>5

(* A group that a call of this run may reach. *)
Ours(o) == \/ o \in Live(snap.og) /\ ~Foreign(snap.og[o])
           \/ \E p \in snap.links : made[p] = o

(* A group the plan writes to was nobody else's when it was read. *)
LEMMA TargetIsOurs ==
    ASSUME GroupInv, pc = "apply", NEW p \in snap.links, NEW o \in Targets(snap, p)
    PROVE  Ours(o)
<1>1. p \in Pks /\ ~Refused(snap)
  BY DEF GroupInv, SnapKind, Planned, LinksRead
<1>2. o \in Live(snap.og) /\ ~snap.og[o].prov /\ snap.og[o].ext \in {Local, p}
  BY <1>1, OneTarget, Distinct
<1> QED
  BY <1>1, <1>2, Distinct DEF Ours, Foreign

LEMMA RetiredIsOurs ==
    ASSUME GroupInv, pc = "apply", NEW o \in Retired(snap)
    PROVE  Ours(o)
<1>1. o \in Live(snap.og) /\ snap.og[o].ext \in Pks /\ ~snap.og[o].prov
  BY DEF GroupInv, Planned, Refused, Retired
<1> QED
  BY <1>1, Distinct DEF Ours, Foreign

Makes(op) == \E n \in Ids, p \in snap.links, g \in OutlineGroup :
                /\ op = Create(p) /\ Targets(snap, p) = {}
                /\ og[n] = Absent /\ og' = [og EXCEPT ![n] = g]
                /\ g.ext = p

Writes == \E o \in Live(og), g \in OutlineGroup :
             /\ og' = [og EXCEPT ![o] = g] /\ Ours(o)
             /\ \/ g.ext = og[o].ext
                \/ \E p \in snap.links : o \in Targets(snap, p) /\ g.ext = p

(* A call that gets through makes the group of a key that has none, or      *)
(* writes to a group that was nobody else's when it was read or created.    *)
LEMMA EffectIs ==
    ASSUME GroupInv, pc = "apply", NEW op \in ops, Accepted(op), Effect(op)
    PROVE  Makes(op) \/ Writes
<1> USE DEF Op
<1>0. /\ snap.links \subseteq Pks /\ snap.og \in Contents /\ op \in Plan(snap)
      /\ \A p \in snap.links : snap.name[p] \in Names
      /\ \A p \in snap.links : snap.akm[p] \subseteq Users
      /\ Pks \cap Ids = {} /\ og \in Contents
  BY Distinct DEF GroupInv, SnapKind, Planned, TypeOK, Contents, LinksRead, NamesRead, MarksRead,
     EligRead, OgRead
<1>1. CASE \E p \in snap.links : op = Create(p) /\ Targets(snap, p) = {}
  <2>1. PICK p \in snap.links : op = Create(p) /\ Targets(snap, p) = {}
    BY <1>1
  <2>2. op.kind = "create" /\ op.pk = p
    BY <2>1 DEF Create
  <2> DEFINE g == [name |-> snap.name[p], ext |-> p, prov |-> FALSE, members |-> {}]
  <2>3. og' = [og EXCEPT ![NewId] = g]
    BY <2>2 DEF Effect
  <2>4. NewId \in Ids /\ og[NewId] = Absent
    BY <2>2 DEF Accepted, Spare, NewId
  <2>5. g \in OutlineGroup
    BY <1>0 DEF OutlineGroup
  <2> QED
    BY <2>1, <2>3, <2>4, <2>5 DEF Makes
<1>2. ASSUME op.kind # "create", NEW o \in Live(og), Ours(o),
             og' = [og EXCEPT ![o] = Changed(op, og[o])],
             op.kind = "update" => op.pk \in snap.links /\ o \in Targets(snap, op.pk),
             op.kind = "add" => op.user \in Users
      PROVE  Writes
  <2>0. og[o] \in OutlineGroup
    BY <1>0 DEF Live, Contents
  <2> DEFINE x == og[o]
             up == [x EXCEPT !.name = snap.name[op.pk], !.ext = op.pk]
             ad == [x EXCEPT !.members = x.members \cup {op.user}]
             re == [x EXCEPT !.members = x.members \ {op.user}]
  <2>1. CASE op.kind = "update"
    <3>1. og' = [og EXCEPT ![o] = up]
      BY <1>2, <2>1 DEF Changed
    <3>2. up \in OutlineGroup /\ up.ext = op.pk
      BY <1>0, <1>2, <2>0, <2>1 DEF OutlineGroup
    <3> QED
      BY <1>2, <2>1, <3>1, <3>2 DEF Writes
  <2>2. CASE op.kind = "add"
    <3>1. og' = [og EXCEPT ![o] = ad]
      BY <1>2, <2>2 DEF Changed
    <3>2. ad \in OutlineGroup /\ ad.ext = x.ext
      BY <1>2, <2>0, <2>2 DEF OutlineGroup
    <3> QED
      BY <1>2, <3>1, <3>2 DEF Writes
  <2>3. CASE op.kind \notin {"update", "add"}
    <3>1. og' = [og EXCEPT ![o] = re]
      BY <1>2, <2>3 DEF Changed
    <3>2. re \in OutlineGroup /\ re.ext = x.ext
      BY <2>0 DEF OutlineGroup
    <3> QED
      BY <1>2, <3>1, <3>2 DEF Writes
  <2> QED
    BY <2>1, <2>2, <2>3
<1>3. op.kind # "create" => /\ Resolve(op) \in Live(og)
                            /\ og' = [og EXCEPT ![Resolve(op)] = Changed(op, og[Resolve(op)])]
  BY DEF Effect, Accepted
<1>4. CASE \E p \in snap.links : \E o \in Targets(snap, p) : op = Op("update", p, o, Gone)
  <2>1. PICK p \in snap.links : \E o \in Targets(snap, p) : op = Op("update", p, o, Gone)
    BY <1>4
  <2>2. PICK t \in Targets(snap, p) : op = Op("update", p, t, Gone)
    BY <2>1
  <2>3. t \in Ids
    BY DEF Targets, Owned, SameName, Live
  <2>4. Resolve(op) = t /\ op.kind = "update" /\ op.pk = p
    BY <2>2, <2>3 DEF Resolve
  <2>5. Ours(t)
    BY TargetIsOurs
  <2> QED
    BY <1>2, <1>3, <2>4, <2>5
<1>5. ASSUME NEW p \in snap.links, NEW id \in Targets(snap, p) \cup {p},
             id = p => Targets(snap, p) = {} \/ p \in Targets(snap, p),
             op.id = id, op.pk = p, op.kind \in {"add", "remove"}, op.kind = "add" => op.user \in Users
      PROVE  Writes
  <2>1. \A t \in Targets(snap, p) : t \in Ids
    BY DEF Targets, Owned, SameName, Live
  <2>2. p \in Pks /\ p \notin Ids
    BY <1>0
  <2>3. Ours(Resolve(op))
    <3>1. CASE id \in Targets(snap, p)
      <4>1. Resolve(op) = id
        BY <1>5, <2>1, <3>1 DEF Resolve
      <4> QED
        BY <3>1, <4>1, TargetIsOurs
    <3>2. CASE id = p
      <4>1. Resolve(op) = made[p]
        BY <1>5, <2>2, <3>2 DEF Resolve
      <4> QED
        BY <4>1 DEF Ours
    <3> QED
      BY <3>1, <3>2
  <2> QED
    BY <1>2, <1>3, <1>5, <2>3
<1>6. CASE \E p \in snap.links : \E id \in Targets(snap, p) \cup {p}, u \in snap.akm[p] \cap snap.elig :
              (id = p => Targets(snap, p) = {} \/ p \in Targets(snap, p)) /\ op = Op("add", p, id, u)
  <2>1. PICK p \in snap.links : \E id \in Targets(snap, p) \cup {p}, u \in snap.akm[p] \cap snap.elig :
              (id = p => Targets(snap, p) = {} \/ p \in Targets(snap, p)) /\ op = Op("add", p, id, u)
    BY <1>6
  <2>2. PICK id \in Targets(snap, p) \cup {p}, u \in snap.akm[p] :
              (id = p => Targets(snap, p) = {} \/ p \in Targets(snap, p)) /\ op = Op("add", p, id, u)
    BY <2>1
  <2>3. op.id = id /\ op.pk = p /\ op.kind = "add" /\ op.user = u /\ u \in Users
    BY <1>0, <2>2
  <2> QED
    BY <1>5, <2>2, <2>3
<1>7. CASE \E p \in snap.links : \E id \in Targets(snap, p) \cup {p} : \E u :
              (id = p => Targets(snap, p) = {} \/ p \in Targets(snap, p)) /\ op = Op("remove", p, id, u)
  <2>1. PICK p \in snap.links : \E id \in Targets(snap, p) \cup {p} : \E u :
              (id = p => Targets(snap, p) = {} \/ p \in Targets(snap, p)) /\ op = Op("remove", p, id, u)
    BY <1>7
  <2>2. PICK id \in Targets(snap, p) \cup {p} : \E u :
              (id = p => Targets(snap, p) = {} \/ p \in Targets(snap, p)) /\ op = Op("remove", p, id, u)
    BY <2>1
  <2>3. op.id = id /\ op.pk = p /\ op.kind = "remove"
    BY <2>2
  <2> QED
    BY <1>5, <2>2, <2>3
<1>8. CASE \E o \in Retired(snap) : \E u : op = Op("empty", Gone, o, u)
  <2>1. PICK t \in Retired(snap) : \E u : op = Op("empty", Gone, t, u)
    BY <1>8
  <2>2. t \in Ids
    BY DEF Retired, Live
  <2>3. Resolve(op) = t /\ op.kind = "empty"
    BY <2>1, <2>2 DEF Resolve
  <2>4. Ours(t)
    BY RetiredIsOurs
  <2> QED
    BY <1>2, <1>3, <2>3, <2>4
<1> QED
  BY <1>0, <1>1, <1>4, <1>6, <1>7, <1>8, PlanIs

(* A group is made only for a key that has none, anywhere. *)
LEMMA MakesKeeps ==
    ASSUME GroupInv, pc = "apply", NEW op \in ops, Makes(op)
    PROVE  /\ og' \in Contents /\ OneGroupEach'
           /\ UNCHANGED <<pc, snap>> /\ ops' = ops \ {op} => Known'
<1>1. PICK n \in Ids, p \in snap.links, g \in OutlineGroup :
         /\ op = Create(p) /\ Targets(snap, p) = {}
         /\ og[n] = Absent /\ og' = [og EXCEPT ![n] = g]
         /\ g.ext = p
  BY DEF Makes
<1>2. p \in Pks /\ og \in Contents
  BY DEF GroupInv, SnapKind, LinksRead, TypeOK, Contents
<1>3. og' \in Contents /\ og'[n] = g /\ \A o \in Ids \ {n} : og'[o] = og[o]
  BY <1>1, <1>2 DEF Contents
<1>4. Live(og') = Live(og) \cup {n} /\ n \notin Live(og)
  BY <1>1, <1>3, Distinct DEF Live
<1>6. \A q \in Live(og) : og[q].ext # p
  <2> SUFFICES ASSUME NEW q \in Live(og), og[q].ext = p PROVE FALSE
    OBVIOUS
  <2>1. ~Same(q)
    BY <1>1, <1>2 DEF Same, Targets, Owned
  <2>2. ~Since(q) /\ ~Created(q)
    BY <1>1, <1>2 DEF Since, Created
  <2>3. ~Adopted(q)
    BY <1>1 DEF Adopted
  <2> QED
    BY <2>1, <2>2, <2>3 DEF GroupInv, Known, OgRead
<1>7. OneGroupEach'
  BY <1>1, <1>3, <1>4, <1>6 DEF GroupInv, OneGroupEach, Live
<1>8. ASSUME UNCHANGED <<pc, snap>>, ops' = ops \ {op} PROVE Known'
  <2>1. n \notin Live(snap.og) /\ \A o \in Live(snap.og) : og[o] # Absent
    BY <1>1 DEF GroupInv, Known, OgRead
  <2>2. Created(n)'
    BY <1>1, <1>3, <1>8, <2>1 DEF Created
  <2>3. ASSUME NEW o \in Live(og)
        PROVE  (Same(o) \/ Since(o) \/ Adopted(o) \/ Created(o))'
    <3>1. Same(o) \/ Since(o) \/ Adopted(o) \/ Created(o)
      BY DEF GroupInv, Known, OgRead
    <3>2. og'[o] = og[o]
      BY <1>3, <1>4 DEF Live
    <3> QED
      BY <1>8, <3>1, <3>2 DEF Same, Since, Adopted, Created
  <2>4. \A o \in Live(snap.og) : og'[o] # Absent
    BY <1>3, <2>1 DEF Live
  <2> QED
    BY <1>4, <1>8, <2>2, <2>3, <2>4 DEF Known
<1> QED
  BY <1>3, <1>7, <1>8

(* What is written to is the only group that gets the key. *)
LEMMA WritesKeep ==
    ASSUME GroupInv, pc = "apply", NEW op \in ops, Writes
    PROVE  /\ og' \in Contents /\ OneGroupEach'
           /\ UNCHANGED <<pc, snap>> /\ ops' = ops \ {op} => Known'
<1>1. PICK n \in Live(og), g \in OutlineGroup :
         /\ og' = [og EXCEPT ![n] = g]
         /\ \/ g.ext = og[n].ext
            \/ \E p \in snap.links : n \in Targets(snap, p) /\ g.ext = p
  BY DEF Writes
<1>2. snap.links \subseteq Pks /\ og \in Contents /\ n \in Ids /\ ~Refused(snap)
  BY DEF GroupInv, SnapKind, LinksRead, TypeOK, Contents, Live, Planned
<1>3. og' \in Contents /\ og'[n] = g /\ \A o \in Ids \ {n} : og'[o] = og[o]
  BY <1>1, <1>2 DEF Contents
<1>4. Live(og') = Live(og)
  BY <1>2, <1>3, Distinct DEF Live
<1>6. ASSUME NEW p \in snap.links, n \in Targets(snap, p), NEW q \in Live(og), og[q].ext = p
      PROVE  q = n
  <2>1. p # Local /\ p \in Pks
    BY <1>2, Distinct
  <2>2. /\ \A o \in Targets(snap, p) : o = n
        /\ \A o \in Live(snap.og) : snap.og[o].ext = p => o = n
    BY <1>2, <1>6, <2>1, OneTarget
  <2>3. ~Since(q) /\ ~Created(q)
    BY <1>6, <2>1 DEF Since, Created
  <2>4. Same(q) => q = n
    BY <1>6, <2>1, <2>2 DEF Same
  <2>5. Adopted(q) => q = n
    BY <1>6, <2>2 DEF Adopted
  <2> QED
    BY <2>3, <2>4, <2>5 DEF GroupInv, Known, OgRead
<1>7. OneGroupEach'
  <2> SUFFICES ASSUME NEW o \in Live(og), NEW q \in Live(og),
                      og'[o].ext = og'[q].ext, og'[o].ext \in Pks
               PROVE  o = q
    BY <1>4 DEF OneGroupEach
  <2>0. o \in Ids /\ q \in Ids
    BY DEF Live
  <2>1. o # n /\ q # n => o = q
    BY <1>3, <2>0 DEF GroupInv, OneGroupEach
  <2>2. CASE g.ext = og[n].ext
    <3>1. og'[o].ext = og[o].ext /\ og'[q].ext = og[q].ext
      BY <1>3, <2>0, <2>2
    <3> QED
      BY <3>1 DEF GroupInv, OneGroupEach
  <2>3. CASE \E p \in snap.links : n \in Targets(snap, p) /\ g.ext = p
    <3>1. \A r \in Live(og) : og[r].ext = g.ext => r = n
      BY <1>6, <2>3
    <3>2. CASE o # n /\ q # n
      BY <2>1, <3>2
    <3>3. (o # n => og'[o] = og[o]) /\ (q # n => og'[q] = og[q]) /\ og'[n] = g
      BY <1>3, <2>0
    <3> QED
      BY <3>1, <3>2, <3>3
  <2> QED
    BY <1>1, <2>2, <2>3
<1>8. ASSUME UNCHANGED <<pc, snap>>, ops' = ops \ {op} PROVE Known'
  <2>0. \A o \in Live(snap.og) : og[o] # Absent
    BY DEF GroupInv, Known, OgRead
  <2>1. ASSUME NEW o \in Live(og)
        PROVE  (Same(o) \/ Since(o) \/ Adopted(o) \/ Created(o))'
    <3>1. Same(o) \/ Since(o) \/ Adopted(o) \/ Created(o)
      BY DEF GroupInv, Known, OgRead
    <3>2. CASE o # n \/ g.ext = og[n].ext
      <4>1. og'[o].ext = og[o].ext
        BY <1>3, <3>2 DEF Live
      <4> QED
        BY <1>8, <3>1, <4>1 DEF Same, Since, Adopted, Created
    <3>3. CASE o = n /\ \E p \in snap.links : n \in Targets(snap, p) /\ g.ext = p
      BY <1>1, <1>3, <1>8, <3>3 DEF Adopted
    <3> QED
      BY <1>1, <3>2, <3>3
  <2>2. \A o \in Live(snap.og) : og'[o] # Absent
    BY <1>3, <2>0, Distinct DEF Live
  <2> QED
    BY <1>4, <1>8, <2>1, <2>2 DEF Known
<1> QED
  BY <1>3, <1>7, <1>8

-----------------------------------------------------------------------------
(* --- The other steps. --- *)

LEMMA InitGroups == Init => GroupInv
<1> SUFFICES ASSUME Init PROVE GroupInv
  OBVIOUS
<1>1. PICK s \in Starts : dir = s[1] /\ og = s[2]
  BY DEF Init
<1>2. /\ dir \in [Pks -> LdapGroup \cup {Gone}] /\ og \in [Ids -> OutlineGroup \cup {Absent}]
      /\ OneGroupEach
  BY <1>1, StartsAssumption DEF OneGroupEach
<1>4. TypeOK
  BY <1>2 DEF Init, TypeOK, Status, Phases
<1>5. SnapKind /\ Planned /\ Known
  BY DEF Init, SnapKind, Planned, Known, LinksRead, NamesRead, MarksRead, EligRead, OgRead
<1> QED
  BY <1>2, <1>4, <1>5 DEF GroupInv

(* Steps that touch neither the groups nor the run. *)
LEMMA GroupsElsewhere ==
    ASSUME GroupInv, TypeOK', UNCHANGED <<og, pc, snap, ops>> PROVE GroupInv'
<1>1. SnapKind' /\ Planned'
  BY DEF GroupInv, SnapKind, Planned
<1>2. Known'
  BY DEF GroupInv, Known, Same, Since, Adopted, Created
<1>3. OneGroupEach'
  BY DEF GroupInv, OneGroupEach
<1> QED
  BY <1>1, <1>2, <1>3 DEF GroupInv

(* A run that ended. *)
LEMMA StoppedGroups ==
    ASSUME TypeOK', Stop, OneGroupEach' PROVE GroupInv'
BY DEF Stop, GroupInv, SnapKind, Planned, Known, LinksRead, NamesRead, MarksRead, EligRead, OgRead

LEMMA LdapGroups == ASSUME IInv', GroupInv, Ldap PROVE GroupInv'
<1>1. UNCHANGED <<og, made, pc, snap, ops, eligible>>
  BY DEF Ldap, LdapBegin, LdapDone, LdapFail, LdapStale, LdapWrite
<1>2. ldap' \in Status
  BY DEF IInv, SourceInv
<1>3. edits' \in Nat /\ fails' \in Nat
  BY DEF GroupInv, TypeOK, Ldap, LdapBegin, LdapDone, LdapFail, LdapStale, LdapWrite
<1>4. /\ dir' \in [Pks -> LdapGroup \cup {Gone}]
      /\ good' \subseteq [Pks -> LdapGroup \cup {Gone}]
  BY DEF GroupInv, TypeOK, Ldap, LdapBegin, LdapDone, LdapFail, LdapStale, LdapWrite
<1>5. TypeOK'
  BY <1>1, <1>2, <1>3, <1>4 DEF GroupInv, TypeOK
<1> QED
  BY <1>1, <1>5, GroupsElsewhere

(* People change names and members, make groups of their own, and delete.   *)
LEMMA PeopleGroups == ASSUME GroupInv, People PROVE GroupInv'
<1>0. og \in Contents
  BY DEF GroupInv, TypeOK, Contents
<1>1. UNCHANGED <<dir, ldap, good, made, pc, snap, ops>>
  BY DEF People, PeopleMembers, PeopleCreate, PeopleRename, PeopleDelete, PeopleClaim, PeopleAccount
<1>2. edits' \in Nat /\ fails' \in Nat /\ eligible' \subseteq Users
  <2>1. edits' = edits + 1 /\ fails' = fails
    BY DEF People, PeopleMembers, PeopleCreate, PeopleRename, PeopleDelete, PeopleClaim, PeopleAccount
  <2>2. eligible' = eligible \/ \E u \in Users : PeopleAccount(u)
    BY DEF People, PeopleMembers, PeopleCreate, PeopleRename, PeopleDelete, PeopleClaim
  <2> QED
    BY <2>1, <2>2 DEF GroupInv, TypeOK, PeopleAccount
<1>t. og' \in Contents => TypeOK'
  BY <1>1, <1>2 DEF GroupInv, TypeOK, Contents
<1>s. SnapKind' /\ Planned'
  BY <1>1 DEF GroupInv, SnapKind, Planned
(* One group is touched, and keeps its key or loses it. *)
<1>3. ASSUME NEW n \in Live(og), NEW g \in OutlineGroup, og' = [og EXCEPT ![n] = g],
             g.ext = og[n].ext \/ g.ext \notin Pks
      PROVE  GroupInv'
  <2>0. n \in Ids
    BY DEF Live
  <2>1. og' \in Contents /\ og'[n] = g /\ \A o \in Ids \ {n} : og'[o] = og[o]
    BY <1>0, <1>3, <2>0 DEF Contents
  <2>2. Live(og') = Live(og)
    BY <2>0, <2>1, Distinct DEF Live
  <2>3. \A o \in Ids : og'[o].ext = og[o].ext \/ og'[o].ext \notin Pks
    BY <1>3, <2>1
  <2>6. OneGroupEach'
    BY <2>2, <2>3 DEF GroupInv, OneGroupEach, Live
  <2>7. Known'
    <3>1. \A o \in Live(snap.og) : og'[o] = Absent => og[o] = Absent
      BY <2>1, Distinct DEF Live
    <3>2. ASSUME NEW o \in Live(og), og'[o].ext = og[o].ext
          PROVE  /\ Same(o) => Same(o)'
                 /\ Since(o) => Since(o)'
                 /\ Adopted(o) => Adopted(o)'
                 /\ Created(o) => Created(o)'
      BY <1>1, <3>2 DEF Same, Since, Adopted, Created
    <3>3. ASSUME NEW o \in Live(og), og'[o].ext \notin Pks
          PROVE  Same(o)' \/ Since(o)'
      BY <1>1, <3>3 DEF Same, Since
    <3>4. \A o \in Live(og) : o \in Ids
      BY DEF Live
    <3> QED
      BY <1>1, <2>2, <2>3, <3>1, <3>2, <3>3, <3>4 DEF GroupInv, Known
  <2> QED
    BY <1>s, <1>t, <2>1, <2>6, <2>7 DEF GroupInv
<1>4. CASE \E o \in Ids, m \in SUBSET Users : PeopleMembers(o, m)
  <2>1. PICK o \in Ids, m \in SUBSET Users : PeopleMembers(o, m)
    BY <1>4
  <2>2. o \in Live(og) /\ og' = [og EXCEPT ![o] = [og[o] EXCEPT !.members = m]]
    BY <2>1 DEF PeopleMembers
  <2>3. og[o] \in OutlineGroup
    BY <1>0, <2>2 DEF Contents, Live
  <2>4. PICK g \in OutlineGroup : g = [og[o] EXCEPT !.members = m]
    BY <2>3 DEF OutlineGroup
  <2>5. g.ext = og[o].ext
    BY <2>3, <2>4 DEF OutlineGroup
  <2> QED
    BY <1>3, <2>2, <2>4, <2>5
<1>5. CASE \E o \in Ids, n \in Names : PeopleRename(o, n)
  <2>1. PICK o \in Ids, n \in Names : PeopleRename(o, n)
    BY <1>5
  <2>2. o \in Live(og) /\ og' = [og EXCEPT ![o] = [og[o] EXCEPT !.name = n]]
    BY <2>1 DEF PeopleRename
  <2>3. og[o] \in OutlineGroup
    BY <1>0, <2>2 DEF Contents, Live
  <2>4. PICK g \in OutlineGroup : g = [og[o] EXCEPT !.name = n]
    BY <2>3 DEF OutlineGroup
  <2>5. g.ext = og[o].ext
    BY <2>3, <2>4 DEF OutlineGroup
  <2> QED
    BY <1>3, <2>2, <2>4, <2>5
<1>6. CASE \E g \in OutlineGroup : PeopleCreate(g)
  <2>1. PICK g \in OutlineGroup : PeopleCreate(g)
    BY <1>6
  <2>2. PICK n \in Ids : /\ og[n] = Absent /\ og' = [og EXCEPT ![n] = g]
    BY <2>1 DEF PeopleCreate, Spare, NewId
  <2>3. g.ext \notin Pks
    BY <2>1 DEF PeopleCreate
  <2>4. og' \in Contents /\ og'[n] = g /\ \A o \in Ids \ {n} : og'[o] = og[o]
    BY <1>0, <2>2 DEF Contents
  <2>6. Live(og') = Live(og) \cup {n} /\ n \notin Live(og)
    BY <2>2, <2>4, Distinct DEF Live
  <2>8. OneGroupEach'
    BY <2>3, <2>4, <2>6 DEF GroupInv, OneGroupEach, Live
  <2>9. Known'
    <3> SUFFICES ASSUME pc \in OgRead
                 PROVE  /\ \A o \in Live(og') : \/ Same(o)' \/ Since(o)'
                                                \/ pc = "apply" /\ (Adopted(o)' \/ Created(o)')
                        /\ \A o \in Live(snap.og) : og'[o] # Absent
      BY <1>1 DEF Known
    <3>1. \A o \in Live(snap.og) : og[o] # Absent /\ o # n
      BY <2>2 DEF GroupInv, Known
    <3>2. Since(n)'
      BY <1>1, <2>3, <2>4, <3>1 DEF Since
    <3>3. \A o \in Live(og) : \/ Same(o)' \/ Since(o)'
                              \/ pc = "apply" /\ (Adopted(o)' \/ Created(o)')
      <4>1. \A o \in Live(og) : og'[o] = og[o]
        BY <2>4, <2>6 DEF Live
      <4> QED
        BY <1>1, <4>1 DEF GroupInv, Known, Same, Since, Adopted, Created
    <3>4. \A o \in Live(snap.og) : og'[o] # Absent
      BY <2>4, <3>1 DEF Live
    <3> QED
      BY <2>6, <3>2, <3>3, <3>4
  <2> QED
    BY <1>s, <1>t, <2>4, <2>8, <2>9 DEF GroupInv
<1>7. CASE \E o \in Ids : PeopleDelete(o)
  <2>1. PICK n \in Ids : n \in Live(og) /\ og' = [og EXCEPT ![n] = Gone]
    BY <1>7 DEF PeopleDelete
  <2>2. og' \in Contents /\ og'[n] = Gone /\ \A o \in Ids \ {n} : og'[o] = og[o]
    BY <1>0, <2>1 DEF Contents
  <2>3. Live(og') = Live(og) \ {n}
    BY <2>2 DEF Live
  <2>4. OneGroupEach'
    BY <2>1, <2>2, <2>3 DEF GroupInv, OneGroupEach, Live
  <2>5. Known'
    <3>1. \A o \in Live(snap.og) : og'[o] = Absent => og[o] = Absent
      BY <2>2, Distinct DEF Live
    <3>2. \A o \in Live(og') : og'[o] = og[o]
      BY <2>2, <2>3 DEF Live
    <3> QED
      BY <1>1, <2>3, <3>1, <3>2 DEF GroupInv, Known, Same, Since, Adopted, Created
  <2> QED
    BY <1>0, <1>s, <1>t, <2>1, <2>2, <2>4, <2>5 DEF GroupInv
<1>9. CASE \E o \in Ids, e \in Pks \cup {Local, Other}, v \in BOOLEAN : PeopleClaim(o, e, v)
  <2>1. PICK o \in Ids, e \in Pks \cup {Local, Other}, v \in BOOLEAN : PeopleClaim(o, e, v)
    BY <1>9
  <2>2. o \in Live(og) /\ og' = [og EXCEPT ![o] = [og[o] EXCEPT !.ext = e, !.prov = v]]
    BY <2>1 DEF PeopleClaim
  <2>3. og[o] \in OutlineGroup /\ (e = og[o].ext \/ e \notin Pks)
    BY <1>0, <2>1, <2>2, Distinct DEF Contents, Live, PeopleClaim
  <2>4. PICK g \in OutlineGroup : g = [og[o] EXCEPT !.ext = e, !.prov = v]
    BY <2>3 DEF OutlineGroup
  <2>5. g.ext = e
    BY <2>3, <2>4 DEF OutlineGroup
  <2> QED
    BY <1>3, <2>2, <2>3, <2>4, <2>5
<1>8. CASE \E u \in Users : PeopleAccount(u)
  BY <1>0, <1>1, <1>8, <1>t, GroupsElsewhere DEF PeopleAccount
<1> QED
  BY <1>4, <1>5, <1>6, <1>7, <1>8, <1>9 DEF People

(* What a run reads has its type; what it read of Outline is how it is.     *)
LEMMA ReadsGroups ==
    ASSUME GroupInv, \/ Begin \/ ReadLinks \/ ReadGroups \/ ReadUsers \/ ReadAccounts
                     \/ ReadOutline \/ \E o \in Ids : ReadMembers(o)
    PROVE  GroupInv'
<1> USE DEF LinksRead, NamesRead, MarksRead, EligRead, OgRead
<1>0. SnapKind /\ dir \in [Pks -> LdapGroup \cup {Gone}] /\ eligible \subseteq Users /\ og \in Contents
  BY DEF GroupInv, TypeOK, Contents
<1>1. /\ UNCHANGED <<dir, ldap, good, eligible, og, made, ops, edits, fails>>
      /\ pc' \in Phases /\ pc' # "apply"
  BY DEF Begin, ReadLinks, ReadGroups, ReadUsers, ReadAccounts, ReadOutline, ReadMembers, Read, Phases
<1>2. TypeOK' /\ Planned' /\ OneGroupEach'
  BY <1>1 DEF GroupInv, TypeOK, Planned, OneGroupEach
<1>3. pc' # "members" => Known'
  BY <1>1 DEF Known
<1>4. CASE Begin
  <2>1. pc' = "links"
    BY <1>4 DEF Begin, Read
  <2> QED
    BY <1>2, <1>3, <2>1 DEF GroupInv, SnapKind
<1>5. CASE ReadLinks
  <2>1. pc' = "groups" /\ snap'.links = Linked(dir)
    BY <1>5 DEF ReadLinks, Read
  <2> QED
    BY <1>2, <1>3, <2>1 DEF GroupInv, SnapKind, Linked
<1>6. CASE ReadGroups
  <2>1. /\ pc = "groups" /\ pc' = "users" /\ snap'.links = snap.links /\ snap.links \subseteq Linked(dir)
        /\ snap'.name = [p \in snap.links |-> dir[p].name]
    BY <1>6 DEF ReadGroups, Read
  <2>2. \A p \in Linked(dir) : dir[p].name \in Names
    BY <1>0 DEF Linked, LdapGroup
  <2> QED
    BY <1>0, <1>2, <1>3, <2>1, <2>2 DEF GroupInv, SnapKind
<1>7. CASE ReadUsers
  <2>1. /\ pc = "users" /\ pc' = "accounts" /\ snap'.links = snap.links /\ snap'.name = snap.name
        /\ snap'.akm = Mark(dir)
    BY <1>7 DEF ReadUsers, Read
  <2>2. \A p \in Pks : Mark(dir)[p] \subseteq Users
    BY <1>0 DEF Mark, LdapGroup
  <2> QED
    BY <1>0, <1>2, <1>3, <2>1, <2>2 DEF GroupInv, SnapKind
<1>8. CASE ReadAccounts
  <2>1. /\ pc = "accounts" /\ pc' = "outline" /\ snap'.links = snap.links /\ snap'.name = snap.name
        /\ snap'.akm = snap.akm /\ snap'.elig = eligible
    BY <1>8 DEF ReadAccounts, Read
  <2> QED
    BY <1>0, <1>2, <1>3, <2>1 DEF GroupInv, SnapKind
<1>9. CASE ReadOutline
  <2>1. /\ pc = "outline" /\ pc' = "members" /\ snap'.links = snap.links /\ snap'.name = snap.name
        /\ snap'.akm = snap.akm /\ snap'.elig = snap.elig /\ snap'.og = og
    BY <1>9 DEF ReadOutline, Read
  <2>2. SnapKind'
    BY <1>0, <2>1 DEF SnapKind
  <2>3. Known'
    BY <1>1, <2>1 DEF Known, Same, Live
  <2> QED
    BY <1>2, <2>2, <2>3 DEF GroupInv
<1>10. CASE \E o \in Ids : ReadMembers(o)
  <2>1. /\ pc = "members" /\ pc' = "members" /\ snap'.links = snap.links /\ snap'.name = snap.name
        /\ snap'.akm = snap.akm /\ snap'.elig = snap.elig /\ snap'.og = snap.og
    BY <1>10 DEF ReadMembers, Read
  <2>2. SnapKind'
    BY <1>0, <2>1 DEF SnapKind
  <2>3. Known'
    BY <1>1, <2>1 DEF GroupInv, Known, Same, Since
  <2> QED
    BY <1>2, <2>2, <2>3 DEF GroupInv
<1> QED
  BY <1>4, <1>5, <1>6, <1>7, <1>8, <1>9, <1>10

LEMMA VerifyGroups == ASSUME GroupInv, Verify PROVE GroupInv'
<1>1. /\ pc = "members" /\ pc' = "apply" /\ snap' = snap /\ ~Refused(snap) /\ ops' = Plan(snap)
      /\ UNCHANGED <<dir, ldap, good, eligible, og, made, edits, fails>>
  BY DEF Verify
<1>2. TypeOK' /\ OneGroupEach'
  BY <1>1 DEF GroupInv, TypeOK, OneGroupEach, Phases
<1>3. SnapKind'
  BY <1>1 DEF GroupInv, SnapKind, LinksRead, NamesRead, MarksRead, EligRead, OgRead
<1>4. Planned'
  BY <1>1 DEF Planned
<1>5. Known'
  BY <1>1 DEF GroupInv, Known, OgRead, Same, Since
<1> QED
  BY <1>2, <1>3, <1>4, <1>5 DEF GroupInv

LEMMA ApplyGroups == ASSUME GroupInv, NEW op \in ops, Apply(op) \/ ApplyLost(op) PROVE GroupInv'
<1>1. /\ pc = "apply" /\ Accepted(op) /\ Effect(op)
      /\ UNCHANGED <<dir, ldap, good, eligible, edits>>
  BY DEF Apply, ApplyLost
<1>2. /\ og' \in Contents /\ OneGroupEach'
      /\ UNCHANGED <<pc, snap>> /\ ops' = ops \ {op} => Known'
  BY <1>1, EffectIs, MakesKeeps, WritesKeep
<1>3. CASE Apply(op)
  <2>1. UNCHANGED <<pc, snap, fails>> /\ ops' = ops \ {op}
    BY <1>3 DEF Apply
  <2>2. TypeOK'
    <3>1. made' \in [Pks -> Ids \cup {Gone}]
      <4>1. made \in [Pks -> Ids \cup {Gone}]
        BY DEF GroupInv, TypeOK
      <4>2. op.kind = "create" => NewId \in Ids
        BY <1>1 DEF Accepted, Spare, NewId
      <4>3. made' = IF op.kind = "create" THEN [made EXCEPT ![op.pk] = NewId] ELSE made
        BY <1>3 DEF Apply
      <4> QED
        BY <4>1, <4>2, <4>3
    <3> QED
      BY <1>1, <1>2, <2>1, <3>1 DEF GroupInv, TypeOK, Contents
  <2>3. SnapKind' /\ Planned'
    BY <2>1 DEF GroupInv, SnapKind, Planned
  <2> QED
    BY <1>2, <2>1, <2>2, <2>3 DEF GroupInv
<1>4. CASE ApplyLost(op)
  <2>1. Stop /\ fails' = fails + 1
    BY <1>4 DEF ApplyLost
  <2>2. TypeOK'
    BY <1>1, <1>2, <2>1 DEF GroupInv, TypeOK, Contents, Stop, Phases
  <2> QED
    BY <1>2, <2>1, <2>2, StoppedGroups
<1> QED
  BY <1>3, <1>4

LEMMA NextGroups == IInv /\ GroupInv /\ [Next]_vars => (IInv /\ GroupInv)'
<1> SUFFICES ASSUME IInv, GroupInv, [Next]_vars PROVE IInv' /\ GroupInv'
  OBVIOUS
<1>0. IInv'
  BY NextKeeps
<1>1. CASE Finish \/ Abort \/ Crash
  <2>1. Stop /\ UNCHANGED <<dir, ldap, good, eligible, og, edits>> /\ fails' \in Nat
    BY <1>1 DEF Finish, Abort, Crash, GroupInv, TypeOK
  <2>2. TypeOK' /\ OneGroupEach'
    BY <2>1 DEF GroupInv, TypeOK, OneGroupEach, Stop, Phases
  <2> QED
    BY <1>0, <2>1, <2>2, StoppedGroups
<1>2. CASE UNCHANGED vars
  <2>1. TypeOK'
    BY <1>2 DEF GroupInv, TypeOK, vars
  <2> QED
    BY <1>0, <1>2, <2>1, GroupsElsewhere DEF vars
<1> QED
  BY <1>0, <1>1, <1>2, ReadsGroups, VerifyGroups, ApplyGroups, LdapGroups, PeopleGroups
     DEF Next, SyncStep

LEMMA GroupsAlways == Spec => [](IInv /\ GroupInv)
BY InitIInv, InitGroups, NextGroups, PTL DEF Spec

(* What the activity reads and writes keeps its type. *)
THEOREM SyncTyped == Spec => []TypeOK
<1>1. GroupInv => TypeOK
  BY DEF GroupInv
<1> QED
  BY <1>1, GroupsAlways, PTL

(* The step of ForeignKept. *)
KeepsForeign ==
    \A o \in Live(og) : ops' # ops /\ Foreign(og[o]) /\ og'[o] # og[o] => Ours(o)

LEMMA NextKeepsForeign == GroupInv /\ [Next]_vars => KeepsForeign
<1> SUFFICES ASSUME GroupInv, [Next]_vars, NEW o \in Live(og), ops' # ops, og'[o] # og[o]
             PROVE  Ours(o)
  BY DEF KeepsForeign
<1>1. PICK op \in ops : Apply(op) \/ ApplyLost(op)
  <2>1. ~(\/ Begin \/ ReadLinks \/ ReadGroups \/ ReadUsers \/ ReadAccounts \/ ReadOutline
          \/ \E q \in Ids : ReadMembers(q))
    BY DEF Begin, ReadLinks, ReadGroups, ReadUsers, ReadAccounts, ReadOutline, ReadMembers, Read
  <2>2. ~(Verify \/ Finish \/ Abort \/ Crash \/ Ldap)
    BY DEF Verify, Finish, Abort, Crash, Ldap, LdapBegin, LdapDone, LdapFail, LdapStale, LdapWrite
  <2>3. ~People /\ ~UNCHANGED vars
    BY DEF People, PeopleMembers, PeopleCreate, PeopleRename, PeopleDelete, PeopleClaim,
           PeopleAccount, vars
  <2> QED
    BY <2>1, <2>2, <2>3 DEF Next, SyncStep
<1>2. pc = "apply" /\ Accepted(op) /\ Effect(op)
  BY <1>1 DEF Apply, ApplyLost
<1>3. og \in Contents /\ o \in Ids /\ og[o] # Absent
  BY DEF GroupInv, TypeOK, Contents, Live
<1>4. CASE Makes(op)
  BY <1>3, <1>4 DEF Makes
<1>5. CASE Writes
  BY <1>3, <1>5 DEF Writes
<1> QED
  BY <1>2, <1>4, <1>5, EffectIs

(* plan_sync, apply_plan: no call of a plan reaches a group that another    *)
(* external source had when this run read it, although people rename,       *)
(* create, delete and claim groups between the plan's reads and its calls,  *)
(* and a run may end at any call.  A group claimed after it was read is the *)
(* only one of somebody else's that this run's calls still reach.           *)
THEOREM ForeignGroupsKept == Spec => ForeignKept
<1>1. GroupInv /\ [Next]_vars => [KeepsForeign]_vars
  BY NextKeepsForeign
<1>2. KeepsForeign <=> \A o \in Live(og) : ops' # ops /\ Foreign(og[o]) /\ og'[o] # og[o] =>
                           \/ o \in Live(snap.og) /\ ~Foreign(snap.og[o])
                           \/ \E p \in snap.links : made[p] = o
  BY DEF KeepsForeign, Ours
<1>3. Spec => [][KeepsForeign]_vars
  BY <1>1, GroupsAlways, PTL DEF Spec
<1> QED
  BY <1>2, <1>3, PTL DEF ForeignKept

(* plan_sync, apply_plan: neither a lost answer to groups.create nor a      *)
(* rename on either side gives an LDAP group a second Outline group.        *)
THEOREM OneGroupForEach == Spec => []OneGroupEach
<1>1. GroupInv => OneGroupEach
  BY DEF GroupInv
<1> QED
  BY <1>1, GroupsAlways, PTL
=============================================================================
