-------------------------- MODULE ScratchTierProofs --------------------------
(***************************************************************************)
(* ScratchTier: whatever sweeps, restores, kills and users do, opening a    *)
(* path gives what its user last left there, as long as users stay clear of *)
(* what the programs' checks cannot see (Races = {}).                       *)
(***************************************************************************)
EXTENDS ScratchTier, FiniteSetTheorems, TLAPS

(* What records of each kind are. *)
LEMMA Entries ==
    /\ \A v : File(v).kind = "file" /\ File(v).ver = v
    /\ \A p : Link(p).kind = "link" /\ Link(p).to = p
    /\ Nothing.kind = "none"
BY DEF File, Link, Nothing

LEMMA EntryTypes ==
    /\ \A v \in Version : File(v) \in Entry
    /\ \A p \in Path : Link(p) \in Entry
    /\ Nothing \in Entry
BY DEF File, Link, Nothing, Entry

LEMMA EntryKinds ==
    ASSUME NEW e \in Entry
    PROVE  /\ e.kind = "file" => e.ver \in Version
           /\ e.kind = "link" => e.to \in Path
           /\ e.kind \in {"file", "link"} \/ e = Nothing
BY DEF Entry, Nothing

RestEntry == [pc: {"copy", "check", "swap", "recheck", "unlink"}, path: Path, seen: Version]
ArchEntry == [pc: {"copy", "publish", "check", "swap"}, path: Path, seen: Version, copy: Version]

LEMMA RestKinds ==
    ASSUME TypeOK, NEW t \in Restorer, rest[t].pc # "idle" \/ rest[t] # RestIdle
    PROVE  rest[t] \in RestEntry
BY DEF TypeOK, RestIdle, RestEntry

LEMMA ArchKinds ==
    ASSUME TypeOK, arch.pc # "idle" \/ arch # ArchIdle
    PROVE  arch \in ArchEntry
BY DEF TypeOK, ArchIdle, ArchEntry

LEMMA Contents == ASSUME TypeOK, NEW p \in Path PROVE Content(p) \in Version
<1>1. 0 \in Version
  BY BoundsAssumption DEF Version, Torn
<1>2. local[p] \in Entry /\ cold \in [Path -> Version]
  BY DEF TypeOK
<1> QED
  BY <1>1, <1>2, EntryKinds DEF Content, IsFile, IsLink, Absent

-----------------------------------------------------------------------------
(* Types. *)
LEMMA UsageNat == Usage \in Nat
<1>1. IsFiniteSet({p \in Path : IsFile(p)})
  BY PathAssumption, FS_Subset
<1> QED
  BY <1>1, FS_CardinalityType DEF Usage

FilesType == /\ local \in [Path -> Entry] /\ cold \in [Path -> Version]
             /\ idle \in [Path -> {"hot", "idle", "stale"}] /\ want \in [Path -> 0 .. MaxWrite]
             /\ writes \in 0 .. MaxWrite
WorkType  == /\ kills \in 0 .. MaxKill /\ sweeps \in 0 .. MaxSweep
             /\ sweep \in [pass: {"none", "ttl", "cap"}, ttl: SUBSET Path, cap: SUBSET Path,
                           need: Nat]
             /\ arch \in {ArchIdle} \cup ArchEntry
             /\ rest \in [Restorer -> {RestIdle} \cup RestEntry]

LEMMA TypeParts == (TypeOK <=> FilesType /\ WorkType) /\ (TypeOK' <=> FilesType' /\ WorkType')
BY DEF TypeOK, FilesType, WorkType, ArchEntry, RestEntry

LEMMA InitType == Init => TypeOK
<1> SUFFICES ASSUME Init PROVE TypeOK
  OBVIOUS
<1>1. PICK P \in SUBSET Path :
         /\ Cardinality(P) <= MaxWrite /\ want \in [Path -> 0 .. Cardinality(P)]
         /\ writes = Cardinality(P)
  BY DEF Init
<1>2. Cardinality(P) \in Nat
  BY PathAssumption, FS_Subset, FS_CardinalityType
<1>3. writes \in 0 .. MaxWrite /\ want \in [Path -> 0 .. MaxWrite]
  BY <1>1, <1>2, BoundsAssumption
<1>4. local \in [Path -> Entry]
  <2>1. \A v \in 0 .. MaxWrite : v \in Version
    BY BoundsAssumption DEF Version, Torn
  <2> QED
    BY <1>3, <2>1, EntryTypes DEF Init
<1>5. cold \in [Path -> Version]
  BY BoundsAssumption DEF Init, Absent, Version, Torn
<1>6. FilesType
  BY <1>3, <1>4, <1>5 DEF Init, FilesType
<1>7. WorkType
  BY BoundsAssumption DEF Init, WorkType, NoSweep
<1> QED
  BY <1>6, <1>7, TypeParts

LEMMA TypeUser == TypeOK /\ User => TypeOK'
<1> SUFFICES ASSUME TypeOK, User PROVE TypeOK'
  OBVIOUS
<1> USE TypeParts
<1>1. UNCHANGED <<sweeps, sweep, arch, rest, kills>>
  BY DEF User, UserWrite, UserReplace, UserDelete, UserRead, Age, UserMoveFile, UserMoveLink
<1>2. WorkType'
  BY <1>1 DEF WorkType
<1>3. /\ MaxWrite \in Nat /\ 0 \in Version /\ \A v \in 0 .. MaxWrite : v \in Version
  BY BoundsAssumption DEF Version, Torn
<1>4. PICK p \in Path : \/ UserWrite(p) \/ UserReplace(p) \/ UserDelete(p) \/ UserRead(p) \/ Age(p)
                        \/ \E q \in Path : UserMoveFile(p, q) \/ UserMoveLink(p, q)
  BY DEF User
<1>5. CASE UserWrite(p)
  <2>1. writes' \in 0 .. MaxWrite /\ File(writes') \in Entry
    BY <1>3, <1>5, EntryTypes DEF UserWrite, FilesType
  <2>2. idle' \in [Path -> {"hot", "idle", "stale"}] /\ want' \in [Path -> 0 .. MaxWrite]
    BY <1>5, <2>1 DEF UserWrite, Used, FilesType
  <2>3. CASE IsFile(p)
    BY <1>5, <2>1, <2>2, <2>3, <1>2 DEF UserWrite, FilesType
  <2>4. CASE ~IsFile(p)
    BY <1>3, <1>5, <2>1, <2>2, <2>4, <1>2 DEF UserWrite, FilesType
  <2> QED
    BY <2>3, <2>4
<1>6. CASE UserReplace(p)
  <2>1. writes' \in 0 .. MaxWrite /\ File(writes') \in Entry
    BY <1>3, <1>6, EntryTypes DEF UserReplace, FilesType
  <2> QED
    BY <1>6, <2>1, <1>2 DEF UserReplace, Used, FilesType
<1>7. CASE UserDelete(p)
  <2>1. Nothing \in Entry /\ Absent \in 0 .. MaxWrite
    BY <1>3, EntryTypes DEF Absent
  <2> QED
    BY <1>7, <2>1, <1>2 DEF UserDelete, FilesType
<1>8. CASE UserRead(p)
  BY <1>8, <1>2 DEF UserRead, Used, FilesType
<1>9. CASE Age(p)
  BY <1>9, <1>2 DEF Age, FilesType
<1>10. ASSUME NEW q \in Path, UserMoveFile(p, q) PROVE TypeOK'
  <2>1. writes' \in 0 .. MaxWrite /\ File(writes') \in Entry
    BY <1>3, <1>10, EntryTypes DEF UserMoveFile, FilesType
  <2>2. Nothing \in Entry /\ Absent \in 0 .. MaxWrite
    BY <1>3, EntryTypes DEF Absent
  <2> QED
    BY <1>10, <2>1, <2>2, <1>2 DEF UserMoveFile, Used, FilesType
<1>11. ASSUME NEW q \in Path, UserMoveLink(p, q) PROVE TypeOK'
  <2>2. Nothing \in Entry /\ Absent \in 0 .. MaxWrite
    BY <1>3, EntryTypes DEF Absent
  <2> QED
    BY <1>11, <2>2, <1>2 DEF UserMoveLink, FilesType
<1> QED
  BY <1>4, <1>5, <1>6, <1>7, <1>8, <1>9, <1>10, <1>11

LEMMA TypeOverflow == TypeOK /\ Overflow => TypeOK'
<1> SUFFICES ASSUME TypeOK, Overflow PROVE TypeOK'
  OBVIOUS
<1> USE TypeParts
<1>1. Usage \in Nat /\ MaxWrite \in Nat /\ MaxKill \in Nat /\ MaxSweep \in Nat /\ Low \in Nat /\ High \in Nat
      /\ Low < High
  BY UsageNat, BoundsAssumption, WatermarkAssumption
<1>2. 0 \in Version /\ Torn \in Version
  BY <1>1 DEF Version, Torn
<1>3. FilesType /\ WorkType
  OBVIOUS
<1>4. ASSUME UNCHANGED files,
             kills' \in 0 .. MaxKill, sweeps' \in 0 .. MaxSweep, rest' = rest,
             sweep' \in [pass: {"none", "ttl", "cap"}, ttl: SUBSET Path, cap: SUBSET Path, need: Nat],
             arch' \in {ArchIdle} \cup ArchEntry
      PROVE  TypeOK'
  BY <1>3, <1>4 DEF files, FilesType, WorkType
<1>5. NoSweep \in [pass: {"none", "ttl", "cap"}, ttl: SUBSET Path, cap: SUBSET Path, need: Nat]
  BY DEF NoSweep
<1>6. CASE SweepStart
  <2>1. Candidates \subseteq Path
    BY DEF Candidates
  <2>2. Stale \subseteq Path
    BY <2>1 DEF Stale
  <2>3. sweep' \in [pass: {"none", "ttl", "cap"}, ttl: SUBSET Path, cap: SUBSET Path, need: Nat]
    BY <1>6, <2>1, <2>2 DEF SweepStart, Sweep
  <2>4. sweeps' \in 0 .. MaxSweep
    BY <1>1, <1>3, <1>6 DEF SweepStart, WorkType
  <2> QED
    BY <1>3, <1>4, <1>6, <2>3, <2>4 DEF SweepStart, WorkType
<1>7. CASE Measure
  <2>1. CASE Usage >= High
    <3>1. Usage - Low \in Nat
      BY <1>1, <2>1
    <3>2. sweep' \in [pass: {"none", "ttl", "cap"}, ttl: SUBSET Path, cap: SUBSET Path, need: Nat]
      BY <1>3, <1>7, <2>1, <3>1 DEF Measure, Sweep, WorkType
    <3> QED
      BY <1>3, <1>4, <1>7, <3>2 DEF Measure, WorkType
  <2>2. CASE ~(Usage >= High)
    BY <1>3, <1>4, <1>5, <1>7, <2>2 DEF Measure, WorkType
  <2> QED
    BY <2>1, <2>2
<1>8. CASE SweepDone
  BY <1>3, <1>4, <1>5, <1>8 DEF SweepDone, WorkType
<1>9. CASE SweepKilled
  BY <1>1, <1>3, <1>4, <1>5, <1>9 DEF SweepKilled, WorkType
<1>10. ASSUME NEW p \in Path, ArchiveStart(p) PROVE TypeOK'
  <2>1. sweep' \in [pass: {"none", "ttl", "cap"}, ttl: SUBSET Path, cap: SUBSET Path, need: Nat]
    BY <1>3, <1>10 DEF ArchiveStart, WorkType
  <2>2. arch' \in {ArchIdle} \cup ArchEntry
    BY <1>2, <1>10, Contents DEF ArchiveStart, Archiving, ArchEntry, Absent
  <2> QED
    BY <1>3, <1>4, <1>10, <2>1, <2>2 DEF ArchiveStart, WorkType
<1>11. CASE ArchiveCopy
  <2>1. arch \in ArchEntry
    BY <1>11, ArchKinds DEF ArchiveCopy
  <2>2. arch' \in ArchEntry
    BY <1>2, <1>11, <2>1 DEF ArchiveCopy, ArchEntry
  <2> QED
    BY <1>3, <1>4, <1>11, <2>2 DEF ArchiveCopy, WorkType
<1>12. CASE ArchiveCopyFails
  BY <1>3, <1>4, <1>12 DEF ArchiveCopyFails, WorkType
<1>13. CASE ArchivePublish
  <2>1. arch \in ArchEntry
    BY <1>13, ArchKinds DEF ArchivePublish
  <2>2. arch' \in ArchEntry /\ cold' \in [Path -> Version]
    BY <1>3, <1>13, <2>1 DEF ArchivePublish, ArchEntry, FilesType
  <2> QED
    BY <1>3, <1>13, <2>2 DEF ArchivePublish, WorkType, FilesType
<1>14. CASE ArchiveCheck
  <2>1. arch \in ArchEntry
    BY <1>14, ArchKinds DEF ArchiveCheck
  <2>2. arch' \in {ArchIdle} \cup ArchEntry /\ cold' \in [Path -> Version]
    BY <1>2, <1>3, <1>14, <2>1 DEF ArchiveCheck, ArchEntry, FilesType, Absent
  <2> QED
    BY <1>3, <1>14, <2>2 DEF ArchiveCheck, WorkType, FilesType
<1>15. CASE ArchiveSwap
  <2>1. arch \in ArchEntry
    BY <1>15, ArchKinds DEF ArchiveSwap
  <2>2. Link(arch.path) \in Entry
    BY <2>1, EntryTypes DEF ArchEntry
  <2>3. local' \in [Path -> Entry]
    BY <1>3, <1>15, <2>2 DEF ArchiveSwap, FilesType
  <2>4. sweep' \in [pass: {"none", "ttl", "cap"}, ttl: SUBSET Path, cap: SUBSET Path, need: Nat]
    BY <1>3, <1>15 DEF ArchiveSwap, WorkType
  <2> QED
    BY <1>3, <1>15, <2>3, <2>4 DEF ArchiveSwap, WorkType, FilesType
<1>16. CASE ArchiveSwapFails
  BY <1>3, <1>4, <1>16 DEF ArchiveSwapFails, WorkType
<1> QED
  BY <1>6, <1>7, <1>8, <1>9, <1>10, <1>11, <1>12, <1>13, <1>14, <1>15, <1>16 DEF Overflow

LEMMA TypeRestore == TypeOK /\ Restore => TypeOK'
<1> SUFFICES ASSUME TypeOK, Restore PROVE TypeOK'
  OBVIOUS
<1> USE TypeParts
<1>1. FilesType /\ WorkType /\ MaxKill \in Nat /\ 0 \in Version
  BY BoundsAssumption DEF Version, Torn
<1>2. PICK r \in Restorer :
         \/ \E p \in Path : RestoreStart(r, p)
         \/ RestoreCopy(r) \/ RestoreFails(r) \/ RestoreCheck(r) \/ RestoreSwap(r)
         \/ RestoreRecheck(r) \/ RestoreUnlink(r) \/ RestoreKilled(r)
  BY DEF Restore
<1>3. UNCHANGED <<sweeps, sweep, arch, want, writes>> /\ kills' \in 0 .. MaxKill
  BY <1>1, <1>2 DEF RestoreStart, RestoreCopy, RestoreFails, RestoreCheck, RestoreSwap,
     RestoreRecheck, RestoreUnlink, RestoreKilled, files, WorkType
<1>4. ASSUME UNCHANGED files PROVE FilesType'
  BY <1>1, <1>4 DEF files, FilesType
<1>5. ASSUME NEW e \in {RestIdle} \cup RestEntry, rest' = [rest EXCEPT ![r] = e] PROVE WorkType'
  BY <1>1, <1>3, <1>5 DEF WorkType
<1>6. ASSUME NEW p \in Path, RestoreStart(r, p) PROVE TypeOK'
  <2>1. Restoring("copy", p, cold[p]) \in RestEntry
    BY <1>1 DEF Restoring, RestEntry, FilesType
  <2> QED
    BY <1>4, <1>5, <1>6, <2>1 DEF RestoreStart
<1>7. CASE RestoreCopy(r)
  <2>1. rest[r] \in RestEntry
    BY <1>7, RestKinds DEF RestoreCopy
  <2>2. [rest[r] EXCEPT !.pc = "check"] \in RestEntry
    BY <2>1 DEF RestEntry
  <2> QED
    BY <1>4, <1>5, <1>7, <2>2 DEF RestoreCopy
<1>8. CASE RestoreFails(r)
  BY <1>4, <1>5, <1>8 DEF RestoreFails
<1>9. CASE RestoreCheck(r)
  <2>1. rest[r] \in RestEntry
    BY <1>9, RestKinds DEF RestoreCheck
  <2>2. [rest[r] EXCEPT !.pc = "swap"] \in RestEntry
    BY <2>1 DEF RestEntry
  <2>3. CASE cold[rest[r].path] = rest[r].seen
    <3>1. rest' = [rest EXCEPT ![r] = [rest[r] EXCEPT !.pc = "swap"]]
      BY <1>9, <2>3 DEF RestoreCheck
    <3> QED
      BY <1>4, <1>5, <1>9, <2>2, <3>1 DEF RestoreCheck
  <2>4. CASE cold[rest[r].path] # rest[r].seen
    <3>1. rest' = [rest EXCEPT ![r] = RestIdle]
      BY <1>9, <2>4 DEF RestoreCheck
    <3> QED
      BY <1>4, <1>5, <1>9, <3>1 DEF RestoreCheck
  <2> QED
    BY <2>3, <2>4
<1>10. CASE RestoreSwap(r)
  <2>1. rest[r] \in RestEntry
    BY <1>10, RestKinds DEF RestoreSwap
  <2>2. [rest[r] EXCEPT !.pc = "recheck"] \in RestEntry /\ File(rest[r].seen) \in Entry
    BY <2>1, EntryTypes DEF RestEntry
  <2>3. FilesType'
    BY <1>1, <1>10, <2>2 DEF RestoreSwap, FilesType
  <2>4. \/ rest' = [rest EXCEPT ![r] = RestIdle]
        \/ rest' = [rest EXCEPT ![r] = [rest[r] EXCEPT !.pc = "recheck"]]
    BY <1>10 DEF RestoreSwap
  <2> QED
    BY <1>5, <2>2, <2>3, <2>4
<1>11. CASE RestoreRecheck(r)
  <2>1. rest[r] \in RestEntry
    BY <1>11, RestKinds DEF RestoreRecheck
  <2>2. [rest[r] EXCEPT !.pc = "unlink"] \in RestEntry
    BY <2>1 DEF RestEntry
  <2>3. \/ rest' = [rest EXCEPT ![r] = RestIdle]
        \/ rest' = [rest EXCEPT ![r] = [rest[r] EXCEPT !.pc = "unlink"]]
    BY <1>11 DEF RestoreRecheck
  <2> QED
    BY <1>4, <1>5, <1>11, <2>2, <2>3 DEF RestoreRecheck
<1>12. CASE RestoreUnlink(r)
  <2>1. FilesType'
    BY <1>1, <1>12 DEF RestoreUnlink, FilesType, Absent
  <2> QED
    BY <1>5, <1>12, <2>1 DEF RestoreUnlink
<1>13. CASE RestoreKilled(r)
  BY <1>4, <1>5, <1>13 DEF RestoreKilled
<1> QED
  BY <1>2, <1>6, <1>7, <1>8, <1>9, <1>10, <1>11, <1>12, <1>13

LEMMA TypeStep == TypeOK /\ [Next]_vars => TypeOK'
<1> SUFFICES ASSUME TypeOK, [Next]_vars PROVE TypeOK'
  OBVIOUS
<1>1. CASE UNCHANGED vars
  BY <1>1 DEF vars, TypeOK
<1> QED
  BY <1>1, TypeUser, TypeOverflow, TypeRestore DEF Next

(* Files, copies and the two programs keep their types, for any number of  *)
(* paths, restores and writes.                                              *)
THEOREM TypeCorrect == Spec => []TypeOK
BY InitType, TypeStep, PTL DEF Spec

-----------------------------------------------------------------------------
(* The invariant.  A cold copy is reached by at most one link, and the sweep *)
(* and the restores never are at the same path: the sweep's files have no   *)
(* link to them, those of a restore have one, or are in use.                *)
LeadsTo(y, x) == IsLink(y) /\ local[y].to = x
NoLink(x)  == \A y \in Path : ~LeadsTo(y, x)
Listed     == sweep.ttl \cup sweep.cap
Coming(t, x)  == OnPath(t, x) /\ rest[t].pc \in {"copy", "check", "swap"}
Leaving(t, x) == OnPath(t, x) /\ rest[t].pc \in {"recheck", "unlink"}

Held(x) == Content(x) = want[x] /\ want[x] <= writes

OneLink(x) == /\ \A y, z \in Path : LeadsTo(y, x) /\ LeadsTo(z, x) => y = z
              /\ IsFile(x) => NoLink(x)

Apart(x) == x \in Listed \/ ArchOnPath(x) => NoLink(x) /\ \A t \in Restorer : ~OnPath(t, x)

(* What archive_one has established at each of its steps. *)
ArchInv ==
    /\ sweep.pass = "none" => arch.pc = "idle" /\ Listed = {}
    /\ arch.pc # "idle" =>
          /\ arch.path \notin Listed /\ arch.seen \in 1 .. writes
          /\ arch.pc # "copy" => ~IsLink(arch.path)
          /\ arch.pc \in {"publish", "check"} =>
                arch.copy = arch.seen \/ want[arch.path] # arch.seen
          /\ arch.pc = "check" => cold[arch.path] = arch.copy
          /\ arch.pc = "swap" => IsFile(arch.path) /\ want[arch.path] = arch.seen
                                 /\ cold[arch.path] = arch.seen

(* What restore_one has: another restore may have been there before it. *)
RestInv(t, x) ==
    /\ Coming(t, x) => /\ rest[t].seen # Absent
                       /\ \/ LeadsTo(x, x)
                          \/ IsFile(x) /\ idle[x] = "hot" /\ cold[x] \in {want[x], Absent}
                       /\ rest[t].pc = "swap" => want[x] = rest[t].seen
    /\ Leaving(t, x) => NoLink(x) /\ idle[x] = "hot"

PathInv == \A x \in Path : Held(x) /\ OneLink(x) /\ Apart(x)
RestsInv == \A t \in Restorer, x \in Path : RestInv(t, x)
LostInv == PathInv /\ ArchInv /\ RestsInv

LEMMA InitLost == Init => LostInv
<1> SUFFICES ASSUME Init, TypeOK PROVE LostInv
  BY InitType
<1>1. arch.pc = "idle" /\ Listed = {} /\ \A t \in Restorer : rest[t].pc = "idle"
  BY DEF Init, ArchIdle, RestIdle, NoSweep, Listed
<1>2. \A x \in Path : ~IsLink(x) /\ Content(x) = want[x]
  BY Entries DEF Init, IsLink, IsFile, Content, Absent
<1>3. \A x \in Path : want[x] <= writes
  <2>1. PICK P \in SUBSET Path : want \in [Path -> 0 .. Cardinality(P)] /\ writes = Cardinality(P)
    BY DEF Init
  <2> QED
    BY <2>1
<1>4. PathInv
  BY <1>1, <1>2, <1>3 DEF PathInv, Held, OneLink, Apart, NoLink, LeadsTo, ArchOnPath
<1> QED
  BY <1>1, <1>4 DEF LostInv, ArchInv, RestsInv, RestInv, Coming, Leaving, OnPath

(* Giving up, or going on to the next file, changes nothing that matters. *)
LEMMA LostGivesUp ==
    ASSUME LostInv, UNCHANGED files, Listed' \subseteq Listed,
           arch' = arch \/ arch'.pc = "idle",
           sweep'.pass = "none" => arch'.pc = "idle" /\ Listed' = {},
           \A t \in Restorer : rest'[t] = rest[t] \/ rest'[t].pc = "idle"
    PROVE  LostInv'
<1>1. \A x, y \in Path : (LeadsTo(y, x)' <=> LeadsTo(y, x)) /\ (IsFile(x)' <=> IsFile(x))
      /\ (IsLink(x)' <=> IsLink(x)) /\ Content(x)' = Content(x)
  BY DEF files, LeadsTo, IsFile, IsLink, Content
<1>2. \A t \in Restorer, x \in Path : OnPath(t, x)' => OnPath(t, x) /\ rest'[t] = rest[t]
  BY DEF OnPath
<1>3. \A x \in Path : ArchOnPath(x)' => ArchOnPath(x) /\ arch' = arch
  BY DEF ArchOnPath
<1>4. PathInv'
  <2> SUFFICES ASSUME NEW x \in Path PROVE (Held(x) /\ OneLink(x) /\ Apart(x))'
    BY DEF PathInv
  <2>1. Held(x) /\ OneLink(x) /\ Apart(x)
    BY DEF LostInv, PathInv
  <2>2. Held(x)'
    BY <1>1, <2>1 DEF Held, files
  <2>3. OneLink(x)'
    BY <1>1, <2>1 DEF OneLink, NoLink
  <2>4. Apart(x)'
    BY <1>1, <1>2, <1>3, <2>1 DEF Apart, NoLink
  <2> QED
    BY <2>2, <2>3, <2>4
<1>5. ArchInv'
  BY DEF LostInv, ArchInv, files, IsLink, IsFile
<1>6. RestsInv'
  <2> SUFFICES ASSUME NEW t \in Restorer, NEW x \in Path PROVE RestInv(t, x)'
    BY DEF RestsInv
  <2>1. RestInv(t, x)
    BY DEF LostInv, RestsInv
  <2> QED
    BY <1>1, <1>2, <2>1 DEF RestInv, Coming, Leaving, NoLink, files
<1> QED
  BY <1>4, <1>5, <1>6 DEF LostInv

-----------------------------------------------------------------------------
(* Users.  S are the paths that a step gives a new file or takes one from. *)
LEMMA LostChange ==
    ASSUME TypeOK, LostInv, NEW S \in SUBSET Path,
           UNCHANGED <<cold, sweep, arch, rest>>, writes' \in {writes, writes + 1},
           \A x \in Path \ S : local'[x] = local[x] /\ want'[x] = want[x],
           \A x \in Path : idle'[x] \in {idle[x], "hot"},
           \A x \in S : /\ ~BeforeSwap(x) /\ \A t \in Restorer : ~Coming(t, x)
                        /\ ~IsLink(x)' /\ Content(x)' = want'[x]
                        /\ want'[x] \in {Absent, writes + 1} /\ want'[x] <= writes'
                        /\ IsFile(x)' => \A y \in Path : LeadsTo(y, x) => y \in S
    PROVE  LostInv'
<1>0. writes \in Nat /\ \A x \in Path : want[x] \in Nat
  BY BoundsAssumption DEF TypeOK
<1>1. \A x \in Path \ S : /\ (IsFile(x)' <=> IsFile(x)) /\ (IsLink(x)' <=> IsLink(x))
                          /\ Content(x)' = Content(x)
                          /\ \A y \in Path : LeadsTo(x, y)' <=> LeadsTo(x, y)
  BY DEF LeadsTo, IsFile, IsLink, Content
<1>2. \A x, y \in Path : LeadsTo(y, x)' => LeadsTo(y, x) /\ y \notin S
  BY <1>1 DEF LeadsTo
<1>3. \A x \in Path : NoLink(x) => NoLink(x)'
  BY <1>2 DEF NoLink
<1>4. PathInv'
  <2> SUFFICES ASSUME NEW x \in Path PROVE (Held(x) /\ OneLink(x) /\ Apart(x))'
    BY DEF PathInv
  <2>1. Held(x) /\ OneLink(x) /\ Apart(x)
    BY DEF LostInv, PathInv
  <2>2. Held(x)'
    BY <1>0, <1>1, <2>1 DEF Held
  <2>3. OneLink(x)'
    BY <1>1, <1>2, <2>1 DEF OneLink, NoLink
  <2>4. Apart(x)'
    BY <1>3, <2>1 DEF Apart, Listed, ArchOnPath, OnPath
  <2> QED
    BY <2>2, <2>3, <2>4
<1>5. ArchInv'
  <2>1. (sweep.pass = "none" => arch.pc = "idle" /\ Listed = {})'
    BY DEF LostInv, ArchInv, Listed
  <2> SUFFICES ASSUME arch.pc # "idle"
               PROVE  (/\ arch.path \notin Listed /\ arch.seen \in 1 .. writes
                       /\ arch.pc # "copy" => ~IsLink(arch.path)
                       /\ arch.pc \in {"publish", "check"} =>
                             arch.copy = arch.seen \/ want[arch.path] # arch.seen
                       /\ arch.pc = "check" => cold[arch.path] = arch.copy
                       /\ arch.pc = "swap" => IsFile(arch.path) /\ want[arch.path] = arch.seen
                                              /\ cold[arch.path] = arch.seen)'
    BY <2>1 DEF ArchInv
  <2>2. arch.path \in Path
    BY ArchKinds DEF ArchEntry
  <2>3. /\ arch.path \notin Listed /\ arch.seen \in 1 .. writes
        /\ arch.pc # "copy" => ~IsLink(arch.path)
        /\ arch.pc \in {"publish", "check"} => arch.copy = arch.seen \/ want[arch.path] # arch.seen
        /\ arch.pc = "check" => cold[arch.path] = arch.copy
        /\ arch.pc = "swap" => IsFile(arch.path) /\ want[arch.path] = arch.seen
                               /\ cold[arch.path] = arch.seen
    BY DEF LostInv, ArchInv
  <2>4. arch.path \notin Listed' /\ arch.seen \in 1 .. writes'
    BY <1>0, <2>3 DEF Listed
  <2>5. CASE arch.path \notin S
    BY <1>1, <2>2, <2>3, <2>4, <2>5
  <2>6. CASE arch.path \in S
    <3>1. arch.pc # "swap"
      BY <2>6 DEF BeforeSwap, ArchOnPath
    <3>2. want'[arch.path] # arch.seen
      BY <1>0, <2>3, <2>6 DEF Absent
    <3> QED
      BY <2>3, <2>4, <2>6, <3>1, <3>2
  <2> QED
    BY <2>5, <2>6
<1>6. RestsInv'
  <2> SUFFICES ASSUME NEW t \in Restorer, NEW x \in Path PROVE RestInv(t, x)'
    BY DEF RestsInv
  <2>1. RestInv(t, x)
    BY DEF LostInv, RestsInv
  <2>2. (Coming(t, x)' <=> Coming(t, x)) /\ (Leaving(t, x)' <=> Leaving(t, x))
    BY DEF Coming, Leaving, OnPath
  <2>3. Coming(t, x) => x \notin S
    OBVIOUS
  <2> QED
    BY <1>1, <1>3, <2>1, <2>2, <2>3 DEF RestInv
<1> QED
  BY <1>4, <1>5, <1>6 DEF LostInv

LEMMA LostWriteThrough ==
    ASSUME TypeOK, LostInv, Races = {}, NEW p \in Path, UserWrite(p), ~IsFile(p)
    PROVE  LostInv'
<1> DEFINE T == local[p].to
<1>0. writes \in Nat /\ writes' = writes + 1 /\ \A x \in Path : want[x] \in Nat
  BY BoundsAssumption DEF TypeOK, UserWrite
<1>1. LeadsTo(p, T) /\ T \in Path
  BY EntryKinds DEF UserWrite, Content, LeadsTo, TypeOK, IsLink, Absent
<1>2. /\ UNCHANGED <<local, sweep, arch, rest>> /\ cold' = [cold EXCEPT ![T] = writes']
      /\ want' = [want EXCEPT ![p] = writes'] /\ idle' = [idle EXCEPT ![p] = "hot"]
      /\ ~BeforeSwap(p)
  BY DEF UserWrite, MayWrite, Used
<1>3. \A x, y \in Path : (LeadsTo(y, x)' <=> LeadsTo(y, x)) /\ (IsFile(x)' <=> IsFile(x))
                         /\ (IsLink(x)' <=> IsLink(x))
  BY <1>2 DEF LeadsTo, IsFile, IsLink
<1>4. \A y \in Path : LeadsTo(y, T) => y = p
  BY <1>1 DEF LostInv, PathInv, OneLink
<1>5. T \notin Listed /\ ~ArchOnPath(T) /\ ~NoLink(T) /\ ~IsFile(T)
  BY <1>1 DEF LostInv, PathInv, Apart, NoLink, OneLink
<1>6. \A x \in Path : x # T => cold'[x] = cold[x]
  BY <1>2 DEF TypeOK
<1>7. \A x \in Path : x # p => want'[x] = want[x] /\ idle'[x] = idle[x]
  BY <1>2 DEF TypeOK
<1>8. cold'[T] = writes + 1 /\ want'[p] = writes + 1 /\ idle'[p] = "hot"
  BY <1>0, <1>1, <1>2 DEF TypeOK
<1>9. PathInv'
  <2> SUFFICES ASSUME NEW x \in Path PROVE (Held(x) /\ OneLink(x) /\ Apart(x))'
    BY DEF PathInv
  <2>1. Held(x) /\ OneLink(x) /\ Apart(x)
    BY DEF LostInv, PathInv
  <2>2. CASE x = p
    <3>1. Content(p)' = cold'[T]
      BY <1>2, <1>1 DEF Content, LeadsTo, IsFile, IsLink
    <3> QED
      BY <1>0, <1>3, <1>8, <2>1, <2>2, <3>1, <1>2 DEF Held, OneLink, NoLink, Apart, Listed, ArchOnPath, OnPath
  <2>3. CASE x # p
    <3>1. Content(x)' = Content(x)
      <4>1. IsLink(x) => LeadsTo(x, local[x].to) /\ local[x].to \in Path
        BY EntryKinds DEF LeadsTo, IsLink, TypeOK
      <4>2. IsLink(x) => local[x].to # T
        BY <4>1, <1>4, <2>3
      <4> QED
        BY <1>2, <1>6, <4>1, <4>2 DEF Content, IsFile, IsLink
    <3> QED
      BY <1>0, <1>2, <1>3, <1>7, <2>1, <2>3, <3>1 DEF Held, OneLink, NoLink, Apart, Listed, ArchOnPath, OnPath
  <2> QED
    BY <2>2, <2>3
<1>10. ArchInv'
  <2>1. arch.pc # "idle" => arch.path \in Path /\ arch.path # T
    BY <1>5, ArchKinds DEF ArchEntry, ArchOnPath
  <2>2. arch.pc # "idle" /\ arch.pc # "copy" => arch.path # p
    BY <1>1 DEF LostInv, ArchInv, LeadsTo
  <2> QED
    BY <1>0, <1>2, <1>3, <1>6, <1>7, <2>1, <2>2 DEF LostInv, ArchInv, Listed
<1>11. RestsInv'
  <2> SUFFICES ASSUME NEW t \in Restorer, NEW x \in Path PROVE RestInv(t, x)'
    BY DEF RestsInv
  <2>1. RestInv(t, x)
    BY DEF LostInv, RestsInv
  <2>2. (Coming(t, x)' <=> Coming(t, x)) /\ (Leaving(t, x)' <=> Leaving(t, x)) /\ rest'[t] = rest[t]
    BY <1>2 DEF Coming, Leaving, OnPath
  <2>3. idle[x] = "hot" => idle'[x] = "hot"
    BY <1>7, <1>8
  <2>4. NoLink(x) => NoLink(x)'
    BY <1>3 DEF NoLink
  <2>5. IsFile(x) => x # p /\ x # T
    BY <1>5
  <2>6. Coming(t, x) /\ rest[t].pc = "swap" => x # p
    BY <1>2 DEF Coming, BeforeSwap
  <2> QED
    BY <1>3, <1>6, <1>7, <2>1, <2>2, <2>3, <2>4, <2>5, <2>6 DEF RestInv
<1> QED
  BY <1>9, <1>10, <1>11 DEF LostInv

LEMMA LostMoveLink ==
    ASSUME TypeOK, LostInv, Races = {}, NEW p \in Path, NEW q \in Path, UserMoveLink(p, q)
    PROVE  LostInv'
<1> DEFINE T == local[p].to
<1>0. writes \in Nat /\ \A x \in Path : want[x] \in Nat
  BY BoundsAssumption DEF TypeOK
<1>1. LeadsTo(p, T) /\ T \in Path /\ p # q
  BY EntryKinds DEF UserMoveLink, LeadsTo, TypeOK, IsLink
<1>2. /\ UNCHANGED <<cold, idle, writes, sweep, arch, rest>> /\ ~Busy(p) /\ ~Busy(q)
  BY DEF UserMoveLink, MayMoveLink
<1>3. \A x \in Path \ {p, q} : local'[x] = local[x] /\ want'[x] = want[x]
  BY DEF UserMoveLink, TypeOK
<1>4. local'[q] = local[p] /\ local'[p] = Nothing /\ want'[q] = want[p] /\ want'[p] = Absent
  BY <1>1 DEF UserMoveLink, TypeOK
<1>5. \A x \in Path \ {p, q} : /\ (IsFile(x)' <=> IsFile(x)) /\ (IsLink(x)' <=> IsLink(x))
                               /\ Content(x)' = Content(x)
                               /\ \A y \in Path : LeadsTo(x, y)' <=> LeadsTo(x, y)
  BY <1>2, <1>3 DEF LeadsTo, IsFile, IsLink, Content
<1>6. /\ ~IsFile(p)' /\ ~IsLink(p)' /\ Content(p)' = Absent
      /\ ~IsFile(q)' /\ IsLink(q)' /\ Content(q)' = Content(p)
  BY <1>1, <1>2, <1>4, Entries DEF LeadsTo, IsFile, IsLink, Content
<1>7. \A y \in Path : /\ ~LeadsTo(p, y)'
                      /\ LeadsTo(q, y)' => y = T
  BY <1>4, <1>6 DEF LeadsTo
<1>8. \A x, y \in Path : LeadsTo(y, x)' => (y \notin {p, q} /\ LeadsTo(y, x)) \/ (y = q /\ x = T)
  BY <1>5, <1>7
<1>9. \A y \in Path : LeadsTo(y, T) => y = p
  BY <1>1 DEF LostInv, PathInv, OneLink
<1>10. \A x \in Path : NoLink(x) => x # T /\ NoLink(x)'
  BY <1>1, <1>8 DEF NoLink
<1>11. PathInv'
  <2> SUFFICES ASSUME NEW x \in Path PROVE (Held(x) /\ OneLink(x) /\ Apart(x))'
    BY DEF PathInv
  <2>1. Held(x) /\ OneLink(x) /\ Apart(x) /\ Held(p)
    BY DEF LostInv, PathInv
  <2>2. Held(x)'
    BY <1>0, <1>2, <1>3, <1>4, <1>5, <1>6, <2>1 DEF Held, Absent
  <2>3. OneLink(x)'
    <3>1. \A y, z \in Path : LeadsTo(y, x)' /\ LeadsTo(z, x)' => y = z
      BY <1>8, <1>9, <2>1 DEF OneLink
    <3>2. IsFile(x)' => NoLink(x)'
      BY <1>5, <1>6, <1>10, <2>1 DEF OneLink
    <3> QED
      BY <3>1, <3>2 DEF OneLink
  <2>4. Apart(x)'
    BY <1>2, <1>10, <2>1 DEF Apart, Listed, ArchOnPath, OnPath
  <2> QED
    BY <2>2, <2>3, <2>4
<1>12. ArchInv'
  <2>1. arch.pc # "idle" => arch.path \in Path /\ arch.path \notin {p, q}
    BY <1>2, ArchKinds DEF ArchEntry, Busy, ArchOnPath
  <2> QED
    BY <1>2, <1>3, <1>5, <2>1 DEF LostInv, ArchInv, Listed
<1>13. RestsInv'
  <2> SUFFICES ASSUME NEW t \in Restorer, NEW x \in Path PROVE RestInv(t, x)'
    BY DEF RestsInv
  <2>1. RestInv(t, x)
    BY DEF LostInv, RestsInv
  <2>2. (Coming(t, x)' <=> Coming(t, x)) /\ (Leaving(t, x)' <=> Leaving(t, x)) /\ rest'[t] = rest[t]
    BY <1>2 DEF Coming, Leaving, OnPath
  <2>3. Coming(t, x) => x \notin {p, q}
    BY <1>2 DEF Coming, Busy
  <2> QED
    BY <1>2, <1>3, <1>5, <1>10, <2>1, <2>2, <2>3 DEF RestInv
<1> QED
  BY <1>11, <1>12, <1>13 DEF LostInv

LEMMA LostUser == TypeOK /\ LostInv /\ Races = {} /\ User => LostInv'
<1> SUFFICES ASSUME TypeOK, LostInv, Races = {}, User PROVE LostInv'
  OBVIOUS
<1>1. PICK p \in Path : \/ UserWrite(p) \/ UserReplace(p) \/ UserDelete(p) \/ UserRead(p) \/ Age(p)
                        \/ \E q \in Path : UserMoveFile(p, q) \/ UserMoveLink(p, q)
  BY DEF User
<1>2. writes \in Nat /\ \A x \in Path : want[x] \in Nat /\ want[x] <= writes
  BY BoundsAssumption DEF TypeOK, LostInv, PathInv, Held
<1>3. \A x \in Path : MayReplace(x) => ~BeforeSwap(x) /\ \A t \in Restorer : ~Coming(t, x)
  BY DEF MayReplace, MayWrite, Coming
<1>4. CASE UserWrite(p)
  <2>1. CASE IsFile(p)
    <3>1. /\ local' = [local EXCEPT ![p] = File(writes + 1)] /\ want' = [want EXCEPT ![p] = writes + 1]
          /\ idle' = [idle EXCEPT ![p] = "hot"] /\ writes' = writes + 1 /\ MayReplace(p)
          /\ UNCHANGED <<cold, sweep, arch, rest>>
      BY <1>4, <2>1 DEF UserWrite, Used
    <3>2. local'[p] = File(writes + 1) /\ want'[p] = writes + 1
      BY <3>1 DEF TypeOK
    <3>3. IsFile(p)' /\ ~IsLink(p)' /\ Content(p)' = writes + 1
      BY <3>2, Entries DEF IsFile, IsLink, Content
    <3>4. \A y \in Path : ~LeadsTo(y, p)
      BY <2>1 DEF LostInv, PathInv, OneLink, NoLink
    <3>5. \A x \in Path \ {p} : local'[x] = local[x] /\ want'[x] = want[x]
      BY <3>1 DEF TypeOK
    <3>6. \A x \in Path : idle'[x] \in {idle[x], "hot"}
      BY <3>1 DEF TypeOK
    <3>7. \A x \in {p} : /\ ~BeforeSwap(x) /\ \A t \in Restorer : ~Coming(t, x)
                         /\ ~IsLink(x)' /\ Content(x)' = want'[x]
                         /\ want'[x] \in {Absent, writes + 1} /\ want'[x] <= writes'
                         /\ IsFile(x)' => \A y \in Path : LeadsTo(y, x) => y \in {p}
      BY <1>2, <1>3, <3>1, <3>2, <3>3, <3>4
    <3> QED
      BY <3>1, <3>5, <3>6, <3>7, LostChange
  <2> QED
    BY <1>4, <2>1, LostWriteThrough
<1>5. CASE UserReplace(p)
  <2>1. /\ local' = [local EXCEPT ![p] = File(writes + 1)] /\ want' = [want EXCEPT ![p] = writes + 1]
        /\ idle' = [idle EXCEPT ![p] = "hot"] /\ writes' = writes + 1 /\ MayReplace(p) /\ MayReuse(p)
        /\ UNCHANGED <<cold, sweep, arch, rest>>
    BY <1>5 DEF UserReplace, Used
  <2>2. local'[p] = File(writes + 1) /\ want'[p] = writes + 1
    BY <2>1 DEF TypeOK
  <2>3. IsFile(p)' /\ ~IsLink(p)' /\ Content(p)' = writes + 1
    BY <2>2, Entries DEF IsFile, IsLink, Content
  <2>4. \A y \in Path : LeadsTo(y, p) => y = p
    BY <2>1 DEF MayReuse, LeadsTo
  <2>5. \A x \in Path \ {p} : local'[x] = local[x] /\ want'[x] = want[x]
    BY <2>1 DEF TypeOK
  <2>6. \A x \in Path : idle'[x] \in {idle[x], "hot"}
    BY <2>1 DEF TypeOK
  <2>7. \A x \in {p} : /\ ~BeforeSwap(x) /\ \A t \in Restorer : ~Coming(t, x)
                       /\ ~IsLink(x)' /\ Content(x)' = want'[x]
                       /\ want'[x] \in {Absent, writes + 1} /\ want'[x] <= writes'
                       /\ IsFile(x)' => \A y \in Path : LeadsTo(y, x) => y \in {p}
    BY <1>2, <1>3, <2>1, <2>2, <2>3, <2>4
  <2> QED
    BY <2>1, <2>5, <2>6, <2>7, LostChange
<1>6. CASE UserDelete(p)
  <2>1. /\ local' = [local EXCEPT ![p] = Nothing] /\ want' = [want EXCEPT ![p] = Absent]
        /\ MayReplace(p) /\ UNCHANGED <<cold, idle, writes, sweep, arch, rest>>
    BY <1>6 DEF UserDelete
  <2>2. local'[p] = Nothing /\ want'[p] = Absent
    BY <2>1 DEF TypeOK
  <2>3. ~IsFile(p)' /\ ~IsLink(p)' /\ Content(p)' = Absent
    BY <2>2, Entries DEF IsFile, IsLink, Content
  <2>4. \A x \in Path \ {p} : local'[x] = local[x] /\ want'[x] = want[x]
    BY <2>1 DEF TypeOK
  <2>5. \A x \in {p} : /\ ~BeforeSwap(x) /\ \A t \in Restorer : ~Coming(t, x)
                       /\ ~IsLink(x)' /\ Content(x)' = want'[x]
                       /\ want'[x] \in {Absent, writes + 1} /\ want'[x] <= writes'
                       /\ IsFile(x)' => \A y \in Path : LeadsTo(y, x) => y \in {p}
    BY <1>2, <1>3, <2>1, <2>2, <2>3 DEF Absent
  <2> QED
    BY <2>1, <2>4, <2>5, LostChange
<1>7. CASE UserRead(p)
  <2>1. /\ idle' = [idle EXCEPT ![p] = "hot"] /\ UNCHANGED <<local, cold, want, writes, sweep, arch, rest>>
    BY <1>7 DEF UserRead, Used
  <2>2. \A x \in Path : idle'[x] \in {idle[x], "hot"}
    BY <2>1 DEF TypeOK
  <2> QED
    BY <2>1, <2>2, LostChange
<1>8. CASE Age(p)
  <2>1. UNCHANGED <<local, cold, want, writes, sweep, arch, rest>> /\ sweep.pass = "none"
        /\ \A r \in Restorer : rest[r].pc = "idle"
    BY <1>8 DEF Age, NoSweep, RestIdle
  <2>2. arch.pc = "idle" /\ Listed = {}
    BY <2>1 DEF LostInv, ArchInv
  <2>3. PathInv'
    BY <2>1, <2>2 DEF LostInv, PathInv, Held, OneLink, Apart, Content, IsFile, IsLink, NoLink, LeadsTo,
       Listed, ArchOnPath, OnPath
  <2> QED
    BY <2>1, <2>2, <2>3 DEF LostInv, ArchInv, Listed, RestsInv, RestInv, Coming, Leaving, OnPath
<1>9. ASSUME NEW q \in Path, UserMoveFile(p, q) PROVE LostInv'
  <2>1. /\ local' = [local EXCEPT ![q] = File(writes + 1), ![p] = Nothing]
        /\ want' = [want EXCEPT ![q] = writes + 1, ![p] = Absent] /\ p # q /\ IsFile(p)
        /\ idle' = [idle EXCEPT ![q] = "hot"] /\ writes' = writes + 1
        /\ MayReplace(p) /\ MayReplace(q) /\ MayReuse(q)
        /\ UNCHANGED <<cold, sweep, arch, rest>>
    BY <1>9 DEF UserMoveFile, Used
  <2>2. local'[q] = File(writes + 1) /\ want'[q] = writes + 1 /\ local'[p] = Nothing /\ want'[p] = Absent
    BY <2>1 DEF TypeOK
  <2>3. /\ IsFile(q)' /\ ~IsLink(q)' /\ Content(q)' = writes + 1
        /\ ~IsFile(p)' /\ ~IsLink(p)' /\ Content(p)' = Absent
    BY <2>2, Entries DEF IsFile, IsLink, Content
  <2>4. \A y \in Path : LeadsTo(y, q) => y = q
    BY <2>1 DEF MayReuse, LeadsTo
  <2>5. \A x \in Path \ {p, q} : local'[x] = local[x] /\ want'[x] = want[x]
    BY <2>1 DEF TypeOK
  <2>6. \A x \in Path : idle'[x] \in {idle[x], "hot"}
    BY <2>1 DEF TypeOK
  <2>7. \A x \in {p, q} : /\ ~BeforeSwap(x) /\ \A t \in Restorer : ~Coming(t, x)
                          /\ ~IsLink(x)' /\ Content(x)' = want'[x]
                          /\ want'[x] \in {Absent, writes + 1} /\ want'[x] <= writes'
                          /\ IsFile(x)' => \A y \in Path : LeadsTo(y, x) => y \in {p, q}
    BY <1>2, <1>3, <2>1, <2>2, <2>3, <2>4 DEF Absent
  <2>8. {p, q} \in SUBSET Path /\ writes' \in {writes, writes + 1}
    BY <2>1
  <2>9. UNCHANGED <<cold, sweep, arch, rest>>
    BY <2>1
  <2> QED
    BY <2>5, <2>6, <2>7, <2>8, <2>9, LostChange
<1> QED
  BY <1>1, <1>4, <1>5, <1>6, <1>7, <1>8, <1>9, LostMoveLink

-----------------------------------------------------------------------------
(* The sweep. *)
LEMMA LostSweepStart == TypeOK /\ LostInv /\ SweepStart => LostInv'
<1> SUFFICES ASSUME TypeOK, LostInv, SweepStart PROVE LostInv'
  OBVIOUS
<1>1. UNCHANGED <<local, cold, idle, want, writes, arch, rest>> /\ sweep'.pass = "ttl"
  BY DEF SweepStart, files, Sweep
<1>2. Listed' \subseteq Candidates
  BY DEF SweepStart, Sweep, Listed, Stale
<1>3. arch.pc = "idle"
  BY DEF LostInv, ArchInv, SweepStart, NoSweep
<1>4. \A x \in Candidates : NoLink(x) /\ \A t \in Restorer : ~OnPath(t, x)
  <2> SUFFICES ASSUME NEW x \in Candidates PROVE NoLink(x) /\ \A t \in Restorer : ~OnPath(t, x)
    OBVIOUS
  <2>1. x \in Path /\ IsFile(x) /\ idle[x] # "hot" /\ NoLink(x)
    BY DEF Candidates, LostInv, PathInv, OneLink
  <2>2. ASSUME NEW t \in Restorer, OnPath(t, x) PROVE FALSE
    <3>1. Coming(t, x) \/ Leaving(t, x)
      BY <2>2, RestKinds DEF OnPath, Coming, Leaving, RestEntry
    <3>2. RestInv(t, x) /\ ~LeadsTo(x, x)
      BY <2>1 DEF LostInv, RestsInv, NoLink
    <3> QED
      BY <2>1, <3>1, <3>2 DEF RestInv
  <2> QED
    BY <2>1, <2>2
<1>5. \A x, y \in Path : LeadsTo(y, x)' <=> LeadsTo(y, x)
  BY <1>1 DEF LeadsTo, IsLink
<1>6. PathInv'
  <2> SUFFICES ASSUME NEW x \in Path PROVE (Held(x) /\ OneLink(x) /\ Apart(x))'
    BY DEF PathInv
  <2>1. Held(x) /\ OneLink(x)
    BY DEF LostInv, PathInv
  <2>2. Held(x)' /\ OneLink(x)'
    BY <1>1, <2>1 DEF Held, OneLink, NoLink, LeadsTo, Content, IsFile, IsLink
  <2>3. Apart(x)'
    BY <1>1, <1>2, <1>3, <1>4, <1>5 DEF Apart, ArchOnPath, OnPath, NoLink
  <2> QED
    BY <2>2, <2>3
<1>7. ArchInv'
  BY <1>1, <1>3 DEF ArchInv
<1>8. RestsInv'
  BY <1>1 DEF LostInv, RestsInv, RestInv, Coming, Leaving, OnPath, NoLink, LeadsTo, IsFile, IsLink
<1> QED
  BY <1>6, <1>7, <1>8 DEF LostInv

(* A step of archive_one that does not touch the files at all. *)
LEMMA LostArchives ==
    ASSUME LostInv, UNCHANGED <<local, cold, idle, want, writes, rest>>,
           Listed' \subseteq Listed,
           arch'.pc # "idle" => \/ arch.pc # "idle" /\ arch'.path = arch.path
                                \/ arch'.path \in Listed,
           ArchInv'
    PROVE  LostInv'
<1>1. \A x, y \in Path : LeadsTo(y, x)' <=> LeadsTo(y, x)
  BY DEF LeadsTo, IsLink
<1>2. PathInv'
  <2> SUFFICES ASSUME NEW x \in Path PROVE (Held(x) /\ OneLink(x) /\ Apart(x))'
    BY DEF PathInv
  <2>1. Held(x) /\ OneLink(x) /\ Apart(x)
    BY DEF LostInv, PathInv
  <2>2. Held(x)' /\ OneLink(x)'
    BY <2>1 DEF Held, OneLink, NoLink, LeadsTo, Content, IsFile, IsLink
  <2>3. Apart(x)'
    BY <1>1, <2>1 DEF Apart, ArchOnPath, OnPath, NoLink
  <2> QED
    BY <2>2, <2>3
<1>3. RestsInv'
  BY DEF LostInv, RestsInv, RestInv, Coming, Leaving, OnPath, NoLink, LeadsTo, IsFile, IsLink
<1> QED
  BY <1>2, <1>3 DEF LostInv

LEMMA LostArchiveStart == ASSUME TypeOK, LostInv, NEW p \in Path, ArchiveStart(p) PROVE LostInv'
<1>1. /\ UNCHANGED <<local, cold, idle, want, writes, rest>> /\ p \in Listed
      /\ sweep.pass # "none" /\ arch.pc = "idle"
  BY DEF ArchiveStart, files, NextFile, Listed, ArchIdle
<1>2. sweep'.pass = sweep.pass /\ Listed' = Listed \ {p}
  BY DEF ArchiveStart, Listed, TypeOK
<1>3. CASE Content(p) = Absent
  BY <1>1, <1>2, <1>3, LostGivesUp DEF ArchiveStart, ArchIdle, files
<1>4. CASE Content(p) # Absent
  <2>1. arch'.pc = "copy" /\ arch'.path = p /\ arch'.seen = Content(p)
    BY <1>4 DEF ArchiveStart, Archiving
  <2>2. Content(p) \in 1 .. writes
    BY <1>4, BoundsAssumption DEF LostInv, PathInv, Held, TypeOK, Absent
  <2>3. ArchInv'
    BY <1>1, <1>2, <2>1, <2>2 DEF ArchInv
  <2> QED
    BY <1>1, <1>2, <2>1, <2>3, LostArchives
<1> QED
  BY <1>3, <1>4

LEMMA LostArchiveCopy == TypeOK /\ LostInv /\ ArchiveCopy => LostInv'
<1> SUFFICES ASSUME TypeOK, LostInv, ArchiveCopy PROVE LostInv'
  OBVIOUS
<1>1. arch \in ArchEntry
  BY ArchKinds DEF ArchiveCopy
<1>2. UNCHANGED <<local, cold, idle, want, writes, sweep, rest>>
  BY DEF ArchiveCopy, files
<1>3. arch'.pc = "publish" /\ arch'.path = arch.path /\ arch'.seen = arch.seen
  BY <1>1 DEF ArchiveCopy, ArchEntry
<1>4. Content(arch.path) # arch.seen \/ arch'.copy = arch.seen
  BY <1>1 DEF ArchiveCopy, ArchEntry
<1>5. arch.path \in Path /\ Content(arch.path) = want[arch.path] /\ ~IsLink(arch.path)
  BY <1>1 DEF ArchEntry, LostInv, PathInv, Held, ArchiveCopy, IsFile, IsLink
<1>6. arch.path \notin Listed /\ arch.seen \in 1 .. writes /\ sweep.pass # "none"
  BY DEF LostInv, ArchInv, ArchiveCopy
<1>7. ArchInv'
  BY <1>2, <1>3, <1>4, <1>5, <1>6 DEF ArchInv, Listed, IsLink
<1> QED
  BY <1>2, <1>3, <1>7, LostArchives DEF Listed, ArchiveCopy

(* archive_one publishes its copy or removes it: nobody reads it yet. *)
LEMMA LostColdMoves ==
    ASSUME TypeOK, LostInv, arch.pc # "idle", NEW v, cold' = [cold EXCEPT ![arch.path] = v],
           UNCHANGED <<local, idle, want, writes, rest, sweep>>,
           arch'.pc # "idle" => arch'.path = arch.path, ArchInv'
    PROVE  LostInv'
<1>1. arch.path \in Path
  BY ArchKinds DEF ArchEntry
<1>2. NoLink(arch.path) /\ \A t \in Restorer : ~OnPath(t, arch.path)
  BY <1>1 DEF LostInv, PathInv, Apart, ArchOnPath
<1>3. \A x \in Path : x # arch.path => cold'[x] = cold[x]
  BY DEF TypeOK
<1>4. \A x, y \in Path : (LeadsTo(y, x)' <=> LeadsTo(y, x)) /\ (IsFile(x)' <=> IsFile(x))
  BY DEF LeadsTo, IsLink, IsFile
<1>5. PathInv'
  <2> SUFFICES ASSUME NEW x \in Path PROVE (Held(x) /\ OneLink(x) /\ Apart(x))'
    BY DEF PathInv
  <2>1. Held(x) /\ OneLink(x) /\ Apart(x)
    BY DEF LostInv, PathInv
  <2>2. Content(x)' = Content(x)
    <3>1. IsLink(x) => LeadsTo(x, local[x].to) /\ local[x].to \in Path
      BY EntryKinds DEF LeadsTo, IsLink, TypeOK
    <3>2. IsLink(x) => local[x].to # arch.path
      BY <1>2, <3>1 DEF NoLink
    <3> QED
      BY <1>3, <3>1, <3>2 DEF Content, IsFile, IsLink
  <2>3. Apart(x)'
    BY <1>4, <2>1 DEF Apart, ArchOnPath, OnPath, NoLink, Listed
  <2> QED
    BY <1>4, <2>1, <2>2, <2>3 DEF Held, OneLink, NoLink
<1>6. RestsInv'
  <2> SUFFICES ASSUME NEW t \in Restorer, NEW x \in Path PROVE RestInv(t, x)'
    BY DEF RestsInv
  <2>1. RestInv(t, x)
    BY DEF LostInv, RestsInv
  <2>2. OnPath(t, x) => x # arch.path
    BY <1>2
  <2> QED
    BY <1>3, <1>4, <2>1, <2>2 DEF RestInv, Coming, Leaving, OnPath, NoLink
<1> QED
  BY <1>5, <1>6 DEF LostInv

LEMMA LostArchivePublish == TypeOK /\ LostInv /\ ArchivePublish => LostInv'
<1> SUFFICES ASSUME TypeOK, LostInv, ArchivePublish PROVE LostInv'
  OBVIOUS
<1>1. arch \in ArchEntry
  BY ArchKinds DEF ArchivePublish
<1>2. /\ UNCHANGED <<local, idle, want, writes, sweep, rest>> /\ arch.pc = "publish"
      /\ cold' = [cold EXCEPT ![arch.path] = arch.copy]
  BY DEF ArchivePublish
<1>3. /\ arch'.pc = "check" /\ arch'.path = arch.path /\ arch'.seen = arch.seen
      /\ arch'.copy = arch.copy
  BY <1>1 DEF ArchivePublish, ArchEntry
<1>4. cold'[arch.path] = arch.copy
  BY <1>1, <1>2 DEF ArchEntry, TypeOK
<1>5. ArchInv'
  BY <1>2, <1>3, <1>4 DEF LostInv, ArchInv, Listed, IsLink
<1> QED
  BY <1>2, <1>3, <1>5, LostColdMoves

LEMMA LostArchiveCheck == TypeOK /\ LostInv /\ ArchiveCheck => LostInv'
<1> SUFFICES ASSUME TypeOK, LostInv, ArchiveCheck PROVE LostInv'
  OBVIOUS
<1>1. arch \in ArchEntry
  BY ArchKinds DEF ArchiveCheck
<1>2. UNCHANGED <<local, idle, want, writes, sweep, rest>> /\ arch.pc = "check"
  BY DEF ArchiveCheck
<1>3. CASE Content(arch.path) = arch.seen
  <2>1. cold' = cold /\ arch'.pc = "swap" /\ arch'.path = arch.path /\ arch'.seen = arch.seen
    BY <1>1, <1>3 DEF ArchiveCheck, ArchEntry
  <2>2. arch.path \in Path /\ want[arch.path] = arch.seen
    BY <1>1, <1>3 DEF ArchEntry, LostInv, PathInv, Held
  <2>3. /\ arch.path \notin Listed /\ arch.seen \in 1 .. writes /\ ~IsLink(arch.path)
        /\ cold[arch.path] = arch.seen /\ sweep.pass # "none"
    BY <1>2, <2>2 DEF LostInv, ArchInv
  <2>4. IsFile(arch.path)
    BY <1>3, <2>3 DEF Content, Absent
  <2>5. ArchInv'
    BY <1>2, <2>1, <2>2, <2>3, <2>4 DEF ArchInv, Listed, IsFile, IsLink
  <2> QED
    BY <1>2, <2>1, <2>5, LostArchives DEF Listed
<1>4. CASE Content(arch.path) # arch.seen
  <2>1. arch'.pc = "idle" /\ cold' = [cold EXCEPT ![arch.path] = Absent]
    BY <1>4 DEF ArchiveCheck, ArchIdle
  <2>2. ArchInv'
    BY <1>2, <2>1 DEF LostInv, ArchInv
  <2> QED
    BY <1>2, <2>1, <2>2, LostColdMoves
<1> QED
  BY <1>3, <1>4

LEMMA LostArchiveSwap == TypeOK /\ LostInv /\ ArchiveSwap => LostInv'
<1> SUFFICES ASSUME TypeOK, LostInv, ArchiveSwap PROVE LostInv'
  OBVIOUS
<1>1. PICK p \in Path : p = arch.path
  BY ArchKinds DEF ArchiveSwap, ArchEntry
<1>2. /\ UNCHANGED <<cold, idle, want, writes, rest>> /\ local' = [local EXCEPT ![p] = Link(p)]
      /\ arch'.pc = "idle" /\ ArchOnPath(p)
  BY <1>1 DEF ArchiveSwap, ArchIdle, ArchOnPath
<1>3. Listed' = Listed /\ sweep'.pass = sweep.pass
  BY DEF ArchiveSwap, Listed, TypeOK
<1>4. /\ p \notin Listed /\ IsFile(p) /\ want[p] = cold[p] /\ sweep.pass # "none"
  BY <1>1 DEF LostInv, ArchInv, ArchiveSwap
<1>5. NoLink(p) /\ \A t \in Restorer : ~OnPath(t, p)
  BY <1>1, <1>2 DEF LostInv, PathInv, Apart
<1>6. local'[p] = Link(p) /\ \A x \in Path : x # p => local'[x] = local[x]
  BY <1>1, <1>2 DEF TypeOK
<1>7. IsLink(p)' /\ ~IsFile(p)' /\ Content(p)' = cold[p] /\ \A y \in Path : LeadsTo(p, y)' <=> y = p
  BY <1>2, <1>6, Entries DEF IsLink, IsFile, Content, LeadsTo
<1>8. \A x \in Path : x # p => /\ (IsFile(x)' <=> IsFile(x)) /\ Content(x)' = Content(x)
                               /\ \A y \in Path : LeadsTo(x, y)' <=> LeadsTo(x, y)
  BY <1>2, <1>6 DEF LeadsTo, IsFile, IsLink, Content
<1>9. \A y \in Path : ~LeadsTo(p, y)
  BY <1>4 DEF LeadsTo, IsLink, IsFile
<1>10. \A x, y \in Path : x # p => (LeadsTo(y, x)' <=> LeadsTo(y, x))
  BY <1>7, <1>8, <1>9
<1>11. \A y \in Path : LeadsTo(y, p)' => y = p
  BY <1>5, <1>8 DEF NoLink
<1>12. PathInv'
  <2> SUFFICES ASSUME NEW x \in Path PROVE (Held(x) /\ OneLink(x) /\ Apart(x))'
    BY DEF PathInv
  <2>1. Held(x) /\ OneLink(x) /\ Apart(x)
    BY DEF LostInv, PathInv
  <2>2. Held(x)'
    BY <1>2, <1>4, <1>7, <1>8, <2>1 DEF Held
  <2>3. OneLink(x)'
    BY <1>7, <1>8, <1>10, <1>11, <2>1 DEF OneLink, NoLink
  <2>4. Apart(x)'
    BY <1>2, <1>3, <1>4, <1>10, <2>1 DEF Apart, ArchOnPath, OnPath, NoLink
  <2> QED
    BY <2>2, <2>3, <2>4
<1>13. ArchInv'
  BY <1>2, <1>3, <1>4 DEF ArchInv
<1>14. RestsInv'
  <2> SUFFICES ASSUME NEW t \in Restorer, NEW x \in Path PROVE RestInv(t, x)'
    BY DEF RestsInv
  <2>1. RestInv(t, x)
    BY DEF LostInv, RestsInv
  <2>2. OnPath(t, x) => x # p
    BY <1>5
  <2> QED
    BY <1>2, <1>8, <1>10, <2>1, <2>2 DEF RestInv, Coming, Leaving, OnPath, NoLink
<1> QED
  BY <1>12, <1>13, <1>14 DEF LostInv

LEMMA LostOverflow == TypeOK /\ LostInv /\ Overflow => LostInv'
<1> SUFFICES ASSUME TypeOK, LostInv, Overflow PROVE LostInv'
  OBVIOUS
<1>1. CASE Measure
  <2>1. Listed' \subseteq Listed
    BY <1>1 DEF Measure, Sweep, NoSweep, Listed
  <2>2. sweep'.pass = "none" => arch'.pc = "idle" /\ Listed' = {}
    BY <1>1 DEF Measure, Sweep, NoSweep, Listed, ArchIdle
  <2> QED
    BY <1>1, <2>1, <2>2, LostGivesUp DEF Measure
<1>2. CASE SweepDone
  BY <1>2, LostGivesUp DEF SweepDone, NoSweep, Listed, ArchIdle
<1>3. CASE SweepKilled
  BY <1>3, LostGivesUp DEF SweepKilled, NoSweep, Listed, ArchIdle
<1>4. CASE ArchiveCopyFails \/ ArchiveSwapFails
  <2>1. UNCHANGED <<files, sweep, rest>> /\ arch'.pc = "idle" /\ arch.pc # "idle"
    BY <1>4 DEF ArchiveCopyFails, ArchiveSwapFails, ArchIdle
  <2>2. sweep.pass # "none"
    BY <2>1 DEF LostInv, ArchInv
  <2> QED
    BY <2>1, <2>2, LostGivesUp DEF Listed
<1> QED
  BY <1>1, <1>2, <1>3, <1>4, LostSweepStart, LostArchiveStart, LostArchiveCopy, LostArchivePublish,
     LostArchiveCheck, LostArchiveSwap DEF Overflow

-----------------------------------------------------------------------------
(* The restores. *)

(* A step of one restore that leaves the files alone. *)
LEMMA LostRestores ==
    ASSUME TypeOK, LostInv, NEW r \in Restorer, UNCHANGED <<files, sweep, arch>>,
           \A t \in Restorer : t # r => rest'[t] = rest[t],
           \A x \in Path : OnPath(r, x)' => OnPath(r, x) \/ LeadsTo(x, x),
           \A x \in Path : RestInv(r, x)'
    PROVE  LostInv'
<1>1. \A x, y \in Path : (LeadsTo(y, x)' <=> LeadsTo(y, x)) /\ (IsFile(x)' <=> IsFile(x))
  BY DEF files, LeadsTo, IsLink, IsFile
<1>2. \A t \in Restorer, x \in Path : t # r => (OnPath(t, x)' <=> OnPath(t, x))
  BY DEF OnPath
<1>3. PathInv'
  <2> SUFFICES ASSUME NEW x \in Path PROVE (Held(x) /\ OneLink(x) /\ Apart(x))'
    BY DEF PathInv
  <2>1. Held(x) /\ OneLink(x) /\ Apart(x)
    BY DEF LostInv, PathInv
  <2>2. Held(x)' /\ OneLink(x)'
    BY <2>1 DEF files, Held, OneLink, NoLink, LeadsTo, Content, IsFile, IsLink
  <2>3. ASSUME x \in Listed \/ ArchOnPath(x), NEW t \in Restorer PROVE ~OnPath(t, x)'
    <3>1. ~OnPath(t, x) /\ ~LeadsTo(x, x)
      BY <2>1, <2>3 DEF Apart, NoLink
    <3> QED
      BY <1>2, <3>1
  <2>4. Apart(x)'
    BY <1>1, <2>1, <2>3 DEF Apart, ArchOnPath, NoLink, Listed
  <2> QED
    BY <2>2, <2>4
<1>4. ArchInv'
  BY DEF LostInv, ArchInv, files, Listed, IsLink, IsFile
<1>5. RestsInv'
  <2> SUFFICES ASSUME NEW t \in Restorer, NEW x \in Path, t # r PROVE RestInv(t, x)'
    BY DEF RestsInv
  <2>1. RestInv(t, x)
    BY DEF LostInv, RestsInv
  <2> QED
    BY <1>1, <1>2, <2>1 DEF RestInv, Coming, Leaving, NoLink, files
<1> QED
  BY <1>3, <1>4, <1>5 DEF LostInv

LEMMA LostRestoreStart ==
    ASSUME TypeOK, LostInv, NEW r \in Restorer, NEW p \in Path, RestoreStart(r, p) PROVE LostInv'
<1>1. UNCHANGED <<files, sweep, arch>> /\ LeadsTo(p, p) /\ cold[p] # Absent
  BY Entries DEF RestoreStart, LeadsTo, IsLink
<1>2. rest'[r].pc = "copy" /\ rest'[r].path = p /\ rest'[r].seen = cold[p]
      /\ \A t \in Restorer : t # r => rest'[t] = rest[t]
  BY DEF RestoreStart, Restoring, TypeOK
<1>3. LeadsTo(p, p)'
  BY <1>1 DEF files, LeadsTo, IsLink
<1>4. \A x \in Path : RestInv(r, x)' /\ (OnPath(r, x)' => x = p)
  BY <1>1, <1>2, <1>3 DEF RestInv, Coming, Leaving, OnPath
<1> QED
  BY <1>1, <1>2, <1>4, LostRestores

(* The restore goes on to its next look at the cold copy. *)
LEMMA LostGoesOn ==
    ASSUME TypeOK, LostInv, NEW r \in Restorer, NEW pc, UNCHANGED <<files, sweep, arch>>,
           rest[r].pc # "idle", rest' = [rest EXCEPT ![r] = [rest[r] EXCEPT !.pc = pc]],
           \/ pc = "check" /\ rest[r].pc = "copy"
           \/ pc = "swap" /\ rest[r].pc = "check" /\ cold[rest[r].path] = rest[r].seen
           \/ pc = "unlink" /\ rest[r].pc = "recheck"
    PROVE  LostInv'
<1>1. rest[r] \in RestEntry
  BY RestKinds
<1>2. rest'[r].pc = pc /\ rest'[r].path = rest[r].path /\ rest'[r].seen = rest[r].seen
      /\ \A t \in Restorer : t # r => rest'[t] = rest[t]
  BY <1>1 DEF RestEntry, TypeOK
<1>3. \A x \in Path : OnPath(r, x)' => OnPath(r, x)
  BY <1>2 DEF OnPath
<1>4. ASSUME NEW x \in Path PROVE RestInv(r, x)'
  <2>1. RestInv(r, x) /\ Held(x)
    BY DEF LostInv, RestsInv, PathInv
  <2>2. (Coming(r, x)' => Coming(r, x)) /\ (Leaving(r, x)' => Leaving(r, x))
    BY <1>2 DEF Coming, Leaving, OnPath
  <2>3. (LeadsTo(x, x)' <=> LeadsTo(x, x)) /\ (IsFile(x)' <=> IsFile(x)) /\ (NoLink(x)' <=> NoLink(x))
    BY DEF files, LeadsTo, IsLink, IsFile, NoLink
  <2>4. Coming(r, x) /\ LeadsTo(x, x) => want[x] = cold[x]
    BY <2>1 DEF Held, Content, LeadsTo, IsLink, IsFile
  <2>5. Coming(r, x)' /\ rest'[r].pc = "swap" => cold[x] = rest[r].seen
    BY <1>2 DEF Coming, OnPath
  <2>6. Coming(r, x)' /\ rest'[r].pc = "swap" => want[x] = rest[r].seen
    BY <2>1, <2>2, <2>4, <2>5 DEF RestInv
  <2> QED
    BY <1>2, <2>1, <2>2, <2>3, <2>6 DEF RestInv, files
<1> QED
  BY <1>2, <1>3, <1>4, LostRestores

LEMMA LostRestoreSwap == ASSUME TypeOK, LostInv, NEW r \in Restorer, RestoreSwap(r) PROVE LostInv'
<1>1. PICK p \in Path : p = rest[r].path
  BY RestKinds DEF RestoreSwap, RestEntry
<1>2. /\ UNCHANGED <<cold, want, writes, sweep, arch>> /\ Coming(r, p) /\ rest[r].pc = "swap"
      /\ local' = [local EXCEPT ![p] = File(rest[r].seen)] /\ idle' = [idle EXCEPT ![p] = "hot"]
  BY <1>1 DEF RestoreSwap, Coming, OnPath
<1>3. want[p] = rest[r].seen
  BY <1>2 DEF LostInv, RestsInv, RestInv
<1>4. local'[p] = File(rest[r].seen) /\ \A x \in Path : x # p => local'[x] = local[x]
  BY <1>2 DEF TypeOK
<1>5. idle'[p] = "hot" /\ \A x \in Path : x # p => idle'[x] = idle[x]
  BY <1>2 DEF TypeOK
<1>6. IsFile(p)' /\ ~IsLink(p)' /\ Content(p)' = want[p]
  BY <1>3, <1>4, Entries DEF IsLink, IsFile, Content
<1>7. \A x \in Path : x # p => /\ (IsFile(x)' <=> IsFile(x)) /\ Content(x)' = Content(x)
                               /\ (IsLink(x)' <=> IsLink(x))
                               /\ \A y \in Path : LeadsTo(x, y)' <=> LeadsTo(x, y)
  BY <1>2, <1>4 DEF LeadsTo, IsFile, IsLink, Content
<1>8. \A x, y \in Path : LeadsTo(y, x)' => y # p /\ LeadsTo(y, x)
  BY <1>6, <1>7 DEF LeadsTo
<1>9. \A y \in Path : LeadsTo(y, p) => y = p
  BY <1>2 DEF LostInv, PathInv, OneLink, RestsInv, RestInv, NoLink
<1>10. NoLink(p)' /\ \A x \in Path : NoLink(x) => NoLink(x)'
  BY <1>8, <1>9 DEF NoLink
<1>11. p \notin Listed /\ ~ArchOnPath(p)
  BY <1>2 DEF LostInv, PathInv, Apart, Coming
<1>12. \/ rest' = [rest EXCEPT ![r] = RestIdle]
       \/ rest' = [rest EXCEPT ![r] = [rest[r] EXCEPT !.pc = "recheck"]]
  BY DEF RestoreSwap
<1>13. /\ rest'[r].pc = "idle" \/ (rest'[r].pc = "recheck" /\ rest'[r].path = p)
       /\ \A t \in Restorer : t # r => rest'[t] = rest[t]
  <2>1. rest[r] \in RestEntry
    BY RestKinds DEF RestoreSwap
  <2>2. \A t \in Restorer : t # r => rest'[t] = rest[t]
    BY <1>12 DEF TypeOK
  <2>3. rest'[r] = RestIdle \/ rest'[r] = [rest[r] EXCEPT !.pc = "recheck"]
    BY <1>12 DEF TypeOK
  <2>4. CASE rest'[r] = RestIdle
    <3>1. RestIdle.pc = "idle"
      BY DEF RestIdle
    <3> QED
      BY <2>2, <2>4, <3>1
  <2>5. CASE rest'[r] = [rest[r] EXCEPT !.pc = "recheck"]
    BY <1>1, <2>1, <2>2, <2>5 DEF RestEntry
  <2> QED
    BY <2>3, <2>4, <2>5
<1>14. \A t \in Restorer, x \in Path : OnPath(t, x)' => OnPath(t, x)
  BY <1>1, <1>2, <1>13 DEF OnPath
<1>15. PathInv'
  <2> SUFFICES ASSUME NEW x \in Path PROVE (Held(x) /\ OneLink(x) /\ Apart(x))'
    BY DEF PathInv
  <2>1. Held(x) /\ OneLink(x) /\ Apart(x)
    BY DEF LostInv, PathInv
  <2>2. Held(x)'
    BY <1>2, <1>6, <1>7, <2>1 DEF Held
  <2>3. OneLink(x)'
    BY <1>7, <1>8, <1>10, <2>1 DEF OneLink
  <2>4. Apart(x)'
    BY <1>2, <1>10, <1>14, <2>1 DEF Apart, ArchOnPath, Listed
  <2> QED
    BY <2>2, <2>3, <2>4
<1>16. ArchInv'
  <2>1. arch.pc # "idle" => arch.path \in Path /\ arch.path # p
    BY <1>11, ArchKinds DEF ArchEntry, ArchOnPath
  <2> QED
    BY <1>2, <1>7, <2>1 DEF LostInv, ArchInv, Listed
<1>17. RestsInv'
  <2> SUFFICES ASSUME NEW t \in Restorer, NEW x \in Path PROVE RestInv(t, x)'
    BY DEF RestsInv
  <2>1. RestInv(t, x) /\ Held(x)
    BY DEF LostInv, RestsInv, PathInv
  <2>2. CASE t = r
    <3>1. ~Coming(r, x)' /\ (Leaving(r, x)' => x = p)
      BY <1>13 DEF Coming, Leaving, OnPath
    <3> QED
      BY <1>5, <1>10, <2>2, <3>1 DEF RestInv
  <2>3. CASE t # r
    <3>1. rest'[t] = rest[t] /\ (Coming(t, x)' <=> Coming(t, x)) /\ (Leaving(t, x)' <=> Leaving(t, x))
      BY <1>13, <2>3 DEF Coming, Leaving, OnPath
    <3>2. CASE x # p
      BY <1>2, <1>5, <1>7, <1>10, <2>1, <3>1, <3>2 DEF RestInv
    <3>3. CASE x = p
      <4>1. LeadsTo(p, p) => cold[p] = want[p]
        BY <2>1, <3>3 DEF Held, Content, LeadsTo, IsLink, IsFile
      <4>2. Coming(t, p) => cold[p] \in {want[p], Absent}
        BY <2>1, <3>3, <4>1 DEF RestInv
      <4> QED
        BY <1>2, <1>5, <1>6, <1>10, <2>1, <3>1, <3>3, <4>2 DEF RestInv
    <3> QED
      BY <3>2, <3>3
  <2> QED
    BY <2>2, <2>3
<1> QED
  BY <1>15, <1>16, <1>17 DEF LostInv

LEMMA LostRestoreUnlink == ASSUME TypeOK, LostInv, NEW r \in Restorer, RestoreUnlink(r) PROVE LostInv'
<1>1. PICK p \in Path : p = rest[r].path
  BY RestKinds DEF RestoreUnlink, RestEntry
<1>2. /\ UNCHANGED <<local, idle, want, writes, sweep, arch>> /\ Leaving(r, p)
      /\ cold' = [cold EXCEPT ![p] = Absent] /\ rest' = [rest EXCEPT ![r] = RestIdle]
  BY <1>1 DEF RestoreUnlink, Leaving, OnPath
<1>3. rest'[r].pc = "idle" /\ \A t \in Restorer : t # r => rest'[t] = rest[t]
  BY <1>2 DEF RestIdle, TypeOK
<1>4. cold'[p] = Absent /\ \A x \in Path : x # p => cold'[x] = cold[x]
  BY <1>2 DEF TypeOK
<1>5. NoLink(p) /\ ~ArchOnPath(p)
  BY <1>2 DEF LostInv, PathInv, Apart, RestsInv, RestInv, Leaving
<1>6. \A x, y \in Path : (LeadsTo(y, x)' <=> LeadsTo(y, x)) /\ (IsFile(x)' <=> IsFile(x))
                         /\ (IsLink(x)' <=> IsLink(x)) /\ (NoLink(x)' <=> NoLink(x))
  BY <1>2 DEF LeadsTo, IsLink, IsFile, NoLink
<1>7. \A t \in Restorer, x \in Path : OnPath(t, x)' => OnPath(t, x)
  BY <1>3 DEF OnPath
<1>8. PathInv'
  <2> SUFFICES ASSUME NEW x \in Path PROVE (Held(x) /\ OneLink(x) /\ Apart(x))'
    BY DEF PathInv
  <2>1. Held(x) /\ OneLink(x) /\ Apart(x)
    BY DEF LostInv, PathInv
  <2>2. Content(x)' = Content(x)
    <3>1. IsLink(x) => LeadsTo(x, local[x].to) /\ local[x].to \in Path
      BY EntryKinds DEF LeadsTo, IsLink, TypeOK
    <3>2. IsLink(x) => local[x].to # p
      BY <1>5, <3>1 DEF NoLink
    <3> QED
      BY <1>2, <1>4, <3>1, <3>2 DEF Content, IsFile, IsLink
  <2>3. Held(x)' /\ OneLink(x)'
    BY <1>2, <1>6, <2>1, <2>2 DEF Held, OneLink
  <2>4. Apart(x)'
    BY <1>2, <1>6, <1>7, <2>1 DEF Apart, ArchOnPath, Listed
  <2> QED
    BY <2>3, <2>4
<1>9. ArchInv'
  <2>1. arch.pc # "idle" => arch.path \in Path /\ arch.path # p
    BY <1>5, ArchKinds DEF ArchEntry, ArchOnPath
  <2> QED
    BY <1>2, <1>4, <1>6, <2>1 DEF LostInv, ArchInv, Listed
<1>10. RestsInv'
  <2> SUFFICES ASSUME NEW t \in Restorer, NEW x \in Path PROVE RestInv(t, x)'
    BY DEF RestsInv
  <2>1. RestInv(t, x)
    BY DEF LostInv, RestsInv
  <2>2. (Coming(t, x)' => Coming(t, x) /\ rest'[t] = rest[t]) /\ (Leaving(t, x)' => Leaving(t, x))
    BY <1>3 DEF Coming, Leaving, OnPath
  <2> QED
    BY <1>2, <1>4, <1>6, <2>1, <2>2 DEF RestInv
<1> QED
  BY <1>8, <1>9, <1>10 DEF LostInv

LEMMA LostRestore == TypeOK /\ LostInv /\ Restore => LostInv'
<1> SUFFICES ASSUME TypeOK, LostInv, Restore PROVE LostInv'
  OBVIOUS
<1>1. PICK r \in Restorer :
         \/ \E p \in Path : RestoreStart(r, p)
         \/ RestoreCopy(r) \/ RestoreFails(r) \/ RestoreCheck(r) \/ RestoreSwap(r)
         \/ RestoreRecheck(r) \/ RestoreUnlink(r) \/ RestoreKilled(r)
  BY DEF Restore
<1>2. ASSUME UNCHANGED <<files, sweep, arch>>, rest' = [rest EXCEPT ![r] = RestIdle] PROVE LostInv'
  <2>1. \A t \in Restorer : rest'[t] = rest[t] \/ rest'[t].pc = "idle"
    BY <1>2 DEF RestIdle, TypeOK
  <2>2. sweep'.pass = "none" => arch'.pc = "idle" /\ Listed' = {}
    BY <1>2 DEF LostInv, ArchInv, Listed
  <2> QED
    BY <1>2, <2>1, <2>2, LostGivesUp DEF Listed
<1>3. CASE RestoreCopy(r)
  BY <1>3, LostGoesOn DEF RestoreCopy
<1>4. CASE RestoreCheck(r)
  <2>1. CASE cold[rest[r].path] = rest[r].seen
    <3>1. rest' = [rest EXCEPT ![r] = [rest[r] EXCEPT !.pc = "swap"]]
      BY <1>4, <2>1 DEF RestoreCheck
    <3> QED
      BY <1>4, <2>1, <3>1, LostGoesOn DEF RestoreCheck
  <2>2. CASE cold[rest[r].path] # rest[r].seen
    <3>1. rest' = [rest EXCEPT ![r] = RestIdle]
      BY <1>4, <2>2 DEF RestoreCheck
    <3> QED
      BY <1>2, <1>4, <3>1 DEF RestoreCheck
  <2> QED
    BY <2>1, <2>2
<1>5. CASE RestoreRecheck(r)
  <2>1. \/ rest' = [rest EXCEPT ![r] = RestIdle]
        \/ rest' = [rest EXCEPT ![r] = [rest[r] EXCEPT !.pc = "unlink"]]
    BY <1>5 DEF RestoreRecheck
  <2> QED
    BY <1>2, <1>5, <2>1, LostGoesOn DEF RestoreRecheck
<1>6. CASE RestoreFails(r) \/ RestoreKilled(r)
  BY <1>2, <1>6 DEF RestoreFails, RestoreKilled
<1> QED
  BY <1>1, <1>3, <1>4, <1>5, <1>6, LostRestoreStart, LostRestoreSwap, LostRestoreUnlink

(* "Nothing has been lost" (the note that the sweep leaves its users): for  *)
(* any number of paths, restores, sweeps, writes and kills, opening a path  *)
(* gives what its user last left there, if users stay clear of the four     *)
(* things of Races that the checks of archive_one and restore_one miss.     *)
THEOREM NothingIsLost == ASSUME Races = {} PROVE Spec => []NothingLost
<1>1. TypeOK /\ LostInv /\ [Next]_vars => LostInv'
  <2>1. UNCHANGED vars /\ LostInv => LostInv'
    BY DEF vars, files, LostInv, PathInv, Held, OneLink, Apart, NoLink, LeadsTo, Content, IsFile, IsLink,
       ArchOnPath, Listed, ArchInv, RestsInv, RestInv, Coming, Leaving, OnPath
  <2> QED
    BY <2>1, LostUser, LostOverflow, LostRestore DEF Next
<1>2. LostInv => NothingLost
  BY DEF LostInv, PathInv, Held, NothingLost
<1> QED
  BY <1>1, <1>2, InitLost, TypeCorrect, PTL DEF Spec
=============================================================================
