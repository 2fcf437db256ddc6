----------------------------- MODULE ScratchTier -----------------------------
(***************************************************************************)
(* The scratch tier: scratch-overflow demotes idle files of /scratch to a  *)
(* cold NFS area and leaves a symlink, scratch-restore brings one back.    *)
(* One overflow sweep runs at a time (a systemd timer); any number of      *)
(* users restore and use their files meanwhile, and either program may be  *)
(* killed or have a system call fail at any step.                          *)
(*                                                                         *)
(* A file is the version of its content: every write or rename yields a  *)
(* new one, so comparing versions stands for the programs' comparison of   *)
(* (st_ino, st_size, st_mtime_ns, st_ctime_ns).  A copy that overlaps a    *)
(* write is Torn.  Nothing but a user changes what a user wrote: `want` is *)
(* what the user last left at a path.                                      *)
(***************************************************************************)
EXTENDS Naturals, FiniteSets

CONSTANTS
    Path,      \* file paths below the scratch root
    Restorer,  \* concurrent scratch-restore processes
    High,      \* --high, in files of unit size
    Low,       \* --low, likewise
    Ttl,       \* whether --max-idle-days is set
    MaxWrite,  \* bound: versions written by users
    MaxKill,   \* bound: kills of either program
    MaxSweep,  \* bound: sweeps started
    Races      \* what users may do that the programs' checks do not see

ASSUME WatermarkAssumption ==
    /\ Low \in Nat /\ High \in Nat /\ Low < High
    /\ Ttl \in BOOLEAN

ASSUME RacesAssumption ==
    Races \subseteq {"write before swap", "replace during restore", "reuse old name",
                   "move while busy"}

ASSUME BoundsAssumption == MaxWrite \in Nat /\ MaxKill \in Nat /\ MaxSweep \in Nat

ASSUME PathAssumption == IsFiniteSet(Path)

VARIABLES
    local,   \* local[p]: what the scratch pool has at p
    cold,    \* cold[p]: the version in the cold area at p's mirrored path
    idle,    \* idle[p]: last_use, as the cutoffs see it
    want,    \* want[p]: what the user last left at p (history)
    writes, kills, sweeps,  \* counters of the bounded events
    sweep,   \* the overflow sweep: its pass, the files left and how many to free
    arch,    \* archive_one on the sweep's current file
    rest     \* rest[r]: a restore

vars == <<local, cold, idle, want, writes, kills, sweeps, sweep, arch, rest>>
files == <<local, cold, idle, want, writes>>

Absent == 0
Torn == MaxWrite + 1   \* what a copy holds when its source changed meanwhile
Version == 0 .. Torn

File(v) == [kind |-> "file", ver |-> v]
Link(p) == [kind |-> "link", to |-> p]
Nothing == [kind |-> "none"]
Entry == [kind: {"file"}, ver: Version] \cup [kind: {"link"}, to: Path] \cup {Nothing}

IsFile(p) == local[p].kind = "file"
IsLink(p) == local[p].kind = "link"

\* What opening p gives: links are followed into the cold area.
Content(p) ==
    IF IsFile(p) THEN local[p].ver
    ELSE IF IsLink(p) THEN cold[local[p].to] ELSE Absent

(***************************************************************************)
(* The programs' states: main()'s loops over the files its walk found, and *)
(* archive_one on one of them; a restore of one path.                      *)
(***************************************************************************)
NoSweep == [pass |-> "none", ttl |-> {}, cap |-> {}, need |-> 0]
Sweep(pass, ttl, cap, need) == [pass |-> pass, ttl |-> ttl, cap |-> cap, need |-> need]

ArchIdle == [pc |-> "idle"]
Archiving(pc, p, seen, copy) == [pc |-> pc, path |-> p, seen |-> seen, copy |-> copy]
ArchOnPath(p) == arch.pc # "idle" /\ arch.path = p

RestIdle == [pc |-> "idle"]
Restoring(pc, p, seen) == [pc |-> pc, path |-> p, seen |-> seen]

OnPath(r, p) == rest[r].pc # "idle" /\ rest[r].path = p

TypeOK ==
    /\ local \in [Path -> Entry]
    /\ cold \in [Path -> Version]
    /\ idle \in [Path -> {"hot", "idle", "stale"}]
    /\ want \in [Path -> 0 .. MaxWrite]
    /\ writes \in 0 .. MaxWrite /\ kills \in 0 .. MaxKill /\ sweeps \in 0 .. MaxSweep
    /\ sweep \in [pass: {"none", "ttl", "cap"}, ttl: SUBSET Path, cap: SUBSET Path, need: Nat]
    /\ arch \in {ArchIdle} \cup [pc: {"copy", "publish", "check", "swap"}, path: Path,
                                seen: Version, copy: Version]
    /\ rest \in [Restorer ->
         {RestIdle} \cup [pc: {"copy", "check", "swap", "recheck", "unlink"},
                          path: Path, seen: Version]]

Init ==
    /\ \E P \in SUBSET Path :   \* the files there are, one version each
         /\ Cardinality(P) <= MaxWrite
         /\ want \in {w \in [Path -> 0 .. Cardinality(P)] :
                        \A p \in Path : (w[p] # Absent) <=> (p \in P)}
         /\ \A p, q \in P : p # q => want[p] # want[q]
         /\ writes = Cardinality(P)
    /\ local = [p \in Path |-> IF want[p] = Absent THEN Nothing ELSE File(want[p])]
    /\ cold = [p \in Path |-> Absent]
    /\ idle \in [Path -> {"hot", "idle"}]
    /\ kills = 0 /\ sweeps = 0
    /\ sweep = NoSweep /\ arch = ArchIdle
    /\ rest = [r \in Restorer |-> RestIdle]

(***************************************************************************)
(* Users.                                                                  *)
(***************************************************************************)
\* Between the programs' last look at p and the rename that replaces it.
BeforeSwap(p) ==
    \/ ArchOnPath(p) /\ arch.pc = "swap"
    \/ \E r \in Restorer : OnPath(r, p) /\ rest[r].pc = "swap"

MayWrite(p) == BeforeSwap(p) => "write before swap" \in Races
MayReplace(p) ==
    /\ MayWrite(p)
    /\ (\E r \in Restorer : OnPath(r, p) /\ rest[r].pc \in {"copy", "check", "swap"})
          => "replace during restore" \in Races

\* A link that was moved away from p still leads to p's cold copy.
MayReuse(p) ==
    (\E q \in Path \ {p} : IsLink(q) /\ local[q].to = p) => "reuse old name" \in Races

\* Either program is at work on p.
Busy(p) == ArchOnPath(p) \/ \E r \in Restorer : OnPath(r, p)
MayMoveLink(p) == Busy(p) => "move while busy" \in Races

Used(p) == idle' = [idle EXCEPT ![p] = "hot"]

\* Writing p in place: a local file, or through the link its cold copy.
UserWrite(p) ==
    /\ writes < MaxWrite
    /\ Content(p) # Absent
    /\ writes' = writes + 1
    /\ want' = [want EXCEPT ![p] = writes']
    /\ IF IsFile(p)
       THEN MayReplace(p) /\ local' = [local EXCEPT ![p] = File(writes')] /\ UNCHANGED cold
       ELSE MayWrite(p) /\ cold' = [cold EXCEPT ![local[p].to] = writes'] /\ UNCHANGED local
    /\ Used(p)
    /\ UNCHANGED <<kills, sweeps, sweep, arch, rest>>

\* Creating p, or renaming a newly written temporary file over it.
UserReplace(p) ==
    /\ writes < MaxWrite
    /\ MayReplace(p) /\ MayReuse(p)
    /\ writes' = writes + 1
    /\ want' = [want EXCEPT ![p] = writes']
    /\ local' = [local EXCEPT ![p] = File(writes')]
    /\ Used(p)
    /\ UNCHANGED <<cold, kills, sweeps, sweep, arch, rest>>

UserDelete(p) ==
    /\ local[p] # Nothing
    /\ MayReplace(p)
    /\ want' = [want EXCEPT ![p] = Absent]
    /\ local' = [local EXCEPT ![p] = Nothing]
    /\ UNCHANGED <<cold, idle, writes, kills, sweeps, sweep, arch, rest>>

\* mv p q: a link keeps its target; a file's ctime changes, a version of its own.
UserMoveFile(p, q) ==
    /\ p # q
    /\ IsFile(p)
    /\ writes < MaxWrite
    /\ MayReplace(p) /\ MayReplace(q) /\ MayReuse(q)
    /\ writes' = writes + 1
    /\ local' = [local EXCEPT ![q] = File(writes'), ![p] = Nothing]
    /\ want' = [want EXCEPT ![q] = writes', ![p] = Absent]
    /\ Used(q)
    /\ UNCHANGED <<cold, kills, sweeps, sweep, arch, rest>>

UserMoveLink(p, q) ==
    /\ p # q
    /\ IsLink(p)
    /\ MayMoveLink(p) /\ MayMoveLink(q)
    /\ local' = [local EXCEPT ![q] = local[p], ![p] = Nothing]
    /\ want' = [want EXCEPT ![q] = want[p], ![p] = Absent]
    /\ UNCHANGED <<cold, idle, writes, kills, sweeps, sweep, arch, rest>>

UserRead(p) ==
    /\ IsFile(p)
    /\ idle[p] # "hot"
    /\ Used(p)
    /\ UNCHANGED <<local, cold, want, writes, kills, sweeps, sweep, arch, rest>>

\* Days go by: far longer than any sweep or restore takes.
Age(p) ==
    /\ sweep = NoSweep
    /\ \A r \in Restorer : rest[r] = RestIdle
    /\ idle[p] # "stale"
    /\ idle' = [idle EXCEPT ![p] = IF idle[p] = "hot" THEN "idle" ELSE "stale"]
    /\ UNCHANGED <<local, cold, want, writes, kills, sweeps, sweep, arch, rest>>

(***************************************************************************)
(* scratch-overflow.                                                       *)
(***************************************************************************)
Usage == Cardinality({p \in Path : IsFile(p)})

\* Regular files not used since the cutoff.
Candidates == {p \in Path : IsFile(p) /\ idle[p] # "hot"}
Stale == {p \in Candidates : Ttl /\ idle[p] = "stale"}

SweepStart ==
    /\ sweep = NoSweep
    /\ sweeps < MaxSweep
    /\ Usage >= High \/ Ttl
    /\ Candidates # {}
    /\ sweep' = Sweep("ttl", Stale, Candidates \ Stale, 0)
    /\ sweeps' = sweeps + 1
    /\ UNCHANGED <<files, kills, arch, rest>>

\* The pool is measured again before the capacity sweep.
Measure ==
    /\ sweep.pass = "ttl" /\ sweep.ttl = {} /\ arch = ArchIdle
    /\ sweep' = IF Usage >= High THEN Sweep("cap", {}, sweep.cap, Usage - Low) ELSE NoSweep
    /\ UNCHANGED <<files, kills, sweeps, arch, rest>>

SweepDone ==
    /\ sweep.pass = "cap" /\ arch = ArchIdle
    /\ sweep.cap = {} \/ sweep.need = 0
    /\ sweep' = NoSweep
    /\ UNCHANGED <<files, kills, sweeps, arch, rest>>

NextFile(p) ==
    \/ sweep.pass = "ttl" /\ p \in sweep.ttl
    \/ sweep.pass = "cap" /\ p \in sweep.cap /\ sweep.need > 0

\* archive_one stats the file again: the walk may be stale.
ArchiveStart(p) ==
    /\ arch = ArchIdle
    /\ NextFile(p)
    /\ sweep' = [sweep EXCEPT !.ttl = @ \ {p}, !.cap = @ \ {p}]
    /\ arch' = IF Content(p) = Absent THEN ArchIdle
               ELSE Archiving("copy", p, Content(p), Absent)
    /\ UNCHANGED <<files, kills, sweeps, rest>>

\* Copy to a temporary sibling of the destination and verify it.
ArchiveCopy ==
    /\ arch.pc = "copy"
    /\ IsFile(arch.path)
    /\ arch' = [arch EXCEPT !.pc = "publish",
                            !.copy = IF Content(arch.path) = arch.seen THEN arch.seen ELSE Torn]
    /\ UNCHANGED <<files, kills, sweeps, sweep, rest>>

\* O_NOFOLLOW, a changed size, a checksum, a full or failing NFS server:
\* the partial copy is removed and the file is left alone.
ArchiveCopyFails ==
    /\ arch.pc \in {"copy", "publish"}
    /\ arch' = ArchIdle
    /\ UNCHANGED <<files, kills, sweeps, sweep, rest>>

ArchivePublish ==
    /\ arch.pc = "publish"
    /\ cold' = [cold EXCEPT ![arch.path] = arch.copy]
    /\ arch' = [arch EXCEPT !.pc = "check"]
    /\ UNCHANGED <<local, idle, want, writes, kills, sweeps, sweep, rest>>

\* Mutant: the source is not looked at again after the copy.
ArchiveCheckSkipped ==
    /\ arch.pc = "check"
    /\ arch' = [arch EXCEPT !.pc = "swap"]
    /\ UNCHANGED <<files, kills, sweeps, sweep, rest>>

\* The source is compared with what it was before the copy.
ArchiveCheck ==
    /\ arch.pc = "check"
    /\ IF Content(arch.path) = arch.seen
       THEN arch' = [arch EXCEPT !.pc = "swap"] /\ UNCHANGED cold
       ELSE arch' = ArchIdle /\ cold' = [cold EXCEPT ![arch.path] = Absent]
    /\ UNCHANGED <<local, idle, want, writes, kills, sweeps, sweep, rest>>

\* Mutant: a file moved by the TTL pass is counted against the capacity need.
ArchiveSwapCounted ==
    /\ arch.pc = "swap"
    /\ local' = [local EXCEPT ![arch.path] = Link(arch.path)]
    /\ arch' = ArchIdle
    /\ sweep' = [sweep EXCEPT !.need = @ - 1]
    /\ UNCHANGED <<cold, idle, want, writes, kills, sweeps, rest>>

\* The local blocks are freed, which counts towards what the capacity sweep needs.
ArchiveSwap ==
    /\ arch.pc = "swap"
    /\ local' = [local EXCEPT ![arch.path] = Link(arch.path)]
    /\ arch' = ArchIdle
    /\ sweep' = [sweep EXCEPT !.need = IF @ = 0 THEN 0 ELSE @ - 1]
    /\ UNCHANGED <<cold, idle, want, writes, kills, sweeps, rest>>

ArchiveSwapFails ==
    /\ arch.pc = "swap"
    /\ arch' = ArchIdle
    /\ UNCHANGED <<files, kills, sweeps, sweep, rest>>

SweepKilled ==
    /\ sweep # NoSweep
    /\ kills < MaxKill
    /\ kills' = kills + 1
    /\ sweep' = NoSweep /\ arch' = ArchIdle
    /\ UNCHANGED <<files, sweeps, rest>>

(***************************************************************************)
(* scratch-restore.                                                        *)
(***************************************************************************)
\* Only a link to its own mirrored path is an archived file.
RestoreStart(r, p) ==
    /\ rest[r] = RestIdle
    /\ local[p] = Link(p)
    /\ cold[p] # Absent
    /\ rest' = [rest EXCEPT ![r] = Restoring("copy", p, cold[p])]
    /\ UNCHANGED <<files, kills, sweeps, sweep, arch>>

RestoreCopy(r) ==
    /\ rest[r].pc = "copy"
    /\ cold[rest[r].path] # Absent
    /\ rest' = [rest EXCEPT ![r].pc = "check"]
    /\ UNCHANGED <<files, kills, sweeps, sweep, arch>>

RestoreFails(r) ==
    /\ rest[r].pc \in {"copy", "check", "swap"}
    /\ rest' = [rest EXCEPT ![r] = RestIdle]
    /\ UNCHANGED <<files, kills, sweeps, sweep, arch>>

\* The cold file is compared with what it was before the copy; a copy of an
\* unchanged file is that file.
RestoreCheck(r) ==
    /\ rest[r].pc = "check"
    /\ rest' = [rest EXCEPT ![r] =
                  IF cold[@.path] = @.seen THEN [@ EXCEPT !.pc = "swap"] ELSE RestIdle]
    /\ UNCHANGED <<files, kills, sweeps, sweep, arch>>

\* os.replace over whatever is at the path now.
RestoreSwap(r) ==
    /\ rest[r].pc = "swap"
    /\ local' = [local EXCEPT ![rest[r].path] = File(rest[r].seen)]
    /\ idle' = [idle EXCEPT ![rest[r].path] = "hot"]
    /\ \E keepCold \in BOOLEAN :
         rest' = [rest EXCEPT ![r] = IF keepCold THEN RestIdle ELSE [@ EXCEPT !.pc = "recheck"]]
    /\ UNCHANGED <<cold, want, writes, kills, sweeps, sweep, arch>>

RestoreRecheck(r) ==
    /\ rest[r].pc = "recheck"
    /\ rest' = [rest EXCEPT ![r] =
                  IF cold[@.path] = @.seen THEN [@ EXCEPT !.pc = "unlink"] ELSE RestIdle]
    /\ UNCHANGED <<files, kills, sweeps, sweep, arch>>

RestoreUnlink(r) ==
    /\ rest[r].pc = "unlink"
    /\ rest' = [rest EXCEPT ![r] = RestIdle]
    /\ cold' = [cold EXCEPT ![rest[r].path] = Absent]
    /\ UNCHANGED <<local, idle, want, writes, kills, sweeps, sweep, arch>>

RestoreKilled(r) ==
    /\ rest[r] # RestIdle
    /\ kills < MaxKill
    /\ kills' = kills + 1
    /\ rest' = [rest EXCEPT ![r] = RestIdle]
    /\ UNCHANGED <<files, sweeps, sweep, arch>>

User == \E p \in Path :
    \/ UserWrite(p) \/ UserReplace(p) \/ UserDelete(p) \/ UserRead(p) \/ Age(p)
    \/ \E q \in Path : UserMoveFile(p, q) \/ UserMoveLink(p, q)

Overflow ==
    \/ SweepStart \/ Measure \/ SweepDone \/ SweepKilled
    \/ \E p \in Path : ArchiveStart(p)
    \/ ArchiveCopy \/ ArchiveCopyFails \/ ArchivePublish \/ ArchiveCheck
    \/ ArchiveSwap \/ ArchiveSwapFails

Restore == \E r \in Restorer :
    \/ \E p \in Path : RestoreStart(r, p)
    \/ RestoreCopy(r) \/ RestoreFails(r) \/ RestoreCheck(r) \/ RestoreSwap(r)
    \/ RestoreRecheck(r) \/ RestoreUnlink(r) \/ RestoreKilled(r)

Next == User \/ Overflow \/ Restore

Spec == Init /\ [][Next]_vars

(***************************************************************************)
(* Properties.                                                             *)
(***************************************************************************)
\* "Nothing has been lost" (NOTE_TEXT): whatever the sweeps and restores did
\* or were killed in the middle of, opening a path gives what its user last
\* left there.
NothingLost == \A p \in Path : want[p] # Absent => Content(p) = want[p]
=============================================================================
