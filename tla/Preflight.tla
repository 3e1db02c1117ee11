----------------------------- MODULE Preflight -----------------------------
(***************************************************************************)
(* scripts/preflight.py (the host admission of a serve), together with the *)
(* space the preparation of the PLE table takes on the same filesystem     *)
(* (_preflight_space and _materialize of the patch).  Launches follow each *)
(* other; one killed while it copies leaves its temporary table behind.    *)
(***************************************************************************)
EXTENDS Naturals, Sequences, FiniteSets

CONSTANTS
  TableSize,     \* ple_bytes, in units of space
  DiskReserve,   \* DISK_RESERVE_GIB
  PrepReserve,   \* _SPACE_RESERVE_BYTES
  MaxFree,       \* bound: free space at the start
  MaxLaunches,   \* bound: launches
  MaxTaken,      \* bound: space others take in one launch
  MountTables,   \* mount tables of the host, sequences of [point, fstype]
  PleDir         \* the path of the cache directory, a sequence of names

ASSUME SpaceAssumption ==
  /\ {TableSize, DiskReserve, PrepReserve, MaxFree, MaxLaunches, MaxTaken} \subseteq Nat
  /\ PrepReserve <= DiskReserve
ASSUME MountAssumption == MountTables \subseteq Seq([point : Seq(STRING), fstype : STRING])

Remote == {"nfs4", "fuse"}     \* REJECT_FILESYSTEMS, fuse.*
NoMounts == << >>              \* mountinfo unreadable, or nothing above the target

\* What the probes return; "unknown" is None.
Hosts == [arch : {"aarch64", "x86_64", "unknown"}, ram : {"unknown", "low", "enough"},
          gpus : {"unknown", "none", "GB10", "other", "two"}, load : {"idle", "busy"},
          apps : {"none", "some"}, trees : {"readable", "unknown"},
          statvfs : {"answers", "unknown"}, mounts : MountTables \cup {NoMounts}]

GoodHost(mounts) == [arch |-> "aarch64", ram |-> "enough", gpus |-> "GB10", load |-> "idle",
                     apps |-> "none", trees |-> "readable", statvfs |-> "answers",
                     mounts |-> mounts]
\* Bound: at most one probe besides the mounts is not what it should be.
OneOff == {h \in Hosts : Cardinality({p \in DOMAIN h : h[p] # GoodHost(h.mounts)[p]}) <= 1}

VARIABLES
  host,       \* the probes
  free,       \* f_bavail of the filesystem of PleDir
  table,      \* the published table: "none", "good" or "stale"
  temps,      \* space held by temporary tables of killed launches
  tmp,        \* space held by the one being copied
  phase,      \* "preflight", "prepare", "copy", "ready", "refused", "rejected" or "dead"
  taken,      \* history: space others took since the preflight of this launch
  launches

space == <<host, free, table, temps, tmp, phase, taken, launches>>

PreflightInit ==
  /\ host \in OneOff /\ free \in 0..MaxFree
  /\ table \in {"none", "good", "stale"}
  /\ temps = 0 /\ tmp = 0 /\ phase = "preflight" /\ taken = 0 /\ launches = 1

(***************************************************************************)
(* run_preflight.  Every check is "pass", "fail" or "unknown".             *)
(***************************************************************************)
Decide(known, ok) == IF ~known THEN "unknown" ELSE IF ok THEN "pass" ELSE "fail"

GpuChecks(h) ==
  LET known == h.gpus # "unknown"
  IN  {Decide(known, h.gpus = "GB10"),                      \* gpu_inventory
       Decide(known, h.gpus # "none" /\ h.load = "idle"),   \* gpu_idle
       Decide(known, h.apps = "none")}                      \* gpu_compute_apps

AtOrAbove(point, target) == Len(point) <= Len(target) /\ SubSeq(target, 1, Len(point)) = point

\* Mutant: the first mount above the target is taken.
MountForFirst(target, mounts) ==
  LET above == {i \in DOMAIN mounts : AtOrAbove(mounts[i].point, target)}
  IN  {i \in above : \A j \in above : i <= j}

\* The deepest mount above the target; the first of those with the same point.
MountFor(target, mounts) ==
  LET above == {i \in DOMAIN mounts : AtOrAbove(mounts[i].point, target)}
      deep(i) == Len(mounts[i].point)
  IN  {i \in above : \A j \in above : deep(j) < deep(i) \/ (deep(j) = deep(i) /\ i <= j)}

TableBytes == IF table = "none" THEN 0 ELSE TableSize
\* Every regular file under the directory counts, whatever it is.
PresentBytes == TableBytes + temps

MissingBytes == IF PresentBytes >= TableSize THEN 0 ELSE TableSize - PresentBytes

\* Mutant: the missing bytes of the table are not charged.
ChargedReserve == DiskReserve
\* The serve phase charges the missing table and the reserve, to one filesystem.
Charged == MissingBytes + DiskReserve

DiskChecks(h) ==
  LET mount == MountFor(PleDir, h.mounts)
  IN  IF h.mounts = NoMounts \/ h.trees = "unknown" \/ mount = {} THEN {"unknown"}
      ELSE {Decide(h.statvfs # "unknown", free >= Charged),
            Decide(TRUE, \A i \in mount : h.mounts[i].fstype \notin Remote)}

Status(h) ==
  IF {Decide(h.arch # "unknown", h.arch = "aarch64"), Decide(h.ram # "unknown", h.ram = "enough")}
     \cup GpuChecks(h) \cup DiskChecks(h) = {"pass"}
  THEN "PASS" ELSE "FAIL"

RunPreflight ==
  /\ phase = "preflight"
  /\ phase' = IF Status(host) = "PASS" THEN "prepare" ELSE "rejected"
  /\ taken' = 0
  /\ UNCHANGED <<host, free, table, temps, tmp, launches>>

(***************************************************************************)
(* The space of the preparation.                                           *)
(***************************************************************************)
WarmTable ==
  /\ phase = "prepare" /\ table = "good"
  /\ phase' = "ready"
  /\ UNCHANGED <<host, free, table, temps, tmp, taken, launches>>

EnoughSpace == free >= TableSize + PrepReserve

AdmitSpace ==
  /\ phase = "prepare" /\ table # "good"
  /\ phase' = IF EnoughSpace THEN "copy" ELSE "refused"
  /\ taken' = IF EnoughSpace THEN 0 ELSE taken
  /\ UNCHANGED <<host, free, table, temps, tmp, launches>>

\* A failed write, or a staged table that is not as planned, removes the copy.
Discard == free' = free + tmp /\ tmp' = 0 /\ phase' = "refused"

CopyPart ==
  /\ phase = "copy" /\ tmp < TableSize
  /\ IF free = 0 THEN Discard
     ELSE free' = free - 1 /\ tmp' = tmp + 1 /\ UNCHANGED phase
  /\ UNCHANGED <<host, table, temps, taken, launches>>

PublishTable ==
  /\ phase = "copy" /\ tmp = TableSize
  /\ \/ table' = "good" /\ free' = free + TableBytes /\ tmp' = 0 /\ phase' = "ready"
     \/ Discard /\ UNCHANGED table
  /\ UNCHANGED <<host, temps, taken, launches>>

LaunchKilled ==
  /\ phase \in {"preflight", "prepare", "copy", "ready"}
  /\ temps' = temps + tmp /\ tmp' = 0 /\ phase' = "dead"
  /\ UNCHANGED <<host, free, table, taken, launches>>

Relaunch ==
  /\ phase \in {"ready", "refused", "rejected", "dead"} /\ launches < MaxLaunches
  /\ launches' = launches + 1 /\ phase' = "preflight"
  /\ UNCHANGED <<host, free, table, temps, tmp, taken>>

OthersWrite ==
  /\ free > 0 /\ taken < MaxTaken
  /\ free' = free - 1 /\ taken' = taken + 1
  /\ UNCHANGED <<host, table, temps, tmp, phase, launches>>

TableSpoiled ==
  /\ table = "good" /\ phase \notin {"copy", "prepare"}
  /\ table' = "stale"
  /\ UNCHANGED <<host, free, temps, tmp, phase, taken, launches>>

PreflightNext == \/ RunPreflight \/ WarmTable \/ AdmitSpace \/ CopyPart \/ PublishTable
                 \/ LaunchKilled \/ Relaunch \/ OthersWrite \/ TableSpoiled

PreflightSpec == PreflightInit /\ [][PreflightNext]_space

(***************************************************************************)
(* Properties.                                                             *)
(***************************************************************************)
\* The mount the kernel shows at the target: of those at one point, the last.
Visible(h) ==
  LET above == {i \in DOMAIN h.mounts : AtOrAbove(h.mounts[i].point, PleDir)}
  IN  h.mounts[CHOOSE i \in above : \A j \in above :
                 \/ Len(h.mounts[j].point) < Len(h.mounts[i].point)
                 \/ Len(h.mounts[j].point) = Len(h.mounts[i].point) /\ j <= i]

Overmounted(h) == \E i, j \in DOMAIN h.mounts : i # j /\ h.mounts[i].point = h.mounts[j].point

\* A launch gets past the preflight only on a host that is right and fully known
\* (run_preflight fails closed): architecture, memory, one idle GB10, and a
\* cache directory on a local filesystem, as long as no mount hides another.
PassIsSafe ==
  phase \in {"prepare", "copy"} =>
    /\ host.arch = "aarch64" /\ host.ram = "enough"
    /\ host.gpus = "GB10" /\ host.load = "idle" /\ host.apps = "none"
    /\ host.trees = "readable" /\ host.statvfs = "answers" /\ host.mounts # NoMounts
    /\ Overmounted(host) \/ Visible(host).fstype \notin Remote

\* The two space checks agree.  Preparation refuses for want of space only if
\* others wrote to the disk after the preflight, or the directory held something
\* that looked like the table to the preflight and is not: a stale table or
\* temporary tables of killed launches.  Once admitted, a copy has the space it
\* still needs unless others take more than the reserve, so that killed
\* launches never fill the disk.
SpaceAgreed ==
  /\ phase = "refused" /\ taken = 0 /\ tmp = 0 => temps > 0 \/ table # "none" \/ EnoughSpace
  /\ phase = "copy" /\ taken <= PrepReserve => free >= TableSize - tmp
=============================================================================
