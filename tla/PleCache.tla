------------------------------ MODULE PleCache ------------------------------
(***************************************************************************)
(* The prepared PLE table: prepare_cache and open_prepared_table of the    *)
(* SGLang patch, as the container entrypoint and the server call them.     *)
(* Several container sessions share one cache directory.  Each prepares    *)
(* the table under a non-blocking lock (copy it from the checkpoint, or    *)
(* verify and reuse what it finds), publishes a receipt, hands its digest  *)
(* to the server through the environment, and the server maps the table    *)
(* only if receipt and file still match.  A session may die at any step.   *)
(*                                                                         *)
(* A file is its inode, its timestamps (one number, drawn from a clock)    *)
(* and whether its bytes hash to what the plan demands.  Device and size   *)
(* do not vary.  Every change of a file changes its timestamps.  A receipt *)
(* is determined by the two stats it holds, so it stands for its digest.   *)
(***************************************************************************)
EXTENDS Naturals

CONSTANTS
  Sessions,    \* container starts: entrypoint, then server
  Inodes,      \* inode numbers; a number is reused once its file is gone
  MaxClock,    \* the environment changes files while the clock is below it
  None         \* no session, no file

ASSUME NoneAssumption == None \notin Sessions /\ None \notin Inodes
ASSUME ClockAssumption == MaxClock \in Nat

VARIABLES
  pc,         \* pc[p]: next step of session p
  src,        \* the checkpoint file that holds the shards
  table,      \* the file published under the table's name
  receipt,    \* prepared.json
  lock,       \* holder of the cache lock
  srcBase,    \* srcBase[p]: src_baseline
  tabBase,    \* tabBase[p]: the table stat p keeps or binds to the receipt
  tabStat,    \* tabStat[p]: the stat that _verify_table_content took first
  hash,       \* hash[p]: result of p's last content hash or copy
  handoff,    \* handoff[p]: R0B0TLAB_PLE_PREPARED_SHA256
  mapped,     \* mapped[p]: the table as it was when the server opened it
  clock,      \* time of the last change of any file
  disturbed,  \* history: sessions that met a busy lock, an error or a change
  slipped     \* history: times of changes between the last check and a bind

locals == <<srcBase, tabBase, tabStat, hash>>
files == <<src, table, receipt, clock>>
history == <<disturbed, slipped>>
vars == <<pc, src, table, receipt, lock, srcBase, tabBase, tabStat, hash,
          handoff, mapped, clock, disturbed, slipped>>

NoStat == [ino |-> None, time |-> 0]
NoTable == [ino |-> None, time |-> 0, data |-> "none"]
NoReceipt == [state |-> "none", src |-> 0, table |-> NoStat]
Unusable == [state |-> "unusable", src |-> 0, table |-> NoStat]
Receipt(time, stat) == [state |-> "valid", src |-> time, table |-> stat]
Stat(file) == [ino |-> file.ino, time |-> file.time]

Final == {"mapped", "refused", "dead"}
Preparing == {"srcstat", "srchash", "srccheck", "inspect", "warmstat", "warmhash",
              "warmcheck", "legacy", "legacyhash", "legacycheck", "legacybind",
              "copy", "staged", "publish", "dirsync", "bind", "receipt", "receiptsync"}

(***************************************************************************)
(* A first start finds an empty directory, a table that an earlier release *)
(* wrote without a receipt, or a receipt that this plan cannot use.        *)
(***************************************************************************)
Init ==
  /\ pc = [p \in Sessions |-> "lock"]
  /\ src = [time |-> 0, data |-> "good"]
  /\ table \in {NoTable} \cup [ino : Inodes, time : {0}, data : {"good", "bad"}]
  /\ receipt \in {NoReceipt, Unusable}
  /\ lock = None
  /\ srcBase = [p \in Sessions |-> 0]
  /\ tabBase = [p \in Sessions |-> NoStat]
  /\ tabStat = [p \in Sessions |-> NoStat]
  /\ hash = [p \in Sessions |-> "none"]
  /\ handoff = [p \in Sessions |-> NoReceipt]
  /\ mapped = [p \in Sessions |-> NoTable]
  /\ clock = 0
  /\ disturbed = {}
  /\ slipped = {}

Goto(p, from, to) == pc[p] = from /\ pc' = [pc EXCEPT ![p] = to]
\* PleCacheError: prepare_cache closes the lock and the entrypoint refuses.
Refuse(p, from) == Goto(p, from, "refused") /\ lock' = None
Set(f, p, value) == f' = [f EXCEPT ![p] = value]

\* Mutant: a busy lock does not stop the preparation.
AcquireLockAnyway(p) ==
  /\ Goto(p, "lock", "srcstat") /\ lock' = p
  /\ UNCHANGED <<locals, files, handoff, mapped, history>>

AcquireLock(p) ==
  /\ pc[p] = "lock"
  /\ \/ lock = None /\ Goto(p, "lock", "srcstat") /\ lock' = p /\ UNCHANGED disturbed
     \/ /\ lock # None
        /\ Goto(p, "lock", "refused")
        /\ disturbed' = disturbed \cup {p}
        /\ UNCHANGED lock
  /\ UNCHANGED <<locals, files, handoff, mapped, slipped>>

(***************************************************************************)
(* _verify_source: stat, hash the whole file, stat again.                  *)
(***************************************************************************)
StatSource(p) ==
  /\ Goto(p, "srcstat", "srchash")
  /\ Set(srcBase, p, src.time)
  /\ UNCHANGED <<lock, tabBase, tabStat, hash, files, handoff, mapped, history>>

HashSource(p) ==
  /\ Goto(p, "srchash", "srccheck")
  /\ Set(hash, p, src.data)
  /\ UNCHANGED <<lock, srcBase, tabBase, tabStat, files, handoff, mapped, history>>

SourceUnchanged(p) == src.time = srcBase[p]

CheckSource(p) ==
  /\ IF SourceUnchanged(p) /\ hash[p] = "good"
     THEN Goto(p, "srccheck", "inspect") /\ UNCHANGED lock
     ELSE Refuse(p, "srccheck")
  /\ UNCHANGED <<locals, files, handoff, mapped, history>>

(***************************************************************************)
(* Reuse is tried when the receipt is usable, the table is the same inode  *)
(* and the source has the receipt's stat; timestamps of the table may have *)
(* drifted.  Without any receipt a table may be adopted; otherwise, or     *)
(* when the hash fails, the table is copied again.                         *)
(***************************************************************************)
\* Mutant: the whole stat of the table must match before it is hashed.
WarmEligibleExact(p) ==
  receipt.state = "valid" /\ receipt.table = Stat(table) /\ receipt.src = srcBase[p]
WarmEligible(p) ==
  receipt.state = "valid" /\ receipt.table.ino = table.ino /\ receipt.src = srcBase[p]

Inspect(p) ==
  /\ Goto(p, "inspect", IF table.ino # None /\ WarmEligible(p) THEN "warmstat"
                        ELSE IF receipt.state = "none" THEN "legacy" ELSE "copy")
  /\ Set(tabBase, p, Stat(table))
  /\ UNCHANGED <<lock, srcBase, tabStat, hash, files, handoff, mapped, history>>

\* _verify_table_content, on the warm and on the legacy path.
StatTable(p, from, to) ==
  /\ Goto(p, from, to)
  /\ Set(tabStat, p, Stat(table))
  /\ UNCHANGED <<lock, srcBase, tabBase, hash, files, handoff, mapped, history>>

HashTable(p, from, to) ==
  /\ Goto(p, from, to)
  /\ Set(hash, p, table.data)
  /\ UNCHANGED <<lock, srcBase, tabBase, tabStat, files, handoff, mapped, history>>

\* Mutant: the stat taken before hashing is not compared afterwards.
TableUnchangedAssumed(p) == TRUE
TableUnchanged(p) == Stat(table) = tabStat[p]

\* Mutant: a receipt whose table timestamps drifted is handed off as it is.
RenewNever(p) == FALSE
RenewNeeded(p) == tabBase[p] # receipt.table

CheckWarm(p) ==
  /\ pc[p] = "warmcheck"
  /\ \/ ~TableUnchanged(p) /\ Refuse(p, "warmcheck") /\ UNCHANGED handoff
     \/ /\ TableUnchanged(p) /\ hash[p] # "good"
        /\ Goto(p, "warmcheck", "copy") /\ UNCHANGED <<lock, handoff>>
     \/ /\ TableUnchanged(p) /\ hash[p] = "good"
        /\ ~(SourceUnchanged(p) /\ Stat(table) = tabBase[p])
        /\ Refuse(p, "warmcheck") /\ UNCHANGED handoff
     \/ /\ TableUnchanged(p) /\ hash[p] = "good"
        /\ SourceUnchanged(p) /\ Stat(table) = tabBase[p]
        /\ RenewNeeded(p)
        /\ Goto(p, "warmcheck", "receipt") /\ UNCHANGED <<lock, handoff>>
     \/ /\ TableUnchanged(p) /\ hash[p] = "good"
        /\ SourceUnchanged(p) /\ Stat(table) = tabBase[p]
        /\ ~RenewNeeded(p)
        /\ Goto(p, "warmcheck", "open") /\ lock' = None /\ Set(handoff, p, receipt)
  /\ UNCHANGED <<locals, files, mapped, history>>

TryAdoptLegacy(p) ==
  \/ /\ table.ino = None
     /\ Goto(p, "legacy", "copy")
     /\ UNCHANGED <<lock, locals, files, handoff, mapped, history>>
  \/ table.ino # None /\ StatTable(p, "legacy", "legacyhash")

CheckLegacy(p) ==
  /\ pc[p] = "legacycheck"
  /\ \/ ~TableUnchanged(p) /\ Refuse(p, "legacycheck")
     \/ /\ TableUnchanged(p)
        /\ Goto(p, "legacycheck", IF hash[p] = "good" THEN "legacybind" ELSE "copy")
        /\ UNCHANGED lock
  /\ UNCHANGED <<locals, files, handoff, mapped, history>>

\* The stat bound to the receipt is read anew, after the verification.
BindLegacy(p) ==
  /\ pc[p] = "legacybind"
  /\ \/ ~SourceUnchanged(p) /\ Refuse(p, "legacybind") /\ UNCHANGED tabBase
     \/ /\ SourceUnchanged(p)
        /\ Goto(p, "legacybind", "receipt") /\ Set(tabBase, p, Stat(table)) /\ UNCHANGED lock
  /\ UNCHANGED <<srcBase, tabStat, hash, files, handoff, mapped, history>>

(***************************************************************************)
(* _materialize: copy into a private file, verify the copy and the source, *)
(* replace the table, then open it by name again.                          *)
(***************************************************************************)
CopyShards(p) ==
  /\ Goto(p, "copy", "staged")
  /\ Set(hash, p, src.data)
  /\ UNCHANGED <<lock, srcBase, tabBase, tabStat, files, handoff, mapped, history>>

\* Mutant: the copy is published as it is.
StagedUnchecked(p) == TRUE
StagedGood(p) == hash[p] = "good" /\ SourceUnchanged(p)

CheckStaged(p) ==
  /\ IF StagedGood(p) THEN Goto(p, "staged", "publish") /\ UNCHANGED lock
                      ELSE Refuse(p, "staged")
  /\ UNCHANGED <<locals, files, handoff, mapped, history>>

Publish(p) ==
  /\ Goto(p, "publish", "dirsync")
  /\ \E i \in Inodes \ {table.ino} :
       table' = [ino |-> i, time |-> clock + 1, data |-> hash[p]]
  /\ clock' = clock + 1
  /\ UNCHANGED <<lock, locals, src, receipt, handoff, mapped, history>>

SyncDirectory(p) ==
  /\ Goto(p, "dirsync", "bind")
  /\ UNCHANGED <<lock, locals, files, handoff, mapped, history>>

BindPublished(p) ==
  /\ Goto(p, "bind", "receipt")
  /\ Set(tabBase, p, Stat(table))
  /\ UNCHANGED <<lock, srcBase, tabStat, hash, files, handoff, mapped, history>>

\* _finalize_receipt: replace prepared.json, then synchronise the directory.
ReplaceReceipt(p) ==
  /\ Goto(p, "receipt", "receiptsync")
  /\ receipt' = Receipt(srcBase[p], tabBase[p])
  /\ UNCHANGED <<lock, locals, src, table, clock, handoff, mapped, history>>

FinishReceipt(p) ==
  /\ Goto(p, "receiptsync", "open")
  /\ lock' = None
  /\ Set(handoff, p, Receipt(srcBase[p], tabBase[p]))
  /\ UNCHANGED <<locals, files, mapped, history>>

(***************************************************************************)
(* The server: the receipt on disk is the one handed over, then the table  *)
(* under its name has the receipt's stat.                                  *)
(***************************************************************************)
ReadReceipt(p) ==
  /\ Goto(p, "open", IF receipt = handoff[p] THEN "opentable" ELSE "refused")
  /\ UNCHANGED <<lock, locals, files, handoff, mapped, history>>

\* Mutant: the server compares the inode only, as preparation does.
FreshInode(p) == table.ino # None /\ table.ino = handoff[p].table.ino
Fresh(p) == table.ino # None /\ Stat(table) = handoff[p].table

OpenTable(p) ==
  /\ pc[p] = "opentable"
  /\ \/ Fresh(p) /\ Goto(p, "opentable", "mapped") /\ Set(mapped, p, table)
     \/ ~Fresh(p) /\ Goto(p, "opentable", "refused") /\ UNCHANGED mapped
  /\ UNCHANGED <<lock, locals, files, handoff, history>>

(***************************************************************************)
(* Failures: any system call of the preparation may fail (no space, a      *)
(* short read, a failed fsync), and the process may be killed; the kernel  *)
(* releases the lock.  The private copy of a killed process stays behind   *)
(* under a name nobody opens again.                                        *)
(***************************************************************************)
SystemCallFails(p) ==
  /\ pc[p] \in Preparing
  /\ Refuse(p, pc[p])
  /\ disturbed' = disturbed \cup {p}
  /\ UNCHANGED <<locals, files, handoff, mapped, slipped>>

Kill(p) ==
  /\ pc[p] \notin Final
  /\ pc' = [pc EXCEPT ![p] = "dead"]
  /\ lock' = IF lock = p THEN None ELSE lock
  /\ UNCHANGED <<locals, files, handoff, mapped, history>>

(***************************************************************************)
(* The environment: a mapped reader or a backup touches timestamps only; a *)
(* write changes the bytes as well.                                        *)
(***************************************************************************)
Disturb == disturbed' = disturbed \cup {p \in Sessions : pc[p] \notin Final \cup {"lock"}}
BindWindow == \E p \in Sessions : pc[p] \in {"legacybind", "dirsync", "bind"}

ChangeTable ==
  /\ table.ino # None /\ clock < MaxClock
  /\ clock' = clock + 1
  /\ \E data \in {table.data, "bad"} :
       table' = [ino |-> table.ino, time |-> clock + 1, data |-> data]
  /\ slipped' = IF BindWindow THEN slipped \cup {clock + 1} ELSE slipped
  /\ Disturb
  /\ UNCHANGED <<pc, src, receipt, lock, locals, handoff, mapped>>

ChangeSource ==
  /\ clock < MaxClock
  /\ clock' = clock + 1
  /\ \E data \in {src.data, "bad"} : src' = [time |-> clock + 1, data |-> data]
  /\ Disturb
  /\ UNCHANGED <<pc, table, receipt, lock, locals, handoff, mapped, slipped>>

Prepare(p) ==
  \/ AcquireLock(p) \/ StatSource(p) \/ HashSource(p) \/ CheckSource(p) \/ Inspect(p)
  \/ StatTable(p, "warmstat", "warmhash") \/ HashTable(p, "warmhash", "warmcheck")
  \/ CheckWarm(p)
  \/ TryAdoptLegacy(p) \/ HashTable(p, "legacyhash", "legacycheck")
  \/ CheckLegacy(p) \/ BindLegacy(p)
  \/ CopyShards(p) \/ CheckStaged(p) \/ Publish(p) \/ SyncDirectory(p) \/ BindPublished(p)
  \/ ReplaceReceipt(p) \/ FinishReceipt(p)

Serve(p) == ReadReceipt(p) \/ OpenTable(p)

AllFinal == (\A p \in Sessions : pc[p] \in Final) /\ UNCHANGED vars

Next ==
  \/ \E p \in Sessions : Prepare(p) \/ Serve(p) \/ SystemCallFails(p) \/ Kill(p)
  \/ ChangeTable
  \/ ChangeSource
  \/ AllFinal

Spec == Init /\ [][Next]_vars

(***************************************************************************)
(* Properties.                                                             *)
(***************************************************************************)
Stats == [ino : Inodes \cup {None}, time : Nat]
Receipts == [state : {"none", "unusable", "valid"}, src : Nat, table : Stats]
Tables == [ino : Inodes, time : Nat, data : {"good", "bad"}] \cup {NoTable}

\* The types, and: exactly the session that prepares holds the lock.
TypeOK ==
  /\ pc \in [Sessions -> Preparing \cup Final \cup {"lock", "open", "opentable"}]
  /\ src \in [time : Nat, data : {"good", "bad"}]
  /\ table \in Tables
  /\ receipt \in Receipts
  /\ lock \in Sessions \cup {None}
  /\ \A p \in Sessions : pc[p] \in Preparing <=> lock = p
  /\ srcBase \in [Sessions -> Nat]
  /\ tabBase \in [Sessions -> Stats]
  /\ tabStat \in [Sessions -> Stats]
  /\ hash \in [Sessions -> {"none", "good", "bad"}]
  /\ handoff \in [Sessions -> Receipts]
  /\ mapped \in [Sessions -> Tables]
  /\ clock \in Nat
  /\ disturbed \subseteq Sessions
  /\ slipped \subseteq Nat

\* The server maps a table whose bytes were verified by its own preparation
\* (open_prepared_table does not hash again), whatever other sessions,
\* crashes and writers did, unless a change fell between the last check of
\* the file and the fstat whose result goes into the receipt.
MappedIsVerified ==
  \A p \in Sessions : pc[p] = "mapped" =>
    mapped[p].data = "good" \/ mapped[p].time \in slipped

\* The receipt on disk never vouches for bytes that were not verified: while
\* the table has the receipt's stat it is good, also after a crash between
\* replacing the table and replacing the receipt (the same exception).
ReceiptHonest ==
  receipt.state = "valid" /\ receipt.table = Stat(table) =>
    table.data = "good" \/ table.time \in slipped

\* _materialize publishes no file that is not a full good copy, even when the
\* source changes while it is copied or hashed.
PublishesGood ==
  [][table'.ino # table.ino => table'.data = "good"]_vars

\* Whatever earlier sessions left behind (killed at any step, a bad table, an
\* unusable receipt, drifted timestamps), and whatever sessions run beside
\* it, a session that meets no busy lock, no failing call and no change of a
\* file while it runs is not refused, as long as the source is good.
UndisturbedSucceeds ==
  \A p \in Sessions : pc[p] = "refused" => p \in disturbed \/ src.data = "bad"

\* docs/build.md:85-89: drift of the table's timestamps alone never makes a
\* preparation copy the table again.
DriftNeverCopies ==
  \A p \in Sessions :
    /\ pc[p] \in {"copy", "staged", "publish"}
    /\ receipt.state = "valid" /\ receipt.src = srcBase[p]
    /\ table.ino # None /\ receipt.table.ino = table.ino
    => table.data = "bad"
=============================================================================
