--------------------------- MODULE PleCacheProofs ---------------------------
(***************************************************************************)
(* Proofs about PleCache.  The inductive invariant follows a stat from the *)
(* check of the bytes to the server's open: whoever holds the lock knows   *)
(* the table is good while its stat is the one it took; a receipt, a stat  *)
(* about to be written to one, and a digest handed to a server all vouch   *)
(* for the table (Vouches); and no stat kept anywhere lies in the future,  *)
(* so that a change of the table, whose time is new, matches none of them. *)
(***************************************************************************)
EXTENDS PleCache, TLAPS

\* The stat says the truth about the table, except for a slipped change.
Vouches(stat) == stat = Stat(table) => (table.data = "good" \/ table.time \in slipped)

TimeAt(p) ==
  /\ tabBase[p].time <= clock
  /\ tabStat[p].time <= clock
  /\ handoff[p].table.time <= clock
HashAt(p) ==
  /\ (pc[p] \in {"warmcheck", "legacycheck"} /\ hash[p] = "good") => Vouches(tabStat[p])
  /\ pc[p] = "publish" => hash[p] = "good"
  /\ pc[p] \in {"legacybind", "dirsync", "bind"} => Vouches(Stat(table))
  /\ pc[p] \in {"receipt", "receiptsync"} => Vouches(tabBase[p])
HandoffAt(p) ==
  /\ handoff[p].state = "valid" => Vouches(handoff[p].table)
  /\ pc[p] \in {"open", "opentable"} => handoff[p].state = "valid"
WarmAt(p) == pc[p] \in {"warmstat", "warmhash", "warmcheck"} => receipt.state = "valid"
MappedAt(p) == pc[p] = "mapped" => (mapped[p].data = "good" \/ mapped[p].time \in slipped)

At(p) == TimeAt(p) /\ HashAt(p) /\ HandoffAt(p) /\ WarmAt(p) /\ MappedAt(p)
FileInv ==
  /\ table.time <= clock
  /\ receipt.table.time <= clock
  /\ receipt.state = "valid" => Vouches(receipt.table)

\* What holds besides the types.
Aux == FileInv /\ \A p \in Sessions : At(p)
CacheInv == TypeOK /\ Aux

\* A preparation that copies over a table it could have reused read bad bytes
\* there, and the table cannot have become good since.
CopyAt(p) ==
  /\ pc[p] \in {"warmstat", "warmhash", "warmcheck"} => table.ino # None
  /\ (pc[p] = "warmcheck" /\ hash[p] # "good" /\ tabStat[p] = Stat(table)) => table.data = "bad"
  /\ pc[p] \in {"legacy", "legacyhash", "legacycheck"} => receipt.state # "valid"
  /\ (pc[p] \in {"copy", "staged", "publish"} /\ WarmEligible(p) /\ table.ino # None)
       => table.data = "bad"
CopyInv == \A p \in Sessions : CopyAt(p)

\* Steps of a preparation that finds the table and its receipt in order.
Rechecking == {"srcstat", "srchash", "srccheck", "inspect", "warmstat", "warmhash", "warmcheck"}

\* What an undisturbed session can rely on at each step, its server included:
\* nobody has prepared anything else since, and whoever prepares now will not.
SourceCalm(p) ==
  /\ pc[p] \in Preparing \ {"srcstat"} => srcBase[p] = src.time
  /\ pc[p] \in {"srccheck", "staged"} => hash[p] = "good"
TableCalm(p) ==
  /\ pc[p] \in {"warmstat", "warmhash", "warmcheck"} =>
       /\ tabBase[p] = Stat(table) /\ receipt.state = "valid" /\ receipt.src = srcBase[p]
  /\ pc[p] \in {"warmhash", "warmcheck", "legacyhash", "legacycheck"} => tabStat[p] = Stat(table)
  /\ pc[p] \in {"warmcheck", "legacycheck"} => hash[p] = table.data
  /\ pc[p] \in {"warmstat", "warmhash", "warmcheck", "legacyhash", "legacycheck"} => table.ino # None
  /\ pc[p] \in {"legacybind", "dirsync", "bind", "receipt", "receiptsync"} =>
       table.ino # None /\ table.data = "good"
  /\ pc[p] \in {"receipt", "receiptsync"} => tabBase[p] = Stat(table)
  /\ pc[p] = "receiptsync" => receipt = Receipt(srcBase[p], tabBase[p])
ServerCalm(p) ==
  pc[p] \in {"open", "opentable"} =>
    /\ handoff[p] = receipt /\ receipt = Receipt(src.time, Stat(table))
    /\ table.ino # None /\ table.data = "good"
    /\ \A q \in Sessions : pc[q] \in Preparing => q \notin disturbed /\ pc[q] \in Rechecking
CalmAt(p) == SourceCalm(p) /\ TableCalm(p) /\ ServerCalm(p) /\ pc[p] # "refused"
CalmInv ==
  /\ \A p \in Sessions : pc[p] = "lock" => p \notin disturbed
  /\ src.data = "good" => \A p \in Sessions \ disturbed : CalmAt(p)

USE NoneAssumption, ClockAssumption

\* The empty directory, the legacy table and the unusable receipt.
LEMMA CacheInit == Init => CacheInv
<1> SUFFICES ASSUME Init PROVE CacheInv OBVIOUS
<1>1. TypeOK
  BY DEF Init, TypeOK, Stats, Receipts, Tables, NoStat, NoTable, NoReceipt, Unusable,
         Preparing, Final
<1>2. FileInv
  BY DEF Init, FileInv, NoStat, NoTable, NoReceipt, Unusable
<1>3. ASSUME NEW p \in Sessions PROVE At(p)
  BY DEF Init, At, TimeAt, HashAt, HandoffAt, WarmAt, MappedAt, NoStat, NoReceipt
<1> QED BY <1>1, <1>2, <1>3 DEF CacheInv, Aux

\* Stat of a table is a stat.
LEMMA StatType == ASSUME TypeOK PROVE Stat(table) \in Stats /\ table.time \in Nat
BY DEF TypeOK, Tables, NoTable, Stat, Stats

\* Every step of a session keeps the types, and the lock with its holder.
LEMMA SessionType ==
  ASSUME TypeOK, Aux, NEW p \in Sessions, Prepare(p) \/ Serve(p) \/ SystemCallFails(p) \/ Kill(p)
  PROVE  TypeOK'
<1>0. Stat(table) \in Stats /\ table.time \in Nat BY StatType
<1>1. CASE AcquireLock(p)
  BY <1>0, <1>1 DEF AcquireLock, Goto, Refuse, Set, locals, files, history, TypeOK, Preparing, Final
<1>2. CASE StatSource(p)
  BY <1>0, <1>2 DEF StatSource, Goto, Refuse, Set, locals, files, history, TypeOK, Preparing, Final
<1>3. CASE HashSource(p)
  BY <1>0, <1>3 DEF HashSource, Goto, Refuse, Set, locals, files, history, TypeOK, Preparing, Final
<1>4. CASE CheckSource(p)
  BY <1>0, <1>4 DEF CheckSource, Goto, Refuse, Set, locals, files, history, TypeOK, Preparing, Final
<1>5. CASE Inspect(p)
  BY <1>0, <1>5 DEF Inspect, Goto, Refuse, Set, locals, files, history, TypeOK, Preparing, Final
<1>6. CASE StatTable(p, "warmstat", "warmhash")
  BY <1>0, <1>6 DEF StatTable, Goto, Refuse, Set, locals, files, history, TypeOK, Preparing, Final
<1>7. CASE HashTable(p, "warmhash", "warmcheck")
  BY <1>0, <1>7 DEF HashTable, Goto, Refuse, Set, locals, files, history, TypeOK, Preparing, Final, Tables, NoTable
<1>8. CASE CheckWarm(p)
  BY <1>0, <1>8 DEF CheckWarm, Goto, Refuse, Set, locals, files, history, TypeOK, Preparing, Final
<1>9. CASE TryAdoptLegacy(p)
  <2>1. CASE StatTable(p, "legacy", "legacyhash")
    BY <1>0, <2>1 DEF StatTable, Goto, Set, files, history, TypeOK, Preparing, Final
  <2>2. CASE Goto(p, "legacy", "copy") /\ UNCHANGED <<lock, locals, files, handoff, mapped, history>>
    BY <2>2 DEF Goto, locals, files, history, TypeOK, Preparing, Final
  <2> QED BY <1>9, <2>1, <2>2 DEF TryAdoptLegacy
<1>10. CASE HashTable(p, "legacyhash", "legacycheck")
  BY <1>0, <1>10 DEF HashTable, Goto, Refuse, Set, locals, files, history, TypeOK, Preparing, Final, Tables, NoTable
<1>11. CASE CheckLegacy(p)
  BY <1>0, <1>11 DEF CheckLegacy, Goto, Refuse, Set, locals, files, history, TypeOK, Preparing, Final
<1>12. CASE BindLegacy(p)
  BY <1>0, <1>12 DEF BindLegacy, Goto, Refuse, Set, locals, files, history, TypeOK, Preparing, Final
<1>13. CASE CopyShards(p)
  BY <1>0, <1>13 DEF CopyShards, Goto, Refuse, Set, locals, files, history, TypeOK, Preparing, Final
<1>14. CASE CheckStaged(p)
  BY <1>0, <1>14 DEF CheckStaged, Goto, Refuse, Set, locals, files, history, TypeOK, Preparing, Final
<1>15. CASE Publish(p)
  BY <1>0, <1>15 DEF Publish, Goto, Refuse, Set, locals, files, history, TypeOK, Aux, At, HashAt, Preparing, Final, Tables
<1>16. CASE SyncDirectory(p)
  BY <1>0, <1>16 DEF SyncDirectory, Goto, Refuse, Set, locals, files, history, TypeOK, Preparing, Final
<1>17. CASE BindPublished(p)
  BY <1>0, <1>17 DEF BindPublished, Goto, Refuse, Set, locals, files, history, TypeOK, Preparing, Final
<1>18. CASE ReplaceReceipt(p)
  BY <1>0, <1>18 DEF ReplaceReceipt, Goto, Refuse, Set, locals, files, history, TypeOK, Preparing, Final, Receipts, Receipt
<1>19. CASE FinishReceipt(p)
  BY <1>0, <1>19 DEF FinishReceipt, Goto, Refuse, Set, locals, files, history, TypeOK, Preparing, Final, Receipts, Receipt
<1>20. CASE ReadReceipt(p)
  BY <1>0, <1>20 DEF ReadReceipt, Goto, Refuse, Set, locals, files, history, TypeOK, Preparing, Final
<1>21. CASE OpenTable(p)
  BY <1>0, <1>21 DEF OpenTable, Goto, Refuse, Set, locals, files, history, TypeOK, Preparing, Final
<1>22. CASE SystemCallFails(p)
  BY <1>0, <1>22 DEF SystemCallFails, Goto, Refuse, Set, locals, files, history, TypeOK, Preparing, Final
<1>23. CASE Kill(p)
  BY <1>0, <1>23 DEF Kill, Goto, Refuse, Set, locals, files, history, TypeOK, Preparing, Final
<1> QED BY <1>1, <1>2, <1>3, <1>4, <1>5, <1>6, <1>7, <1>8, <1>9, <1>10, <1>11, <1>12, <1>13, <1>14, <1>15, <1>16, <1>17, <1>18, <1>19, <1>20, <1>21, <1>22, <1>23 DEF Prepare, Serve

\* A step of p that leaves the files alone and keeps p's part keeps all parts.
LEMMA LocalStep ==
  ASSUME Aux, NEW p \in Sessions, UNCHANGED <<table, receipt, clock, slipped>>, At(p)',
         \A q \in Sessions \ {p} :
           /\ pc'[q] = pc[q] /\ hash'[q] = hash[q] /\ tabStat'[q] = tabStat[q]
           /\ tabBase'[q] = tabBase[q] /\ handoff'[q] = handoff[q] /\ mapped'[q] = mapped[q]
  PROVE  Aux'
<1>1. FileInv' BY DEF Aux, FileInv, Vouches, Stat
<1>2. ASSUME NEW q \in Sessions \ {p} PROVE At(q)'
  BY <1>2 DEF Aux, At, TimeAt, HashAt, HandoffAt, WarmAt, MappedAt, Vouches, Stat
<1> QED BY <1>1, <1>2 DEF Aux

\* Steps of a session that leave the files alone keep the invariant.
LEMMA QuietAux ==
  ASSUME TypeOK, Aux, NEW p \in Sessions,
         Prepare(p) \/ Serve(p) \/ SystemCallFails(p) \/ Kill(p), ~Publish(p), ~ReplaceReceipt(p)
  PROVE  Aux'
<1>0. Stat(table) \in Stats /\ Stat(table).time = table.time /\ table.time <= clock
  BY StatType DEF Aux, FileInv, Stat
<1>a. At(p) BY DEF Aux
<1>1. CASE AcquireLock(p)
  <2>1. /\ UNCHANGED <<table, receipt, clock, slipped>>
        /\ \A q \in Sessions \ {p} :
             /\ pc'[q] = pc[q] /\ hash'[q] = hash[q] /\ tabStat'[q] = tabStat[q]
             /\ tabBase'[q] = tabBase[q] /\ handoff'[q] = handoff[q] /\ mapped'[q] = mapped[q]
    BY <1>1 DEF AcquireLock, Goto, Refuse, Set, locals, files, history, TypeOK
  <2>2. At(p)'
    BY <1>0, <1>a, <1>1, <2>1 DEF AcquireLock, Goto, Refuse, Set, locals, files, history, TypeOK,
       At, TimeAt, HashAt, HandoffAt, WarmAt, MappedAt, Vouches
  <2> QED BY <2>1, <2>2, LocalStep
<1>2. CASE StatSource(p)
  <2>1. /\ UNCHANGED <<table, receipt, clock, slipped>>
        /\ \A q \in Sessions \ {p} :
             /\ pc'[q] = pc[q] /\ hash'[q] = hash[q] /\ tabStat'[q] = tabStat[q]
             /\ tabBase'[q] = tabBase[q] /\ handoff'[q] = handoff[q] /\ mapped'[q] = mapped[q]
    BY <1>2 DEF StatSource, Goto, Refuse, Set, locals, files, history, TypeOK
  <2>2. At(p)'
    BY <1>0, <1>a, <1>2, <2>1 DEF StatSource, Goto, Refuse, Set, locals, files, history, TypeOK,
       At, TimeAt, HashAt, HandoffAt, WarmAt, MappedAt, Vouches
  <2> QED BY <2>1, <2>2, LocalStep
<1>3. CASE HashSource(p)
  <2>1. /\ UNCHANGED <<table, receipt, clock, slipped>>
        /\ \A q \in Sessions \ {p} :
             /\ pc'[q] = pc[q] /\ hash'[q] = hash[q] /\ tabStat'[q] = tabStat[q]
             /\ tabBase'[q] = tabBase[q] /\ handoff'[q] = handoff[q] /\ mapped'[q] = mapped[q]
    BY <1>3 DEF HashSource, Goto, Refuse, Set, locals, files, history, TypeOK
  <2>2. At(p)'
    BY <1>0, <1>a, <1>3, <2>1 DEF HashSource, Goto, Refuse, Set, locals, files, history, TypeOK,
       At, TimeAt, HashAt, HandoffAt, WarmAt, MappedAt, Vouches
  <2> QED BY <2>1, <2>2, LocalStep
<1>4. CASE CheckSource(p)
  <2>1. /\ UNCHANGED <<table, receipt, clock, slipped>>
        /\ \A q \in Sessions \ {p} :
             /\ pc'[q] = pc[q] /\ hash'[q] = hash[q] /\ tabStat'[q] = tabStat[q]
             /\ tabBase'[q] = tabBase[q] /\ handoff'[q] = handoff[q] /\ mapped'[q] = mapped[q]
    BY <1>4 DEF CheckSource, Goto, Refuse, Set, locals, files, history, TypeOK
  <2>2. At(p)'
    BY <1>0, <1>a, <1>4, <2>1 DEF CheckSource, Goto, Refuse, Set, locals, files, history, TypeOK,
       At, TimeAt, HashAt, HandoffAt, WarmAt, MappedAt, Vouches
  <2> QED BY <2>1, <2>2, LocalStep
<1>5. CASE Inspect(p)
  <2>1. /\ UNCHANGED <<table, receipt, clock, slipped>>
        /\ \A q \in Sessions \ {p} :
             /\ pc'[q] = pc[q] /\ hash'[q] = hash[q] /\ tabStat'[q] = tabStat[q]
             /\ tabBase'[q] = tabBase[q] /\ handoff'[q] = handoff[q] /\ mapped'[q] = mapped[q]
    BY <1>5 DEF Inspect, Goto, Refuse, Set, locals, files, history, TypeOK
  <2>2. At(p)'
    BY <1>0, <1>a, <1>5, <2>1 DEF Inspect, WarmEligible, Goto, Refuse, Set, locals, files, history, TypeOK,
       At, TimeAt, HashAt, HandoffAt, WarmAt, MappedAt, Vouches
  <2> QED BY <2>1, <2>2, LocalStep
<1>6. CASE StatTable(p, "warmstat", "warmhash")
  <2>1. /\ UNCHANGED <<table, receipt, clock, slipped>>
        /\ \A q \in Sessions \ {p} :
             /\ pc'[q] = pc[q] /\ hash'[q] = hash[q] /\ tabStat'[q] = tabStat[q]
             /\ tabBase'[q] = tabBase[q] /\ handoff'[q] = handoff[q] /\ mapped'[q] = mapped[q]
    BY <1>6 DEF StatTable, Goto, Refuse, Set, locals, files, history, TypeOK
  <2>2. At(p)'
    BY <1>0, <1>a, <1>6, <2>1 DEF StatTable, Goto, Refuse, Set, locals, files, history, TypeOK,
       At, TimeAt, HashAt, HandoffAt, WarmAt, MappedAt, Vouches
  <2> QED BY <2>1, <2>2, LocalStep
<1>7. CASE HashTable(p, "warmhash", "warmcheck")
  <2>1. /\ UNCHANGED <<table, receipt, clock, slipped>>
        /\ \A q \in Sessions \ {p} :
             /\ pc'[q] = pc[q] /\ hash'[q] = hash[q] /\ tabStat'[q] = tabStat[q]
             /\ tabBase'[q] = tabBase[q] /\ handoff'[q] = handoff[q] /\ mapped'[q] = mapped[q]
    BY <1>7 DEF HashTable, Goto, Refuse, Set, locals, files, history, TypeOK
  <2>2. At(p)'
    BY <1>0, <1>a, <1>7, <2>1 DEF HashTable, Goto, Refuse, Set, locals, files, history, TypeOK,
       At, TimeAt, HashAt, HandoffAt, WarmAt, MappedAt, Vouches
  <2> QED BY <2>1, <2>2, LocalStep
<1>8. CASE CheckWarm(p)
  <2>1. /\ UNCHANGED <<table, receipt, clock, slipped>>
        /\ \A q \in Sessions \ {p} :
             /\ pc'[q] = pc[q] /\ hash'[q] = hash[q] /\ tabStat'[q] = tabStat[q]
             /\ tabBase'[q] = tabBase[q] /\ handoff'[q] = handoff[q] /\ mapped'[q] = mapped[q]
    BY <1>8 DEF CheckWarm, Goto, Refuse, Set, locals, files, history, TypeOK
  <2>2. At(p)'
    BY <1>0, <1>a, <1>8, <2>1 DEF CheckWarm, TableUnchanged, FileInv, Aux, Goto, Refuse, Set, locals, files, history, TypeOK,
       At, TimeAt, HashAt, HandoffAt, WarmAt, MappedAt, Vouches
  <2> QED BY <2>1, <2>2, LocalStep
<1>9. CASE TryAdoptLegacy(p)
  <2>1. /\ UNCHANGED <<table, receipt, clock, slipped>>
        /\ \A q \in Sessions \ {p} :
             /\ pc'[q] = pc[q] /\ hash'[q] = hash[q] /\ tabStat'[q] = tabStat[q]
             /\ tabBase'[q] = tabBase[q] /\ handoff'[q] = handoff[q] /\ mapped'[q] = mapped[q]
    BY <1>9 DEF TryAdoptLegacy, StatTable, Goto, Refuse, Set, locals, files, history, TypeOK
  <2>2. At(p)'
    BY <1>0, <1>a, <1>9, <2>1 DEF TryAdoptLegacy, StatTable, Goto, Refuse, Set, locals, files, history, TypeOK,
       At, TimeAt, HashAt, HandoffAt, WarmAt, MappedAt, Vouches
  <2> QED BY <2>1, <2>2, LocalStep
<1>10. CASE HashTable(p, "legacyhash", "legacycheck")
  <2>1. /\ UNCHANGED <<table, receipt, clock, slipped>>
        /\ \A q \in Sessions \ {p} :
             /\ pc'[q] = pc[q] /\ hash'[q] = hash[q] /\ tabStat'[q] = tabStat[q]
             /\ tabBase'[q] = tabBase[q] /\ handoff'[q] = handoff[q] /\ mapped'[q] = mapped[q]
    BY <1>10 DEF HashTable, Goto, Refuse, Set, locals, files, history, TypeOK
  <2>2. At(p)'
    BY <1>0, <1>a, <1>10, <2>1 DEF HashTable, Goto, Refuse, Set, locals, files, history, TypeOK,
       At, TimeAt, HashAt, HandoffAt, WarmAt, MappedAt, Vouches
  <2> QED BY <2>1, <2>2, LocalStep
<1>11. CASE CheckLegacy(p)
  <2>1. /\ UNCHANGED <<table, receipt, clock, slipped>>
        /\ \A q \in Sessions \ {p} :
             /\ pc'[q] = pc[q] /\ hash'[q] = hash[q] /\ tabStat'[q] = tabStat[q]
             /\ tabBase'[q] = tabBase[q] /\ handoff'[q] = handoff[q] /\ mapped'[q] = mapped[q]
    BY <1>11 DEF CheckLegacy, Goto, Refuse, Set, locals, files, history, TypeOK
  <2>2. At(p)'
    BY <1>0, <1>a, <1>11, <2>1 DEF CheckLegacy, TableUnchanged, Goto, Refuse, Set, locals, files, history, TypeOK,
       At, TimeAt, HashAt, HandoffAt, WarmAt, MappedAt, Vouches
  <2> QED BY <2>1, <2>2, LocalStep
<1>12. CASE BindLegacy(p)
  <2>1. /\ UNCHANGED <<table, receipt, clock, slipped>>
        /\ \A q \in Sessions \ {p} :
             /\ pc'[q] = pc[q] /\ hash'[q] = hash[q] /\ tabStat'[q] = tabStat[q]
             /\ tabBase'[q] = tabBase[q] /\ handoff'[q] = handoff[q] /\ mapped'[q] = mapped[q]
    BY <1>12 DEF BindLegacy, Goto, Refuse, Set, locals, files, history, TypeOK
  <2>2. At(p)'
    BY <1>0, <1>a, <1>12, <2>1 DEF BindLegacy, Goto, Refuse, Set, locals, files, history, TypeOK,
       At, TimeAt, HashAt, HandoffAt, WarmAt, MappedAt, Vouches
  <2> QED BY <2>1, <2>2, LocalStep
<1>13. CASE CopyShards(p)
  <2>1. /\ UNCHANGED <<table, receipt, clock, slipped>>
        /\ \A q \in Sessions \ {p} :
             /\ pc'[q] = pc[q] /\ hash'[q] = hash[q] /\ tabStat'[q] = tabStat[q]
             /\ tabBase'[q] = tabBase[q] /\ handoff'[q] = handoff[q] /\ mapped'[q] = mapped[q]
    BY <1>13 DEF CopyShards, Goto, Refuse, Set, locals, files, history, TypeOK
  <2>2. At(p)'
    BY <1>0, <1>a, <1>13, <2>1 DEF CopyShards, Goto, Refuse, Set, locals, files, history, TypeOK,
       At, TimeAt, HashAt, HandoffAt, WarmAt, MappedAt, Vouches
  <2> QED BY <2>1, <2>2, LocalStep
<1>14. CASE CheckStaged(p)
  <2>1. /\ UNCHANGED <<table, receipt, clock, slipped>>
        /\ \A q \in Sessions \ {p} :
             /\ pc'[q] = pc[q] /\ hash'[q] = hash[q] /\ tabStat'[q] = tabStat[q]
             /\ tabBase'[q] = tabBase[q] /\ handoff'[q] = handoff[q] /\ mapped'[q] = mapped[q]
    BY <1>14 DEF CheckStaged, Goto, Refuse, Set, locals, files, history, TypeOK
  <2>2. At(p)'
    BY <1>0, <1>a, <1>14, <2>1 DEF CheckStaged, StagedGood, Goto, Refuse, Set, locals, files, history, TypeOK,
       At, TimeAt, HashAt, HandoffAt, WarmAt, MappedAt, Vouches
  <2> QED BY <2>1, <2>2, LocalStep
<1>15. CASE SyncDirectory(p)
  <2>1. /\ UNCHANGED <<table, receipt, clock, slipped>>
        /\ \A q \in Sessions \ {p} :
             /\ pc'[q] = pc[q] /\ hash'[q] = hash[q] /\ tabStat'[q] = tabStat[q]
             /\ tabBase'[q] = tabBase[q] /\ handoff'[q] = handoff[q] /\ mapped'[q] = mapped[q]
    BY <1>15 DEF SyncDirectory, Goto, Refuse, Set, locals, files, history, TypeOK
  <2>2. At(p)'
    BY <1>0, <1>a, <1>15, <2>1 DEF SyncDirectory, Goto, Refuse, Set, locals, files, history, TypeOK,
       At, TimeAt, HashAt, HandoffAt, WarmAt, MappedAt, Vouches
  <2> QED BY <2>1, <2>2, LocalStep
<1>16. CASE BindPublished(p)
  <2>1. /\ UNCHANGED <<table, receipt, clock, slipped>>
        /\ \A q \in Sessions \ {p} :
             /\ pc'[q] = pc[q] /\ hash'[q] = hash[q] /\ tabStat'[q] = tabStat[q]
             /\ tabBase'[q] = tabBase[q] /\ handoff'[q] = handoff[q] /\ mapped'[q] = mapped[q]
    BY <1>16 DEF BindPublished, Goto, Refuse, Set, locals, files, history, TypeOK
  <2>2. At(p)'
    BY <1>0, <1>a, <1>16, <2>1 DEF BindPublished, Goto, Refuse, Set, locals, files, history, TypeOK,
       At, TimeAt, HashAt, HandoffAt, WarmAt, MappedAt, Vouches
  <2> QED BY <2>1, <2>2, LocalStep
<1>17. CASE FinishReceipt(p)
  <2>1. /\ UNCHANGED <<table, receipt, clock, slipped>>
        /\ \A q \in Sessions \ {p} :
             /\ pc'[q] = pc[q] /\ hash'[q] = hash[q] /\ tabStat'[q] = tabStat[q]
             /\ tabBase'[q] = tabBase[q] /\ handoff'[q] = handoff[q] /\ mapped'[q] = mapped[q]
    BY <1>17 DEF FinishReceipt, Goto, Refuse, Set, locals, files, history, TypeOK
  <2>2. At(p)'
    BY <1>0, <1>a, <1>17, <2>1 DEF FinishReceipt, Receipt, Goto, Refuse, Set, locals, files, history, TypeOK,
       At, TimeAt, HashAt, HandoffAt, WarmAt, MappedAt, Vouches
  <2> QED BY <2>1, <2>2, LocalStep
<1>18. CASE ReadReceipt(p)
  <2>1. /\ UNCHANGED <<table, receipt, clock, slipped>>
        /\ \A q \in Sessions \ {p} :
             /\ pc'[q] = pc[q] /\ hash'[q] = hash[q] /\ tabStat'[q] = tabStat[q]
             /\ tabBase'[q] = tabBase[q] /\ handoff'[q] = handoff[q] /\ mapped'[q] = mapped[q]
    BY <1>18 DEF ReadReceipt, Goto, Refuse, Set, locals, files, history, TypeOK
  <2>2. At(p)'
    BY <1>0, <1>a, <1>18, <2>1 DEF ReadReceipt, Goto, Refuse, Set, locals, files, history, TypeOK,
       At, TimeAt, HashAt, HandoffAt, WarmAt, MappedAt, Vouches
  <2> QED BY <2>1, <2>2, LocalStep
<1>19. CASE OpenTable(p)
  <2>1. /\ UNCHANGED <<table, receipt, clock, slipped>>
        /\ \A q \in Sessions \ {p} :
             /\ pc'[q] = pc[q] /\ hash'[q] = hash[q] /\ tabStat'[q] = tabStat[q]
             /\ tabBase'[q] = tabBase[q] /\ handoff'[q] = handoff[q] /\ mapped'[q] = mapped[q]
    BY <1>19 DEF OpenTable, Goto, Refuse, Set, locals, files, history, TypeOK
  <2>2. At(p)'
    BY <1>0, <1>a, <1>19, <2>1 DEF OpenTable, Fresh, Goto, Refuse, Set, locals, files, history, TypeOK,
       At, TimeAt, HashAt, HandoffAt, WarmAt, MappedAt, Vouches
  <2> QED BY <2>1, <2>2, LocalStep
<1>20. CASE SystemCallFails(p)
  <2>1. /\ UNCHANGED <<table, receipt, clock, slipped>>
        /\ \A q \in Sessions \ {p} :
             /\ pc'[q] = pc[q] /\ hash'[q] = hash[q] /\ tabStat'[q] = tabStat[q]
             /\ tabBase'[q] = tabBase[q] /\ handoff'[q] = handoff[q] /\ mapped'[q] = mapped[q]
    BY <1>20 DEF SystemCallFails, Goto, Refuse, Set, locals, files, history, TypeOK
  <2>2. At(p)'
    BY <1>0, <1>a, <1>20, <2>1 DEF SystemCallFails, Goto, Refuse, Set, locals, files, history, TypeOK,
       At, TimeAt, HashAt, HandoffAt, WarmAt, MappedAt, Vouches
  <2> QED BY <2>1, <2>2, LocalStep
<1>21. CASE Kill(p)
  <2>1. /\ UNCHANGED <<table, receipt, clock, slipped>>
        /\ \A q \in Sessions \ {p} :
             /\ pc'[q] = pc[q] /\ hash'[q] = hash[q] /\ tabStat'[q] = tabStat[q]
             /\ tabBase'[q] = tabBase[q] /\ handoff'[q] = handoff[q] /\ mapped'[q] = mapped[q]
    BY <1>21 DEF Kill, Goto, Refuse, Set, locals, files, history, TypeOK
  <2>2. At(p)'
    BY <1>0, <1>a, <1>21, <2>1 DEF Kill, Goto, Refuse, Set, locals, files, history, TypeOK,
       At, TimeAt, HashAt, HandoffAt, WarmAt, MappedAt, Vouches
  <2> QED BY <2>1, <2>2, LocalStep
<1> QED BY <1>1, <1>2, <1>3, <1>4, <1>5, <1>6, <1>7, <1>8, <1>9, <1>10, <1>11, <1>12, <1>13, <1>14, <1>15, <1>16, <1>17, <1>18, <1>19, <1>20, <1>21 DEF Prepare, Serve

\* The new table is good, and its time is later than any stat kept.
LEMMA PublishAux ==
  ASSUME TypeOK, Aux, NEW p \in Sessions, Publish(p)
  PROVE  Aux'
<1>1. /\ pc[p] = "publish" /\ pc' = [pc EXCEPT ![p] = "dirsync"]
      /\ table'.data = "good" /\ table'.time = clock + 1 /\ clock' = clock + 1
      /\ UNCHANGED <<receipt, hash, tabStat, tabBase, handoff, mapped, slipped>>
  BY DEF Publish, Goto, locals, history, Aux, At, HashAt
<1>2. \A stat : Vouches(stat)'
  BY <1>1 DEF Vouches
<1>3. FileInv'
  BY <1>1, <1>2 DEF Aux, FileInv, TypeOK, Receipts, Stats
<1>4. ASSUME NEW q \in Sessions PROVE At(q)'
  <2>1. TimeAt(q)' BY <1>1 DEF Aux, At, TimeAt, TypeOK, Receipts, Stats
  <2>2. HashAt(q)' BY <1>1, <1>2 DEF Aux, At, HashAt, TypeOK
  <2>3. HandoffAt(q)' BY <1>1, <1>2 DEF Aux, At, HandoffAt, TypeOK
  <2>4. WarmAt(q)' /\ MappedAt(q)' BY <1>1 DEF Aux, At, WarmAt, MappedAt, TypeOK
  <2> QED BY <2>1, <2>2, <2>3, <2>4 DEF At
<1> QED BY <1>3, <1>4 DEF Aux

\* The receipt takes over what the stat bound to it vouches for.
LEMMA ReceiptAux ==
  ASSUME TypeOK, Aux, NEW p \in Sessions, ReplaceReceipt(p)
  PROVE  Aux'
<1>1. /\ pc[p] = "receipt" /\ pc' = [pc EXCEPT ![p] = "receiptsync"]
      /\ receipt'.state = "valid" /\ receipt'.table = tabBase[p]
      /\ UNCHANGED <<table, clock, hash, tabStat, tabBase, handoff, mapped, slipped>>
  BY DEF ReplaceReceipt, Receipt, Goto, locals, history
<1>2. FileInv'
  BY <1>1 DEF Aux, FileInv, At, TimeAt, HashAt, Vouches, Stat
<1>3. ASSUME NEW q \in Sessions PROVE At(q)'
  BY <1>1 DEF Aux, At, TimeAt, HashAt, HandoffAt, WarmAt, MappedAt, Vouches, Stat, TypeOK
<1> QED BY <1>2, <1>3 DEF Aux

\* A change of the table matches no stat that was kept, and one in the bind
\* window is recorded as slipped.
LEMMA ChangeTableInv ==
  ASSUME TypeOK, Aux, ChangeTable
  PROVE  TypeOK' /\ Aux'
<1>1. /\ table' \in Tables /\ table'.time = clock + 1 /\ clock' = clock + 1
      /\ slipped \subseteq slipped'
      /\ \A p \in Sessions :
           pc[p] \in {"legacybind", "dirsync", "bind"} => clock + 1 \in slipped'
      /\ UNCHANGED <<pc, src, receipt, lock, srcBase, tabBase, tabStat, hash, handoff, mapped>>
  <2>1. PICK data \in {table.data, "bad"} : table' = [ino |-> table.ino, time |-> clock + 1, data |-> data]
    BY DEF ChangeTable
  <2>2. table \in [ino : Inodes, time : Nat, data : {"good", "bad"}] /\ clock \in Nat
    BY DEF ChangeTable, TypeOK, Tables, NoTable
  <2>3. table' \in Tables /\ table'.time = clock + 1
    BY <2>1, <2>2 DEF Tables
  <2>4. slipped' = IF BindWindow THEN slipped \cup {clock + 1} ELSE slipped
    BY DEF ChangeTable
  <2>6. /\ slipped \subseteq slipped'
        /\ \A p \in Sessions :
             pc[p] \in {"legacybind", "dirsync", "bind"} => clock + 1 \in slipped'
    BY <2>4 DEF BindWindow
  <2>5. /\ clock' = clock + 1
        /\ UNCHANGED <<pc, src, receipt, lock, srcBase, tabBase, tabStat, hash, handoff, mapped>>
    BY DEF ChangeTable, locals
  <2> QED BY <2>3, <2>5, <2>6
<1>2. TypeOK'
  BY <1>1 DEF ChangeTable, Disturb, TypeOK
<1>3. ASSUME NEW stat \in Stats, stat.time <= clock PROVE stat # Stat(table)'
  BY <1>1, <1>3 DEF Stat, Stats, TypeOK
<1>4. FileInv'
  BY <1>1, <1>3 DEF Aux, FileInv, Vouches, TypeOK, Receipts, Stats
<1>5. ASSUME NEW q \in Sessions PROVE At(q)'
  <2>1. /\ tabStat[q] \in Stats /\ tabBase[q] \in Stats /\ handoff[q].table \in Stats
        /\ TimeAt(q) /\ clock \in Nat
    BY DEF TypeOK, Receipts, Aux, At
  <2>2. TimeAt(q)' BY <1>1, <2>1 DEF TimeAt, Stats
  <2>3. /\ tabStat[q] # Stat(table)' /\ tabBase[q] # Stat(table)'
        /\ handoff[q].table # Stat(table)'
    BY <1>3, <2>1 DEF TimeAt
  <2>4. HashAt(q)' BY <1>1, <2>3 DEF Aux, At, HashAt, Vouches
  <2>5. HandoffAt(q)' BY <1>1, <2>3 DEF Aux, At, HandoffAt, Vouches
  <2>6. WarmAt(q)' /\ MappedAt(q)' BY <1>1 DEF Aux, At, WarmAt, MappedAt
  <2> QED BY <2>2, <2>4, <2>5, <2>6 DEF At
<1> QED BY <1>2, <1>4, <1>5 DEF Aux

\* A change of the source only moves the clock.
LEMMA ChangeSourceInv ==
  ASSUME TypeOK, Aux, ChangeSource
  PROVE  TypeOK' /\ Aux'
<1>1. /\ src' \in [time : Nat, data : {"good", "bad"}] /\ clock' = clock + 1
      /\ disturbed' \subseteq Sessions
      /\ UNCHANGED <<pc, table, receipt, lock, srcBase, tabBase, tabStat, hash, handoff,
                     mapped, slipped>>
  BY DEF ChangeSource, Disturb, locals, TypeOK
<1>2. TypeOK' BY <1>1 DEF TypeOK
<1>3. FileInv' BY <1>1, StatType DEF Aux, FileInv, Vouches, Stat, TypeOK, Receipts, Stats
<1>4. ASSUME NEW q \in Sessions PROVE At(q)'
  <2>1. TimeAt(q)' BY <1>1 DEF Aux, At, TimeAt, TypeOK, Receipts, Stats
  <2>2. HashAt(q)' /\ HandoffAt(q)' /\ WarmAt(q)' /\ MappedAt(q)'
    BY <1>1 DEF Aux, At, HashAt, HandoffAt, WarmAt, MappedAt, Vouches, Stat
  <2> QED BY <2>1, <2>2 DEF At
<1> QED BY <1>2, <1>3, <1>4 DEF Aux

\* A stuttering step.
LEMMA StutterInv == ASSUME TypeOK, Aux, UNCHANGED vars PROVE TypeOK' /\ Aux'
<1>1. TypeOK' BY DEF vars, TypeOK
<1>2. FileInv' BY DEF vars, Aux, FileInv, Vouches, Stat
<1>3. ASSUME NEW q \in Sessions PROVE At(q)'
  BY DEF vars, Aux, At, TimeAt, HashAt, HandoffAt, WarmAt, MappedAt, Vouches, Stat
<1> QED BY <1>1, <1>2, <1>3 DEF Aux

\* Every step keeps the invariant.
LEMMA CacheStep == CacheInv /\ [Next]_vars => CacheInv'
<1> SUFFICES ASSUME TypeOK, Aux, [Next]_vars PROVE TypeOK' /\ Aux' BY DEF CacheInv
<1>1. ASSUME NEW p \in Sessions, Prepare(p) \/ Serve(p) \/ SystemCallFails(p) \/ Kill(p)
      PROVE  TypeOK' /\ Aux'
  BY <1>1, SessionType, QuietAux, PublishAux, ReceiptAux
<1>2. CASE UNCHANGED vars BY <1>2, StutterInv
<1>3. CASE AllFinal BY <1>3, StutterInv DEF AllFinal
<1> QED BY <1>1, <1>2, <1>3, ChangeTableInv, ChangeSourceInv DEF Next

\* The types are right, and exactly the session that prepares holds the lock
\* (_acquire_lock, prepare_cache), for any number of sessions.
THEOREM TypeCorrect == Spec => []TypeOK
<1>1. CacheInv => TypeOK BY DEF CacheInv
<1> QED BY <1>1, CacheInit, CacheStep, PTL DEF Spec

\* The receipt vouches for verified bytes only (_finalize_receipt).
THEOREM ReceiptIsHonest == Spec => []ReceiptHonest
<1>1. CacheInv => ReceiptHonest
  BY DEF CacheInv, Aux, FileInv, ReceiptHonest, Vouches
<1> QED BY <1>1, CacheInit, CacheStep, PTL DEF Spec

\* The server maps verified bytes only (open_prepared_table), for any number
\* of sessions, crashes, failing calls and changes of the files.
THEOREM ServedIsVerified == Spec => []MappedIsVerified
<1>1. CacheInv => MappedIsVerified
  BY DEF CacheInv, Aux, At, MappedAt, MappedIsVerified
<1> QED BY <1>1, CacheInit, CacheStep, PTL DEF Spec

\* _materialize publishes good copies only, whenever the source changes.
THEOREM PublishedIsGood == Spec => PublishesGood
<1>1. ASSUME CacheInv, [Next]_vars
      PROVE  [table'.ino # table.ino => table'.data = "good"]_vars
  <2>1. ASSUME NEW p \in Sessions, Publish(p) PROVE table'.data = "good"
    BY <1>1, <2>1 DEF Publish, Goto, CacheInv, Aux, At, HashAt
  <2>2. ASSUME NEW p \in Sessions, ~Publish(p),
               Prepare(p) \/ Serve(p) \/ SystemCallFails(p) \/ Kill(p)
        PROVE  table' = table
    BY <2>2 DEF Prepare, Serve, AcquireLock, StatSource, HashSource, CheckSource, Inspect,
       StatTable, HashTable, CheckWarm, TryAdoptLegacy, CheckLegacy, BindLegacy, CopyShards,
       CheckStaged, SyncDirectory, BindPublished, ReplaceReceipt, FinishReceipt, ReadReceipt,
       OpenTable, SystemCallFails, Kill, files
  <2>3. ASSUME ChangeTable PROVE table'.ino = table.ino
    BY <2>3 DEF ChangeTable
  <2>4. ASSUME ChangeSource \/ AllFinal \/ UNCHANGED vars PROVE table' = table
    BY <2>4 DEF ChangeSource, AllFinal, vars
  <2> QED BY <1>1, <2>1, <2>2, <2>3, <2>4 DEF Next
<1> QED BY <1>1, CacheInit, CacheStep, PTL DEF Spec, PublishesGood

-----------------------------------------------------------------------------
\* A session's step touches no other session, and touches the files only where
\* it publishes a table or a receipt.
LEMMA SessionFrame ==
  ASSUME TypeOK, NEW p \in Sessions, Prepare(p) \/ Serve(p) \/ SystemCallFails(p) \/ Kill(p)
  PROVE  /\ \A q \in Sessions \ {p} :
              /\ pc'[q] = pc[q] /\ srcBase'[q] = srcBase[q] /\ tabBase'[q] = tabBase[q]
              /\ tabStat'[q] = tabStat[q] /\ hash'[q] = hash[q] /\ handoff'[q] = handoff[q]
         /\ ~Publish(p) => UNCHANGED table
         /\ ~ReplaceReceipt(p) => UNCHANGED receipt
         /\ src' = src /\ disturbed \subseteq disturbed' /\ disturbed' \subseteq disturbed \cup {p}
<1> USE DEF Prepare, Serve, AcquireLock, StatSource, HashSource, CheckSource, Inspect,
       StatTable, HashTable, CheckWarm, TryAdoptLegacy, CheckLegacy, BindLegacy, CopyShards,
       CheckStaged, Publish, SyncDirectory, BindPublished, ReplaceReceipt, FinishReceipt,
       ReadReceipt, OpenTable, SystemCallFails, Kill, locals, files, history
<1>1. \E to : pc' = [pc EXCEPT ![p] = to] BY DEF Goto, Refuse
<1>2. srcBase' = srcBase \/ \E v : srcBase' = [srcBase EXCEPT ![p] = v] BY DEF Set
<1>3. tabBase' = tabBase \/ \E v : tabBase' = [tabBase EXCEPT ![p] = v] BY DEF Set
<1>4. tabStat' = tabStat \/ \E v : tabStat' = [tabStat EXCEPT ![p] = v] BY DEF Set
<1>5. hash' = hash \/ \E v : hash' = [hash EXCEPT ![p] = v] BY DEF Set
<1>6. handoff' = handoff \/ \E v : handoff' = [handoff EXCEPT ![p] = v] BY DEF Set
<1>7. ~Publish(p) => UNCHANGED table OBVIOUS
<1>8. ~ReplaceReceipt(p) => UNCHANGED receipt OBVIOUS
<1>9. src' = src /\ disturbed \subseteq disturbed' /\ disturbed' \subseteq disturbed \cup {p}
  OBVIOUS
<1>10. \A q \in Sessions \ {p} :
         /\ pc'[q] = pc[q] /\ srcBase'[q] = srcBase[q] /\ tabBase'[q] = tabBase[q]
         /\ tabStat'[q] = tabStat[q] /\ hash'[q] = hash[q] /\ handoff'[q] = handoff[q]
  BY <1>1, <1>2, <1>3, <1>4, <1>5, <1>6 DEF TypeOK
<1> QED BY <1>7, <1>8, <1>9, <1>10

\* Only one session prepares at a time.
LEMMA OnePrepares ==
  ASSUME TypeOK, NEW p \in Sessions, NEW q \in Sessions, pc[p] \in Preparing, pc[q] \in Preparing
  PROVE  p = q
BY DEF TypeOK

-----------------------------------------------------------------------------
(***************************************************************************)
(* DriftNeverCopies.                                                       *)
(***************************************************************************)
\* A session's own step.
LEMMA CopyOwn ==
  ASSUME TypeOK, NEW p \in Sessions, CopyAt(p), Prepare(p) \/ Serve(p) \/ SystemCallFails(p) \/ Kill(p)
  PROVE  CopyAt(p)'
<1> USE DEF Goto, Refuse, Set, TypeOK, CopyAt
<1>0. table.data \in {"good", "bad"} \/ table.ino = None
  BY DEF Tables, NoTable
<1>1. CASE \/ AcquireLock(p) \/ StatSource(p) \/ HashSource(p) \/ CheckSource(p)
           \/ SystemCallFails(p) \/ Kill(p)
  <2>1. pc'[p] \in {"srcstat", "srchash", "srccheck", "inspect", "refused", "dead"}
    BY <1>1 DEF AcquireLock, StatSource, HashSource, CheckSource, SystemCallFails, Kill
  <2> QED BY <2>1
<1>2. CASE Inspect(p)
  BY <1>2 DEF Inspect, WarmEligible, files
<1>3. CASE StatTable(p, "warmstat", "warmhash") \/ HashTable(p, "warmhash", "warmcheck")
  BY <1>0, <1>3 DEF StatTable, HashTable, files
<1>4. CASE CheckWarm(p)
  <2>1. UNCHANGED <<table, receipt, srcBase>> BY <1>4 DEF CheckWarm, locals, files
  <2>2. pc'[p] = "copy" => hash[p] # "good" /\ tabStat[p] = Stat(table)
    BY <1>4 DEF CheckWarm, TableUnchanged
  <2>3. pc[p] = "warmcheck" /\ pc'[p] \in {"copy", "refused", "receipt", "open"}
    BY <1>4 DEF CheckWarm
  <2> QED BY <2>1, <2>2, <2>3
<1>5. CASE TryAdoptLegacy(p) \/ HashTable(p, "legacyhash", "legacycheck") \/ CheckLegacy(p)
  <2>1. UNCHANGED <<table, receipt>>
    BY <1>5 DEF TryAdoptLegacy, StatTable, HashTable, CheckLegacy, files
  <2>2. pc[p] \in {"legacy", "legacyhash", "legacycheck"}
    BY <1>5 DEF TryAdoptLegacy, StatTable, HashTable, CheckLegacy
  <2>3. pc'[p] \in {"legacyhash", "legacycheck", "legacybind", "copy", "refused"}
    BY <1>5 DEF TryAdoptLegacy, StatTable, HashTable, CheckLegacy
  <2> QED BY <2>1, <2>2, <2>3 DEF WarmEligible
<1>6. CASE CopyShards(p) \/ CheckStaged(p)
  <2>1. UNCHANGED <<table, receipt, srcBase>>
    BY <1>6 DEF CopyShards, CheckStaged, files, locals
  <2>2. pc[p] \in {"copy", "staged"} /\ pc'[p] \in {"staged", "publish", "refused"}
    BY <1>6 DEF CopyShards, CheckStaged
  <2> QED BY <2>1, <2>2 DEF WarmEligible
<1>7. CASE BindLegacy(p) \/ Publish(p) \/ SyncDirectory(p) \/ BindPublished(p)
           \/ ReplaceReceipt(p) \/ FinishReceipt(p) \/ Serve(p)
  <2>1. pc'[p] \in {"dirsync", "bind", "receipt", "receiptsync", "open", "opentable", "mapped", "refused"}
    BY <1>7 DEF BindLegacy, Publish, SyncDirectory, BindPublished, ReplaceReceipt,
                FinishReceipt, Serve, ReadReceipt, OpenTable
  <2> QED BY <2>1
<1> QED BY <1>1, <1>2, <1>3, <1>4, <1>5, <1>6, <1>7 DEF Prepare

\* Every step keeps the invariant.
LEMMA CopyStep == CacheInv /\ CopyInv /\ [Next]_vars => CopyInv'
<1> SUFFICES ASSUME TypeOK, Aux, CopyInv, [Next]_vars, NEW q \in Sessions PROVE CopyAt(q)'
  BY DEF CacheInv, CopyInv
<1>0. CopyAt(q) BY DEF CopyInv
<1>1. ASSUME NEW p \in Sessions, Prepare(p) \/ Serve(p) \/ SystemCallFails(p) \/ Kill(p)
      PROVE  CopyAt(q)'
  <2>1. CASE q = p BY <1>0, <1>1, <2>1, CopyOwn
  <2>2. CASE q # p
    <3>1. /\ pc'[q] = pc[q] /\ srcBase'[q] = srcBase[q]
          /\ tabStat'[q] = tabStat[q] /\ hash'[q] = hash[q]
      BY <1>1, <2>2, SessionFrame
    <3>2. CASE pc[q] \in Preparing
      <4>1. ~Publish(p) /\ ~ReplaceReceipt(p)
        BY <2>2, <3>2, OnePrepares DEF Publish, ReplaceReceipt, Goto, Preparing
      <4>2. UNCHANGED <<table, receipt>>
        BY <1>1, <4>1, SessionFrame
      <4> QED BY <1>0, <3>1, <4>2 DEF CopyAt, WarmEligible, Stat
    <3>3. CASE pc[q] \notin Preparing
      BY <3>1, <3>3 DEF CopyAt, Preparing
    <3> QED BY <3>2, <3>3
  <2> QED BY <2>1, <2>2
<1>2. CASE ChangeTable
  <2>1. /\ table.ino # None /\ table'.ino = table.ino
        /\ table'.data \in {table.data, "bad"} /\ table'.time = clock + 1
        /\ UNCHANGED <<pc, receipt, srcBase, tabStat, hash>>
    BY <1>2 DEF ChangeTable, locals
  <2>2. tabStat[q].time <= clock /\ tabStat[q].time \in Nat /\ clock \in Nat
    BY DEF Aux, At, TimeAt, TypeOK, Stats
  <2>3. tabStat'[q] # Stat(table)'
    BY <2>1, <2>2 DEF Stat
  <2> QED BY <1>0, <2>1, <2>3 DEF CopyAt, WarmEligible
<1>3. CASE ChangeSource \/ AllFinal \/ UNCHANGED vars
  <2>1. UNCHANGED <<pc, table, receipt, srcBase, tabStat, hash>>
    BY <1>3 DEF ChangeSource, AllFinal, vars, locals
  <2> QED BY <1>0, <2>1 DEF CopyAt, WarmEligible, Stat
<1> QED BY <1>1, <1>2, <1>3 DEF Next

\* Drift of the table's timestamps alone never makes a preparation copy the
\* table again, whenever it happens and whichever session meets it
\* (docs/build.md:85-89).
THEOREM DriftIsReused == Spec => []DriftNeverCopies
<1>1. Init => CopyInv
  BY DEF Init, CopyInv, CopyAt
<1>2. CopyInv => DriftNeverCopies
  BY DEF CopyInv, CopyAt, DriftNeverCopies, WarmEligible
<1> QED BY <1>1, <1>2, CacheInit, CacheStep, CopyStep, PTL DEF Spec

-----------------------------------------------------------------------------
(***************************************************************************)
(* UndisturbedSucceeds.                                                    *)
(***************************************************************************)
\* While an undisturbed server is about to open the table, a preparation in
\* progress finds everything in order and goes on to hand the same receipt over.
LEMMA RecheckingGoesOn ==
  ASSUME TypeOK, Aux, CalmInv, src.data = "good", NEW p \in Sessions,
         Prepare(p) \/ Serve(p) \/ SystemCallFails(p) \/ Kill(p),
         NEW q \in Sessions \ disturbed, pc[q] \in {"open", "opentable"},
         pc[p] \in Preparing
  PROVE  /\ p \notin disturbed
         /\ UNCHANGED <<table, receipt>>
         /\ pc'[p] \in Rechecking \cup {"open", "refused", "dead"}
         /\ p \in disturbed' => pc'[p] = "refused"
<1>0. /\ p \notin disturbed /\ pc[p] \in Rechecking
      /\ receipt = Receipt(src.time, Stat(table)) /\ table.ino # None /\ table.data = "good"
  BY DEF CalmInv, CalmAt, ServerCalm
<1>1. CalmAt(p) BY <1>0 DEF CalmInv
<1>2. UNCHANGED <<table, receipt>>
  <2>1. ~Publish(p) /\ ~ReplaceReceipt(p)
    BY <1>0 DEF Publish, ReplaceReceipt, Goto, Rechecking
  <2> QED BY <2>1, SessionFrame
<1> USE <1>0, <1>1 DEF Goto, Refuse, Set, TypeOK, Rechecking
<1>3. CASE StatSource(p) \/ HashSource(p) \/ CheckSource(p)
  BY <1>2, <1>3 DEF StatSource, HashSource, CheckSource, history
<1>4. CASE Inspect(p)
  <2>1. WarmEligible(p)
    BY <1>4 DEF Inspect, WarmEligible, CalmAt, SourceCalm, Preparing, Receipt, Stat
  <2> QED BY <1>2, <1>4, <2>1 DEF Inspect, history
<1>5. CASE StatTable(p, "warmstat", "warmhash") \/ HashTable(p, "warmhash", "warmcheck")
  BY <1>2, <1>5 DEF StatTable, HashTable, history
<1>6. CASE CheckWarm(p)
  <2>1. hash[p] = "good" /\ tabBase[p] = Stat(table)
    BY <1>6 DEF CheckWarm, CalmAt, TableCalm
  <2>2. ~RenewNeeded(p)
    BY <2>1 DEF RenewNeeded, Receipt
  <2> QED BY <1>2, <1>6, <2>1, <2>2 DEF CheckWarm, history
<1>7. CASE SystemCallFails(p) \/ Kill(p)
  BY <1>2, <1>7 DEF SystemCallFails, Kill, history
<1> QED
  BY <1>3, <1>4, <1>5, <1>6, <1>7
  DEF Prepare, Serve, AcquireLock, TryAdoptLegacy, StatTable, HashTable, CheckLegacy,
      BindLegacy, CopyShards, CheckStaged, Publish, SyncDirectory, BindPublished,
      ReplaceReceipt, FinishReceipt, ReadReceipt, OpenTable, Preparing

\* A session's own step, as long as it stays undisturbed.
LEMMA CalmOwn ==
  ASSUME TypeOK, Aux, CalmInv, src.data = "good", NEW p \in Sessions,
         Prepare(p) \/ Serve(p) \/ SystemCallFails(p) \/ Kill(p), p \notin disturbed'
  PROVE  SourceCalm(p)' /\ TableCalm(p)' /\ pc'[p] # "refused"
<1>0. p \notin disturbed /\ src' = src BY SessionFrame
<1>1. SourceCalm(p) /\ TableCalm(p) /\ ServerCalm(p) BY <1>0 DEF CalmInv, CalmAt
<1> USE <1>0, <1>1 DEF Goto, Refuse, Set, TypeOK
<1>2. CASE AcquireLock(p)
  BY <1>2 DEF AcquireLock, SourceCalm, TableCalm, Preparing
<1>3. CASE StatSource(p)
  <2>1. pc'[p] = "srchash" /\ srcBase'[p] = src.time
    BY <1>3 DEF StatSource
  <2> QED BY <2>1 DEF SourceCalm, TableCalm
<1>4. CASE HashSource(p) \/ CheckSource(p)
  <2>1. pc[p] \in {"srchash", "srccheck"} /\ UNCHANGED <<srcBase, tabBase, tabStat>>
    BY <1>4 DEF HashSource, CheckSource, locals
  <2>2. srcBase[p] = src.time BY <2>1 DEF SourceCalm, Preparing
  <2>3. \/ pc'[p] = "srccheck" /\ hash'[p] = "good"
        \/ pc'[p] = "inspect"
    BY <1>4, <2>2 DEF HashSource, CheckSource, SourceUnchanged, SourceCalm
  <2> QED BY <2>1, <2>2, <2>3 DEF SourceCalm, TableCalm
<1>5. CASE Inspect(p)
  <2>1. srcBase[p] = src.time /\ UNCHANGED <<srcBase, table, receipt>>
    BY <1>5 DEF Inspect, SourceCalm, Preparing, files
  <2>2. tabBase'[p] = Stat(table) /\ pc'[p] \in {"warmstat", "legacy", "copy"}
    BY <1>5 DEF Inspect
  <2>3. pc'[p] = "warmstat" => table.ino # None /\ WarmEligible(p)
    BY <1>5 DEF Inspect
  <2>4. Stat(table)' = Stat(table) BY <2>1 DEF Stat
  <2> QED BY <2>1, <2>2, <2>3, <2>4 DEF SourceCalm, TableCalm, WarmEligible
<1>6. CASE StatTable(p, "warmstat", "warmhash") \/ HashTable(p, "warmhash", "warmcheck")
  <2>1. UNCHANGED <<srcBase, tabBase, table, receipt>>
    BY <1>6 DEF StatTable, HashTable, files
  <2>2. Stat(table)' = Stat(table) BY <2>1 DEF Stat
  <2>3. srcBase[p] = src.time
    BY <1>6 DEF StatTable, HashTable, SourceCalm, Preparing
  <2> QED BY <1>6, <2>1, <2>2, <2>3 DEF StatTable, HashTable, SourceCalm, TableCalm
<1>7. CASE CheckWarm(p)
  <2>1. UNCHANGED <<srcBase, tabBase, tabStat, hash, table, receipt>> /\ pc[p] = "warmcheck"
    BY <1>7 DEF CheckWarm, locals, files
  <2>2. Stat(table)' = Stat(table) BY <2>1 DEF Stat
  <2>3. srcBase[p] = src.time BY <2>1 DEF SourceCalm, Preparing
  <2>4. /\ tabStat[p] = Stat(table) /\ tabBase[p] = Stat(table) /\ hash[p] = table.data
        /\ table.ino # None
    BY <2>1 DEF TableCalm
  <2>5. pc'[p] \in {"copy", "receipt", "open"} /\ (pc'[p] = "receipt" => hash[p] = "good")
    BY <1>7, <2>3, <2>4 DEF CheckWarm, TableUnchanged, SourceUnchanged
  <2> QED BY <2>1, <2>2, <2>3, <2>4, <2>5 DEF SourceCalm, TableCalm
<1>8. CASE TryAdoptLegacy(p) \/ HashTable(p, "legacyhash", "legacycheck")
  <2>1. UNCHANGED <<srcBase, tabBase, table, receipt>>
    BY <1>8 DEF TryAdoptLegacy, StatTable, HashTable, files, locals
  <2>2. Stat(table)' = Stat(table) BY <2>1 DEF Stat
  <2>3. srcBase[p] = src.time
    BY <1>8 DEF TryAdoptLegacy, StatTable, HashTable, SourceCalm, Preparing
  <2> QED BY <1>8, <2>1, <2>2, <2>3 DEF TryAdoptLegacy, StatTable, HashTable, SourceCalm, TableCalm
<1>9. CASE CheckLegacy(p)
  <2>1. UNCHANGED <<srcBase, table>> /\ pc[p] = "legacycheck"
    BY <1>9 DEF CheckLegacy, locals, files
  <2>2. srcBase[p] = src.time BY <2>1 DEF SourceCalm, Preparing
  <2>3. tabStat[p] = Stat(table) /\ hash[p] = table.data /\ table.ino # None
    BY <2>1 DEF TableCalm
  <2>4. pc'[p] \in {"copy", "legacybind"} /\ (pc'[p] = "legacybind" => hash[p] = "good")
    BY <1>9, <2>3 DEF CheckLegacy, TableUnchanged
  <2> QED BY <2>1, <2>2, <2>3, <2>4 DEF SourceCalm, TableCalm
<1>10. CASE BindLegacy(p) \/ BindPublished(p)
  <2>1. UNCHANGED <<srcBase, table>> /\ pc[p] \in {"legacybind", "bind"}
    BY <1>10 DEF BindLegacy, BindPublished, files
  <2>2. srcBase[p] = src.time BY <2>1 DEF SourceCalm, Preparing
  <2>3. pc'[p] = "receipt" /\ tabBase'[p] = Stat(table)
    BY <1>10, <2>2 DEF BindLegacy, BindPublished, SourceUnchanged
  <2>4. Stat(table)' = Stat(table) BY <2>1 DEF Stat
  <2> QED BY <2>1, <2>2, <2>3, <2>4 DEF SourceCalm, TableCalm
<1>11. CASE CopyShards(p) \/ CheckStaged(p)
  <2>1. UNCHANGED <<srcBase>> /\ pc[p] \in {"copy", "staged"}
    BY <1>11 DEF CopyShards, CheckStaged, locals
  <2>2. srcBase[p] = src.time BY <2>1 DEF SourceCalm, Preparing
  <2>3. (pc'[p] = "staged" /\ hash'[p] = "good") \/ pc'[p] = "publish"
    BY <1>11, <2>2 DEF CopyShards, CheckStaged, StagedGood, SourceUnchanged, SourceCalm
  <2> QED BY <2>1, <2>2, <2>3 DEF SourceCalm, TableCalm
<1>12. CASE Publish(p)
  <2>1. pc[p] = "publish" /\ pc'[p] = "dirsync" /\ UNCHANGED srcBase
    BY <1>12 DEF Publish, locals
  <2>2. srcBase[p] = src.time /\ hash[p] = "good"
    BY <2>1 DEF SourceCalm, Preparing, Aux, At, HashAt
  <2>3. table'.ino # None /\ table'.data = "good"
    BY <1>12, <2>2, NoneAssumption DEF Publish
  <2> QED BY <2>1, <2>2, <2>3 DEF SourceCalm, TableCalm
<1>13. CASE SyncDirectory(p) \/ ReplaceReceipt(p)
  <2>1. UNCHANGED <<srcBase, tabBase, table>> /\ pc[p] \in {"dirsync", "receipt"}
    BY <1>13 DEF SyncDirectory, ReplaceReceipt, locals, files
  <2>2. srcBase[p] = src.time BY <2>1 DEF SourceCalm, Preparing
  <2>3. \/ pc[p] = "dirsync" /\ pc'[p] = "bind"
        \/ pc[p] = "receipt" /\ pc'[p] = "receiptsync" /\ receipt' = Receipt(srcBase[p], tabBase[p])
    BY <1>13 DEF SyncDirectory, ReplaceReceipt
  <2>4. Stat(table)' = Stat(table) BY <2>1 DEF Stat
  <2> QED BY <2>1, <2>2, <2>3, <2>4 DEF SourceCalm, TableCalm, Receipt
<1>14. CASE FinishReceipt(p) \/ Kill(p)
  <2>1. pc'[p] \in {"open", "dead"} BY <1>14 DEF FinishReceipt, Kill
  <2> QED BY <2>1 DEF SourceCalm, TableCalm, Preparing
<1>15. CASE Serve(p)
  <2>1. pc[p] \in {"open", "opentable"}
    BY <1>15 DEF Serve, ReadReceipt, OpenTable
  <2>2. handoff[p] = receipt /\ receipt = Receipt(src.time, Stat(table)) /\ table.ino # None
    BY <2>1 DEF ServerCalm
  <2>3. Fresh(p) BY <2>2 DEF Fresh, Receipt
  <2>4. pc'[p] \in {"opentable", "mapped"}
    BY <1>15, <2>2, <2>3 DEF Serve, ReadReceipt, OpenTable
  <2> QED BY <2>4 DEF SourceCalm, TableCalm, Preparing
<1>16. CASE SystemCallFails(p)
  BY <1>16 DEF SystemCallFails
<1> QED
  BY <1>2, <1>3, <1>4, <1>5, <1>6, <1>7, <1>8, <1>9, <1>10, <1>11, <1>12, <1>13, <1>14, <1>15,
     <1>16 DEF Prepare

\* The server of an undisturbed session, when the session itself steps.
LEMMA ServerOwn ==
  ASSUME TypeOK, Aux, CalmInv, src.data = "good", NEW p \in Sessions,
         Prepare(p) \/ Serve(p) \/ SystemCallFails(p) \/ Kill(p), p \notin disturbed',
         pc'[p] \in {"open", "opentable"}
  PROVE  ServerCalm(p)'
<1>0. p \notin disturbed /\ src' = src /\ \A q \in Sessions \ {p} : pc'[q] = pc[q]
  BY SessionFrame
<1>1. SourceCalm(p) /\ TableCalm(p) /\ ServerCalm(p) BY <1>0 DEF CalmInv, CalmAt
<1> USE <1>0, <1>1 DEF Goto, Refuse, Set, TypeOK
<1>2. ASSUME pc[p] \in Preparing, NEW q \in Sessions PROVE pc'[q] \notin Preparing
  BY <1>2, OnePrepares DEF Preparing
<1>3. CASE CheckWarm(p)
  <2>1. pc[p] = "warmcheck" /\ UNCHANGED <<table, receipt>>
    BY <1>3 DEF CheckWarm, files
  <2>2. /\ handoff'[p] = receipt /\ hash[p] = "good" /\ tabBase[p] = receipt.table
    BY <1>3 DEF CheckWarm, RenewNeeded
  <2>3. /\ receipt.state = "valid" /\ receipt.src = src.time /\ receipt.table = Stat(table)
        /\ table.ino # None /\ table.data = "good"
    BY <2>1, <2>2 DEF TableCalm, SourceCalm, Preparing
  <2>4. receipt = Receipt(src.time, Stat(table))
    BY <2>3 DEF Receipt, Receipts
  <2>5. Stat(table)' = Stat(table) BY <2>1 DEF Stat
  <2>6. pc[p] \in Preparing BY <2>1 DEF Preparing
  <2> QED BY <1>2, <2>1, <2>2, <2>3, <2>4, <2>5, <2>6 DEF ServerCalm, Receipt
<1>4. CASE FinishReceipt(p)
  <2>1. pc[p] = "receiptsync" /\ UNCHANGED <<table, receipt>>
    BY <1>4 DEF FinishReceipt, files
  <2>2. handoff'[p] = Receipt(srcBase[p], tabBase[p])
    BY <1>4 DEF FinishReceipt
  <2>3. /\ receipt = Receipt(srcBase[p], tabBase[p]) /\ srcBase[p] = src.time
        /\ tabBase[p] = Stat(table) /\ table.ino # None /\ table.data = "good"
    BY <2>1 DEF TableCalm, SourceCalm, Preparing
  <2>4. Stat(table)' = Stat(table) BY <2>1 DEF Stat
  <2>5. pc[p] \in Preparing BY <2>1 DEF Preparing
  <2> QED BY <1>2, <2>1, <2>2, <2>3, <2>4, <2>5 DEF ServerCalm, Receipt
<1>5. CASE ReadReceipt(p)
  <2>1. pc[p] = "open" /\ UNCHANGED <<table, receipt, handoff, disturbed>>
    BY <1>5 DEF ReadReceipt, files, history
  <2>2. Stat(table)' = Stat(table) BY <2>1 DEF Stat
  <2>3. \A q \in Sessions : pc'[q] \in Preparing => pc'[q] = pc[q]
    BY DEF Preparing
  <2> QED BY <2>1, <2>2, <2>3 DEF ServerCalm, Receipt
<1> QED
  BY <1>3, <1>4, <1>5
  DEF Prepare, Serve, AcquireLock, StatSource, HashSource, CheckSource, Inspect, StatTable,
      HashTable, TryAdoptLegacy, CheckLegacy, BindLegacy, CopyShards, CheckStaged, Publish,
      SyncDirectory, BindPublished, ReplaceReceipt, OpenTable, SystemCallFails, Kill

\* The server of an undisturbed session, when another session steps.
LEMMA ServerOther ==
  ASSUME TypeOK, Aux, CalmInv, src.data = "good", NEW p \in Sessions,
         Prepare(p) \/ Serve(p) \/ SystemCallFails(p) \/ Kill(p),
         NEW q \in Sessions \ disturbed, q # p, pc[q] \in {"open", "opentable"}
  PROVE  ServerCalm(q)'
<1>0. /\ \A r \in Sessions \ {p} : pc'[r] = pc[r] /\ handoff'[r] = handoff[r]
      /\ src' = src /\ disturbed' \subseteq disturbed \cup {p}
  BY SessionFrame
<1>1. ServerCalm(q) BY DEF CalmInv, CalmAt
<1>2. /\ UNCHANGED <<table, receipt>>
      /\ pc'[p] \in Preparing => p \notin disturbed' /\ pc'[p] \in Rechecking
  <2>1. CASE pc[p] \in Preparing
    BY <2>1, RecheckingGoesOn DEF Preparing
  <2>2. CASE AcquireLock(p)
    <3>1. p \notin disturbed /\ UNCHANGED <<table, receipt>>
      BY <2>2 DEF AcquireLock, CalmInv, files
    <3>2. (pc'[p] = "srcstat" /\ disturbed' = disturbed) \/ pc'[p] = "refused"
      BY <2>2 DEF AcquireLock, Goto, TypeOK
    <3> QED BY <3>1, <3>2 DEF Rechecking, Preparing
  <2>3. CASE Serve(p) \/ Kill(p)
    BY <2>3 DEF Serve, ReadReceipt, OpenTable, Kill, Goto, TypeOK, Preparing, files
  <2>4. CASE pc[p] \notin Preparing /\ ~AcquireLock(p) /\ ~Serve(p) /\ ~Kill(p)
    BY <2>4
    DEF Prepare, StatSource, HashSource, CheckSource, Inspect, StatTable, HashTable, CheckWarm,
        TryAdoptLegacy, CheckLegacy, BindLegacy, CopyShards, CheckStaged, Publish,
        SyncDirectory, BindPublished, ReplaceReceipt, FinishReceipt, SystemCallFails,
        Goto, Refuse, Preparing
  <2> QED BY <2>1, <2>2, <2>3, <2>4
<1>3. Stat(table)' = Stat(table) BY <1>2 DEF Stat
<1> QED BY <1>0, <1>1, <1>2, <1>3 DEF ServerCalm, Receipt

\* Every step keeps the invariant.
LEMMA CalmStep == CacheInv /\ CalmInv /\ [Next]_vars => CalmInv'
<1> SUFFICES ASSUME TypeOK, Aux, CalmInv, [Next]_vars PROVE CalmInv'
  BY DEF CacheInv
<1>1. ASSUME NEW p \in Sessions, Prepare(p) \/ Serve(p) \/ SystemCallFails(p) \/ Kill(p)
      PROVE  CalmInv'
  <2>0. /\ \A q \in Sessions \ {p} :
             /\ pc'[q] = pc[q] /\ srcBase'[q] = srcBase[q] /\ tabBase'[q] = tabBase[q]
             /\ tabStat'[q] = tabStat[q] /\ hash'[q] = hash[q] /\ handoff'[q] = handoff[q]
        /\ ~Publish(p) => UNCHANGED table
        /\ ~ReplaceReceipt(p) => UNCHANGED receipt
        /\ src' = src /\ disturbed \subseteq disturbed' /\ disturbed' \subseteq disturbed \cup {p}
    BY <1>1, SessionFrame
  <2>1. ASSUME NEW q \in Sessions, pc'[q] = "lock" PROVE q \notin disturbed'
    <3>1. pc'[p] # "lock"
      BY <1>1
      DEF Prepare, Serve, AcquireLock, StatSource, HashSource, CheckSource, Inspect, StatTable,
          HashTable, CheckWarm, TryAdoptLegacy, CheckLegacy, BindLegacy, CopyShards,
          CheckStaged, Publish, SyncDirectory, BindPublished, ReplaceReceipt, FinishReceipt,
          ReadReceipt, OpenTable, SystemCallFails, Kill, Goto, Refuse, TypeOK
    <3> QED BY <2>0, <2>1, <3>1 DEF CalmInv
  <2>2. ASSUME src.data = "good", NEW q \in Sessions, q \notin disturbed' PROVE CalmAt(q)'
    <3>1. CASE q = p
      <4>1. SourceCalm(p)' /\ TableCalm(p)' /\ pc'[p] # "refused"
        BY <1>1, <2>2, <3>1, CalmOwn
      <4>2. ServerCalm(p)'
        <5>1. CASE pc'[p] \in {"open", "opentable"}
          BY <1>1, <2>2, <3>1, <5>1, ServerOwn
        <5>2. CASE pc'[p] \notin {"open", "opentable"}
          BY <5>2 DEF ServerCalm
        <5> QED BY <5>1, <5>2
      <4> QED BY <3>1, <4>1, <4>2 DEF CalmAt
    <3>2. CASE q # p
      <4>0. q \notin disturbed BY <2>0, <2>2
      <4>1. CalmAt(q) BY <2>2, <4>0 DEF CalmInv
      <4>2. CASE pc[q] \in Preparing
        <5>1. ~Publish(p) /\ ~ReplaceReceipt(p)
          BY <3>2, <4>2, OnePrepares DEF Publish, ReplaceReceipt, Goto, Preparing
        <5>2. UNCHANGED <<table, receipt>> /\ Stat(table)' = Stat(table)
          BY <2>0, <5>1 DEF Stat
        <5>3. SourceCalm(q)'
          BY <2>0, <3>2, <4>1 DEF CalmAt, SourceCalm
        <5>4. TableCalm(q)'
          BY <2>0, <3>2, <4>1, <5>2 DEF CalmAt, TableCalm, Receipt
        <5> QED BY <2>0, <3>2, <4>1, <4>2, <5>3, <5>4 DEF CalmAt, ServerCalm, Preparing
      <4>3. CASE pc[q] \in {"open", "opentable"}
        <5>1. ServerCalm(q)' BY <1>1, <2>2, <3>2, <4>0, <4>3, ServerOther
        <5> QED BY <2>0, <3>2, <4>3, <5>1 DEF CalmAt, SourceCalm, TableCalm, Preparing
      <4>4. CASE pc[q] \notin Preparing \cup {"open", "opentable"}
        BY <2>0, <3>2, <4>1, <4>4 DEF CalmAt, SourceCalm, TableCalm, ServerCalm, Preparing
      <4> QED BY <4>2, <4>3, <4>4
    <3> QED BY <3>1, <3>2
  <2> QED BY <2>0, <2>1, <2>2 DEF CalmInv
<1>2. CASE ChangeTable \/ ChangeSource
  <2>1. /\ pc' = pc /\ (src'.data = "good" => src.data = "good")
        /\ disturbed' = disturbed \cup {p \in Sessions : pc[p] \notin Final \cup {"lock"}}
    BY <1>2 DEF ChangeTable, ChangeSource, Disturb
  <2>2. ASSUME src.data = "good", NEW q \in Sessions, q \notin disturbed' PROVE CalmAt(q)'
    <3>1. pc[q] \in Final \cup {"lock"} /\ pc[q] # "refused"
      BY <2>1, <2>2 DEF CalmInv, CalmAt
    <3> QED BY <2>1, <3>1 DEF CalmAt, SourceCalm, TableCalm, ServerCalm, Preparing, Final
  <2>3. \A q \in Sessions : pc'[q] = "lock" => q \notin disturbed'
    BY <2>1 DEF CalmInv
  <2> QED BY <2>1, <2>2, <2>3 DEF CalmInv
<1>3. CASE AllFinal \/ UNCHANGED vars
  <2>1. UNCHANGED vars BY <1>3 DEF AllFinal
  <2> QED BY <2>1 DEF vars, CalmInv, CalmAt, SourceCalm, TableCalm, ServerCalm, Stat, Receipt
<1> QED BY <1>1, <1>2, <1>3 DEF Next

\* A session that meets no busy lock, no failing call and no change of a file
\* is not refused while the source is good: no leftover of earlier sessions,
\* killed at any step, and no session beside it stands in its way.
THEOREM CalmSucceeds == Spec => []UndisturbedSucceeds
<1>1. Init => CalmInv
  BY DEF Init, CalmInv, CalmAt, SourceCalm, TableCalm, ServerCalm, Preparing
<1>2. CacheInv /\ CalmInv => UndisturbedSucceeds
  BY DEF CacheInv, TypeOK, CalmInv, CalmAt, UndisturbedSucceeds
<1> QED BY <1>1, <1>2, CacheInit, CacheStep, CalmStep, PTL DEF Spec
=============================================================================
