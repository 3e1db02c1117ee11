------------------------------ MODULE Receipt ------------------------------
(***************************************************************************)
(* scripts/verify_files.py: the full verification of a checkpoint tree,    *)
(* the publication of its receipt, and the two checks of a receipt against *)
(* the tree, that of verify_files.py (stat and bytes) and that of guard.py *)
(* (pinned digest and stat).  Files change between any two steps.          *)
(*                                                                         *)
(* A stat (device, inode, size, mtime, ctime) is a number that is new      *)
(* after every change.                                                     *)
(***************************************************************************)
EXTENDS Naturals

CONSTANTS
  Files,         \* files of the inventory
  MaxChanges,    \* bound: changes of the tree
  MaxVerifies,   \* bound: verifications
  NoFile         \* no file at hand

ASSUME ReceiptAssumption == MaxChanges \in Nat /\ MaxVerifies \in Nat /\ NoFile \notin Files

\* Bytes as the source lock has them, other bytes of the same size, another
\* size, or no regular file under the name.
Bytes == {"good", "bad", "resized", "gone"}

VARIABLES
  file,       \* [Files -> [bytes, stat]]
  root,       \* stat of the directory, new when an entry of it comes or goes
  changes,    \* changes so far
  lock,       \* is the inventory a well-formed source lock? "ok" or "bad"
  vpc,        \* verifier: "idle", "next", "hash", "restat", "write", "replace", "print", "done", "failed"
  vleft, vfile, vstat, vgot,   \* files left, file at hand, its first lstat, what was hashed
  rows,       \* [Files -> Nat]: stats recorded so far, 0 if none
  rootStat,   \* root_stat of the document being written
  verifies,   \* verifications begun
  receipt,    \* published: [id, root, rows], id 0 if there is none
  leftover,   \* "yes" if a killed verifier left its temporary file
  pinned,     \* digest the operator was given by the last successful run
  kpc,        \* a check: "idle", "next", "hash", "restat", "pass", "fail", "refused"
  check,      \* "guard" or "recheck"
  kleft, kfile, kstat,
  doc,        \* the receipt it has read
  start,      \* history: did the tree match doc when the check began?
  rootStart   \* history: and the stat of the directory?

tree == <<file, root, changes>>
verifier == <<lock, vpc, vleft, vfile, vstat, vgot, rows, rootStat, verifies, receipt, leftover, pinned>>
checker == <<kpc, check, kleft, kfile, kstat, doc, start, rootStart>>
receiptVars == <<tree, verifier, checker>>

NoRows == [f \in Files |-> 0]
NoDoc == [id |-> 0, root |-> 0, rows |-> NoRows]

ReceiptInit ==
  /\ file \in [Files -> [bytes : {"good", "bad"}, stat : {1}]]
  /\ root = 1 /\ changes = 0 /\ lock \in {"ok", "bad"}
  /\ vpc = "idle" /\ vleft = {} /\ vfile = NoFile /\ vstat = 0 /\ vgot = "gone"
  /\ rows = NoRows /\ rootStat = 0 /\ verifies = 0 /\ receipt = NoDoc /\ leftover = "no" /\ pinned = 0
  /\ kpc = "idle" /\ check = "guard" /\ kleft = {} /\ kfile = NoFile /\ kstat = 0
  /\ doc = NoDoc /\ start = "no" /\ rootStart = "no"

\* Anybody writes, swaps, truncates, removes or restores a file, in place or
\* under its name in the directory.
Change(f, b, how) ==
  /\ changes < MaxChanges
  /\ changes' = changes + 1
  /\ file' = [file EXCEPT ![f] = [bytes |-> b, stat |-> changes + 2]]
  /\ root' = IF how = "name" THEN changes + 2 ELSE root
  /\ UNCHANGED <<verifier, checker>>

\* A file that is not of the inventory comes or goes.
ChangeOther ==
  /\ changes < MaxChanges
  /\ changes' = changes + 1
  /\ root' = changes + 2
  /\ UNCHANGED <<file, verifier, checker>>

(***************************************************************************)
(* verify_files and write_receipt.                                         *)
(***************************************************************************)
VerifyGoes(to) == vpc' = to /\ UNCHANGED <<tree, checker, lock, verifies, pinned>>

\* _iter_inventory and the loop over its entries: model identity, safe and
\* distinct paths, digests and sizes of the right form.
VerifyBegin ==
  /\ vpc \in {"idle", "done", "failed"} /\ verifies < MaxVerifies
  /\ verifies' = verifies + 1
  /\ vpc' = IF lock = "ok" THEN "next" ELSE "failed"
  /\ vleft' = Files /\ rows' = NoRows
  /\ UNCHANGED <<tree, checker, lock, vfile, vstat, vgot, rootStat, receipt, leftover, pinned>>

\* realpath, isfile, lstat and size.
VerifyStat(f) ==
  /\ vpc = "next" /\ f \in vleft
  /\ IF file[f].bytes \in {"gone", "resized"}
     THEN VerifyGoes("failed") /\ UNCHANGED <<vfile, vstat>>
     ELSE VerifyGoes("hash") /\ vfile' = f /\ vstat' = file[f].stat
  /\ UNCHANGED <<vleft, vgot, rows, rootStat, receipt, leftover>>

\* _sha256_file and _git_blob_sha1: a file that shrank, grew or went away fails here.
VerifyHash ==
  /\ vpc = "hash"
  /\ IF file[vfile].bytes \in {"gone", "resized"}
     THEN VerifyGoes("failed") /\ UNCHANGED vgot
     ELSE VerifyGoes("restat") /\ vgot' = file[vfile].bytes
  /\ UNCHANGED <<vleft, vfile, vstat, rows, rootStat, receipt, leftover>>

\* Mutant: the second lstat is recorded, not compared.
UnchangedSinceAssumed(f, st) == TRUE
UnchangedSince(f, st) == file[f].stat = st

VerifyRestat ==
  /\ vpc = "restat"
  /\ IF UnchangedSince(vfile, vstat) /\ vgot = "good"
     THEN /\ VerifyGoes(IF vleft = {vfile} THEN "write" ELSE "next")
          /\ rows' = [rows EXCEPT ![vfile] = file[vfile].stat]
          /\ vleft' = vleft \ {vfile}
     ELSE VerifyGoes("failed") /\ UNCHANGED <<rows, vleft>>
  /\ UNCHANGED <<vfile, vstat, vgot, rootStat, receipt, leftover>>

\* The last field of the document is the stat of the directory.  write_receipt:
\* temporary file, fsync, os.replace; an I/O error removes it again.
WriteTemporary ==
  /\ vpc = "write"
  /\ rootStat' = root
  /\ \/ VerifyGoes("replace")
     \/ VerifyGoes("failed")
  /\ UNCHANGED <<vleft, vfile, vstat, vgot, rows, receipt, leftover>>

ReplaceReceipt ==
  /\ vpc = "replace"
  /\ receipt' = [id |-> verifies, root |-> rootStat, rows |-> rows]
  /\ VerifyGoes("print")
  /\ UNCHANGED <<vleft, vfile, vstat, vgot, rows, rootStat, leftover>>

\* main prints the digest, which the operator gives to the guard.
PrintDigest ==
  /\ vpc = "print"
  /\ pinned' = receipt.id /\ vpc' = "done"
  /\ UNCHANGED <<tree, checker, lock, vleft, vfile, vstat, vgot, rows, rootStat, verifies, receipt, leftover>>

VerifierKilled ==
  /\ vpc \notin {"idle", "done", "failed"}
  /\ VerifyGoes("failed")
  /\ leftover' = IF vpc = "replace" THEN "yes" ELSE leftover
  /\ UNCHANGED <<vleft, vfile, vstat, vgot, rows, rootStat, receipt>>

(***************************************************************************)
(* check_receipt_against_tree ("recheck") and guard.check_receipt.         *)
(***************************************************************************)
CheckGoes(to) == kpc' = to /\ UNCHANGED <<tree, verifier, check, doc, start, rootStart>>

\* What the checks compare: the files of the receipt.  The recorded root_stat is
\* read by neither, so a file beside those of the inventory is no mismatch.
Matches(d) == \A f \in Files : file[f].stat = d.rows[f]

\* The document is read once.  The guard takes only the pinned one.
CheckBegin(k) ==
  /\ kpc \in {"idle", "pass", "fail", "refused"}
  /\ check' = k /\ doc' = receipt /\ kleft' = Files
  /\ start' = IF Matches(receipt) THEN "yes" ELSE "no"
  /\ rootStart' = IF root = receipt.root THEN "yes" ELSE "no"
  /\ kpc' = IF receipt.id = 0 \/ (k = "guard" /\ receipt.id # pinned) THEN "refused" ELSE "next"
  /\ UNCHANGED <<tree, verifier, kfile, kstat>>

\* Mutant: only the size is compared.
StatMatchesSize(f) == file[f].bytes \notin {"gone", "resized"}
StatMatches(f) == file[f].bytes # "gone" /\ file[f].stat = doc.rows[f]

CheckDone(f) == IF kleft = {f} THEN "pass" ELSE "next"

CheckStat(f) ==
  /\ kpc = "next" /\ f \in kleft
  /\ kfile' = f /\ kstat' = file[f].stat
  /\ IF ~StatMatches(f) THEN CheckGoes("fail") /\ UNCHANGED kleft
     ELSE IF check = "recheck" THEN CheckGoes("hash") /\ UNCHANGED kleft
     ELSE CheckGoes(CheckDone(f)) /\ kleft' = kleft \ {f}

\* The bytes are compared with the digests of the receipt, which are those of the lock.
CheckHash ==
  /\ kpc = "hash"
  /\ CheckGoes(IF file[kfile].bytes = "good" THEN "restat" ELSE "fail")
  /\ UNCHANGED <<kleft, kfile, kstat>>

CheckRestat ==
  /\ kpc = "restat"
  /\ IF UnchangedSince(kfile, kstat)
     THEN CheckGoes(CheckDone(kfile)) /\ kleft' = kleft \ {kfile}
     ELSE CheckGoes("fail") /\ UNCHANGED kleft
  /\ UNCHANGED <<kfile, kstat>>

Verify == \/ VerifyBegin \/ VerifyHash \/ VerifyRestat \/ WriteTemporary \/ ReplaceReceipt
          \/ PrintDigest \/ VerifierKilled \/ \E f \in Files : VerifyStat(f)
Check == \/ CheckHash \/ CheckRestat
         \/ \E f \in Files : CheckStat(f)
         \/ \E k \in {"guard", "recheck"} : CheckBegin(k)

ReceiptNext ==
  \/ Verify \/ Check \/ ChangeOther
  \/ \E f \in Files, b \in Bytes, how \in {"place", "name"} : Change(f, b, how)

ReceiptSpec == ReceiptInit /\ [][ReceiptNext]_receiptVars

(***************************************************************************)
(* Properties.                                                             *)
(***************************************************************************)
\* A receipt never vouches for other bytes than those of the source lock
\* (verify_files): whoever finds the recorded stat finds the good bytes, although
\* the files were hashed one after the other while the tree changed, and the
\* verifier may have been killed at any step.
ReceiptTruthful ==
  \A f \in Files : receipt.id # 0 /\ file[f].stat = receipt.rows[f] => file[f].bytes = "good"

A == INSTANCE Attest WITH match <- IF Matches(doc) THEN "yes" ELSE "no",
                          call <- IF kpc \in {"next", "hash", "restat"} THEN "run" ELSE kpc,
                          start <- start

\* Both checks, file by file against a changing tree, implement the promise of
\* module Attest: they pass only if every file matched the receipt at the moment
\* the check began, and refuse only if one does not match.  The directory itself
\* is not part of that promise: see RootCompared.
CheckIsAttest == A!Spec

\* "Compares root path, root stat identity, file count, per-file stat identity"
\* (check_receipt_against_tree): the directory too is as it was recorded.
RootCompared == kpc = "pass" /\ check = "recheck" => rootStart = "yes"
=============================================================================
