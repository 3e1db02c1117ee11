----------------------------- MODULE Admission -----------------------------
(***************************************************************************)
(* SingleGpuAdmission.request and main of scripts/q200_single_gpu.py.  The *)
(* frozen toolkit (external) runs the quality rows on one or two worker    *)
(* threads; each row is generated under a lease: flock without waiting,    *)
(* the server idle and its snapshot healthy before the row and after it.   *)
(* The server may lose its health, or get it back, at any time.            *)
(***************************************************************************)
EXTENDS Naturals, FiniteSets

CONSTANTS
  Workers,   \* threads of the toolkit
  Rows,      \* rows of the quality set
  NoOne      \* nobody holds the lock, no row is worked on

ASSUME AdmissionAssumption == NoOne \notin Workers \cup Rows /\ IsFiniteSet(Workers)

VARIABLES
  at,        \* [Workers -> "free" | "entered" | "locked" | "in"]: the context manager
  row,       \* [Workers -> Rows \cup {NoOne}]
  flock,     \* .admission.lock
  failed,    \* self.failed: "no" or "yes"
  lease,     \* [Rows -> "none" | "refused" | "open" | "VERIFIED" | "FAILED" | "lost"]
  health,    \* what idle_fn and snapshot would find: "good" or "bad"
  finalist,  \* do the launch record, the selection and the toolkit agree?
  code,      \* exit status of main, 3 while it runs, 4 when it raised
  late       \* history: rows admitted after a release had failed

admission == <<at, row, flock, failed, lease, health, finalist, code, late>>

AdmissionInit ==
  /\ at = [w \in Workers |-> "free"] /\ row = [w \in Workers |-> NoOne]
  /\ flock = NoOne /\ failed = "no"
  /\ lease = [r \in Rows |-> "none"]
  /\ health \in {"good", "bad"} /\ finalist \in {"same", "other"}
  /\ code = 3 /\ late = {}

\* checked_finalist and load_kit raise before any row.
RefuseFinalist ==
  /\ finalist = "other" /\ code = 3
  /\ code' = 4
  /\ UNCHANGED <<at, row, flock, failed, lease, health, finalist, late>>

Health == /\ health' = IF health = "good" THEN "bad" ELSE "good"
          /\ code = 3
          /\ UNCHANGED <<at, row, flock, failed, lease, finalist, code, late>>

Refuse(w, r) ==
  /\ lease' = [lease EXCEPT ![r] = "refused"]
  /\ at' = [at EXCEPT ![w] = "free"] /\ row' = [row EXCEPT ![w] = NoOne]

Take(w, r) ==
  /\ finalist = "same" /\ code = 3
  /\ at[w] = "free" /\ lease[r] = "none" /\ \A v \in Workers : row[v] # r

\* Mutant: a failed release does not block what follows.
BlockedNever == FALSE
\* self.failed is read before the lock is asked for.
Blocked == failed = "yes"

Enter(w, r) ==
  /\ Take(w, r)
  /\ IF Blocked
     THEN Refuse(w, r)
     ELSE /\ at' = [at EXCEPT ![w] = "entered"] /\ row' = [row EXCEPT ![w] = r]
          /\ UNCHANGED lease
  /\ UNCHANGED <<flock, failed, health, finalist, code, late>>

Lock(w) ==
  /\ at[w] = "entered"
  /\ IF flock = NoOne
     THEN flock' = w /\ at' = [at EXCEPT ![w] = "locked"] /\ UNCHANGED <<row, lease>>
     ELSE Refuse(w, row[w]) /\ UNCHANGED flock
  /\ UNCHANGED <<failed, health, finalist, code, late>>

\* idle_fn and the snapshot before the row; then the toolkit generates.
Admit(w) ==
  /\ at[w] = "locked"
  /\ IF health = "good"
     THEN /\ at' = [at EXCEPT ![w] = "in"] /\ lease' = [lease EXCEPT ![row[w]] = "open"]
          /\ late' = IF failed = "yes" THEN late \cup {row[w]} ELSE late
          /\ UNCHANGED <<row, flock>>
     ELSE Refuse(w, row[w]) /\ flock' = NoOne /\ UNCHANGED late
  /\ UNCHANGED <<failed, health, finalist, code>>

\* Mutant: the failure is noted in the lease only.
FailedInLease == failed
FailedAfter == IF health = "good" THEN failed ELSE "yes"

\* The row is over, with an answer or an exception: verify, write the lease, unlock.
\* The write may raise: then there is no lease on disk, and the toolkit gets the
\* exception in place of the row; self.failed tells of the verification only.
Release(w, file) ==
  /\ at[w] = "in"
  /\ failed' = FailedAfter
  /\ lease' = [lease EXCEPT ![row[w]] = IF file = "raises" THEN "lost"
                                        ELSE IF health = "good" THEN "VERIFIED" ELSE "FAILED"]
  /\ at' = [at EXCEPT ![w] = "free"] /\ row' = [row EXCEPT ![w] = NoOne]
  /\ flock' = NoOne
  /\ UNCHANGED <<health, finalist, code, late>>

\* transport_complete and SCORED come from the toolkit (external): it counts no row
\* as answered whose admission raised, on entry or on release, and may fail to
\* answer or to grade others.
Finish(complete, scored) ==
  /\ finalist = "same" /\ code = 3 /\ \A w \in Workers : at[w] = "free"
  /\ \A r \in Rows : lease[r] # "none"
  /\ complete = "yes" => \A r \in Rows : lease[r] \notin {"refused", "lost"}
  /\ code' = IF complete = "no" \/ failed = "yes" THEN 1 ELSE IF scored = "yes" THEN 0 ELSE 2
  /\ UNCHANGED <<at, row, flock, failed, lease, health, finalist, late>>

Ended == code # 3 /\ UNCHANGED admission

AdmissionNext ==
  \/ RefuseFinalist \/ Health \/ Ended
  \/ \E w \in Workers : Lock(w) \/ Admit(w) \/ \E file \in {"written", "raises"} : Release(w, file)
  \/ \E w \in Workers, r \in Rows : Enter(w, r)
  \/ \E complete, scored \in {"yes", "no"} : Finish(complete, scored)

AdmissionSpec == AdmissionInit /\ [][AdmissionNext]_admission

\* Exit status 0 vouches for the whole set: the finalist was the selected one and
\* every row ran under a lease that was verified after it and is on disk, one row
\* at a time.
ScoreIsCovered ==
  /\ code \in {0, 2} => finalist = "same" /\ \A r \in Rows : lease[r] = "VERIFIED"
  /\ Cardinality({w \in Workers : at[w] = "in"}) <= 1

\* A failed release blocks every later row ("block every subsequent batch"),
\* except for rows whose worker had passed the test of self.failed and was still
\* on its way to the lock: at most one for each of the other workers.
LateRowsBounded == Cardinality(late) < Cardinality(Workers) \/ Workers = {}
=============================================================================
