------------------------------- MODULE Guard -------------------------------
(***************************************************************************)
(* The owned launcher (scripts/guard.py) and the operator's stop command   *)
(* (scripts/guard_stop.py) around one Docker daemon.  Several invocations  *)
(* of guard.run() compete for the lease of one cache directory; each may   *)
(* create, start, watch and stop one container, whose identity is the      *)
(* attempt's own nonce.  The daemon is external: a request is issued,      *)
(* carried out and answered in separate steps, and a client that is killed *)
(* by its timeout may leave the request behind.                            *)
(***************************************************************************)
EXTENDS Naturals

CONSTANTS
  Attempts,        \* invocations of guard.run(); each draws a fresh nonce
  Operators,       \* invocations of guard_stop.main()
  Foreign,         \* containers of the host that no guard created
  Dirs,            \* state directories operators name on the command line
  StateDir,        \* StateDir[a]: the --state-dir of attempt a
  Signals,         \* signal numbers delivered to a guard
  ExitCodes,       \* exit codes a container may end with
  MaxWatch,        \* --max-watch-seconds in one-second rounds, 0 = none
  None, Blank, Garbled  \* no ID, an empty cidfile, an ID that is not hex

Procs == Attempts \cup Operators
Containers == Attempts \cup Foreign

ASSUME ProcAssumption ==
  /\ Attempts \cap Operators = {}
  /\ Attempts \cap Foreign = {}
ASSUME DirAssumption == StateDir \in [Attempts -> Dirs]
ASSUME IdAssumption ==
  /\ None \notin Containers /\ Blank \notin Containers /\ Garbled \notin Containers
  /\ None # Blank /\ None # Garbled /\ Blank # Garbled
ASSUME NumberAssumption ==
  /\ \A number \in Signals : number \in Nat /\ number # 0
  /\ \A code \in ExitCodes : code \in Nat /\ code <= 255
  /\ 0 \in ExitCodes
  /\ MaxWatch \in Nat

(***************************************************************************)
(* Exit classes of the launcher.                                           *)
(***************************************************************************)
EXIT_OK == 0
EXIT_USAGE == 2
EXIT_PREFLIGHT == 3
EXIT_VERIFY == 4
EXIT_SPAWN == 5
EXIT_CLEANUP == 7
EXIT_WATCHDOG == 8
EXIT_LOCKED == 9

VARIABLES
  pc,        \* pc[p]: next step of guard attempt or operator p
  rc,        \* rc[p]: the exit code p would return now
  sig,       \* sig[a]: signal number the handler stored, 0 = event not set
  cid,       \* cid[p]: the local variable cid
  expect,    \* expect[p]: the nonce p demands of the container it stops
  record,    \* record[a]: the launch record in memory
  watched,   \* watched[a]: rounds of the watch loop, counted up to MaxWatch
  lock,      \* holder of the cache lease, or None
  owner,     \* owner[d]: attempt whose mkdir created d, or None
  disk,      \* disk[d]: launch-record.json in d
  tree,      \* "intact" while the model tree matches the verified receipt
  cont,      \* cont[c]: state of container c
  ended,     \* ended[a]: exit code and OOM flag of a's container; history: at
             \* whose stop request it ended, None = by itself
  pending,   \* requests the daemon has accepted and not carried out
  cidfile,   \* cidfile[a]: state of container.cid
  drifted,   \* history: attempts that were not past the recheck at drift
  uncertain  \* history: attempts whose start request outlived its client

restVars == <<sig, expect, watched, uncertain>>
hostVars == <<owner, disk, tree, drifted>>
daemonVars == <<cont, ended, pending, cidfile>>
vars == <<pc, rc, sig, cid, expect, record, watched, lock, owner, disk,
          tree, cont, ended, pending, cidfile, drifted, uncertain>>

NoRecord == [nonce |-> None, status |-> "NONE", cid |-> None, exit_code |-> 0,
             create_outcome |-> "KNOWN", cleanup_error |-> "NONE"]

Ids == Containers \cup {None, Blank, Garbled}
Records == [nonce : Attempts \cup {None},
            status : {"NONE", "STARTING", "STOPPED", "FAILED"},
            cid : Ids, exit_code : Nat,
            create_outcome : {"KNOWN", "UNKNOWN"}, cleanup_error : {"NONE", "SET"}]
Requests == [op : {"create", "start", "stop"}, cid : Containers, by : Procs]
Steps == {"idle", "begin", "lock", "preflight", "verify", "record", "handlers",
          "create", "creating", "savecid", "own", "recheck", "start",
          "starting", "watch", "sample", "resolve", "stop", "stopping",
          "stopped", "evidence", "final", "done", "dead"}

(***************************************************************************)
(* Steps before the handlers are installed: a signal ends the process.     *)
(***************************************************************************)
Unhandled == {"begin", "lock", "preflight", "verify", "record", "handlers"}
\* Steps whose guard has not yet rechecked the receipt after create.
BeforeRecheck == Unhandled \cup {"create", "creating", "savecid", "own", "recheck"}

Ended(p) == pc[p] \in {"done", "dead"}
Running(c) == cont[c] \in {"booting", "serving"}

Init ==
  /\ pc = [p \in Procs |-> IF p \in Attempts THEN "begin" ELSE "idle"]
  /\ rc = [p \in Procs |-> EXIT_USAGE]
  /\ sig = [a \in Attempts |-> 0]
  /\ cid = [p \in Procs |-> None]
  /\ expect = [p \in Procs |-> IF p \in Attempts THEN p ELSE None]
  /\ record = [a \in Attempts |-> NoRecord]
  /\ watched = [a \in Attempts |-> 0]
  /\ lock = None
  /\ owner = [d \in Dirs |-> None]
  /\ disk = [d \in Dirs |-> NoRecord]
  /\ tree = "intact"
  /\ cont = [c \in Containers |-> IF c \in Foreign THEN "booting" ELSE "absent"]
  /\ ended = [a \in Attempts |-> [code |-> 0, cause |-> "exit", by |-> None]]
  /\ pending = {}
  /\ cidfile = [a \in Attempts |-> "absent"]
  /\ drifted = {}
  /\ uncertain = {}

Goto(p, from, to) == pc[p] = from /\ pc' = [pc EXCEPT ![p] = to]
SetRc(p, code) == rc' = [rc EXCEPT ![p] = code]
\* rc = rc or EXIT_CLEANUP
OrCleanup(code) == IF code = EXIT_OK THEN EXIT_CLEANUP ELSE code

Request(op, c, p) == [op |-> op, cid |-> c, by |-> p]
Save(a, r) == disk' = [disk EXCEPT ![StateDir[a]] = r]

(***************************************************************************)
(* Leaving the "with lifetime_lock" block closes the descriptor and so     *)
(* drops the lease.                                                        *)
(***************************************************************************)
Leave(a, from) == Goto(a, from, "done") /\ lock' = None

(***************************************************************************)
(* Admission: arguments, fresh state directory, lease, host, receipt.      *)
(***************************************************************************)
RejectUsage(a) ==
  /\ Goto(a, "begin", "done")
  /\ UNCHANGED <<rc, cid, record, lock, restVars, hostVars, daemonVars>>

PrintPlan(a) ==
  /\ Goto(a, "begin", "done")
  /\ SetRc(a, EXIT_OK)
  /\ UNCHANGED <<cid, record, lock, restVars, hostVars, daemonVars>>

\* Mutant: mkdir(exist_ok=True).
FreshStateDirReused(a) == TRUE

FreshStateDir(a) == owner[StateDir[a]] = None

MakeStateDir(a) ==
  /\ pc[a] = "begin"
  /\ IF FreshStateDir(a)
     THEN /\ Goto(a, "begin", "lock")
          /\ owner' = [owner EXCEPT ![StateDir[a]] = a]
     ELSE Goto(a, "begin", "done") /\ UNCHANGED owner
  /\ UNCHANGED <<rc, cid, record, lock, disk, tree, drifted, restVars, daemonVars>>

\* The lock file is opened and locked; it is busy, or one of the two calls fails.
LifetimeLock(a) ==
  /\ pc[a] = "lock"
  /\ \/ /\ lock = None
        /\ lock' = a
        /\ Goto(a, "lock", "preflight")
        /\ SetRc(a, EXIT_PREFLIGHT)
     \/ /\ lock # None
        /\ Goto(a, "lock", "done")
        /\ SetRc(a, EXIT_LOCKED)
        /\ UNCHANGED lock
     \/ Goto(a, "lock", "done") /\ UNCHANGED <<rc, lock>>
  /\ UNCHANGED <<cid, record, restVars, hostVars, daemonVars>>

(***************************************************************************)
(* run_preflight sees compute processes on the GPU, so it rejects a host   *)
(* on which a container already serves; one that still boots is invisible. *)
(* Everything else it measures may reject the host at any time.            *)
(***************************************************************************)
GpuIdle == \A c \in Containers : cont[c] # "serving"

RunPreflight(a) ==
  /\ pc[a] = "preflight"
  /\ \/ /\ GpuIdle
        /\ Goto(a, "preflight", "verify")
        /\ SetRc(a, EXIT_VERIFY)
        /\ UNCHANGED lock
     \/ Leave(a, "preflight") /\ UNCHANGED rc
  /\ UNCHANGED <<cid, record, restVars, hostVars, daemonVars>>

\* check_receipt: the pinned receipt, the source lock and the tree agree.
CheckReceipt == tree = "intact"

VerifyInputs(a) ==
  /\ pc[a] = "verify"
  /\ \/ CheckReceipt /\ Goto(a, "verify", "record") /\ UNCHANGED lock
     \/ Leave(a, "verify")
  /\ UNCHANGED <<rc, cid, record, restVars, hostVars, daemonVars>>

StartingRecord(a) == [NoRecord EXCEPT !.nonce = a, !.status = "STARTING"]

SaveStarting(a) ==
  /\ pc[a] = "record"
  /\ record' = [record EXCEPT ![a] = StartingRecord(a)]
  /\ \/ Goto(a, "record", "handlers") /\ Save(a, StartingRecord(a)) /\ UNCHANGED lock
     \/ Leave(a, "record") /\ UNCHANGED disk
  /\ UNCHANGED <<rc, cid, owner, tree, drifted, restVars, daemonVars>>

InstallHandlers(a) ==
  /\ Goto(a, "handlers", "create")
  /\ SetRc(a, EXIT_SPAWN)
  /\ UNCHANGED <<cid, record, lock, restVars, hostVars, daemonVars>>

(***************************************************************************)
(* docker create: the client opens an empty cidfile, asks the daemon, and  *)
(* fills the cidfile once the daemon has answered.  A client that fails    *)
(* removes the file: the daemon refused, or its answer was lost before or  *)
(* after it carried the request out.  A client killed by its timeout       *)
(* leaves the file as it stands, and its request may be carried out later. *)
(* What a client that succeeds prints may be the ID, not hex, or nothing;  *)
(* an empty ID is no ID to clean up, nor is it None to be resolved.        *)
(***************************************************************************)
CancelBeforeCreate(a) ==
  /\ sig[a] # 0
  /\ Goto(a, "create", "final")
  /\ SetRc(a, 128 + sig[a])
  /\ UNCHANGED <<cid, record, lock, restVars, hostVars, daemonVars>>

CreateContainer(a) ==
  /\ sig[a] = 0
  /\ Goto(a, "create", "creating")
  /\ pending' = pending \cup {Request("create", a, a)}
  /\ cidfile' = [cidfile EXCEPT ![a] = "blank"]
  /\ UNCHANGED <<rc, cid, record, lock, restVars, hostVars, cont, ended>>

CreateReturns(a) ==
  /\ Request("create", a, a) \notin pending
  /\ cidfile' = [cidfile EXCEPT ![a] = "written"]
  /\ \/ Goto(a, "creating", "savecid") /\ cid' = [cid EXCEPT ![a] = a]
     \/ Goto(a, "creating", "stop") /\ cid' = [cid EXCEPT ![a] = Garbled]
     \/ Goto(a, "creating", "final") /\ cid' = [cid EXCEPT ![a] = Blank]
  /\ UNCHANGED <<rc, record, lock, restVars, hostVars, cont, ended, pending>>

CreateFails(a) ==
  /\ Goto(a, "creating", "resolve")
  /\ \/ UNCHANGED pending
     \/ pending' = pending \ {Request("create", a, a)}
  /\ cidfile' = [cidfile EXCEPT ![a] = "absent"]
  /\ UNCHANGED <<rc, cid, record, lock, restVars, hostVars, cont, ended>>

CreateTimesOut(a) ==
  /\ Goto(a, "creating", "resolve")
  /\ \/ UNCHANGED cidfile
     \/ /\ Request("create", a, a) \notin pending
        /\ cidfile' = [cidfile EXCEPT ![a] = "written"]
  /\ UNCHANGED <<rc, cid, record, lock, restVars, hostVars, cont, ended, pending>>

\* Mutant: the ID is put in the record and saved only with the final record.
SaveCidLater(a) ==
  /\ record' = [record EXCEPT ![a].cid = cid[a]]
  /\ Goto(a, "savecid", "own")
  /\ UNCHANGED <<rc, cid, lock, restVars, hostVars, daemonVars>>

(***************************************************************************)
(* The ID goes to disk before anything may start the container; then       *)
(* ownership and the receipt are checked again.                            *)
(***************************************************************************)
SaveCid(a) ==
  /\ pc[a] = "savecid"
  /\ record' = [record EXCEPT ![a].cid = cid[a]]
  /\ \/ Goto(a, "savecid", "own") /\ Save(a, record'[a])
     \/ Goto(a, "savecid", "stop") /\ UNCHANGED disk
  /\ UNCHANGED <<rc, cid, lock, owner, tree, drifted, restVars, daemonVars>>

(***************************************************************************)
(* verify_ownership: the container exists under that ID and carries the    *)
(* labels of the expected nonce.  Only a guard's own container does.       *)
(***************************************************************************)
Inspectable(p) == cid[p] \in Containers /\ cont[cid[p]] # "absent"
\* Mutant: the labels are not compared.
InspectableOnly(p) == Inspectable(p)
VerifyOwnership(p) == Inspectable(p) /\ cid[p] = expect[p]

CheckOwned(a) ==
  /\ pc[a] = "own"
  /\ \/ /\ VerifyOwnership(a) /\ sig[a] = 0
        /\ Goto(a, "own", "recheck")
        /\ SetRc(a, EXIT_VERIFY)
     \/ /\ VerifyOwnership(a) /\ sig[a] # 0
        /\ Goto(a, "own", "stop")
        /\ SetRc(a, 128 + sig[a])
     \/ Goto(a, "own", "stop") /\ UNCHANGED rc
  /\ UNCHANGED <<cid, record, lock, restVars, hostVars, daemonVars>>

\* Mutant: the receipt is not checked a second time.
RecheckNothing(a) ==
  /\ Goto(a, "recheck", "start") /\ SetRc(a, EXIT_SPAWN)
  /\ UNCHANGED <<cid, record, lock, restVars, hostVars, daemonVars>>

RecheckReceipt(a) ==
  /\ pc[a] = "recheck"
  /\ \/ CheckReceipt /\ Goto(a, "recheck", "start") /\ SetRc(a, EXIT_SPAWN)
     \/ Goto(a, "recheck", "stop") /\ UNCHANGED rc
  /\ UNCHANGED <<cid, record, lock, restVars, hostVars, daemonVars>>

StartContainer(a) ==
  /\ Goto(a, "start", "starting")
  /\ pending' = pending \cup {Request("start", a, a)}
  /\ UNCHANGED <<rc, cid, record, lock, restVars, hostVars, cont, ended, cidfile>>

StartReturns(a) ==
  /\ Request("start", a, a) \notin pending
  /\ Goto(a, "starting", "watch")
  /\ SetRc(a, EXIT_WATCHDOG)
  /\ UNCHANGED <<cid, record, lock, restVars, hostVars, daemonVars>>

StartFails(a) ==
  /\ Request("start", a, a) \in pending
  /\ Goto(a, "starting", "stop")
  /\ pending' = pending \ {Request("start", a, a)}
  /\ UNCHANGED <<rc, cid, record, lock, restVars, hostVars, cont, ended, cidfile>>

\* Mutant: a start that timed out is asked for once more.
StartRetried(a) ==
  /\ Goto(a, "starting", "start")
  /\ UNCHANGED <<rc, cid, record, lock, restVars, hostVars, daemonVars>>

\* The client is killed, or loses the daemon's answer.
StartTimesOut(a) ==
  /\ Goto(a, "starting", "stop")
  /\ uncertain' = IF Request("start", a, a) \in pending
                  THEN uncertain \cup {a} ELSE uncertain
  /\ UNCHANGED <<rc, sig, cid, expect, record, watched, lock, hostVars, daemonVars>>

(***************************************************************************)
(* One round of the watch loop: inspect, then event, memory sample and     *)
(* deadline.  Which memory samples trip the watchdog is module Watchdog's  *)
(* subject; here a sample may or may not.  Each round sleeps a second, so  *)
(* the deadline has passed once MaxWatch rounds have.                      *)
(***************************************************************************)
ContainerRc(a) == IF ended[a].code # 0 \/ ended[a].cause # "OOMKilled"
                  THEN ended[a].code ELSE EXIT_WATCHDOG

WatchInspect(a) ==
  /\ pc[a] = "watch"
  /\ \/ VerifyOwnership(a) /\ Running(a) /\ Goto(a, "watch", "sample") /\ UNCHANGED rc
     \/ /\ VerifyOwnership(a) /\ ~Running(a)
        /\ Goto(a, "watch", "stop")
        /\ SetRc(a, ContainerRc(a))
     \/ Goto(a, "watch", "stop") /\ UNCHANGED rc
  /\ UNCHANGED <<cid, record, lock, restVars, hostVars, daemonVars>>

\* Mutant: the loop reads the memory sample without looking at the event.
SignalUnseen(a) == FALSE
SignalSeen(a) == sig[a] # 0
DeadlinePassed(a) == MaxWatch # 0 /\ watched[a] >= MaxWatch
\* Mutant: the start time is read again in every round.
ElapsedRestart(a) == 0
Elapsed(a) == IF MaxWatch = 0 THEN 0 ELSE watched[a] + 1

WatchSample(a) ==
  /\ pc[a] = "sample"
  /\ \/ /\ SignalSeen(a)
        /\ Goto(a, "sample", "stop")
        /\ SetRc(a, 128 + sig[a])
        /\ UNCHANGED watched
     \/ /\ ~SignalSeen(a)
        /\ Goto(a, "sample", "stop")
        /\ SetRc(a, EXIT_WATCHDOG)
        /\ UNCHANGED watched
     \/ /\ ~SignalSeen(a) /\ ~DeadlinePassed(a)
        /\ Goto(a, "sample", "watch")
        /\ watched' = [watched EXCEPT ![a] = Elapsed(a)]
        /\ UNCHANGED rc
  /\ UNCHANGED <<sig, cid, expect, record, lock, uncertain, hostVars, daemonVars>>

(***************************************************************************)
(* The finally block: settle an uncertain create from the cidfile or the   *)
(* container name.  An unreadable cidfile escapes to the outer handler.    *)
(***************************************************************************)
ResolveCid(a) ==
  /\ pc[a] = "resolve"
  /\ \/ /\ cidfile[a] = "written"
        /\ Goto(a, "resolve", "stop")
        /\ cid' = [cid EXCEPT ![a] = a]
        /\ UNCHANGED <<record, lock>>
     \/ /\ cidfile[a] # "absent"
        /\ Leave(a, "resolve")
        /\ UNCHANGED <<cid, record>>
     \/ /\ cidfile[a] = "blank"
        /\ Goto(a, "resolve", "final")
        /\ cid' = [cid EXCEPT ![a] = Blank]
        /\ UNCHANGED <<record, lock>>
     \/ /\ cidfile[a] = "absent" /\ cont[a] # "absent"
        /\ Goto(a, "resolve", "stop")
        /\ cid' = [cid EXCEPT ![a] = a]
        /\ UNCHANGED <<record, lock>>
     \/ /\ cidfile[a] = "absent"
        /\ Goto(a, "resolve", "final")
        /\ record' = [record EXCEPT ![a].create_outcome = "UNKNOWN"]
        /\ UNCHANGED <<cid, lock>>
  /\ UNCHANGED <<rc, restVars, hostVars, daemonVars>>

(***************************************************************************)
(* stop_owned, shared by the guard's cleanup and guard_stop.  CleanupFails *)
(* is the exception it raises, as each caller handles it.                  *)
(***************************************************************************)
\* Mutant: the error is not recorded.
CleanupSwallowed(p, from) ==
  /\ Goto(p, from, IF p \in Attempts THEN "final" ELSE "done")
  /\ UNCHANGED <<rc, record>>

CleanupFails(p, from) ==
  /\ SetRc(p, IF p \in Attempts THEN OrCleanup(rc[p]) ELSE EXIT_CLEANUP)
  /\ Goto(p, from, IF p \in Attempts THEN "final" ELSE "done")
  /\ record' = IF p \in Attempts THEN [record EXCEPT ![p].cleanup_error = "SET"] ELSE record

StopInspect(p) ==
  /\ pc[p] = "stop"
  /\ \/ /\ VerifyOwnership(p) /\ Running(cid[p])
        /\ Goto(p, "stop", "stopping")
        /\ pending' = pending \cup {Request("stop", cid[p], p)}
        /\ UNCHANGED <<rc, record>>
     \/ /\ VerifyOwnership(p) /\ ~Running(cid[p])
        /\ Goto(p, "stop", "stopped")
        /\ UNCHANGED <<rc, record, pending>>
     \/ CleanupFails(p, "stop") /\ UNCHANGED pending
  /\ UNCHANGED <<cid, lock, restVars, hostVars, cont, ended, cidfile>>

StopReturns(p) ==
  /\ Request("stop", cid[p], p) \notin pending
  /\ Goto(p, "stopping", "stopped")
  /\ UNCHANGED <<rc, cid, record, lock, restVars, hostVars, daemonVars>>

StopFails(p) ==
  /\ CleanupFails(p, "stopping")
  /\ \/ UNCHANGED pending
     \/ pending' = pending \ {Request("stop", cid[p], p)}
  /\ UNCHANGED <<cid, lock, restVars, hostVars, cont, ended, cidfile>>

StopVerify(p) ==
  /\ pc[p] = "stopped"
  /\ \/ /\ VerifyOwnership(p) /\ ~Running(cid[p])
        /\ Goto(p, "stopped", IF p \in Attempts THEN "evidence" ELSE "done")
        /\ rc' = IF p \in Attempts THEN rc ELSE [rc EXCEPT ![p] = EXIT_OK]
        /\ UNCHANGED record
     \/ CleanupFails(p, "stopped")
  /\ UNCHANGED <<cid, lock, restVars, hostVars, daemonVars>>

\* Mutant: the result is read again from the final document after the stop.
SaveEvidenceRc(a) ==
  /\ Goto(a, "evidence", "final")
  /\ SetRc(a, ContainerRc(a))
  /\ UNCHANGED <<cid, record, lock, restVars, hostVars, daemonVars>>

SaveEvidence(a) ==
  /\ pc[a] = "evidence"
  /\ \/ Goto(a, "evidence", "final") /\ UNCHANGED <<rc, record>>
     \/ CleanupFails(a, "evidence")
  /\ UNCHANGED <<cid, lock, restVars, hostVars, daemonVars>>

FinalRecord(a) ==
  [record[a] EXCEPT !.status = IF rc[a] = EXIT_OK THEN "STOPPED" ELSE "FAILED",
                    !.exit_code = rc[a], !.cid = cid[a]]

SaveFinal(a) ==
  /\ pc[a] = "final"
  /\ Leave(a, "final")
  /\ record' = [record EXCEPT ![a] = FinalRecord(a)]
  /\ \/ Save(a, FinalRecord(a)) /\ UNCHANGED rc
     \/ UNCHANGED disk /\ SetRc(a, OrCleanup(rc[a]))
  /\ UNCHANGED <<cid, owner, tree, drifted, restVars, daemonVars>>

(***************************************************************************)
(* guard_stop.main: the operator selects a record file.  It is one that a  *)
(* guard wrote, or any other file, such as one naming a foreign container. *)
(***************************************************************************)
Selectable == {[cid |-> disk[d].cid, nonce |-> disk[d].nonce] : d \in Dirs}
              \cup [cid : Foreign, nonce : Attempts]

OperatorReads(o) ==
  /\ pc[o] = "idle"
  /\ \E r \in Selectable :
       /\ cid' = [cid EXCEPT ![o] = r.cid]
       /\ expect' = [expect EXCEPT ![o] = r.nonce]
       /\ IF r.cid \in Containers
          THEN Goto(o, "idle", "stop") /\ UNCHANGED rc
          ELSE Goto(o, "idle", "done") /\ SetRc(o, EXIT_CLEANUP)
  /\ UNCHANGED <<record, sig, watched, uncertain, lock, hostVars, daemonVars>>

(***************************************************************************)
(* The Docker daemon and the container (external).  Publishing a fixed     *)
(* host port makes a second start fail while another server runs.          *)
(***************************************************************************)
PortFree(a) == \A b \in Attempts \ {a} : ~Running(b)

DaemonCreate(a) ==
  /\ Request("create", a, a) \in pending
  /\ cont' = [cont EXCEPT ![a] = "created"]
  /\ pending' = pending \ {Request("create", a, a)}
  /\ UNCHANGED <<pc, rc, cid, record, lock, restVars, hostVars, ended, cidfile>>

DaemonStart(a) ==
  /\ Request("start", a, a) \in pending
  /\ PortFree(a)
  /\ cont' = [cont EXCEPT ![a] = "booting"]
  /\ pending' = pending \ {Request("start", a, a)}
  /\ UNCHANGED <<pc, rc, cid, record, lock, restVars, hostVars, ended, cidfile>>

Finish(c, code, cause, by) ==
  /\ cont' = [cont EXCEPT ![c] = "exited"]
  /\ ended' = IF c \in Attempts
              THEN [ended EXCEPT ![c] = [code |-> code, cause |-> cause, by |-> by]]
              ELSE ended

DaemonStop(r) ==
  /\ r.op = "stop"
  /\ pending' = pending \ {r}
  /\ IF Running(r.cid)
     THEN \E code \in ExitCodes : Finish(r.cid, code, "exit", r.by)
     ELSE UNCHANGED <<cont, ended>>
  /\ UNCHANGED <<pc, rc, cid, record, lock, restVars, hostVars, cidfile>>

\* The daemon gives up a request whose client no longer waits for it.
Waiting(r) == pc[r.by] = CASE r.op = "create" -> "creating"
                           [] r.op = "start" -> "starting"
                           [] r.op = "stop" -> "stopping"
DaemonDrop(r) ==
  /\ ~Waiting(r)
  /\ pending' = pending \ {r}
  /\ UNCHANGED <<pc, rc, cid, record, lock, restVars, hostVars, cont, ended, cidfile>>

ServerReady(a) ==
  /\ cont[a] = "booting"
  /\ cont' = [cont EXCEPT ![a] = "serving"]
  /\ UNCHANGED <<pc, rc, cid, record, lock, restVars, hostVars, ended, pending, cidfile>>

ServerExits(a) ==
  /\ Running(a)
  /\ \E code \in ExitCodes, cause \in {"exit", "OOMKilled"} : Finish(a, code, cause, None)
  /\ UNCHANGED <<pc, rc, cid, record, lock, restVars, hostVars, pending, cidfile>>

(***************************************************************************)
(* The environment: handled signals, SIGKILL or an unhandled signal (the   *)
(* kernel drops the flock, the container and its requests live on), and a  *)
(* checkpoint file that changes.                                           *)
(***************************************************************************)
Signal(a, number) ==
  /\ pc[a] \notin Unhandled /\ ~Ended(a) /\ sig[a] = 0
  /\ sig' = [sig EXCEPT ![a] = number]
  /\ UNCHANGED <<pc, rc, cid, expect, record, watched, uncertain, lock, hostVars, daemonVars>>

Kill(p) ==
  /\ ~Ended(p) /\ pc[p] # "idle"
  /\ pc' = [pc EXCEPT ![p] = "dead"]
  /\ lock' = IF lock = p THEN None ELSE lock
  /\ UNCHANGED <<rc, cid, record, restVars, hostVars, daemonVars>>

Drift ==
  /\ tree = "intact"
  /\ tree' = "drifted"
  /\ drifted' = {a \in Attempts : pc[a] \in BeforeRecheck}
  /\ UNCHANGED <<pc, rc, cid, record, lock, restVars, owner, disk, daemonVars>>

(***************************************************************************)
(* Specification.                                                          *)
(***************************************************************************)
StopOwned(p) == StopInspect(p) \/ StopReturns(p) \/ StopFails(p) \/ StopVerify(p)

GuardStep(a) ==
  \/ RejectUsage(a) \/ PrintPlan(a) \/ MakeStateDir(a) \/ LifetimeLock(a)
  \/ RunPreflight(a) \/ VerifyInputs(a) \/ SaveStarting(a) \/ InstallHandlers(a)
  \/ CancelBeforeCreate(a) \/ CreateContainer(a) \/ CreateReturns(a)
  \/ CreateFails(a) \/ CreateTimesOut(a) \/ SaveCid(a) \/ CheckOwned(a)
  \/ RecheckReceipt(a) \/ StartContainer(a) \/ StartReturns(a) \/ StartFails(a)
  \/ StartTimesOut(a) \/ WatchInspect(a) \/ WatchSample(a) \/ ResolveCid(a)
  \/ StopOwned(a) \/ SaveEvidence(a) \/ SaveFinal(a)

OperatorStep(o) == OperatorReads(o) \/ StopOwned(o)

Daemon ==
  \/ \E a \in Attempts : DaemonCreate(a) \/ DaemonStart(a)
                        \/ ServerReady(a) \/ ServerExits(a)
  \/ \E r \in pending : DaemonStop(r) \/ DaemonDrop(r)

Environment ==
  \/ \E a \in Attempts, number \in Signals : Signal(a, number)
  \/ \E p \in Procs : Kill(p)
  \/ Drift

AllEnded == (\A p \in Procs : Ended(p)) /\ UNCHANGED vars

Next ==
  \/ \E a \in Attempts : GuardStep(a)
  \/ \E o \in Operators : OperatorStep(o)
  \/ Daemon
  \/ Environment
  \/ AllEnded

Fairness == \A a \in Attempts : WF_vars(GuardStep(a))
Spec == Init /\ [][Next]_vars
FairSpec == Spec /\ Fairness

(***************************************************************************)
(* Properties.                                                             *)
(***************************************************************************)
TypeOK ==
  /\ pc \in [Procs -> Steps]
  /\ rc \in [Procs -> Nat]
  /\ sig \in [Attempts -> Signals \cup {0}]
  /\ cid \in [Procs -> Ids]
  /\ expect \in [Procs -> Attempts \cup {None}]
  /\ record \in [Attempts -> Records]
  /\ watched \in [Attempts -> 0..MaxWatch]
  /\ lock \in Attempts \cup {None}
  /\ owner \in [Dirs -> Attempts \cup {None}]
  /\ disk \in [Dirs -> Records]
  /\ tree \in {"intact", "drifted"}
  /\ cont \in [Containers -> {"absent", "created", "booting", "serving", "exited"}]
  /\ ended \in [Attempts -> [code : ExitCodes, cause : {"exit", "OOMKilled"},
                             by : Procs \cup {None}]]
  /\ pending \subseteq Requests
  /\ cidfile \in [Attempts -> {"absent", "blank", "written"}]
  /\ drifted \subseteq Attempts
  /\ uncertain \subseteq Attempts

\* Wherever the guard dies, a server that runs is named, with its nonce, by
\* the launch record on disk, so guard_stop can always find and stop it: the
\* record with the ID is saved (guard.py:541) before start (guard.py:547),
\* and no later save of any attempt loses the ID.
RunningIsRecorded ==
  \A a \in Attempts : Running(a) =>
    /\ disk[StateDir[a]].nonce = a
    /\ disk[StateDir[a]].cid = a

\* The cache lease outlives the server (docs/nextn-262k.md:53, guard.py:463):
\* a server that runs while its guard does not hold the lease belongs to a
\* killed guard, to one that reports a failed cleanup with a non-zero exit
\* code, or to one whose start request outlived the killed docker client.
LeaseCoversServer ==
  \A a \in Attempts : Running(a) =>
    \/ lock = a
    \/ pc[a] = "dead"
    \/ pc[a] = "done" /\ record[a].cleanup_error = "SET" /\ rc[a] # EXIT_OK
    \/ a \in uncertain

\* The container ended with exit code 0, no process of it was killed for lack
\* of memory, and it ended by itself or at an operator's guard_stop, never
\* because a guard asked.
EndedWell(a) ==
  cont[a] = "exited" /\ ended[a].code = 0 /\ ended[a].cause = "exit" /\ ended[a].by \notin Attempts

\* A launch reported as STOPPED, or that returned 0 after creating a record,
\* ended well: a guard that has stopped its own server, for a signal, a memory
\* floor, the deadline or an error, never reports success, even if that server
\* then exits with 0, and a server stopped by an operator counts only by its
\* exit code.  Every cleanup and evidence step succeeded (guard.py:562-571,
\* 636-647).
SuccessIsEarned ==
  \A a \in Attempts :
    \/ disk[StateDir[a]].nonce = a /\ disk[StateDir[a]].status = "STOPPED"
    \/ pc[a] = "done" /\ rc[a] = EXIT_OK /\ record[a].nonce = a
    => EndedWell(a) /\ record[a].cleanup_error = "NONE"

\* No guard and no guard_stop, whatever record it is given, stops a container
\* that does not carry the owner's nonce (guard.py:266-288).
ForeignUntouched == \A f \in Foreign : Running(f)

\* If the checkpoint drifts before the check that follows create, the server
\* is never started (guard.py:545).
DriftNeverServed == \A a \in drifted : ~Running(a)

\* A state directory keeps the evidence of one epoch: once a launch record is
\* there, no other attempt replaces it, and a closed record (STOPPED/FAILED)
\* is final (guard.py:461-462).
EvidenceKept ==
  [][\A d \in Dirs :
       /\ disk[d].nonce # None => disk'[d].nonce = disk[d].nonce
       /\ disk[d].status \in {"STOPPED", "FAILED"} => disk'[d] = disk[d]]_vars

Life(a) ==
  IF Running(a) THEN "up" ELSE IF cont[a] # "exited" THEN "none"
  ELSE IF EndedWell(a) THEN "clean" ELSE "bad"

O == INSTANCE OwnedServer WITH
       book <- [d \in Dirs |-> [of |-> disk[d].nonce, status |-> disk[d].status]],
       life <- [a \in Attempts |-> Life(a)]

\* The launcher implements module OwnedServer (guard.run, guard.py:458-661): one
\* account per directory that is closed at most once, and a server that is
\* started at most once, alone, between its account and its STOPPED.
LaunchIsOwned == O!Spec

\* A signal the guard has caught ends the launch (guard.py:534, 543, 574).
SignalEndsLaunch == \A a \in Attempts : sig[a] # 0 ~> Ended(a)

\* With a watch deadline every launch ends, whatever the server, the daemon
\* and the operator do (guard.py:609-614).
DeadlineEndsLaunch == \A a \in Attempts : <>Ended(a)

\* Comment at guard.py:621-622: an uncertain create is resolved.  A closed
\* record of an attempt whose client failed or was killed before it had filled
\* the cidfile, and whose container exists, holds the container's ID or says
\* that the outcome of create is unknown.
UncertainCreateResolved ==
  \A a \in Attempts :
    LET final == disk[StateDir[a]] IN
    final.nonce = a /\ final.status = "FAILED" /\ cont[a] # "absent" /\ cidfile[a] # "written" =>
      final.cid = a \/ final.create_outcome = "UNKNOWN"

\* guard_stop.py:1, 31: once guard_stop has reported STOPPED for a record, the
\* container bound to it does not run.
StopIsFinal ==
  \A o \in Operators : pc[o] = "done" /\ rc[o] = EXIT_OK => ~Running(cid[o])
=============================================================================
