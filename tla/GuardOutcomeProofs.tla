------------------------- MODULE GuardOutcomeProofs -------------------------
(***************************************************************************)
(* What the launcher promises about its outcome, for any number of         *)
(* attempts, operators, foreign containers and state directories: nobody   *)
(* else's container touched, no drifted checkpoint served, evidence that   *)
(* stays, and success that was earned.                                     *)
(***************************************************************************)
EXTENDS GuardProofs

CreateReq(a) == Request("create", a, a)

\* Only an owned container is ever the object of a stop request.
StopReqInv == \A r \in pending : r.op = "stop" => r.cid \in Attempts

\* Nothing has started a container whose guard has not asked for it.
ArmedInv == \A a \in Attempts :
  pc[a] \in {"own", "recheck", "start"} => ~Live(a)
\* A guard that had not rechecked the receipt at the drift does not pass the
\* recheck any more.
DriftInv ==
  /\ tree = "intact" => drifted = {}
  /\ \A a \in drifted : ~Live(a) /\ pc[a] # "start"

\* The record in memory is open until the final save, and a closed record on
\* disk is one of a guard that has ended.
OpenInv == \A a \in Attempts :
  ~Ended(a) => record[a].status \notin {"STOPPED", "FAILED"}
ClosedInv == \A d \in Dirs :
  disk[d].status \in {"STOPPED", "FAILED"} =>
    disk[d].nonce \in Attempts /\ Ended(disk[d].nonce)
EvidenceInv == OpenInv /\ ClosedInv

\* Steps after create has returned and before cleanup.
Created == {"savecid", "own", "recheck", "start", "starting", "watch", "sample"}
\* Steps before the guard's cleanup.
Undecided == Unhandled \cup Created \cup {"create", "creating", "resolve"}
Begun(a) == cont[a] \in {"booting", "serving", "exited"}
\* A guard asks for the stop of its own container only, and only once it has
\* left the watch loop.
AskedInv == \A r \in pending :
  r.op = "stop" /\ r.by \in Attempts => r.cid = r.by /\ pc[r.by] \notin Undecided
\* So what the watch loop reads is not the guard's own doing.
UnstoppedInv == \A a \in Attempts : pc[a] \in Undecided => ended[a].by \notin Attempts
OwnStopInv == AskedInv /\ UnstoppedInv

\* a's server ended well, and nothing can change that.
Earned(a) ==
  /\ EndedWell(a)
  /\ CreateReq(a) \notin pending /\ StartReq(a) \notin pending

CreatedInv == \A a \in Attempts : pc[a] \in Created => CreateReq(a) \notin pending
BegunInv == \A a \in Attempts :
  \/ pc[a] = "starting" /\ StartReq(a) \notin pending
  \/ pc[a] \in {"watch", "sample"}
  => Begun(a) /\ StartReq(a) \notin pending
UndecidedInv == \A a \in Attempts : pc[a] \in Undecided =>
  /\ rc[a] # EXIT_OK /\ record[a].cleanup_error = "NONE"
  /\ pc[a] = "begin" => record[a].nonce = None
EarnedInv == \A a \in Attempts : rc[a] = EXIT_OK /\ record[a].nonce = a =>
  Earned(a) /\ record[a].cleanup_error = "NONE"
StoppedInv == \A d \in Dirs : disk[d].status = "STOPPED" =>
  rc[disk[d].nonce] = EXIT_OK /\ record[disk[d].nonce].nonce = disk[d].nonce
SuccessInv == CreatedInv /\ BegunInv /\ UndecidedInv /\ EarnedInv /\ StoppedInv

\* A server is started once: it has not begun before its guard asks for the
\* start nor while the request is open, and by then the create is over.
Once(a) ==
  /\ pc[a] \in NotStarted \cup {"own", "recheck", "start"} => ~Begun(a)
  /\ StartReq(a) \in pending => ~Begun(a)
  /\ Begun(a) \/ StartReq(a) \in pending => CreateReq(a) \notin pending
OnceInv == \A a \in Attempts : Once(a)
\* The account of a launch is opened by its first save and stays open, on disk
\* and in memory, until the guard's last step.
BookInv == \A a \in Attempts :
  /\ pc[a] \in {"lock", "preflight", "verify", "record"} => disk[StateDir[a]].nonce = None
  /\ pc[a] \in PastRecord =>
       /\ record[a].status = "STARTING"
       /\ disk[StateDir[a]].nonce = a /\ disk[StateDir[a]].status = "STARTING"

-----------------------------------------------------------------------------
USE DEF EXIT_OK, EXIT_USAGE, EXIT_PREFLIGHT, EXIT_VERIFY, EXIT_SPAWN,
        EXIT_CLEANUP, EXIT_WATCHDOG, EXIT_LOCKED

(***************************************************************************)
(* ForeignUntouched: what happens to containers.                           *)
(***************************************************************************)
\* Guards, operators and the environment only ask; the daemon acts.
LEMMA OnlyDaemonActs ==
  ASSUME [Next]_vars, ~Daemon
  PROVE  UNCHANGED <<cont, ended>>
<1> USE DEF daemonVars
<1>1. ASSUME NEW p, StopOwned(p) PROVE UNCHANGED <<cont, ended>>
  BY <1>1 DEF StopOwned, StopInspect, StopReturns, StopFails, StopVerify
<1>2. ASSUME NEW a \in Attempts, GuardStep(a) PROVE UNCHANGED <<cont, ended>>
  BY <1>1, <1>2
  DEF GuardStep, RejectUsage, PrintPlan, MakeStateDir, LifetimeLock,
      RunPreflight, VerifyInputs, SaveStarting, InstallHandlers,
      CancelBeforeCreate, CreateContainer, CreateReturns, CreateFails,
      CreateTimesOut, SaveCid, CheckOwned, RecheckReceipt, StartContainer,
      StartReturns, StartFails, StartTimesOut, WatchInspect, WatchSample,
      ResolveCid, SaveEvidence, SaveFinal
<1>3. ASSUME NEW o \in Operators, OperatorStep(o) PROVE UNCHANGED <<cont, ended>>
  BY <1>1, <1>3 DEF OperatorStep, OperatorReads
<1>4. CASE Environment
  BY <1>4 DEF Environment, Signal, Kill, Drift
<1>5. CASE AllEnded \/ UNCHANGED vars
  BY <1>5 DEF AllEnded, vars
<1> QED BY <1>2, <1>3, <1>4, <1>5 DEF Next

\* Operators, the daemon, containers and the environment leave a guard where it
\* is or kill it, and touch neither its exit code nor any record; the requests
\* of guards they may only take away.
LEMMA OthersFrame ==
  ASSUME TypeOK,
         (\E o \in Operators : OperatorStep(o)) \/ Daemon \/ Environment
         \/ AllEnded \/ UNCHANGED vars
  PROVE  /\ UNCHANGED disk
         /\ \A b \in Attempts :
              /\ pc'[b] = pc[b] \/ (~Ended(b) /\ pc'[b] = "dead")
              /\ rc'[b] = rc[b] /\ record'[b] = record[b]
              /\ CreateReq(b) \in pending' => CreateReq(b) \in pending
              /\ StartReq(b) \in pending' => StartReq(b) \in pending
<1>0. \A b \in Attempts : b \in Procs /\ b \notin Operators
  BY ProcAssumption DEF Procs
<1>1. ASSUME NEW o \in Operators, OperatorStep(o)
      PROVE  /\ UNCHANGED <<disk, record>>
             /\ \A b \in Attempts :
                  /\ pc'[b] = pc[b] /\ rc'[b] = rc[b]
                  /\ CreateReq(b) \in pending' => CreateReq(b) \in pending
                  /\ StartReq(b) \in pending' => StartReq(b) \in pending
  <2> USE <1>1, ProcAssumption DEF OperatorStep, OperatorReads, StopOwned, StopInspect,
          StopReturns, StopFails, StopVerify, CleanupFails
  <2>1. UNCHANGED <<disk, record>> BY DEF hostVars
  <2>2. \E to : pc' = [pc EXCEPT ![o] = to] BY DEF Goto
  <2>3. rc' = rc \/ \E code : rc' = [rc EXCEPT ![o] = code] BY DEF SetRc
  <2>4. \A b \in Attempts : /\ CreateReq(b) \in pending' => CreateReq(b) \in pending
                            /\ StartReq(b) \in pending' => StartReq(b) \in pending
    BY DEF CreateReq, StartReq, Request, daemonVars
  <2>5. o \in Procs BY DEF Procs
  <2> QED BY <1>0, <2>1, <2>2, <2>3, <2>4, <2>5 DEF TypeOK
<1>2. CASE Daemon
  BY <1>2 DEF Daemon, DaemonCreate, DaemonStart, DaemonStop, DaemonDrop, ServerReady,
              ServerExits, hostVars
<1>3. CASE Environment
  BY <1>0, <1>3 DEF Environment, Signal, Kill, Drift, hostVars, daemonVars, TypeOK
<1>4. CASE AllEnded \/ UNCHANGED vars
  BY <1>4 DEF AllEnded, vars
<1> QED BY <1>1, <1>2, <1>3, <1>4

\* stop_owned asks for the stop of a container only if that container carries
\* the nonce of a guard, whatever ID the record it was given names.
LEMMA NextStopReq == TypeOK /\ StopReqInv /\ [Next]_vars => StopReqInv'
<1> SUFFICES ASSUME TypeOK, StopReqInv, [Next]_vars,
                    NEW r \in pending', r.op = "stop"
             PROVE  r \in pending \/ r.cid \in Attempts
  BY DEF StopReqInv
<1> USE DEF daemonVars
<1>1. ASSUME NEW p \in Procs, StopOwned(p) PROVE r \in pending \/ r.cid \in Attempts
  <2>1. CASE r = Request("stop", cid[p], p) /\ VerifyOwnership(p)
    <3>1. cid[p] = expect[p] /\ cid[p] \in Containers
      BY <2>1 DEF VerifyOwnership, Inspectable
    <3>2. expect[p] \in Attempts \cup {None}
      BY DEF TypeOK
    <3>3. cid[p] \in Attempts
      BY <3>1, <3>2, IdAssumption
    <3> QED BY <2>1, <3>3 DEF Request
  <2>2. CASE ~(r = Request("stop", cid[p], p) /\ VerifyOwnership(p))
    BY <1>1, <2>2 DEF StopOwned, StopInspect, StopReturns, StopFails, StopVerify
  <2> QED BY <2>1, <2>2
<1>2. ASSUME NEW a \in Attempts, GuardStep(a) PROVE r \in pending \/ r.cid \in Attempts
  <2>1. a \in Procs BY DEF Procs
  <2> QED
    BY <1>1, <1>2, <2>1
    DEF GuardStep, RejectUsage, PrintPlan, MakeStateDir, LifetimeLock,
        RunPreflight, VerifyInputs, SaveStarting, InstallHandlers,
        CancelBeforeCreate, CreateContainer, CreateReturns, CreateFails,
        CreateTimesOut, SaveCid, CheckOwned, RecheckReceipt, StartContainer,
        StartReturns, StartFails, StartTimesOut, WatchInspect, WatchSample,
        ResolveCid, SaveEvidence, SaveFinal, Request
<1>3. ASSUME NEW o \in Operators, OperatorStep(o) PROVE r \in pending \/ r.cid \in Attempts
  <2>1. o \in Procs BY DEF Procs
  <2> QED BY <1>1, <1>3, <2>1 DEF OperatorStep, OperatorReads
<1>4. CASE Daemon
  BY <1>4 DEF Daemon, DaemonCreate, DaemonStart, DaemonStop, DaemonDrop, ServerReady, ServerExits
<1>5. CASE Environment \/ AllEnded \/ UNCHANGED vars
  BY <1>5 DEF Environment, Signal, Kill, Drift, AllEnded, vars
<1> QED BY <1>2, <1>3, <1>4, <1>5 DEF Next

\* Nothing the daemon does changes a foreign container.
LEMMA NextForeign ==
  TypeOK /\ StopReqInv /\ ForeignUntouched /\ [Next]_vars => ForeignUntouched'
<1> SUFFICES ASSUME TypeOK, StopReqInv, ForeignUntouched, [Next]_vars, NEW f \in Foreign
             PROVE  Running(f)'
  BY DEF ForeignUntouched
<1>0. f \in Containers /\ f \notin Attempts /\ Running(f)
  BY ProcAssumption DEF Containers, ForeignUntouched
<1>1. CASE ~Daemon
  BY <1>0, <1>1, OnlyDaemonActs DEF Running
<1>2. ASSUME NEW a \in Attempts,
             DaemonCreate(a) \/ DaemonStart(a) \/ ServerReady(a) \/ ServerExits(a)
      PROVE  Running(f)'
  BY <1>0, <1>2 DEF DaemonCreate, DaemonStart, ServerReady, ServerExits, Finish, Running, TypeOK
<1>3. ASSUME NEW r \in pending, DaemonStop(r) \/ DaemonDrop(r) PROVE Running(f)'
  BY <1>0, <1>3 DEF DaemonStop, DaemonDrop, StopReqInv, Finish, Running, TypeOK
<1> QED BY <1>1, <1>2, <1>3 DEF Daemon

\* No guard and no guard_stop, whatever record file it is given, ever stops a
\* container that does not carry a guard's nonce (guard.py:266-288).
THEOREM ForeignSafe == Spec => []ForeignUntouched
<1>1. Init => StopReqInv /\ ForeignUntouched
  BY DEF Init, StopReqInv, ForeignUntouched, Running, Containers
<1> QED BY <1>1, InitType, NextType, NextStopReq, NextForeign, PTL DEF Spec

-----------------------------------------------------------------------------
(***************************************************************************)
(* DriftNeverServed.  A guard gets to its start step only over a recheck   *)
(* that found the tree intact, and its server lives only after that step.  *)
(***************************************************************************)
\* Only StartContainer asks for a start; a guard's other steps make no server
\* live.
LEMMA StartOnly ==
  ASSUME NEW a \in Attempts, TypeOK, GuardStep(a), ~StartContainer(a), NEW b \in Attempts
  PROVE  Live(b)' => Live(b)
<1> USE DEF GuardStep, RejectUsage, PrintPlan, MakeStateDir, LifetimeLock,
        RunPreflight, VerifyInputs, SaveStarting, InstallHandlers,
        CancelBeforeCreate, CreateContainer, CreateReturns, CreateFails,
        CreateTimesOut, SaveCid, CheckOwned, RecheckReceipt,
        StartReturns, StartFails, StartTimesOut, WatchInspect, WatchSample,
        ResolveCid, StopOwned, StopInspect, StopReturns, StopFails, StopVerify,
        SaveEvidence, SaveFinal, daemonVars
<1>1. cont' = cont OBVIOUS
<1>2. StartReq(b) \in pending' => StartReq(b) \in pending
  BY DEF StartReq, Request
<1> QED BY <1>1, <1>2 DEF Live, Running, StartReq, Request

\* The steps by which a guard approaches its start.
LEMMA ApproachesStart ==
  ASSUME NEW a \in Attempts, TypeOK, GuardStep(a)
  PROVE  /\ pc'[a] \in {"own", "recheck", "start"} =>
              pc[a] \in {"savecid", "own", "recheck"} /\ ~StartContainer(a)
         /\ pc'[a] = "start" => tree = "intact"
         /\ UNCHANGED <<tree, drifted>>
<1> a \in Procs BY DEF Procs
<1> USE DEF GuardStep, RejectUsage, PrintPlan, MakeStateDir, LifetimeLock,
        RunPreflight, VerifyInputs, SaveStarting, InstallHandlers,
        CancelBeforeCreate, CreateContainer, CreateReturns, CreateFails,
        CreateTimesOut, SaveCid, CheckOwned, RecheckReceipt, StartContainer,
        StartReturns, StartFails, StartTimesOut, WatchInspect, WatchSample,
        ResolveCid, StopOwned, StopInspect, StopReturns, StopFails, StopVerify,
        SaveEvidence, SaveFinal, CleanupFails
<1>1. CASE SaveCid(a) \/ CheckOwned(a) \/ RecheckReceipt(a)
  BY <1>1 DEF hostVars, Goto, CheckReceipt, TypeOK
<1>2. CASE ~(SaveCid(a) \/ CheckOwned(a) \/ RecheckReceipt(a))
  <2>1. PICK to : pc' = [pc EXCEPT ![a] = to] /\ to \notin {"own", "recheck", "start"}
    BY <1>2 DEF Goto, Leave
  <2>2. UNCHANGED <<tree, drifted>>
    BY <1>2 DEF hostVars
  <2> QED BY <2>1, <2>2 DEF TypeOK
<1> QED BY <1>1, <1>2

\* Every step keeps the strengthened invariant.
LEMMA NextDrift ==
  TypeOK /\ RecordInv /\ ArmedInv /\ DriftInv /\ [Next]_vars => ArmedInv' /\ DriftInv'
<1> SUFFICES ASSUME TypeOK, RecordInv, ArmedInv, DriftInv, [Next]_vars
             PROVE  ArmedInv' /\ DriftInv'
  OBVIOUS
<1>0. ASSUME NEW a \in Attempts, pc[a] \in BeforeRecheck PROVE ~Live(a)
  BY <1>0 DEF BeforeRecheck, RecordInv, NotStartedInv, NotStarted, ArmedInv
<1>1. ASSUME NEW a \in Attempts, GuardStep(a) PROVE ArmedInv' /\ DriftInv'
  <2>0. UNCHANGED <<tree, drifted>> BY <1>1, ApproachesStart
  <2>1. ASSUME NEW b \in Attempts, pc'[b] \in {"own", "recheck", "start"} PROVE ~Live(b)'
    <3>1. CASE b = a
      BY <1>0, <1>1, <2>1, <3>1, ApproachesStart, StartOnly DEF BeforeRecheck
    <3>2. CASE b # a
      BY <1>1, <2>1, <3>2, GuardFrame DEF ArmedInv, Live, StartReq, Request
    <3> QED BY <3>1, <3>2
  <2>2. ASSUME NEW b \in drifted PROVE ~Live(b)' /\ pc'[b] # "start"
    <3>0. b \in Attempts /\ ~Live(b) /\ pc[b] # "start" /\ tree # "intact"
      BY DEF DriftInv, TypeOK
    <3>1. CASE b = a
      <4>1. ~StartContainer(a) BY <3>0, <3>1 DEF StartContainer, Goto
      <4> QED BY <1>1, <3>0, <3>1, <4>1, ApproachesStart, StartOnly
    <3>2. CASE b # a
      BY <1>1, <3>0, <3>2, GuardFrame DEF Live, StartReq, Request
    <3> QED BY <3>1, <3>2
  <2> QED BY <2>0, <2>1, <2>2 DEF ArmedInv, DriftInv
<1>2. CASE Drift
  <2>1. tree' = "drifted" /\ UNCHANGED <<pc, cont, pending>>
    BY <1>2 DEF Drift, daemonVars
  <2>2. drifted' = {a \in Attempts : pc[a] \in BeforeRecheck}
    BY <1>2 DEF Drift
  <2>3. "start" \notin BeforeRecheck
    BY DEF BeforeRecheck, Unhandled
  <2> QED BY <1>0, <2>1, <2>2, <2>3 DEF ArmedInv, DriftInv, Live, Running
<1>3. CASE ~Drift /\ ~\E a \in Attempts : GuardStep(a)
  <2>1. /\ (\E o \in Operators : OperatorStep(o)) \/ Daemon
           \/ Environment \/ AllEnded \/ UNCHANGED vars
    BY <1>3 DEF Next
  <2>2. \A b \in Attempts : Live(b)' => Live(b)
    BY <2>1, OthersQuiet DEF Quiet
  <2>3. \A b \in Attempts : pc'[b] = pc[b] \/ pc'[b] = "dead"
    BY <2>1, OthersFrame
  <2>4. UNCHANGED <<tree, drifted>>
    BY <1>3, <2>1
    DEF OperatorStep, OperatorReads, StopOwned, StopInspect, StopReturns, StopFails,
        StopVerify, Daemon, DaemonCreate, DaemonStart, DaemonStop, DaemonDrop,
        ServerReady, ServerExits, Environment, Signal, Kill, AllEnded, vars, hostVars
  <2> QED BY <2>2, <2>3, <2>4 DEF ArmedInv, DriftInv, TypeOK
<1> QED BY <1>1, <1>2, <1>3

\* If the checkpoint drifts before a guard's second look at the receipt, its
\* server is never started, however the drift falls between the steps of any
\* number of guards (guard.py:545).
THEOREM DriftNotServed == Spec => []DriftNeverServed
<1>1. Init => ArmedInv /\ DriftInv
  BY DEF Init, ArmedInv, DriftInv, Procs
<1>2. DriftInv => DriftNeverServed
  BY DEF DriftInv, DriftNeverServed, Live
<1> QED
  BY <1>1, <1>2, InitType, NextType, InitRecord, NextRecord, NextDrift, PTL DEF Spec

-----------------------------------------------------------------------------
(***************************************************************************)
(* EvidenceKept.  A guard writes the one file of the directory it made, it *)
(* writes a closed record only in its last step, and nobody else writes.   *)
(***************************************************************************)
\* A guard's step that goes on leaves the status of the record in memory alone,
\* or sets it to STARTING.
LEMMA StatusStep ==
  ASSUME NEW a \in Attempts, TypeOK, GuardStep(a), ~SaveFinal(a)
  PROVE  record'[a].status \in {record[a].status, "STARTING"}
<1> a \in Procs BY DEF Procs
<1>1. CASE SaveStarting(a)
  BY <1>1 DEF SaveStarting, StartingRecord, NoRecord, TypeOK
<1>2. CASE SaveCid(a)
  BY <1>2 DEF SaveCid, TypeOK, Records
<1>3. CASE ResolveCid(a)
  <2>1. record' = record \/ record' = [record EXCEPT ![a].create_outcome = "UNKNOWN"]
    BY <1>3 DEF ResolveCid
  <2> QED BY <2>1 DEF TypeOK, Records
<1>4. CASE StopOwned(a) \/ SaveEvidence(a)
  <2>1. record' = record \/ record' = [record EXCEPT ![a].cleanup_error = "SET"]
    BY <1>4 DEF StopOwned, StopInspect, StopReturns, StopFails, StopVerify, SaveEvidence,
                CleanupFails
  <2> QED BY <2>1 DEF TypeOK, Records
<1>5. CASE ~(SaveStarting(a) \/ SaveCid(a) \/ ResolveCid(a) \/ StopOwned(a) \/ SaveEvidence(a))
  <2>1. record' = record
    BY <1>5
    DEF GuardStep, RejectUsage, PrintPlan, MakeStateDir, LifetimeLock,
        RunPreflight, VerifyInputs, InstallHandlers, CancelBeforeCreate,
        CreateContainer, CreateReturns, CreateFails, CreateTimesOut, CheckOwned,
        RecheckReceipt, StartContainer, StartReturns, StartFails, StartTimesOut,
        WatchInspect, WatchSample
  <2> QED BY <2>1
<1> QED BY <1>1, <1>2, <1>3, <1>4, <1>5

\* A guard that has ended takes no step.
LEMMA EndedIsOver ==
  ASSUME NEW a \in Attempts, GuardStep(a)
  PROVE  ~Ended(a)
BY DEF GuardStep, RejectUsage, PrintPlan, MakeStateDir, LifetimeLock,
       RunPreflight, VerifyInputs, SaveStarting, InstallHandlers,
       CancelBeforeCreate, CreateContainer, CreateReturns, CreateFails,
       CreateTimesOut, SaveCid, CheckOwned, RecheckReceipt, StartContainer,
       StartReturns, StartFails, StartTimesOut, WatchInspect, WatchSample,
       ResolveCid, StopOwned, StopInspect, StopReturns, StopFails, StopVerify,
       SaveEvidence, SaveFinal, CleanupFails, Goto, Leave, Ended

\* What a guard's step can do to the disk.
LEMMA SavesOwn ==
  ASSUME NEW a \in Attempts, TypeOK, RecordInv, OpenInv, GuardStep(a)
  PROVE  \/ disk' = disk
         \/ \E r \in Records :
              /\ disk' = [disk EXCEPT ![StateDir[a]] = r]
              /\ owner[StateDir[a]] = a
              /\ r.nonce = a
              /\ r.status \in {"STOPPED", "FAILED"} =>
                   SaveFinal(a) /\ r = FinalRecord(a) /\ UNCHANGED rc /\ pc'[a] = "done"
<1> a \in Procs BY DEF Procs
<1>1. CASE SaveStarting(a) /\ disk' # disk
  <2>1. owner[StateDir[a]] = a
    BY <1>1 DEF SaveStarting, RecordInv, DirInv, Holding, Steps
  <2>2. StartingRecord(a).nonce = a /\ StartingRecord(a).status = "STARTING"
    BY DEF StartingRecord, NoRecord
  <2> QED BY <1>1, <2>1, <2>2, StartingIsRecord DEF SaveStarting, Save
<1>2. CASE SaveCid(a) /\ disk' # disk
  <2>1. owner[StateDir[a]] = a /\ record[a].nonce = a
    BY <1>2 DEF SaveCid, RecordInv, DirInv, NonceInv, PastRecord, Holding, Steps
  <2>2. record'[a] \in Records /\ record'[a].nonce = a /\ record'[a].status = record[a].status
    BY <1>2, <2>1, RecordCid DEF SaveCid, TypeOK, Records
  <2>3. record[a].status \notin {"STOPPED", "FAILED"}
    BY <1>2 DEF SaveCid, OpenInv, Ended
  <2> QED BY <1>2, <2>1, <2>2, <2>3 DEF SaveCid, Save
<1>3. CASE SaveFinal(a) /\ disk' # disk
  <2>1. owner[StateDir[a]] = a /\ record[a].nonce = a
    BY <1>3 DEF SaveFinal, RecordInv, DirInv, NonceInv, PastRecord, Holding, Steps
  <2>2. FinalRecord(a) \in Records /\ FinalRecord(a).nonce = a
    <3>1. record[a] \in Records /\ rc[a] \in Nat /\ cid[a] \in Ids
      BY DEF TypeOK
    <3>2. FinalRecord(a).nonce = a
      BY <2>1, <3>1 DEF FinalRecord, Records
    <3> QED BY <3>1, <3>2, RecordFinal DEF FinalRecord
  <2>3. pc'[a] = "done" /\ UNCHANGED rc /\ disk' = [disk EXCEPT ![StateDir[a]] = FinalRecord(a)]
    BY <1>3 DEF SaveFinal, Leave, Goto, TypeOK, Save
  <2> QED BY <1>3, <2>1, <2>2, <2>3
<1>4. CASE ~(SaveStarting(a) \/ SaveCid(a) \/ SaveFinal(a))
  BY <1>4
  DEF GuardStep, RejectUsage, PrintPlan, MakeStateDir, LifetimeLock,
      RunPreflight, VerifyInputs, InstallHandlers, CancelBeforeCreate,
      CreateContainer, CreateReturns, CreateFails, CreateTimesOut, CheckOwned,
      RecheckReceipt, StartContainer, StartReturns, StartFails, StartTimesOut,
      WatchInspect, WatchSample, ResolveCid, StopOwned, StopInspect, StopReturns,
      StopFails, StopVerify, SaveEvidence, hostVars
<1> QED BY <1>1, <1>2, <1>3, <1>4

\* Every step keeps the invariant.
LEMMA NextEvidence == TypeOK /\ RecordInv /\ EvidenceInv /\ [Next]_vars => EvidenceInv'
<1> SUFFICES ASSUME TypeOK, RecordInv, EvidenceInv, [Next]_vars PROVE EvidenceInv'
  OBVIOUS
<1> USE DEF EvidenceInv
<1>1. ASSUME NEW a \in Attempts, GuardStep(a) PROVE EvidenceInv'
  <2>1. OpenInv'
    <3> SUFFICES ASSUME NEW b \in Attempts, pc'[b] \notin {"done", "dead"}
                 PROVE  record'[b].status \notin {"STOPPED", "FAILED"}
      BY DEF OpenInv, Ended
    <3>1. CASE b = a
      <4>1. ~SaveFinal(a)
        <5>1. SaveFinal(a) => pc'[a] = "done"
          BY DEF SaveFinal, Leave, Goto, TypeOK, Procs
        <5> QED BY <3>1, <5>1
      <4>2. ~Ended(a) BY <1>1, EndedIsOver
      <4> QED BY <1>1, <3>1, <4>1, <4>2, StatusStep DEF OpenInv
    <3>2. CASE b # a
      BY <1>1, <3>2, GuardFrame DEF OpenInv, Ended
    <3> QED BY <3>1, <3>2
  <2>2. ClosedInv'
    <3> SUFFICES ASSUME NEW d \in Dirs, disk'[d].status \in {"STOPPED", "FAILED"}
                 PROVE  disk'[d].nonce \in Attempts /\ pc'[disk'[d].nonce] \in {"done", "dead"}
      BY DEF ClosedInv, Ended
    <3>1. CASE disk'[d] = disk[d]
      <4>1. disk[d].nonce \in Attempts /\ Ended(disk[d].nonce)
        BY <3>1 DEF ClosedInv
      <4>2. disk[d].nonce # a
        BY <1>1, <4>1, EndedIsOver
      <4> QED BY <1>1, <3>1, <4>1, <4>2, GuardFrame DEF Ended
    <3>2. CASE disk'[d] # disk[d]
      <4>1. PICK r \in Records :
              /\ disk' = [disk EXCEPT ![StateDir[a]] = r]
              /\ r.nonce = a
              /\ r.status \in {"STOPPED", "FAILED"} => pc'[a] = "done"
        BY <1>1, <3>2, SavesOwn
      <4>2. disk'[d] = r
        BY <3>2, <4>1 DEF TypeOK
      <4> QED BY <4>1, <4>2
    <3> QED BY <3>1, <3>2
  <2> QED BY <2>1, <2>2
<1>2. CASE ~\E a \in Attempts : GuardStep(a)
  <2>1. /\ UNCHANGED disk
        /\ \A b \in Attempts : /\ pc'[b] = pc[b] \/ (~Ended(b) /\ pc'[b] = "dead")
                               /\ record'[b] = record[b]
    BY <1>2, OthersFrame DEF Next
  <2> QED BY <2>1 DEF OpenInv, ClosedInv, Ended
<1> QED BY <1>1, <1>2

\* No step replaces another attempt's record or changes a closed one.
LEMMA EvidenceStep ==
  ASSUME TypeOK, RecordInv, EvidenceInv, [Next]_vars, NEW d \in Dirs
  PROVE  /\ disk[d].nonce # None => disk'[d].nonce = disk[d].nonce
         /\ disk[d].status \in {"STOPPED", "FAILED"} => disk'[d] = disk[d]
<1>1. ASSUME NEW a \in Attempts, GuardStep(a), disk'[d] # disk[d]
      PROVE  disk[d].nonce \in {None, a} /\ disk'[d].nonce = a
             /\ disk[d].status \notin {"STOPPED", "FAILED"}
  <2>1. PICK r \in Records :
          /\ disk' = [disk EXCEPT ![StateDir[a]] = r]
          /\ owner[StateDir[a]] = a
          /\ r.nonce = a
    BY <1>1, SavesOwn DEF EvidenceInv
  <2>2. d = StateDir[a] /\ disk'[d] = r
    BY <1>1, <2>1 DEF TypeOK
  <2>3. disk[d].nonce \in {None, a}
    BY <2>1, <2>2 DEF RecordInv, DirInv
  <2>4. ~Ended(a) BY <1>1, EndedIsOver
  <2>5. disk[d].status \notin {"STOPPED", "FAILED"}
    BY <2>3, <2>4, IdAssumption DEF EvidenceInv, ClosedInv, Containers
  <2> QED BY <2>1, <2>2, <2>3, <2>5
<1>2. CASE ~\E a \in Attempts : GuardStep(a)
  BY <1>2, OthersFrame DEF Next
<1> QED BY <1>1, <1>2

\* The first state satisfies the invariant.
LEMMA InitEvidence == Init => EvidenceInv
BY DEF Init, EvidenceInv, OpenInv, ClosedInv, NoRecord

\* A state directory keeps the evidence of one epoch, whatever the guards that
\* name it do and wherever they are killed: no attempt replaces another's
\* record, and a closed record is final (guard.py:461-462).
THEOREM EvidenceIsKept == Spec => EvidenceKept
<1>1. TypeOK /\ RecordInv /\ EvidenceInv /\ [Next]_vars =>
        [\A d \in Dirs :
           /\ disk[d].nonce # None => disk'[d].nonce = disk[d].nonce
           /\ disk[d].status \in {"STOPPED", "FAILED"} => disk'[d] = disk[d]]_vars
  BY EvidenceStep
<1> QED
  BY <1>1, InitType, NextType, InitRecord, NextRecord, InitEvidence, NextEvidence, PTL
  DEF Spec, EvidenceKept

-----------------------------------------------------------------------------
(***************************************************************************)
(* SuccessIsEarned.  The only way to exit code 0 after a record is the     *)
(* watch loop's reading of a server that ended before its guard asked for  *)
(* a stop, and from there no request is left that could change what was    *)
(* read.                                                                   *)
(***************************************************************************)
\* What a guard's step does to the create and start requests of any guard.
LEMMA RequestsStep ==
  ASSUME NEW a \in Attempts, TypeOK, GuardStep(a), NEW b \in Attempts
  PROVE  /\ CreateReq(b) \in pending' => CreateReq(b) \in pending \/ (b = a /\ CreateContainer(a))
         /\ StartReq(b) \in pending' => StartReq(b) \in pending \/ (b = a /\ StartContainer(a))
         /\ StartReq(b) \in pending => StartReq(b) \in pending' \/ (b = a /\ StartFails(a))
<1> USE DEF daemonVars, CreateReq, StartReq
<1>1. CASE CreateContainer(a) \/ StartContainer(a) \/ CreateFails(a) \/ StartFails(a)
  BY <1>1 DEF CreateContainer, StartContainer, CreateFails, StartFails, Request
<1>2. CASE StopOwned(a)
  BY <1>2 DEF StopOwned, StopInspect, StopReturns, StopFails, StopVerify, Request
<1>3. CASE ~(CreateContainer(a) \/ StartContainer(a) \/ CreateFails(a) \/ StartFails(a) \/ StopOwned(a))
  <2>1. pending' = pending
    BY <1>3
    DEF GuardStep, RejectUsage, PrintPlan, MakeStateDir, LifetimeLock,
        RunPreflight, VerifyInputs, SaveStarting, InstallHandlers,
        CancelBeforeCreate, CreateReturns, CreateTimesOut, SaveCid, CheckOwned,
        RecheckReceipt, StartReturns, StartTimesOut, WatchInspect, WatchSample,
        ResolveCid, SaveEvidence, SaveFinal
  <2> QED BY <2>1
<1> QED BY <1>1, <1>2, <1>3

\* A guard's step leaves every container as it is.
LEMMA GuardOnlyAsks ==
  ASSUME NEW a \in Attempts, GuardStep(a)
  PROVE  UNCHANGED <<cont, ended>>
BY DEF GuardStep, RejectUsage, PrintPlan, MakeStateDir, LifetimeLock,
       RunPreflight, VerifyInputs, SaveStarting, InstallHandlers,
       CancelBeforeCreate, CreateContainer, CreateReturns, CreateFails,
       CreateTimesOut, SaveCid, CheckOwned, RecheckReceipt, StartContainer,
       StartReturns, StartFails, StartTimesOut, WatchInspect, WatchSample,
       ResolveCid, StopOwned, StopInspect, StopReturns, StopFails, StopVerify,
       SaveEvidence, SaveFinal, daemonVars

\* Where a guard's step takes it, as far as the invariant asks.
LEMMA SuccessMoves ==
  ASSUME NEW a \in Attempts, TypeOK, GuardStep(a)
  PROVE  /\ pc'[a] \in Created => pc[a] \in Created \/ CreateReturns(a)
         /\ pc'[a] = "starting" => StartContainer(a)
         /\ pc'[a] \in {"watch", "sample"} => pc[a] \in {"watch", "sample"} \/ StartReturns(a)
         /\ pc'[a] \in Undecided => pc[a] \in Undecided
         /\ pc'[a] # "begin"
         /\ CreateContainer(a) => pc'[a] = "creating"
         /\ StartContainer(a) => pc'[a] = "starting"
         /\ StartFails(a) => pc'[a] = "stop"
<1> a \in Procs BY DEF Procs
<1> USE DEF Created, Undecided, Unhandled
<1>1. CASE StopOwned(a) \/ SaveEvidence(a) \/ SaveFinal(a)
  <2>1. PICK to : /\ pc' = [pc EXCEPT ![a] = to]
                  /\ to \in {"stopping", "stopped", "evidence", "final", "done"}
                  /\ pc[a] \in {"stop", "stopping", "stopped", "evidence", "final"}
    BY <1>1 DEF StopOwned, StopInspect, StopReturns, StopFails, StopVerify, SaveEvidence,
                SaveFinal, CleanupFails, Goto, Leave
  <2>2. pc'[a] = to BY <2>1 DEF TypeOK
  <2> QED BY <2>1, <2>2 DEF CreateContainer, StartContainer, StartFails, Goto
<1>2. CASE RejectUsage(a) \/ PrintPlan(a) \/ MakeStateDir(a) \/ LifetimeLock(a)
           \/ RunPreflight(a) \/ VerifyInputs(a) \/ SaveStarting(a)
           \/ CancelBeforeCreate(a) \/ ResolveCid(a)
  <2>1. PICK to : /\ pc' = [pc EXCEPT ![a] = to]
                  /\ to \in {"lock", "preflight", "verify", "record", "handlers", "stop", "final", "done"}
                  /\ pc[a] \in {"begin", "lock", "preflight", "verify", "record", "create", "resolve"}
                  /\ to = "create" => pc[a] = "handlers"
    BY <1>2 DEF RejectUsage, PrintPlan, MakeStateDir, LifetimeLock, RunPreflight,
                VerifyInputs, SaveStarting, CancelBeforeCreate, ResolveCid, Goto, Leave
  <2>2. pc'[a] = to BY <2>1 DEF TypeOK
  <2>3. ~CreateContainer(a)
    BY <2>1, <2>2 DEF CreateContainer, Goto, TypeOK
  <2> QED BY <2>1, <2>2, <2>3 DEF StartContainer, StartFails, Goto
<1>3. CASE InstallHandlers(a) \/ CreateContainer(a) \/ CreateReturns(a) \/ CreateFails(a)
           \/ CreateTimesOut(a)
  BY <1>3 DEF InstallHandlers, CreateContainer, CreateReturns, CreateFails, CreateTimesOut,
              StartContainer, StartFails, Goto, TypeOK
<1>4. CASE SaveCid(a) \/ CheckOwned(a) \/ RecheckReceipt(a)
  BY <1>4 DEF SaveCid, CheckOwned, RecheckReceipt, CreateContainer, StartContainer, StartFails,
              Goto, TypeOK
<1>5. CASE StartContainer(a) \/ StartReturns(a) \/ StartFails(a) \/ StartTimesOut(a)
           \/ WatchInspect(a) \/ WatchSample(a)
  BY <1>5 DEF StartContainer, StartReturns, StartFails, StartTimesOut, WatchInspect,
              WatchSample, CreateContainer, Goto, TypeOK
<1> QED BY <1>1, <1>2, <1>3, <1>4, <1>5 DEF GuardStep

\* No step takes a guard back to before its cleanup.
LEMMA UndecidedBack ==
  ASSUME TypeOK, [Next]_vars, NEW b \in Attempts, pc'[b] \in Undecided
  PROVE  pc[b] \in Undecided
<1>1. ASSUME NEW a \in Attempts, GuardStep(a) PROVE pc[b] \in Undecided
  <2>1. CASE a = b BY <1>1, <2>1, SuccessMoves
  <2>2. CASE a # b BY <1>1, <2>2, GuardFrame
  <2> QED BY <2>1, <2>2
<1>2. CASE ~\E a \in Attempts : GuardStep(a)
  <2>1. pc'[b] = pc[b] \/ pc'[b] = "dead" BY <1>2, OthersFrame DEF Next
  <2> QED BY <2>1 DEF Undecided, Unhandled, Created
<1> QED BY <1>1, <1>2

\* A request to stop is new only if stop_owned has just found the container
\* to be its caller's own.
LEMMA NewStop ==
  ASSUME TypeOK, [Next]_vars, NEW r \in pending', r.op = "stop", r \notin pending
  PROVE  \E p \in Procs : /\ r = Request("stop", cid[p], p) /\ cid[p] = expect[p]
                          /\ pc' = [pc EXCEPT ![p] = "stopping"]
<1> USE DEF daemonVars
<1>1. ASSUME NEW p \in Procs, StopOwned(p)
      PROVE  /\ r = Request("stop", cid[p], p) /\ cid[p] = expect[p]
             /\ pc' = [pc EXCEPT ![p] = "stopping"]
  BY <1>1 DEF StopOwned, StopInspect, StopReturns, StopFails, StopVerify, VerifyOwnership, Goto
<1>2. ASSUME NEW a \in Attempts, GuardStep(a) PROVE StopOwned(a) /\ a \in Procs
  <2>1. a \in Procs BY DEF Procs
  <2> QED
    BY <1>2, <2>1
    DEF GuardStep, RejectUsage, PrintPlan, MakeStateDir, LifetimeLock,
        RunPreflight, VerifyInputs, SaveStarting, InstallHandlers,
        CancelBeforeCreate, CreateContainer, CreateReturns, CreateFails,
        CreateTimesOut, SaveCid, CheckOwned, RecheckReceipt, StartContainer,
        StartReturns, StartFails, StartTimesOut, WatchInspect, WatchSample,
        ResolveCid, SaveEvidence, SaveFinal, Request
<1>3. ASSUME NEW o \in Operators, OperatorStep(o) PROVE StopOwned(o) /\ o \in Procs
  <2>1. o \in Procs BY DEF Procs
  <2> QED BY <1>3, <2>1 DEF OperatorStep, OperatorReads
<1>4. CASE Daemon
  BY <1>4 DEF Daemon, DaemonCreate, DaemonStart, DaemonStop, DaemonDrop, ServerReady, ServerExits
<1>5. CASE Environment \/ AllEnded \/ UNCHANGED vars
  BY <1>5 DEF Environment, Signal, Kill, Drift, AllEnded, vars
<1> QED BY <1>1, <1>2, <1>3, <1>4, <1>5 DEF Next

\* Every step keeps what is known of the stops guards ask for.
LEMMA NextOwnStop ==
  TypeOK /\ RecordInv /\ OwnStopInv /\ [Next]_vars => OwnStopInv'
<1> SUFFICES ASSUME TypeOK, RecordInv, OwnStopInv, [Next]_vars PROVE OwnStopInv'
  OBVIOUS
<1>0. \A a \in Attempts : a \in Procs /\ a \in Containers BY DEF Procs, Containers
<1>1. AskedInv'
  <2> SUFFICES ASSUME NEW r \in pending', r.op = "stop", r.by \in Attempts
               PROVE  r.cid = r.by /\ pc'[r.by] \notin Undecided
    BY DEF AskedInv
  <2>1. CASE r \in pending
    BY <2>1, UndecidedBack DEF OwnStopInv, AskedInv
  <2>2. CASE r \notin pending
    <3>1. PICK p \in Procs : /\ r = Request("stop", cid[p], p) /\ cid[p] = expect[p]
                             /\ pc' = [pc EXCEPT ![p] = "stopping"]
      BY <2>2, NewStop
    <3>2. r.by = p /\ r.cid = cid[p] BY <3>1 DEF Request
    <3>3. expect[p] = p BY <3>2 DEF RecordInv, ExpectInv
    <3>4. pc'[p] = "stopping" BY <3>1 DEF TypeOK
    <3> QED BY <3>1, <3>2, <3>3, <3>4 DEF Undecided, Unhandled, Created
  <2> QED BY <2>1, <2>2
<1>2. UnstoppedInv'
  <2> SUFFICES ASSUME NEW b \in Attempts, pc'[b] \in Undecided PROVE ended'[b].by \notin Attempts
    BY DEF UnstoppedInv
  <2>1. pc[b] \in Undecided /\ ended[b].by \notin Attempts
    BY UndecidedBack DEF OwnStopInv, UnstoppedInv
  <2>2. CASE ended' = ended BY <2>1, <2>2
  <2>3. ASSUME NEW c, NEW code, NEW cause, NEW by, by \notin Attempts \/ c # b,
               Finish(c, code, cause, by)
        PROVE  ended'[b].by \notin Attempts
    BY <2>1, <2>3 DEF Finish, TypeOK
  <2>4. ASSUME NEW a \in Attempts, ServerExits(a) PROVE ended'[b].by \notin Attempts
    <3>1. None \notin Attempts BY <1>0, IdAssumption
    <3>2. PICK code, cause : Finish(a, code, cause, None) BY <2>4 DEF ServerExits
    <3> QED BY <2>3, <3>1, <3>2
  <2>5. ASSUME NEW r \in pending, DaemonStop(r) PROVE ended'[b].by \notin Attempts
    <3>1. r.op = "stop" BY <2>5 DEF DaemonStop
    <3>2. r.by \notin Attempts \/ r.cid # b
      BY <2>1, <3>1 DEF OwnStopInv, AskedInv
    <3>3. ended' = ended \/ \E code \in ExitCodes : Finish(r.cid, code, "exit", r.by)
      BY <2>5 DEF DaemonStop
    <3> QED BY <2>2, <2>3, <3>2, <3>3
  <2>6. CASE ~Daemon BY <2>2, <2>6, OnlyDaemonActs
  <2>7. CASE Daemon
    BY <2>2, <2>4, <2>5, <2>7 DEF Daemon, DaemonCreate, DaemonStart, DaemonDrop, ServerReady
  <2> QED BY <2>6, <2>7
<1> QED BY <1>1, <1>2 DEF OwnStopInv

\* No guard has asked for a stop in the first state.
LEMMA InitOwnStop == Init => OwnStopInv
<1> SUFFICES ASSUME Init PROVE OwnStopInv
  OBVIOUS
<1>1. None \notin Attempts BY IdAssumption DEF Containers
<1> QED BY <1>1 DEF Init, OwnStopInv, AskedInv, UnstoppedInv

\* The first state satisfies the invariant.
LEMMA InitSuccess == Init => SuccessInv
<1> SUFFICES ASSUME Init PROVE SuccessInv
  OBVIOUS
<1>1. \A a \in Attempts : pc[a] = "begin" /\ rc[a] = 2 /\ record[a] = NoRecord
  BY DEF Init, Procs
<1>2. CreatedInv /\ BegunInv
  BY <1>1 DEF CreatedInv, BegunInv, Created
<1>3. UndecidedInv /\ EarnedInv
  BY <1>1 DEF UndecidedInv, EarnedInv, NoRecord
<1>4. StoppedInv
  BY DEF Init, StoppedInv, NoRecord
<1> QED BY <1>2, <1>3, <1>4 DEF SuccessInv

\* A guard on the way to its start or watching its server.
LEMMA GuardStepBegun ==
  ASSUME NEW a \in Attempts, TypeOK, SuccessInv, GuardStep(a)
  PROVE  CreatedInv' /\ BegunInv'
<1> USE DEF SuccessInv
<1>0. UNCHANGED <<cont, ended>> BY GuardOnlyAsks
<1>1. CreatedInv'
  <2> SUFFICES ASSUME NEW b \in Attempts, pc'[b] \in Created PROVE CreateReq(b) \notin pending'
    BY DEF CreatedInv, CreateReq, Request
  <2>1. CASE b = a
    <3>1. CreateReq(a) \notin pending
      BY <2>1, SuccessMoves DEF CreatedInv, CreateReturns, CreateReq
    <3>2. ~CreateContainer(a)
      BY <2>1, SuccessMoves DEF Created
    <3> QED BY <2>1, <3>1, <3>2, RequestsStep
  <2>2. CASE b # a
    BY <2>2, GuardFrame, RequestsStep DEF CreatedInv
  <2> QED BY <2>1, <2>2
<1>2. BegunInv'
  <2> SUFFICES ASSUME NEW b \in Attempts,
                      \/ pc'[b] = "starting" /\ StartReq(b) \notin pending'
                      \/ pc'[b] \in {"watch", "sample"}
               PROVE  Begun(b) /\ StartReq(b) \notin pending'
    BY <1>0 DEF BegunInv, StartReq, Request, Begun
  <2>1. CASE b = a
    <3>1. ~StartContainer(a)
      <4>1. StartContainer(a) => StartReq(a) \in pending'
        BY DEF StartContainer, StartReq
      <4>2. StartContainer(a) => pc'[a] = "starting"
        BY SuccessMoves
      <4> QED BY <2>1, <4>1, <4>2
    <3>2. pc'[a] \in {"watch", "sample"}
      BY <2>1, <3>1, SuccessMoves
    <3>3. CASE pc[a] \in {"watch", "sample"}
      BY <2>1, <3>1, <3>3, RequestsStep DEF BegunInv
    <3>4. CASE StartReturns(a)
      <4>1. pc[a] = "starting" /\ StartReq(a) \notin pending
        BY <3>4 DEF StartReturns, Goto, StartReq
      <4> QED BY <2>1, <3>1, <4>1, RequestsStep DEF BegunInv
    <3> QED BY <3>2, <3>3, <3>4, SuccessMoves
  <2>2. CASE b # a
    <3>1. pc'[b] = pc[b] /\ (StartReq(b) \in pending' <=> StartReq(b) \in pending)
      BY <2>2, GuardFrame, RequestsStep
    <3> QED BY <3>1 DEF BegunInv
  <2> QED BY <2>1, <2>2
<1> QED BY <1>1, <1>2

\* A guard that has not reached its cleanup has an error code ready.
LEMMA GuardStepUndecided ==
  ASSUME NEW a \in Attempts, TypeOK, SuccessInv, GuardStep(a), pc'[a] \in Undecided
  PROVE  rc'[a] # EXIT_OK /\ record'[a].cleanup_error = "NONE"
<1> a \in Procs BY DEF Procs
<1>0. pc[a] \in Undecided /\ rc[a] # EXIT_OK /\ record[a].cleanup_error = "NONE"
  BY SuccessMoves DEF SuccessInv, UndecidedInv
<1>1. CASE SaveStarting(a)
  <2>1. rc' = rc /\ record' = [record EXCEPT ![a] = StartingRecord(a)]
    BY <1>1 DEF SaveStarting
  <2>2. record'[a] = StartingRecord(a) /\ StartingRecord(a).cleanup_error = "NONE"
    BY <2>1 DEF TypeOK, StartingRecord, NoRecord
  <2> QED BY <1>0, <2>1, <2>2
<1>2. CASE SaveCid(a)
  <2>1. rc' = rc /\ record' = [record EXCEPT ![a].cid = cid[a]]
    BY <1>2 DEF SaveCid
  <2>2. record'[a].cleanup_error = record[a].cleanup_error
    BY <2>1 DEF TypeOK, Records
  <2> QED BY <1>0, <2>1, <2>2
<1>3. CASE RejectUsage(a) \/ PrintPlan(a) \/ CancelBeforeCreate(a)
  BY <1>3 DEF RejectUsage, PrintPlan, CancelBeforeCreate, Goto, TypeOK, Undecided, Unhandled, Created
<1>4. CASE StopOwned(a) \/ SaveEvidence(a) \/ SaveFinal(a)
  BY <1>0, <1>4 DEF StopOwned, StopInspect, StopReturns, StopFails, StopVerify, SaveEvidence,
      SaveFinal, CleanupFails, Goto, Leave, Undecided, Unhandled, Created
<1>5. CASE ResolveCid(a)
  <2>1. pc'[a] \in {"stop", "final", "done"}
    BY <1>5 DEF ResolveCid, Goto, Leave, TypeOK
  <2> QED BY <2>1 DEF Undecided, Unhandled, Created
<1>6. CASE \/ MakeStateDir(a) \/ VerifyInputs(a) \/ CreateContainer(a) \/ CreateReturns(a)
           \/ CreateFails(a) \/ CreateTimesOut(a) \/ StartContainer(a) \/ StartFails(a)
           \/ StartTimesOut(a)
  BY <1>0, <1>6
  DEF MakeStateDir, VerifyInputs, CreateContainer, CreateReturns, CreateFails,
      CreateTimesOut, StartContainer, StartFails, StartTimesOut
<1>7. CASE LifetimeLock(a) \/ RunPreflight(a) \/ InstallHandlers(a) \/ RecheckReceipt(a)
           \/ StartReturns(a)
  BY <1>0, <1>7
  DEF LifetimeLock, RunPreflight, InstallHandlers, RecheckReceipt, StartReturns, SetRc, TypeOK
<1>8. CASE CheckOwned(a) \/ WatchInspect(a) \/ WatchSample(a)
  <2>1. \/ Goto(a, "own", "stop") \/ Goto(a, "watch", "stop") \/ Goto(a, "sample", "stop")
        \/ rc' = rc \/ rc' = [rc EXCEPT ![a] = EXIT_VERIFY]
    BY <1>8 DEF CheckOwned, WatchInspect, WatchSample, SetRc
  <2>2. record' = record
    BY <1>8 DEF CheckOwned, WatchInspect, WatchSample
  <2> QED BY <1>0, <2>1, <2>2 DEF Goto, TypeOK, Undecided, Unhandled, Created
<1> QED BY <1>1, <1>2, <1>3, <1>4, <1>5, <1>6, <1>7, <1>8 DEF GuardStep

\* Exit code 0 of a guard with a record comes from the watch loop, which read
\* it from a server its guard had not stopped; a failed cleanup takes it away.
LEMMA GuardStepEarned ==
  ASSUME NEW a \in Attempts, TypeOK, RecordInv, OwnStopInv, SuccessInv, GuardStep(a),
         rc'[a] = EXIT_OK, record'[a].nonce = a
  PROVE  Earned(a)' /\ record'[a].cleanup_error = "NONE"
<1> a \in Procs /\ a \in Containers /\ a # None
  BY IdAssumption DEF Procs, Containers
<1> USE DEF SuccessInv
<1>0. UNCHANGED <<cont, ended>> BY GuardOnlyAsks
<1>1. pc'[a] \notin Undecided BY GuardStepUndecided
<1>2. ASSUME Earned(a), ~CreateContainer(a), ~StartContainer(a) PROVE Earned(a)'
  BY <1>0, <1>2, RequestsStep DEF Earned, EndedWell, CreateReq, StartReq, Request
<1>a. ~CreateContainer(a) /\ ~StartContainer(a)
  BY <1>1, SuccessMoves DEF Undecided, Created
<1>3. CASE pc[a] \in Undecided
  <2>1. rc[a] # EXIT_OK /\ record[a].cleanup_error = "NONE"
        /\ (pc[a] = "begin" => record[a].nonce = None)
    BY <1>3 DEF UndecidedInv
  <2>2. CASE PrintPlan(a)
    BY <2>1, <2>2 DEF PrintPlan, Goto
  <2>3. CASE WatchInspect(a)
    <3>1. pc[a] = "watch" /\ record' = record
      BY <2>3 DEF WatchInspect
    <3>2. VerifyOwnership(a) /\ ~Running(a) /\ rc'[a] = ContainerRc(a)
      BY <2>1, <2>3 DEF WatchInspect, SetRc, TypeOK
    <3>3. Begun(a) /\ StartReq(a) \notin pending /\ CreateReq(a) \notin pending
      BY <3>1 DEF BegunInv, CreatedInv, Created
    <3>4. cont[a] = "exited"
      BY <3>2, <3>3 DEF Begun, Running
    <3>5. ended[a].code = 0 /\ ended[a].cause # "OOMKilled"
      BY <3>2 DEF ContainerRc
    <3>6. ended[a].cause = "exit" /\ ended[a].by \notin Attempts
      <4>1. ended[a].cause \in {"exit", "OOMKilled"} BY DEF TypeOK
      <4>2. ended[a].by \notin Attempts BY <1>3 DEF OwnStopInv, UnstoppedInv
      <4> QED BY <3>5, <4>1, <4>2
    <3>7. Earned(a) BY <3>3, <3>4, <3>5, <3>6 DEF Earned, EndedWell
    <3> QED BY <1>2, <1>a, <2>1, <3>1, <3>7
  <2>4. CASE ~PrintPlan(a) /\ ~WatchInspect(a)
    <3>1. CASE \/ CancelBeforeCreate(a) \/ CheckOwned(a) \/ WatchSample(a)
      <4>1. sig[a] \in Nat BY SigNat
      <4>2. rc' = rc \/ \E code \in Nat \ {0} : rc' = [rc EXCEPT ![a] = code]
        BY <3>1, <4>1 DEF CancelBeforeCreate, CheckOwned, WatchSample, SetRc
      <4> QED BY <2>1, <4>2 DEF TypeOK
    <3>2. CASE ~(\/ CancelBeforeCreate(a) \/ CheckOwned(a) \/ WatchSample(a))
      <4>1. rc' = rc \/ \E code \in Nat \ {0} : rc' = [rc EXCEPT ![a] = code]
        BY <1>3, <2>4, <3>2
        DEF GuardStep, RejectUsage, MakeStateDir, LifetimeLock, RunPreflight,
            VerifyInputs, SaveStarting, InstallHandlers, CreateContainer,
            CreateReturns, CreateFails, CreateTimesOut, SaveCid, RecheckReceipt,
            StartContainer, StartReturns, StartFails, StartTimesOut, ResolveCid,
            StopOwned, StopInspect, StopReturns, StopFails, StopVerify, SaveEvidence,
            SaveFinal, CleanupFails, SetRc, Goto, Leave, Undecided, Unhandled, Created
      <4> QED BY <2>1, <4>1 DEF TypeOK
    <3> QED BY <3>1, <3>2
  <2> QED BY <2>2, <2>3, <2>4
<1>4. CASE pc[a] \notin Undecided
  <2>1. StopOwned(a) \/ SaveEvidence(a) \/ SaveFinal(a)
    BY <1>4
    DEF GuardStep, RejectUsage, PrintPlan, MakeStateDir, LifetimeLock,
        RunPreflight, VerifyInputs, SaveStarting, InstallHandlers,
        CancelBeforeCreate, CreateContainer, CreateReturns, CreateFails,
        CreateTimesOut, SaveCid, CheckOwned, RecheckReceipt, StartContainer,
        StartReturns, StartFails, StartTimesOut, WatchInspect, WatchSample,
        ResolveCid, Goto, Leave, Undecided, Unhandled, Created
  <2>2. ~\E from \in Steps : CleanupFails(a, from)
    BY CleanupNoted
  <2>3. CASE StopOwned(a) \/ SaveEvidence(a)
    <3>1. UNCHANGED <<rc, record>>
      BY <2>2, <2>3 DEF StopOwned, StopInspect, StopReturns, StopFails, StopVerify,
                        SaveEvidence, Steps
    <3> QED BY <1>2, <1>a, <3>1 DEF EarnedInv
  <2>4. CASE SaveFinal(a)
    <3>1. rc[a] = EXIT_OK
      BY <2>4 DEF SaveFinal, SetRc, OrCleanup, TypeOK
    <3>2. record[a].nonce = a
      BY <2>4 DEF SaveFinal, RecordInv, NonceInv, PastRecord, Holding, Steps
    <3>3. record'[a].cleanup_error = record[a].cleanup_error
      <4>1. record' = [record EXCEPT ![a] = FinalRecord(a)]
        BY <2>4 DEF SaveFinal
      <4> QED BY <4>1 DEF FinalRecord, TypeOK, Records
    <3> QED BY <1>2, <1>a, <3>1, <3>2, <3>3 DEF EarnedInv
  <2> QED BY <2>1, <2>3, <2>4
<1> QED BY <1>3, <1>4

\* A guard's step keeps the invariant.
LEMMA GuardStepSuccess ==
  ASSUME NEW a \in Attempts, TypeOK, RecordInv, OwnStopInv, EvidenceInv, SuccessInv, GuardStep(a)
  PROVE  SuccessInv'
<1>1. CreatedInv' /\ BegunInv' BY GuardStepBegun
<1>2. UndecidedInv'
  <2> SUFFICES ASSUME NEW b \in Attempts, pc'[b] \in Undecided
               PROVE  /\ rc'[b] # EXIT_OK /\ record'[b].cleanup_error = "NONE"
                      /\ pc'[b] = "begin" => record'[b].nonce = None
    BY DEF UndecidedInv
  <2>1. CASE b = a
    BY <2>1, GuardStepUndecided, SuccessMoves
  <2>2. CASE b # a
    BY <2>2, GuardFrame DEF SuccessInv, UndecidedInv
  <2> QED BY <2>1, <2>2
<1>3. EarnedInv'
  <2> SUFFICES ASSUME NEW b \in Attempts, rc'[b] = EXIT_OK, record'[b].nonce = b
               PROVE  Earned(b)' /\ record'[b].cleanup_error = "NONE"
    BY DEF EarnedInv
  <2>1. CASE b = a
    BY <2>1, GuardStepEarned
  <2>2. CASE b # a
    <3>1. Earned(b) /\ record'[b].cleanup_error = "NONE"
      BY <2>2, GuardFrame DEF SuccessInv, EarnedInv
    <3>2. UNCHANGED <<cont, ended>> BY GuardOnlyAsks
    <3>3. CreateReq(b) \notin pending' /\ StartReq(b) \notin pending'
      BY <2>2, <3>1, RequestsStep DEF Earned
    <3> QED BY <3>1, <3>2, <3>3 DEF Earned, EndedWell, CreateReq, StartReq, Request
  <2> QED BY <2>1, <2>2
<1>4. StoppedInv'
  <2> SUFFICES ASSUME NEW d \in Dirs, disk'[d].status = "STOPPED"
               PROVE  /\ rc'[disk'[d].nonce] = EXIT_OK
                      /\ record'[disk'[d].nonce].nonce = disk'[d].nonce
    BY DEF StoppedInv
  <2>1. CASE disk'[d] = disk[d]
    <3>1. disk[d].nonce \in Attempts /\ Ended(disk[d].nonce)
      BY <2>1 DEF EvidenceInv, ClosedInv
    <3>2. disk[d].nonce # a BY <3>1, EndedIsOver
    <3> QED BY <2>1, <3>1, <3>2, GuardFrame DEF SuccessInv, StoppedInv
  <2>2. CASE disk'[d] # disk[d]
    <3>1. PICK r \in Records :
            /\ disk' = [disk EXCEPT ![StateDir[a]] = r]
            /\ r.nonce = a
            /\ r.status \in {"STOPPED", "FAILED"} =>
                 SaveFinal(a) /\ r = FinalRecord(a) /\ UNCHANGED rc
      BY <2>2, SavesOwn DEF EvidenceInv
    <3>2. disk'[d] = r
      BY <2>2, <3>1 DEF TypeOK
    <3>3. SaveFinal(a) /\ r = FinalRecord(a) /\ rc' = rc
      BY <3>1, <3>2
    <3>4. FinalRecord(a).status = IF rc[a] = EXIT_OK THEN "STOPPED" ELSE "FAILED"
      BY DEF FinalRecord, TypeOK, Records
    <3>5. record'[a] = r
      BY <3>3 DEF SaveFinal, TypeOK
    <3> QED BY <3>1, <3>2, <3>3, <3>4, <3>5
  <2> QED BY <2>1, <2>2
<1> QED BY <1>1, <1>2, <1>3, <1>4 DEF SuccessInv

\* What the daemon and a container do to a container that began or ended.
LEMMA DaemonSuccess ==
  ASSUME TypeOK, SuccessInv, Daemon
  PROVE  /\ BegunInv'
         /\ \A b \in Attempts : Earned(b) => Earned(b)'
<1>0. \A a \in Attempts : a \in Containers /\ a \in Procs BY DEF Containers, Procs
<1>1. UNCHANGED pc
  BY DEF Daemon, DaemonCreate, DaemonStart, DaemonStop, DaemonDrop, ServerReady, ServerExits
<1>2. ASSUME NEW b \in Attempts, Earned(b) PROVE Earned(b)'
  <2> USE <1>2 DEF Earned, EndedWell, CreateReq, StartReq
  <2>1. ASSUME NEW a \in Attempts, DaemonCreate(a) \/ DaemonStart(a) \/ ServerReady(a)
        PROVE  Earned(b)'
    BY <1>0, <2>1 DEF DaemonCreate, DaemonStart, ServerReady, TypeOK, Request
  <2>2. ASSUME NEW a \in Attempts, ServerExits(a) PROVE Earned(b)'
    BY <1>0, <2>2 DEF ServerExits, Finish, Running, TypeOK, Request
  <2>3. ASSUME NEW r \in pending, DaemonStop(r) \/ DaemonDrop(r) PROVE Earned(b)'
    BY <1>0, <2>3 DEF DaemonStop, DaemonDrop, Finish, Running, TypeOK, Request
  <2> QED BY <2>1, <2>2, <2>3 DEF Daemon
<1>3. ASSUME NEW b \in Attempts,
             \/ pc[b] = "starting" /\ StartReq(b) \notin pending'
             \/ pc[b] \in {"watch", "sample"}
      PROVE  Begun(b)' /\ StartReq(b) \notin pending'
  <2>0. StartReq(b) \in pending' => StartReq(b) \in pending
    BY OthersFrame
  <2>1. StartReq(b) \notin pending'
    BY <1>3, <2>0 DEF SuccessInv, BegunInv
  <2>2. CreateReq(b) \notin pending
    BY <1>3 DEF SuccessInv, CreatedInv, Created
  <2>3. StartReq(b) \in pending => DaemonStart(b)
    <3>1. ASSUME StartReq(b) \in pending PROVE DaemonStart(b)
      <4>1. pc[b] = "starting"
        BY <1>3, <3>1 DEF SuccessInv, BegunInv
      <4>2. Waiting(StartReq(b))
        BY <4>1 DEF Waiting, StartReq, Request
      <4>3. ASSUME NEW a \in Attempts,
                   DaemonCreate(a) \/ (DaemonStart(a) /\ a # b) \/ ServerReady(a) \/ ServerExits(a)
            PROVE  FALSE
        BY <2>1, <3>1, <4>3 DEF DaemonCreate, DaemonStart, ServerReady, ServerExits, StartReq, Request
      <4>4. ASSUME NEW r \in pending, DaemonStop(r) \/ DaemonDrop(r) PROVE FALSE
        BY <2>1, <3>1, <4>2, <4>4 DEF DaemonStop, DaemonDrop, StartReq, Request
      <4> QED BY <4>3, <4>4 DEF Daemon
    <3> QED BY <3>1
  <2>4. CASE StartReq(b) \in pending
    BY <1>0, <2>1, <2>3, <2>4 DEF DaemonStart, Begun, TypeOK
  <2>5. CASE StartReq(b) \notin pending
    <3>1. Begun(b)
      BY <1>3, <2>5 DEF SuccessInv, BegunInv
    <3>2. ASSUME NEW a \in Attempts, DaemonCreate(a) \/ DaemonStart(a) \/ ServerReady(a)
          PROVE  Begun(b)'
      BY <1>0, <2>2, <3>1, <3>2 DEF DaemonCreate, DaemonStart, ServerReady, Begun, CreateReq, TypeOK
    <3>3. ASSUME NEW a \in Attempts, ServerExits(a) PROVE Begun(b)'
      BY <1>0, <3>1, <3>3 DEF ServerExits, Finish, Begun, TypeOK
    <3>4. ASSUME NEW r \in pending, DaemonStop(r) \/ DaemonDrop(r) PROVE Begun(b)'
      BY <1>0, <3>1, <3>4 DEF DaemonStop, DaemonDrop, Finish, Begun, TypeOK
    <3>5. Begun(b)'
      BY <3>2, <3>3, <3>4 DEF Daemon
    <3> QED BY <2>1, <3>5
  <2> QED BY <2>4, <2>5
<1>4. BegunInv'
  BY <1>1, <1>3 DEF BegunInv, StartReq, Request
<1> QED BY <1>2, <1>4

\* Operators, the daemon, containers and the environment keep the invariant.
LEMMA OthersSuccess ==
  ASSUME TypeOK, EvidenceInv, SuccessInv,
         (\E o \in Operators : OperatorStep(o)) \/ Daemon \/ Environment
         \/ AllEnded \/ UNCHANGED vars
  PROVE  SuccessInv'
<1>1. /\ UNCHANGED disk
      /\ \A b \in Attempts :
           /\ pc'[b] = pc[b] \/ (~Ended(b) /\ pc'[b] = "dead")
           /\ rc'[b] = rc[b] /\ record'[b] = record[b]
           /\ CreateReq(b) \in pending' => CreateReq(b) \in pending
           /\ StartReq(b) \in pending' => StartReq(b) \in pending
  BY OthersFrame
<1>2. CreatedInv'
  <2> SUFFICES ASSUME NEW b \in Attempts, pc'[b] \in Created PROVE CreateReq(b) \notin pending'
    BY DEF CreatedInv, CreateReq, Request
  <2> QED BY <1>1 DEF SuccessInv, CreatedInv, Created
<1>3. UndecidedInv'
  BY <1>1 DEF SuccessInv, UndecidedInv, Undecided, Unhandled, Created
<1>4. StoppedInv'
  BY <1>1 DEF SuccessInv, StoppedInv, EvidenceInv, ClosedInv
<1>5. BegunInv' /\ \A b \in Attempts : Earned(b) => Earned(b)'
  <2>1. CASE Daemon BY <2>1, DaemonSuccess
  <2>2. CASE ~Daemon
    <3>1. UNCHANGED <<cont, ended>> BY <2>2, OnlyDaemonActs DEF Next
    <3>2. ASSUME NEW b \in Attempts, Earned(b) PROVE Earned(b)'
      BY <1>1, <3>1, <3>2 DEF Earned, EndedWell, CreateReq, StartReq, Request
    <3>3. ASSUME NEW b \in Attempts, StartReq(b) \in pending PROVE StartReq(b) \in pending'
      BY <2>2, <3>3 DEF OperatorStep, OperatorReads, StopOwned, StopInspect, StopReturns, StopFails,
         StopVerify, Environment, Signal, Kill, Drift, AllEnded, vars, daemonVars, StartReq, Request
    <3>4. BegunInv'
      <4> SUFFICES ASSUME NEW b \in Attempts,
                          \/ pc'[b] = "starting" /\ StartReq(b) \notin pending'
                          \/ pc'[b] \in {"watch", "sample"}
                   PROVE  Begun(b) /\ StartReq(b) \notin pending'
        BY <3>1 DEF BegunInv, Begun, StartReq, Request
      <4> QED BY <1>1, <3>3 DEF SuccessInv, BegunInv
    <3> QED BY <3>2, <3>4
  <2> QED BY <2>1, <2>2
<1>6. EarnedInv'
  BY <1>1, <1>5 DEF SuccessInv, EarnedInv
<1> QED BY <1>2, <1>3, <1>4, <1>5, <1>6 DEF SuccessInv

\* Every step keeps the invariant.
LEMMA NextSuccess ==
  TypeOK /\ RecordInv /\ OwnStopInv /\ EvidenceInv /\ SuccessInv /\ [Next]_vars => SuccessInv'
BY GuardStepSuccess, OthersSuccess DEF Next

\* A launch that is recorded as STOPPED, or that returned 0 with a record, had
\* a server that ended with exit code 0, not by the OOM killer and not because
\* its guard or another had asked (by itself, or at an operator's guard_stop),
\* and a cleanup without an error; no late request of a killed docker client,
\* no operator and no other guard can undo that (guard.py:562-571, 636-647).
THEOREM SuccessEarned == Spec => []SuccessIsEarned
<1>1. EvidenceInv /\ SuccessInv => SuccessIsEarned
  <2> SUFFICES ASSUME EvidenceInv, SuccessInv, NEW a \in Attempts,
                      \/ disk[StateDir[a]].nonce = a /\ disk[StateDir[a]].status = "STOPPED"
                      \/ pc[a] = "done" /\ rc[a] = EXIT_OK /\ record[a].nonce = a
               PROVE  EndedWell(a) /\ record[a].cleanup_error = "NONE"
    BY DEF SuccessIsEarned
  <2>1. rc[a] = EXIT_OK /\ record[a].nonce = a
    BY DirAssumption DEF SuccessInv, StoppedInv
  <2> QED BY <2>1 DEF SuccessInv, EarnedInv, Earned
<1> QED
  BY <1>1, InitType, NextType, InitRecord, NextRecord, InitEvidence, NextEvidence,
     InitOwnStop, NextOwnStop, InitSuccess, NextSuccess, PTL DEF Spec

-----------------------------------------------------------------------------
(***************************************************************************)
(* LaunchIsOwned.  The launcher refines module OwnedServer: a server that  *)
(* has begun was asked for by its guard, once, after its account was       *)
(* opened; the account is closed by the guard's last step and by no other. *)
(***************************************************************************)
\* A server begins only by the daemon's start of it.
LEMMA BegunStep ==
  ASSUME TypeOK, [Next]_vars, NEW b \in Attempts, Begun(b)'
  PROVE  Begun(b) \/ DaemonStart(b)
<1>0. \A a \in Attempts : a \in Containers BY DEF Containers
<1> USE DEF Begun
<1>1. CASE ~Daemon
  BY <1>1, OnlyDaemonActs
<1>2. ASSUME NEW a \in Attempts, DaemonCreate(a) \/ ServerReady(a)
      PROVE  Begun(b)
  BY <1>0, <1>2 DEF DaemonCreate, ServerReady, TypeOK
<1>3. ASSUME NEW a \in Attempts, DaemonStart(a)
      PROVE  Begun(b) \/ DaemonStart(b)
  <2>1. CASE a = b BY <1>3, <2>1
  <2>2. CASE a # b BY <1>0, <1>3, <2>2 DEF DaemonStart, TypeOK
  <2> QED BY <2>1, <2>2
<1>4. ASSUME NEW a \in Attempts, ServerExits(a) PROVE Begun(b)
  BY <1>0, <1>4 DEF ServerExits, Finish, Running, TypeOK
<1>5. ASSUME NEW r \in pending, DaemonStop(r) \/ DaemonDrop(r) PROVE Begun(b)
  BY <1>0, <1>5 DEF DaemonStop, DaemonDrop, Finish, Running, TypeOK
<1> QED BY <1>1, <1>2, <1>3, <1>4, <1>5 DEF Daemon

\* A guard that has not asked for the start had not asked one step before.
LEMMA UnstartedMoves ==
  ASSUME NEW a \in Attempts, TypeOK, GuardStep(a),
         pc'[a] \in NotStarted \cup {"own", "recheck", "start"}
  PROVE  pc[a] \in NotStarted \cup {"own", "recheck", "start"}
<1> a \in Procs BY DEF Procs
<1> USE DEF NotStarted, Unhandled
<1>1. CASE StopOwned(a) \/ SaveEvidence(a) \/ SaveFinal(a)
  <2>1. PICK to : /\ pc' = [pc EXCEPT ![a] = to]
                  /\ to \in {"stopping", "stopped", "evidence", "final", "done"}
    BY <1>1 DEF StopOwned, StopInspect, StopReturns, StopFails, StopVerify, SaveEvidence,
                SaveFinal, CleanupFails, Goto, Leave
  <2> QED BY <2>1 DEF TypeOK
<1>2. CASE StartContainer(a) \/ StartReturns(a) \/ StartFails(a) \/ StartTimesOut(a)
           \/ WatchInspect(a) \/ WatchSample(a)
  <2>1. PICK to : /\ pc' = [pc EXCEPT ![a] = to]
                  /\ to \in {"starting", "watch", "sample", "stop"}
    BY <1>2 DEF StartContainer, StartReturns, StartFails, StartTimesOut, WatchInspect,
                WatchSample, Goto
  <2> QED BY <2>1 DEF TypeOK
<1>3. CASE ~(StopOwned(a) \/ SaveEvidence(a) \/ SaveFinal(a) \/ StartContainer(a) \/ StartReturns(a)
             \/ StartFails(a) \/ StartTimesOut(a) \/ WatchInspect(a) \/ WatchSample(a))
  BY <1>3 DEF GuardStep, RejectUsage, PrintPlan, MakeStateDir, LifetimeLock, RunPreflight,
     VerifyInputs, SaveStarting, InstallHandlers, CancelBeforeCreate, CreateContainer,
     CreateReturns, CreateFails, CreateTimesOut, SaveCid, CheckOwned, RecheckReceipt,
     ResolveCid, Goto, Leave
<1> QED BY <1>1, <1>2, <1>3

\* Every step keeps a server from being started twice.
LEMMA NextOnce ==
  TypeOK /\ RecordInv /\ ArmedInv /\ SuccessInv /\ OnceInv /\ [Next]_vars => OnceInv'
<1> SUFFICES ASSUME TypeOK, RecordInv, ArmedInv, SuccessInv, OnceInv, [Next]_vars PROVE OnceInv'
  OBVIOUS
<1> SUFFICES ASSUME NEW b \in Attempts PROVE Once(b)'
  BY DEF OnceInv
<1> SUFFICES /\ pc'[b] \in NotStarted \cup {"own", "recheck", "start"} => ~Begun(b)'
             /\ StartReq(b) \in pending' => ~Begun(b)'
             /\ Begun(b)' \/ StartReq(b) \in pending' => CreateReq(b) \notin pending'
  BY DEF Once, StartReq, CreateReq, Request, Begun
<1>0. /\ pc[b] \in NotStarted \cup {"own", "recheck", "start"} => ~Begun(b) /\ StartReq(b) \notin pending
      /\ StartReq(b) \in pending => ~Begun(b)
      /\ Begun(b) \/ StartReq(b) \in pending => CreateReq(b) \notin pending
  BY DEF OnceInv, Once, RecordInv, NotStartedInv, ArmedInv, Live
<1>1. ASSUME NEW a \in Attempts, GuardStep(a)
      PROVE  /\ pc'[b] \in NotStarted \cup {"own", "recheck", "start"} => ~Begun(b)'
             /\ StartReq(b) \in pending' => ~Begun(b)'
             /\ Begun(b)' \/ StartReq(b) \in pending' => CreateReq(b) \notin pending'
  <2>1. Begun(b)' = Begun(b)
    BY <1>1, GuardOnlyAsks DEF Begun
  <2>2. pc'[b] \in NotStarted \cup {"own", "recheck", "start"}
          => pc[b] \in NotStarted \cup {"own", "recheck", "start"}
    BY <1>1, GuardFrame, UnstartedMoves
  <2>3. StartContainer(a) => pc[a] = "start"
    BY DEF StartContainer, Goto
  <2>4. CreateContainer(a) => pc[a] = "create" /\ "create" \in NotStarted
    BY DEF CreateContainer, Goto, NotStarted
  <2>5. /\ CreateReq(b) \in pending' => CreateReq(b) \in pending \/ (b = a /\ CreateContainer(a))
        /\ StartReq(b) \in pending' => StartReq(b) \in pending \/ (b = a /\ StartContainer(a))
    BY <1>1, RequestsStep
  <2>6. pc[b] = "start" => CreateReq(b) \notin pending
    BY DEF SuccessInv, CreatedInv, Created
  <2>7. "create" # "start" OBVIOUS
  <2> QED BY <1>0, <2>1, <2>2, <2>3, <2>4, <2>5, <2>6, <2>7
<1>2. CASE ~\E a \in Attempts : GuardStep(a)
  <2>1. /\ pc'[b] = pc[b] \/ pc'[b] = "dead"
        /\ CreateReq(b) \in pending' => CreateReq(b) \in pending
        /\ StartReq(b) \in pending' => StartReq(b) \in pending
    BY <1>2, OthersFrame DEF Next
  <2>2. "dead" \notin NotStarted \cup {"own", "recheck", "start"}
    BY DEF NotStarted, Unhandled
  <2>3. Begun(b)' => Begun(b) \/ DaemonStart(b)
    BY BegunStep
  <2>4. DaemonStart(b) => StartReq(b) \in pending /\ StartReq(b) \notin pending'
    BY DEF DaemonStart, StartReq
  <2> QED BY <1>0, <2>1, <2>2, <2>3, <2>4
<1> QED BY <1>1, <1>2

\* How a guard comes to the steps before and after its first save.
LEMMA BookMoves ==
  ASSUME NEW a \in Attempts, TypeOK, GuardStep(a)
  PROVE  /\ pc'[a] \in {"lock", "preflight", "verify", "record"} =>
              /\ disk' = disk
              /\ \/ pc[a] \in {"lock", "preflight", "verify"}
                 \/ FreshStateDir(a)
         /\ pc'[a] \in PastRecord =>
              /\ ~SaveFinal(a)
              /\ \/ pc[a] \in PastRecord /\ ~SaveStarting(a)
                 \/ /\ disk' = [disk EXCEPT ![StateDir[a]] = StartingRecord(a)]
                    /\ record' = [record EXCEPT ![a] = StartingRecord(a)]
<1> a \in Procs BY DEF Procs
<1> USE DEF PastRecord, Holding, Steps
<1>1. CASE MakeStateDir(a)
  BY <1>1 DEF MakeStateDir, Goto, TypeOK
<1>2. CASE SaveStarting(a)
  <2>1. pc'[a] \in {"handlers", "done"}
    BY <1>2 DEF SaveStarting, Goto, Leave, TypeOK
  <2>2. pc'[a] = "handlers" => disk' = [disk EXCEPT ![StateDir[a]] = StartingRecord(a)]
    BY <1>2 DEF SaveStarting, Goto, Leave, Save, TypeOK
  <2>3. ~SaveFinal(a)
    BY <1>2 DEF SaveStarting, SaveFinal
  <2> QED BY <1>2, <2>1, <2>2, <2>3 DEF SaveStarting
<1>3. CASE RejectUsage(a) \/ PrintPlan(a) \/ LifetimeLock(a) \/ RunPreflight(a) \/ VerifyInputs(a)
  <2>1. pc[a] \in {"begin", "lock", "preflight", "verify"} /\ disk' = disk
    BY <1>3 DEF RejectUsage, PrintPlan, LifetimeLock, RunPreflight, VerifyInputs, Goto, Leave, hostVars
  <2>2. PICK to : /\ pc' = [pc EXCEPT ![a] = to]
                  /\ to \in {"preflight", "verify", "record", "done"}
                  /\ pc[a] = "begin" => to = "done"
    BY <1>3 DEF RejectUsage, PrintPlan, LifetimeLock, RunPreflight, VerifyInputs, Goto, Leave
  <2> QED BY <2>1, <2>2 DEF TypeOK
<1>4. CASE SaveFinal(a)
  BY <1>4 DEF SaveFinal, Leave, Goto, TypeOK
<1>5. CASE StopOwned(a) \/ SaveEvidence(a)
  <2>1. PICK to : /\ pc' = [pc EXCEPT ![a] = to]
                  /\ to \in {"stopping", "stopped", "evidence", "final", "done"}
                  /\ pc[a] \in {"stop", "stopping", "stopped", "evidence"}
    BY <1>5 DEF StopOwned, StopInspect, StopReturns, StopFails, StopVerify, SaveEvidence,
                CleanupFails, Goto
  <2> QED BY <2>1 DEF TypeOK, SaveFinal, SaveStarting
<1>6. CASE ~(MakeStateDir(a) \/ SaveStarting(a) \/ RejectUsage(a) \/ PrintPlan(a) \/ LifetimeLock(a)
             \/ RunPreflight(a) \/ VerifyInputs(a) \/ SaveFinal(a) \/ StopOwned(a) \/ SaveEvidence(a))
  <2>1. PICK to : /\ pc' = [pc EXCEPT ![a] = to]
                  /\ to \notin {"lock", "preflight", "verify", "record"}
                  /\ pc[a] \in {"handlers", "create", "creating", "savecid", "own", "recheck",
                                "start", "starting", "watch", "sample", "resolve"}
    BY <1>6 DEF GuardStep, InstallHandlers, CancelBeforeCreate, CreateContainer, CreateReturns,
       CreateFails, CreateTimesOut, SaveCid, CheckOwned, RecheckReceipt, StartContainer,
       StartReturns, StartFails, StartTimesOut, WatchInspect, WatchSample, ResolveCid, Goto, Leave
  <2> QED BY <1>6, <2>1 DEF TypeOK
<1> QED BY <1>1, <1>2, <1>3, <1>4, <1>5, <1>6

\* A guard past its first save keeps its account open, whatever it saves.
LEMMA OpenStep ==
  ASSUME NEW a \in Attempts, TypeOK, RecordInv, GuardStep(a), ~SaveFinal(a), ~SaveStarting(a),
         pc[a] \in PastRecord, record[a].status = "STARTING",
         disk[StateDir[a]].nonce = a, disk[StateDir[a]].status = "STARTING"
  PROVE  /\ record'[a].status = "STARTING"
         /\ disk'[StateDir[a]].nonce = a /\ disk'[StateDir[a]].status = "STARTING"
         /\ \A d \in Dirs : d # StateDir[a] => disk'[d] = disk[d]
<1>1. record'[a].status = "STARTING" BY StatusStep
<1>2. CASE SaveCid(a)
  <2>1. record' = [record EXCEPT ![a].cid = cid[a]]
    BY <1>2 DEF SaveCid
  <2>2. record'[a].nonce = a
    BY <2>1 DEF TypeOK, Records, RecordInv, NonceInv
  <2>3. disk' = disk \/ disk' = [disk EXCEPT ![StateDir[a]] = record'[a]]
    BY <1>2 DEF SaveCid, Save
  <2> QED BY <1>1, <2>2, <2>3, DirAssumption DEF TypeOK
<1>3. CASE ~SaveCid(a)
  <2>1. disk' = disk
    BY <1>3
    DEF GuardStep, RejectUsage, PrintPlan, MakeStateDir, LifetimeLock,
        RunPreflight, VerifyInputs, InstallHandlers, CancelBeforeCreate,
        CreateContainer, CreateReturns, CreateFails, CreateTimesOut, CheckOwned,
        RecheckReceipt, StartContainer, StartReturns, StartFails, StartTimesOut,
        WatchInspect, WatchSample, ResolveCid, StopOwned, StopInspect, StopReturns,
        StopFails, StopVerify, SaveEvidence, hostVars
  <2> QED BY <1>1, <2>1
<1> QED BY <1>2, <1>3

\* Every step keeps the account of a launch that goes on.
LEMMA NextBook ==
  TypeOK /\ RecordInv /\ EvidenceInv /\ BookInv /\ [Next]_vars => BookInv'
<1> SUFFICES ASSUME TypeOK, RecordInv, EvidenceInv, BookInv, [Next]_vars, NEW b \in Attempts
             PROVE  /\ pc'[b] \in {"lock", "preflight", "verify", "record"} =>
                         disk'[StateDir[b]].nonce = None
                    /\ pc'[b] \in PastRecord =>
                         /\ record'[b].status = "STARTING"
                         /\ disk'[StateDir[b]].nonce = b /\ disk'[StateDir[b]].status = "STARTING"
  BY DEF BookInv
<1>0. StateDir[b] \in Dirs BY DirAssumption
<1>1. ASSUME NEW a \in Attempts, GuardStep(a), a # b
      PROVE  /\ pc'[b] \in {"lock", "preflight", "verify", "record"} =>
                  disk'[StateDir[b]].nonce = None
             /\ pc'[b] \in PastRecord =>
                  /\ record'[b].status = "STARTING"
                  /\ disk'[StateDir[b]].nonce = b /\ disk'[StateDir[b]].status = "STARTING"
  <2>1. pc'[b] = pc[b] /\ record'[b] = record[b]
    BY <1>1, GuardFrame
  <2>2. pc[b] \in {"lock", "preflight", "verify", "record"} \cup PastRecord => owner[StateDir[b]] = b
    BY DEF RecordInv, DirInv, PastRecord, Holding, Steps
  <2>3. owner[StateDir[b]] = b => disk'[StateDir[b]] = disk[StateDir[b]]
    <3>1. disk' = disk \/ \E r \in Records : disk' = [disk EXCEPT ![StateDir[a]] = r] /\ owner[StateDir[a]] = a
      BY <1>1, SavesOwn DEF EvidenceInv
    <3> QED BY <1>0, <1>1, <3>1 DEF TypeOK
  <2> QED BY <2>1, <2>2, <2>3 DEF BookInv
<1>2. CASE GuardStep(b)
  <2>1. ASSUME pc'[b] \in {"lock", "preflight", "verify", "record"} PROVE disk'[StateDir[b]].nonce = None
    <3>1. FreshStateDir(b) => disk[StateDir[b]].nonce = None
      BY <1>0 DEF FreshStateDir, RecordInv, DirInv
    <3> QED BY <1>2, <2>1, <3>1, BookMoves DEF BookInv
  <2>2. ASSUME pc'[b] \in PastRecord
        PROVE  /\ record'[b].status = "STARTING"
               /\ disk'[StateDir[b]].nonce = b /\ disk'[StateDir[b]].status = "STARTING"
    <3>1. CASE pc[b] \in PastRecord /\ ~SaveStarting(b)
      BY <1>2, <2>2, <3>1, BookMoves, OpenStep DEF BookInv
    <3>2. CASE /\ disk' = [disk EXCEPT ![StateDir[b]] = StartingRecord(b)]
               /\ record' = [record EXCEPT ![b] = StartingRecord(b)]
      <4>1. disk'[StateDir[b]] = StartingRecord(b) /\ record'[b] = StartingRecord(b)
        BY <1>0, <3>2 DEF TypeOK
      <4> QED BY <4>1 DEF StartingRecord, NoRecord
    <3> QED BY <1>2, <2>2, <3>1, <3>2, BookMoves
  <2> QED BY <2>1, <2>2
<1>3. CASE ~\E a \in Attempts : GuardStep(a)
  <2>1. (pc'[b] = pc[b] \/ pc'[b] = "dead") /\ record'[b] = record[b]
    BY <1>3, OthersFrame DEF Next
  <2>2. disk' = disk
    BY <1>3, OthersFrame DEF Next
  <2> QED BY <2>1, <2>2 DEF BookInv, PastRecord, Holding
<1> QED BY <1>1, <1>2, <1>3

\* A server nothing happens to keeps its place in its life.
LEMMA LifeKept ==
  ASSUME NEW b, cont'[b] = cont[b], ended'[b] = ended[b]
  PROVE  Life(b)' = Life(b)
BY DEF Life, EndedWell, Running

\* A step that touches neither a record nor a container is none of the abstract
\* module's.
LEMMA OwnedStutters ==
  ASSUME UNCHANGED disk, \A b \in Attempts : Life(b)' = Life(b)
  PROVE  UNCHANGED O!vars
BY DEF O!vars

\* What a directory accounts for after a guard has saved r in its own.
LEMMA Entered ==
  ASSUME TypeOK, NEW a \in Attempts, NEW r \in Records, r.nonce = a,
         disk' = [disk EXCEPT ![StateDir[a]] = r]
  PROVE  [d \in Dirs |-> [of |-> disk'[d].nonce, status |-> disk'[d].status]]
         = [[d \in Dirs |-> [of |-> disk[d].nonce, status |-> disk[d].status]]
              EXCEPT ![StateDir[a]] = [of |-> a, status |-> r.status]]
<1>1. StateDir[a] \in Dirs BY DirAssumption
<1>2. \A d \in Dirs : disk'[d] = IF d = StateDir[a] THEN r ELSE disk[d]
  BY <1>1 DEF TypeOK
<1> QED BY <1>1, <1>2

\* A guard's step opens its account, closes it, or changes nothing abstractly.
LEMMA GuardStepOwned ==
  ASSUME NEW a \in Attempts, TypeOK, RecordInv, SuccessInv, OnceInv, BookInv, GuardStep(a)
  PROVE  O!Open(a) \/ O!Close(a) \/ UNCHANGED O!vars
<1>0. StateDir[a] \in Dirs BY DirAssumption
<1>1. UNCHANGED <<cont, ended>> BY GuardOnlyAsks
<1>2. \A b \in Attempts : Life(b)' = Life(b) BY <1>1, LifeKept
<1>3. [b \in Attempts |-> Life(b)'] = [b \in Attempts |-> Life(b)] BY <1>2
<1>4. CASE SaveStarting(a) /\ disk' # disk
  <2>1. disk' = [disk EXCEPT ![StateDir[a]] = StartingRecord(a)]
    BY <1>4 DEF SaveStarting, Save
  <2>2. StartingRecord(a).nonce = a /\ StartingRecord(a).status = "STARTING"
    BY DEF StartingRecord, NoRecord
  <2>3. O!Enter(a, "STARTING")
    <3>1. PICK r \in Records : r = StartingRecord(a) BY StartingIsRecord
    <3> QED BY <2>1, <2>2, <3>1, Entered DEF O!Enter
  <2>4. pc[a] = "record" BY <1>4 DEF SaveStarting
  <2>5. disk[StateDir[a]].nonce = None BY <2>4 DEF BookInv
  <2>6. Life(a) = "none"
    BY <2>4 DEF OnceInv, Once, NotStarted, Unhandled, Begun, Life, Running
  <2> QED BY <1>0, <1>3, <2>3, <2>5, <2>6 DEF O!Open
<1>5. CASE SaveFinal(a) /\ disk' # disk
  <2>1. disk' = [disk EXCEPT ![StateDir[a]] = FinalRecord(a)] /\ pc[a] = "final"
    BY <1>5 DEF SaveFinal, Save
  <2>2. pc[a] \in PastRecord /\ record[a].nonce = a
    BY <2>1 DEF PastRecord, Holding, Steps, RecordInv, NonceInv
  <2>3. disk[StateDir[a]].nonce = a /\ disk[StateDir[a]].status = "STARTING"
    BY <2>2 DEF BookInv
  <2>4. /\ FinalRecord(a) \in Records /\ FinalRecord(a).nonce = a
        /\ FinalRecord(a).status = IF rc[a] = EXIT_OK THEN "STOPPED" ELSE "FAILED"
    <3>1. record[a] \in Records /\ rc[a] \in Nat /\ cid[a] \in Ids
      BY DEF TypeOK, Procs
    <3>2. /\ FinalRecord(a).nonce = a
          /\ FinalRecord(a).status = IF rc[a] = EXIT_OK THEN "STOPPED" ELSE "FAILED"
      BY <2>2, <3>1 DEF FinalRecord, Records
    <3> QED BY <3>1, <3>2, RecordFinal DEF FinalRecord
  <2>5. rc[a] = EXIT_OK => Life(a) = "clean"
    BY <2>2 DEF SuccessInv, EarnedInv, Earned, EndedWell, Life, Running
  <2>6. O!Enter(a, "FAILED") \/ (Life(a) = "clean" /\ O!Enter(a, "STOPPED"))
    <3>1. PICK r \in Records : r = FinalRecord(a) BY <2>4
    <3>2. r.nonce = a /\ disk' = [disk EXCEPT ![StateDir[a]] = r] BY <2>1, <2>4, <3>1
    <3>3. r.status = IF rc[a] = EXIT_OK THEN "STOPPED" ELSE "FAILED" BY <2>4, <3>1
    <3>4. [d \in Dirs |-> [of |-> disk'[d].nonce, status |-> disk'[d].status]]
          = [[d \in Dirs |-> [of |-> disk[d].nonce, status |-> disk[d].status]]
               EXCEPT ![StateDir[a]] = [of |-> a, status |-> r.status]]
      BY <3>2, Entered
    <3>5. CASE rc[a] = EXIT_OK
      <4>1. r.status = "STOPPED" BY <3>3, <3>5
      <4> QED BY <2>5, <3>4, <3>5, <4>1 DEF O!Enter
    <3>6. CASE rc[a] # EXIT_OK
      <4>1. r.status = "FAILED" BY <3>3, <3>6
      <4> QED BY <3>4, <4>1 DEF O!Enter
    <3> QED BY <3>5, <3>6
  <2> QED BY <1>0, <1>3, <2>3, <2>6 DEF O!Close
<1>6. CASE SaveCid(a) /\ disk' # disk
  <2>1. pc[a] = "savecid" /\ ~SaveFinal(a) /\ ~SaveStarting(a)
    BY <1>6 DEF SaveCid, SaveFinal, SaveStarting
  <2>2. pc[a] \in PastRecord BY <2>1 DEF PastRecord, Holding, Steps
  <2>3. /\ record[a].status = "STARTING"
        /\ disk[StateDir[a]].nonce = a /\ disk[StateDir[a]].status = "STARTING"
    BY <2>2 DEF BookInv
  <2>4. /\ disk'[StateDir[a]].nonce = a /\ disk'[StateDir[a]].status = "STARTING"
        /\ \A d \in Dirs : d # StateDir[a] => disk'[d] = disk[d]
    BY <2>1, <2>2, <2>3, OpenStep
  <2>5. \A d \in Dirs : disk'[d].nonce = disk[d].nonce /\ disk'[d].status = disk[d].status
    BY <2>3, <2>4
  <2> QED BY <1>3, <2>5 DEF O!vars
<1>7. CASE disk' = disk
  BY <1>2, <1>7, OwnedStutters
<1>8. disk' = disk \/ SaveStarting(a) \/ SaveCid(a) \/ SaveFinal(a)
  BY DEF GuardStep, RejectUsage, PrintPlan, MakeStateDir, LifetimeLock,
     RunPreflight, VerifyInputs, InstallHandlers, CancelBeforeCreate,
     CreateContainer, CreateReturns, CreateFails, CreateTimesOut, CheckOwned,
     RecheckReceipt, StartContainer, StartReturns, StartFails, StartTimesOut,
     WatchInspect, WatchSample, ResolveCid, StopOwned, StopInspect, StopReturns,
     StopFails, StopVerify, SaveEvidence, hostVars
<1> QED BY <1>4, <1>5, <1>6, <1>7, <1>8

\* The daemon's start of a's container is the start of a's server.
LEMMA DaemonStartOwned ==
  ASSUME NEW a \in Attempts, TypeOK, RecordInv, SuccessInv, OnceInv, DaemonStart(a)
  PROVE  O!Start(a)
<1>0. StateDir[a] \in Dirs /\ a \in Containers /\ \A b \in Attempts : b \in Containers
  BY DirAssumption DEF Containers
<1>1. StartReq(a) \in pending /\ PortFree(a) BY DEF DaemonStart, StartReq
<1>2. disk[StateDir[a]].nonce = a
  BY <1>1 DEF RecordInv, RecordedInv, Live
<1>3. disk[StateDir[a]].status # "STOPPED"
  <2>1. disk[StateDir[a]].status = "STOPPED" => Earned(a)
    BY <1>0, <1>2 DEF SuccessInv, StoppedInv, EarnedInv
  <2> QED BY <1>1, <2>1 DEF Earned
<1>4. Life(a) = "none"
  BY <1>1 DEF OnceInv, Once, Begun, Life, Running
<1>5. ASSUME NEW b \in Attempts PROVE Life(b) # "up"
  <2>1. CASE b = a BY <1>4, <2>1
  <2>2. CASE b # a
    <3>1. ~Running(b) BY <1>1, <2>2 DEF PortFree
    <3> QED BY <3>1 DEF Life
  <2> QED BY <2>1, <2>2
<1>6. Life(a)' = "up"
  BY <1>0 DEF DaemonStart, Life, Running, TypeOK
<1>7. \A b \in Attempts \ {a} : Life(b)' = Life(b)
  <2>1. \A b \in Attempts \ {a} : cont'[b] = cont[b] /\ ended'[b] = ended[b]
    BY <1>0 DEF DaemonStart, TypeOK
  <2> QED BY <2>1, LifeKept
<1>8. [b \in Attempts |-> Life(b)'] = [[b \in Attempts |-> Life(b)] EXCEPT ![a] = "up"]
  BY <1>6, <1>7
<1>9. disk' = disk BY DEF DaemonStart, hostVars
<1> QED BY <1>0, <1>2, <1>3, <1>4, <1>5, <1>8, <1>9 DEF O!Start

\* The end of an attempt's container is the end of its server.
LEMMA FinishOwned ==
  ASSUME NEW c \in Containers, TypeOK, Running(c), UNCHANGED disk,
         NEW code, NEW cause, NEW by, Finish(c, code, cause, by)
  PROVE  (c \in Attempts /\ O!End(c)) \/ UNCHANGED O!vars
<1>0. \A b \in Attempts : b \in Containers BY DEF Containers
<1>1. \A b \in Attempts \ {c} : Life(b)' = Life(b)
  <2>1. \A b \in Attempts \ {c} : cont'[b] = cont[b] /\ ended'[b] = ended[b]
    BY <1>0 DEF Finish, TypeOK
  <2> QED BY <2>1, LifeKept
<1>2. CASE c \in Attempts
  <2>1. Life(c) = "up" BY DEF Life
  <2>2. Life(c)' \in {"clean", "bad"} BY <1>0 DEF Finish, Life, Running, TypeOK
  <2>3. [b \in Attempts |-> Life(b)'] = [[b \in Attempts |-> Life(b)] EXCEPT ![c] = Life(c)']
    BY <1>1, <1>2
  <2> QED BY <1>2, <2>1, <2>2, <2>3 DEF O!End
<1>3. CASE c \notin Attempts
  BY <1>1, <1>3, OwnedStutters
<1> QED BY <1>2, <1>3

\* What the daemon and the containers do, abstractly.
LEMMA DaemonOwned ==
  ASSUME TypeOK, RecordInv, SuccessInv, OnceInv, Daemon
  PROVE  O!Next \/ UNCHANGED O!vars
<1>0. \A b \in Attempts : b \in Containers BY DEF Containers
<1>1. disk' = disk BY OthersFrame
<1>2. ASSUME NEW a \in Attempts, DaemonCreate(a) PROVE UNCHANGED O!vars
  <2>1. ~Begun(a)
    BY <1>2 DEF DaemonCreate, CreateReq, OnceInv, Once
  <2>2. Life(a) = "none" /\ Life(a)' = "none"
    BY <1>0, <1>2, <2>1 DEF DaemonCreate, Begun, Life, Running, TypeOK
  <2>3. \A b \in Attempts \ {a} : cont'[b] = cont[b] /\ ended'[b] = ended[b]
    BY <1>0, <1>2 DEF DaemonCreate, TypeOK
  <2>4. \A b \in Attempts : Life(b)' = Life(b) BY <2>2, <2>3, LifeKept
  <2> QED BY <1>1, <2>4, OwnedStutters
<1>3. ASSUME NEW a \in Attempts, ServerReady(a) PROVE UNCHANGED O!vars
  <2>1. Life(a) = "up" /\ Life(a)' = "up"
    BY <1>0, <1>3 DEF ServerReady, Life, Running, TypeOK
  <2>2. \A b \in Attempts \ {a} : cont'[b] = cont[b] /\ ended'[b] = ended[b]
    BY <1>0, <1>3 DEF ServerReady, TypeOK
  <2>3. \A b \in Attempts : Life(b)' = Life(b) BY <2>1, <2>2, LifeKept
  <2> QED BY <1>1, <2>3, OwnedStutters
<1>4. ASSUME NEW a \in Attempts, DaemonStart(a) PROVE O!Next
  BY <1>4, DaemonStartOwned DEF O!Next
<1>5. ASSUME NEW a \in Attempts, ServerExits(a) PROVE O!Next \/ UNCHANGED O!vars
  <2>1. Running(a) /\ \E code, cause, by : Finish(a, code, cause, by) BY <1>5 DEF ServerExits
  <2> QED BY <1>0, <1>1, <2>1, FinishOwned DEF O!Next
<1>6. ASSUME NEW r \in pending, DaemonStop(r) \/ DaemonDrop(r) PROVE O!Next \/ UNCHANGED O!vars
  <2>1. r.cid \in Containers BY DEF TypeOK, Requests
  <2>2. UNCHANGED <<cont, ended>> \/ (Running(r.cid) /\ \E code, cause, by : Finish(r.cid, code, cause, by))
    BY <1>6 DEF DaemonStop, DaemonDrop
  <2>3. CASE UNCHANGED <<cont, ended>>
    BY <1>1, <2>3, LifeKept, OwnedStutters
  <2>4. CASE Running(r.cid) /\ \E code, cause, by : Finish(r.cid, code, cause, by)
    BY <1>1, <2>1, <2>4, FinishOwned DEF O!Next
  <2> QED BY <2>2, <2>3, <2>4
<1> QED BY <1>2, <1>3, <1>4, <1>5, <1>6 DEF Daemon

\* The launcher implements module OwnedServer, whatever guards, operators,
\* signals, kills and late docker requests do: one account per directory that
\* is closed at most once, and a server that is started at most once, alone,
\* after its account was opened and before it is STOPPED, which is said only of
\* a server that ended well and not because a guard asked (guard.py:458-661).
THEOREM LaunchOwned == Spec => LaunchIsOwned
<1>1. Init => O!Init
  <2> SUFFICES ASSUME Init PROVE O!Init
    OBVIOUS
  <2>1. \A d \in Dirs : disk[d].nonce = None /\ disk[d].status = "NONE"
    BY DEF Init, NoRecord
  <2>2. ASSUME NEW a \in Attempts PROVE Life(a) = "none"
    <3>1. cont[a] = "absent" BY ProcAssumption DEF Init, Containers
    <3> QED BY <3>1 DEF Life, Running
  <2> QED BY <2>1, <2>2 DEF O!Init
<1>2. Init => ArmedInv /\ DriftInv
  BY DEF Init, ArmedInv, DriftInv, Procs
<1>3. Init => OnceInv /\ BookInv
  <2> SUFFICES ASSUME Init, NEW a \in Attempts
               PROVE  /\ pc[a] = "begin" /\ cont[a] = "absent" /\ pending = {}
    BY DEF OnceInv, Once, BookInv, Begun, PastRecord, Holding
  <2> QED BY ProcAssumption DEF Init, Procs, Containers
<1>4. TypeOK /\ RecordInv /\ SuccessInv /\ OnceInv /\ BookInv /\ [Next]_vars => [O!Next]_(O!vars)
  <2> SUFFICES ASSUME TypeOK, RecordInv, SuccessInv, OnceInv, BookInv, [Next]_vars
               PROVE  O!Next \/ UNCHANGED O!vars
    OBVIOUS
  <2>1. ASSUME NEW a \in Attempts, GuardStep(a) PROVE O!Next \/ UNCHANGED O!vars
    BY <2>1, GuardStepOwned DEF O!Next
  <2>2. CASE Daemon
    BY <2>2, DaemonOwned
  <2>3. CASE ~Daemon /\ ~\E a \in Attempts : GuardStep(a)
    <3>1. UNCHANGED <<cont, ended>> BY <2>3, OnlyDaemonActs
    <3>2. disk' = disk BY <2>3, OthersFrame DEF Next
    <3> QED BY <3>1, <3>2, LifeKept, OwnedStutters
  <2> QED BY <2>1, <2>2, <2>3
<1> QED
  BY <1>1, <1>2, <1>3, <1>4, InitType, NextType, InitRecord, NextRecord, NextDrift, InitEvidence,
     NextEvidence, InitOwnStop, NextOwnStop, InitSuccess, NextSuccess, NextOnce, NextBook, PTL
  DEF Spec, LaunchIsOwned, O!Spec
=============================================================================
