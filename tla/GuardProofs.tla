---------------------------- MODULE GuardProofs ----------------------------
(***************************************************************************)
(* Proofs about the launcher, for any number of attempts, operators,       *)
(* foreign containers and state directories.                               *)
(***************************************************************************)
EXTENDS Guard, TLAPS

StartReq(a) == Request("start", a, a)
\* a's server runs, or the daemon still has the request to start it.
Live(a) == Running(a) \/ StartReq(a) \in pending

\* Steps in which the guard has saved the container ID and may start it.
Launching == {"own", "recheck", "start", "starting", "watch", "sample"}
\* Steps in which start has not been requested.
NotStarted == Unhandled \cup {"create", "creating", "savecid", "resolve"}
\* Steps between acquiring and leaving the lease.
Holding == Steps \ {"idle", "begin", "lock", "done", "dead"}
\* Steps after the first launch record was written.
PastRecord == Holding \ {"preflight", "verify", "record"}

\* A guard demands its own nonce and never waits in the operator's first step.
ExpectInv == \A a \in Attempts : expect[a] = a /\ pc[a] # "idle"
DirInv ==
  /\ \A a \in Attempts : pc[a] \in Holding \cup {"lock"} => owner[StateDir[a]] = a
  /\ \A d \in Dirs : disk[d].nonce \in {None, owner[d]}
NonceInv == \A a \in Attempts :
  pc[a] \in PastRecord => record[a].nonce = a
NotStartedInv == \A a \in Attempts : pc[a] \in NotStarted => ~Live(a)
SaveCidInv == \A a \in Attempts : pc[a] = "savecid" => cid[a] = a

\* The strengthening of RunningIsRecorded: the record names the container
\* from the moment it may be started, and the guard's own cid, which the final
\* save writes, agrees with it.
RecordedInv == \A a \in Attempts :
  pc[a] \in Launching \/ Live(a) =>
    /\ disk[StateDir[a]].nonce = a
    /\ disk[StateDir[a]].cid = a
    /\ cid[a] = a

RecordInv == ExpectInv /\ DirInv /\ NonceInv /\ NotStartedInv /\ SaveCidInv /\ RecordedInv

HolderInv == \A a \in Attempts : pc[a] \in Holding => lock = a
PendingInv == \A a \in Attempts :
  StartReq(a) \in pending => pc[a] \in {"starting", "dead"} \/ a \in uncertain
\* What makes it safe to drop the lease.
SettledInv == \A a \in Attempts :
  pc[a] \in {"evidence", "final", "done"} /\ Live(a) =>
    (record[a].cleanup_error = "SET" /\ rc[a] # EXIT_OK) \/ a \in uncertain

LeaseInv == HolderInv /\ PendingInv /\ SettledInv

-----------------------------------------------------------------------------
USE DEF EXIT_OK, EXIT_USAGE, EXIT_PREFLIGHT, EXIT_VERIFY, EXIT_SPAWN,
        EXIT_CLEANUP, EXIT_WATCHDOG, EXIT_LOCKED

(***************************************************************************)
(* Facts about single fields.                                              *)
(***************************************************************************)
\* A stored signal number is a natural number.
LEMMA SigNat ==
  ASSUME TypeOK, NEW a \in Attempts
  PROVE  sig[a] \in Nat
<1>1. sig[a] \in Signals \cup {0} BY DEF TypeOK
<1>2. \A n \in Signals : n \in Nat BY NumberAssumption
<1> QED BY <1>1, <1>2

\* Each assignment a guard makes keeps the launch record a record.
LEMMA RecordCid ==
  ASSUME NEW r \in Records, NEW i \in Ids
  PROVE  [r EXCEPT !.cid = i] \in Records
BY DEF Records
LEMMA RecordCleanup ==
  ASSUME NEW r \in Records
  PROVE  [r EXCEPT !.cleanup_error = "SET"] \in Records
BY DEF Records
LEMMA RecordUnknown ==
  ASSUME NEW r \in Records
  PROVE  [r EXCEPT !.create_outcome = "UNKNOWN"] \in Records
BY DEF Records
LEMMA RecordFinal ==
  ASSUME NEW r \in Records, NEW st \in {"STOPPED", "FAILED"}, NEW code \in Nat, NEW i \in Ids
  PROVE  [r EXCEPT !.status = st, !.exit_code = code, !.cid = i] \in Records
BY DEF Records

\* The first record of a launch is one.
LEMMA StartingIsRecord ==
  ASSUME NEW a \in Attempts
  PROVE  NoRecord \in Records /\ StartingRecord(a) \in Records
BY DEF StartingRecord, NoRecord, Records, Ids

\* The state before any launch has the types of TypeOK.
LEMMA InitType == Init => TypeOK
BY ProcAssumption, DirAssumption, IdAssumption, NumberAssumption
   DEF Init, TypeOK, Procs, Containers, NoRecord, Records, Ids, Requests, Steps

\* stop_owned, run by a guard or by guard_stop, keeps the types.
LEMMA StopOwnedType ==
  ASSUME NEW p \in Procs, TypeOK, StopOwned(p)
  PROVE  TypeOK'
<1> USE DEF restVars, hostVars, daemonVars
<1>a. ASSUME NEW from, CleanupFails(p, from)
      PROVE  /\ pc' \in [Procs -> Steps]
             /\ rc' \in [Procs -> Nat]
             /\ record' \in [Attempts -> Records]
  <2>1. pc' \in [Procs -> Steps]
    BY <1>a DEF CleanupFails, TypeOK, Goto, Steps
  <2>2. rc' \in [Procs -> Nat]
    BY <1>a DEF CleanupFails, TypeOK, SetRc, OrCleanup
  <2>3. record' = record \/ (p \in Attempts /\ record' = [record EXCEPT ![p].cleanup_error = "SET"])
    BY <1>a DEF CleanupFails
  <2>4. record' \in [Attempts -> Records]
    BY <2>3, RecordCleanup DEF TypeOK
  <2> QED BY <2>1, <2>2, <2>4
<1>1. CASE StopInspect(p)
  <2>1. pending' \subseteq Requests
    BY <1>1 DEF TypeOK, StopInspect, VerifyOwnership, Inspectable, Request, Requests
  <2>2. CASE CleanupFails(p, "stop")
    BY <1>1, <1>a, <2>1, <2>2 DEF TypeOK, StopInspect
  <2>3. CASE ~CleanupFails(p, "stop")
    BY <1>1, <2>1, <2>3 DEF TypeOK, StopInspect, Goto, Steps
  <2> QED BY <2>2, <2>3
<1>2. CASE StopReturns(p)
  BY <1>2 DEF TypeOK, StopReturns, Goto, Steps
<1>3. CASE StopFails(p)
  BY <1>3, <1>a DEF TypeOK, StopFails
<1>4. CASE StopVerify(p)
  <2>1. CASE CleanupFails(p, "stopped")
    BY <1>4, <1>a, <2>1 DEF TypeOK, StopVerify
  <2>2. CASE ~CleanupFails(p, "stopped")
    <3>1. pc' \in [Procs -> Steps] BY <1>4, <2>2 DEF TypeOK, StopVerify, Goto, Steps
    <3>2. rc' \in [Procs -> Nat] BY <1>4, <2>2 DEF TypeOK, StopVerify
    <3> QED BY <1>4, <2>2, <3>1, <3>2 DEF TypeOK, StopVerify
  <2> QED BY <2>1, <2>2
<1> QED BY <1>1, <1>2, <1>3, <1>4 DEF StopOwned

\* The program counters keep their type when one of them moves.
LEMMA GotoType ==
  ASSUME TypeOK, NEW p \in Procs, NEW from, NEW to \in Steps, Goto(p, from, to)
  PROVE  pc' \in [Procs -> Steps]
BY DEF TypeOK, Goto

\* Every step of a guard keeps the types.
LEMMA GuardStepType ==
  ASSUME NEW a \in Attempts, TypeOK, GuardStep(a)
  PROVE  TypeOK'
<1> a \in Procs BY DEF Procs
<1> USE DEF restVars, hostVars, daemonVars
<1>1. CASE RejectUsage(a)
  BY <1>1 DEF TypeOK, RejectUsage, Goto, Steps
<1>2. CASE PrintPlan(a)
  BY <1>2 DEF TypeOK, PrintPlan, Goto, Steps, SetRc
<1>3. CASE MakeStateDir(a)
  BY <1>3, DirAssumption DEF TypeOK, MakeStateDir, Goto, Steps, FreshStateDir
<1>4. CASE LifetimeLock(a)
  <2>1. pc' \in [Procs -> Steps]
    <3>1. Goto(a, "lock", "preflight") \/ Goto(a, "lock", "done") BY <1>4 DEF LifetimeLock
    <3> QED BY <3>1, GotoType DEF Steps
  <2>2. rc' \in [Procs -> Nat] BY <1>4 DEF TypeOK, LifetimeLock, SetRc
  <2>3. lock' \in Attempts \cup {None} BY <1>4 DEF TypeOK, LifetimeLock
  <2> QED BY <1>4, <2>1, <2>2, <2>3 DEF TypeOK, LifetimeLock
<1>5. CASE RunPreflight(a)
  <2>1. pc' \in [Procs -> Steps]
    <3>1. Goto(a, "preflight", "verify") \/ Goto(a, "preflight", "done")
      BY <1>5 DEF RunPreflight, Leave
    <3> QED BY <3>1, GotoType DEF Steps
  <2>2. rc' \in [Procs -> Nat] BY <1>5 DEF TypeOK, RunPreflight, SetRc
  <2>3. lock' \in Attempts \cup {None} BY <1>5 DEF TypeOK, RunPreflight, Leave
  <2> QED BY <1>5, <2>1, <2>2, <2>3 DEF TypeOK, RunPreflight
<1>6. CASE VerifyInputs(a)
  BY <1>6 DEF TypeOK, VerifyInputs, Goto, Steps, Leave
<1>7. CASE SaveStarting(a)
  <2>1. pc' \in [Procs -> Steps]
    BY <1>7 DEF TypeOK, SaveStarting, Goto, Leave, Steps
  <2>2. record' \in [Attempts -> Records]
    BY <1>7, StartingIsRecord DEF TypeOK, SaveStarting
  <2>3. disk' \in [Dirs -> Records]
    BY <1>7, StartingIsRecord, DirAssumption DEF TypeOK, SaveStarting, Save
  <2>4. lock' \in Attempts \cup {None}
    BY <1>7 DEF TypeOK, SaveStarting, Leave
  <2> QED BY <1>7, <2>1, <2>2, <2>3, <2>4 DEF TypeOK, SaveStarting
<1>8. CASE InstallHandlers(a)
  BY <1>8 DEF TypeOK, InstallHandlers, Goto, Steps, SetRc
<1>9. CASE CancelBeforeCreate(a)
  <2>1. pc' \in [Procs -> Steps]
    BY <1>9 DEF TypeOK, CancelBeforeCreate, Goto, Steps
  <2>2. rc' \in [Procs -> Nat]
    BY <1>9, SigNat DEF TypeOK, CancelBeforeCreate, SetRc
  <2> QED BY <1>9, <2>1, <2>2 DEF TypeOK, CancelBeforeCreate
<1>10. CASE CreateContainer(a)
  <2>1. pc' \in [Procs -> Steps]
    BY <1>10 DEF TypeOK, CreateContainer, Goto, Steps
  <2>2. pending' \subseteq Requests
    BY <1>10 DEF TypeOK, CreateContainer, Request, Requests, Containers
  <2>3. cidfile' \in [Attempts -> {"absent", "blank", "written"}]
    BY <1>10 DEF TypeOK, CreateContainer
  <2> QED BY <1>10, <2>1, <2>2, <2>3 DEF TypeOK, CreateContainer
<1>11. CASE CreateReturns(a)
  <2>1. pc' \in [Procs -> Steps]
    <3>1. \/ Goto(a, "creating", "savecid") \/ Goto(a, "creating", "stop")
          \/ Goto(a, "creating", "final")
      BY <1>11 DEF CreateReturns
    <3> QED BY <3>1, GotoType DEF Steps
  <2>2. cid' \in [Procs -> Ids]
    BY <1>11 DEF TypeOK, CreateReturns, Ids, Containers
  <2>3. cidfile' \in [Attempts -> {"absent", "blank", "written"}]
    BY <1>11 DEF TypeOK, CreateReturns
  <2> QED BY <1>11, <2>1, <2>2, <2>3 DEF TypeOK, CreateReturns
<1>12. CASE CreateFails(a)
  <2>1. pc' \in [Procs -> Steps]
    BY <1>12, GotoType DEF CreateFails, Steps
  <2>2. pending' \subseteq Requests /\ cidfile' \in [Attempts -> {"absent", "blank", "written"}]
    BY <1>12 DEF TypeOK, CreateFails
  <2> QED BY <1>12, <2>1, <2>2 DEF TypeOK, CreateFails
<1>13. CASE CreateTimesOut(a)
  BY <1>13 DEF TypeOK, CreateTimesOut, Goto, Steps
<1>14. CASE SaveCid(a)
  <2>1. pc' \in [Procs -> Steps]
    BY <1>14 DEF TypeOK, SaveCid, Goto, Steps
  <2>2. record' \in [Attempts -> Records]
    BY <1>14, RecordCid DEF TypeOK, SaveCid
  <2>3. disk' \in [Dirs -> Records]
    BY <1>14, <2>2, DirAssumption DEF TypeOK, SaveCid, Save
  <2> QED BY <1>14, <2>1, <2>2, <2>3 DEF TypeOK, SaveCid
<1>15. CASE CheckOwned(a)
  <2>1. pc' \in [Procs -> Steps]
    <3>1. Goto(a, "own", "recheck") \/ Goto(a, "own", "stop") BY <1>15 DEF CheckOwned
    <3> QED BY <3>1, GotoType DEF Steps
  <2>2. rc' \in [Procs -> Nat]
    BY <1>15, SigNat DEF TypeOK, CheckOwned, SetRc
  <2> QED BY <1>15, <2>1, <2>2 DEF TypeOK, CheckOwned
<1>16. CASE RecheckReceipt(a)
  <2>1. pc' \in [Procs -> Steps]
    <3>1. Goto(a, "recheck", "start") \/ Goto(a, "recheck", "stop") BY <1>16 DEF RecheckReceipt
    <3> QED BY <3>1, GotoType DEF Steps
  <2>2. rc' \in [Procs -> Nat] BY <1>16 DEF TypeOK, RecheckReceipt, SetRc
  <2> QED BY <1>16, <2>1, <2>2 DEF TypeOK, RecheckReceipt
<1>17. CASE StartContainer(a)
  <2>1. pc' \in [Procs -> Steps]
    BY <1>17 DEF TypeOK, StartContainer, Goto, Steps
  <2>2. pending' \subseteq Requests
    BY <1>17 DEF TypeOK, StartContainer, Request, Requests, Containers
  <2> QED BY <1>17, <2>1, <2>2 DEF TypeOK, StartContainer
<1>18. CASE StartReturns(a)
  BY <1>18 DEF TypeOK, StartReturns, Goto, Steps, SetRc
<1>19. CASE StartFails(a)
  BY <1>19 DEF TypeOK, StartFails, Goto, Steps
<1>20. CASE StartTimesOut(a)
  BY <1>20 DEF TypeOK, StartTimesOut, Goto, Steps
<1>21. CASE WatchInspect(a)
  <2>1. pc' \in [Procs -> Steps]
    BY <1>21 DEF TypeOK, WatchInspect, Goto, Steps
  <2>2. rc' \in [Procs -> Nat]
    BY <1>21, NumberAssumption DEF TypeOK, WatchInspect, SetRc, ContainerRc
  <2> QED BY <1>21, <2>1, <2>2 DEF TypeOK, WatchInspect
<1>22. CASE WatchSample(a)
  <2>1. pc' \in [Procs -> Steps]
    <3>1. Goto(a, "sample", "stop") \/ Goto(a, "sample", "watch")
      BY <1>22 DEF WatchSample
    <3>2. pc \in [Procs -> Steps] BY DEF TypeOK
    <3> QED BY <3>1, <3>2 DEF Goto, Steps
  <2>2. rc' \in [Procs -> Nat]
    BY <1>22, SigNat DEF TypeOK, WatchSample, SetRc
  <2>3. watched' \in [Attempts -> 0..MaxWatch]
    BY <1>22, NumberAssumption DEF TypeOK, WatchSample, DeadlinePassed, Elapsed
  <2> QED BY <1>22, <2>1, <2>2, <2>3 DEF TypeOK, WatchSample
<1>23. CASE ResolveCid(a)
  <2>1. pc' \in [Procs -> Steps]
    BY <1>23 DEF TypeOK, ResolveCid, Goto, Leave, Steps
  <2>2. cid' \in [Procs -> Ids]
    BY <1>23 DEF TypeOK, ResolveCid, Ids, Containers
  <2>3. record' \in [Attempts -> Records]
    BY <1>23, RecordUnknown DEF TypeOK, ResolveCid
  <2>4. lock' \in Attempts \cup {None}
    BY <1>23 DEF TypeOK, ResolveCid, Leave
  <2> QED BY <1>23, <2>1, <2>2, <2>3, <2>4 DEF TypeOK, ResolveCid
<1>24. CASE SaveEvidence(a)
  <2>1. pc' \in [Procs -> Steps]
    BY <1>24 DEF TypeOK, SaveEvidence, Goto, CleanupFails, Steps
  <2>2. rc' \in [Procs -> Nat]
    BY <1>24 DEF TypeOK, SaveEvidence, SetRc, OrCleanup, CleanupFails
  <2>3. record' \in [Attempts -> Records]
    BY <1>24, RecordCleanup DEF TypeOK, SaveEvidence, CleanupFails
  <2> QED BY <1>24, <2>1, <2>2, <2>3 DEF TypeOK, SaveEvidence
<1>25. CASE SaveFinal(a)
  <2>1. pc' \in [Procs -> Steps]
    BY <1>25 DEF TypeOK, SaveFinal, Goto, Leave, Steps
  <2>2. rc' \in [Procs -> Nat]
    BY <1>25 DEF TypeOK, SaveFinal, SetRc, OrCleanup
  <2>3. record' \in [Attempts -> Records]
    BY <1>25, RecordFinal DEF TypeOK, SaveFinal, FinalRecord
  <2>4. disk' \in [Dirs -> Records]
    BY <1>25, <2>3, DirAssumption DEF TypeOK, SaveFinal, Save
  <2>5. lock' \in Attempts \cup {None}
    BY <1>25 DEF TypeOK, SaveFinal, Leave
  <2> QED BY <1>25, <2>1, <2>2, <2>3, <2>4, <2>5 DEF TypeOK, SaveFinal
<1>26. CASE StopOwned(a)
  BY <1>26, StopOwnedType
<1> QED
  BY <1>1, <1>2, <1>3, <1>4, <1>5, <1>6, <1>7, <1>8, <1>9,
     <1>10, <1>11, <1>12, <1>13, <1>14, <1>15, <1>16, <1>17, <1>18,
     <1>19, <1>20, <1>21, <1>22, <1>23, <1>24, <1>25, <1>26
  DEF GuardStep

\* Every step of the daemon, of a container and of the environment keeps them.
LEMMA DaemonType ==
  ASSUME TypeOK, Daemon
  PROVE  TypeOK'
<1> USE DEF restVars, hostVars
<1>a. ASSUME NEW c \in Containers, NEW code \in ExitCodes,
             NEW cause \in {"exit", "OOMKilled"}, NEW by \in Procs \cup {None},
             Finish(c, code, cause, by)
      PROVE  /\ cont' \in [Containers -> {"absent", "created", "booting", "serving", "exited"}]
             /\ ended' \in [Attempts -> [code : ExitCodes, cause : {"exit", "OOMKilled"},
                                         by : Procs \cup {None}]]
  BY <1>a DEF TypeOK, Finish
<1>1. ASSUME NEW a \in Attempts, DaemonCreate(a) \/ DaemonStart(a) \/ ServerReady(a)
      PROVE  TypeOK'
  BY <1>1 DEF TypeOK, DaemonCreate, DaemonStart, ServerReady, Containers
<1>2. ASSUME NEW a \in Attempts, ServerExits(a) PROVE TypeOK'
  <2>1. a \in Containers BY DEF Containers
  <2> QED BY <1>2, <1>a, <2>1 DEF TypeOK, ServerExits
<1>3. ASSUME NEW r \in pending, DaemonStop(r) PROVE TypeOK'
  <2>1. r.cid \in Containers /\ r.by \in Procs BY DEF TypeOK, Requests
  <2> QED BY <1>3, <1>a, <2>1 DEF TypeOK, DaemonStop
<1>4. ASSUME NEW r \in pending, DaemonDrop(r) PROVE TypeOK'
  BY <1>4 DEF TypeOK, DaemonDrop
<1> QED BY <1>1, <1>2, <1>3, <1>4 DEF Daemon

\* Every step of [Next]_vars keeps the types.
LEMMA NextType == TypeOK /\ [Next]_vars => TypeOK'
<1> SUFFICES ASSUME TypeOK, [Next]_vars PROVE TypeOK'
  OBVIOUS
<1>1. ASSUME NEW a \in Attempts, GuardStep(a) PROVE TypeOK'
  BY <1>1, GuardStepType
<1>2. ASSUME NEW o \in Operators, OperatorStep(o) PROVE TypeOK'
  <2>1. o \in Procs BY DEF Procs
  <2>2. CASE OperatorReads(o)
    <3>1. PICK r \in Selectable :
            /\ cid' = [cid EXCEPT ![o] = r.cid]
            /\ expect' = [expect EXCEPT ![o] = r.nonce]
      BY <2>2 DEF OperatorReads
    <3>2. r.cid \in Ids /\ r.nonce \in Attempts \cup {None}
      BY DEF Selectable, TypeOK, Records, Ids, Containers
    <3>3. pc' \in [Procs -> Steps] /\ rc' \in [Procs -> Nat]
      BY <2>1, <2>2, SMTT(30) DEF OperatorReads, Goto, SetRc, TypeOK, Steps
    <3> QED
      BY <2>1, <2>2, <3>1, <3>2, <3>3
      DEF OperatorReads, TypeOK, hostVars, daemonVars
  <2>3. CASE StopOwned(o)
    BY <2>1, <2>3, StopOwnedType
  <2> QED BY <1>2, <2>2, <2>3 DEF OperatorStep
<1>3. CASE Daemon
  BY <1>3, DaemonType
<1>4. CASE Environment
  <2>1. ASSUME NEW a \in Attempts, NEW number \in Signals, Signal(a, number) PROVE TypeOK'
    BY <2>1 DEF Signal, TypeOK, hostVars, daemonVars
  <2>2. ASSUME NEW p \in Procs, Kill(p) PROVE TypeOK'
    BY <2>2 DEF Kill, TypeOK, Steps, restVars, hostVars, daemonVars
  <2>3. CASE Drift
    BY <2>3 DEF Drift, TypeOK, restVars, daemonVars
  <2> QED BY <1>4, <2>1, <2>2, <2>3 DEF Environment
<1>5. CASE AllEnded \/ UNCHANGED vars
  BY <1>5 DEF AllEnded, vars, TypeOK
<1> QED BY <1>1, <1>2, <1>3, <1>4, <1>5 DEF Next

\* Type correctness of the launcher, for every value of the constants.
THEOREM TypeCorrect == Spec => []TypeOK
BY InitType, NextType, PTL DEF Spec

-----------------------------------------------------------------------------
(***************************************************************************)
(* RunningIsRecorded.  A step is quiet when it writes neither the record   *)
(* nor the guard's cid, starts nothing, and moves no guard into a region   *)
(* of the code that the invariant makes a demand on.                       *)
(***************************************************************************)
Moves(from, to) ==
  /\ to \in Holding \cup {"lock"} => from \in Holding \cup {"lock"}
  /\ to \in PastRecord => from \in PastRecord
  /\ to \in NotStarted => from \in NotStarted
  /\ to \in Launching => from \in Launching
  /\ to = "savecid" => from = "savecid"
  /\ to = "idle" => from = "idle"
Quiet ==
  /\ UNCHANGED <<owner, disk>>
  /\ \A b \in Attempts :
       /\ Moves(pc[b], pc'[b])
       /\ cid'[b] = cid[b] /\ expect'[b] = expect[b]
       /\ record'[b].nonce = record[b].nonce
       /\ Live(b)' => Live(b)

\* A quiet step keeps the invariant.
LEMMA QuietStep == TypeOK /\ RecordInv /\ Quiet => RecordInv'
<1> SUFFICES ASSUME TypeOK, RecordInv, Quiet PROVE RecordInv'
  OBVIOUS
<1> USE DEF RecordInv, Quiet
<1>1. ExpectInv' BY DEF ExpectInv, Moves
<1>2. DirInv' BY DEF DirInv, Moves
<1>3. NonceInv' BY DEF NonceInv, Moves, PastRecord
<1>4. NotStartedInv' BY DEF NotStartedInv, Moves
<1>5. SaveCidInv' BY DEF SaveCidInv, Moves
<1>6. RecordedInv' BY DEF RecordedInv, Moves
<1> QED BY <1>1, <1>2, <1>3, <1>4, <1>5, <1>6

\* Noting a cleanup error leaves the nonces alone.
LEMMA CleanupKeepsNonce ==
  ASSUME NEW p \in Procs, NEW from, TypeOK, CleanupFails(p, from), NEW b \in Attempts
  PROVE  record'[b].nonce = record[b].nonce
BY DEF CleanupFails, TypeOK, Records

\* So does noting that the outcome of create is unknown.
LEMMA UnknownKeepsNonce ==
  ASSUME TypeOK, NEW a \in Attempts, NEW b \in Attempts,
         record' = record \/ record' = [record EXCEPT ![a].create_outcome = "UNKNOWN"]
  PROVE  record'[b].nonce = record[b].nonce
BY DEF TypeOK, Records

\* A guard that replaces its record leaves the others' alone.
LEMMA OtherRecordsKept ==
  ASSUME TypeOK, NEW a \in Attempts, NEW b \in Attempts, b # a,
         NEW r, record' = [record EXCEPT ![a] = r]
  PROVE  record'[b] = record[b]
BY DEF TypeOK

\* stop_owned is quiet, whoever runs it.
LEMMA StopOwnedQuiet ==
  ASSUME NEW p \in Procs, TypeOK, StopOwned(p)
  PROVE  Quiet
<1> USE DEF restVars, hostVars, daemonVars
<1>1. UNCHANGED <<owner, disk, cid, expect>>
  BY DEF StopOwned, StopInspect, StopReturns, StopFails, StopVerify
<1>2. ASSUME NEW b \in Attempts PROVE record'[b].nonce = record[b].nonce
  BY CleanupKeepsNonce DEF StopOwned, StopInspect, StopReturns, StopFails, StopVerify
<1>3. ASSUME NEW b \in Attempts PROVE Live(b)' => Live(b)
  BY DEF StopOwned, StopInspect, StopReturns, StopFails, StopVerify,
         Live, StartReq, Request, Running
<1>4. ASSUME NEW b \in Attempts PROVE Moves(pc[b], pc'[b])
  <2>1. b \in Procs BY DEF Procs
  <2>2. PICK to \in {"stopping", "stopped", "evidence", "final", "done"} :
          /\ pc[p] \in {"stop", "stopping", "stopped"}
          /\ pc' = [pc EXCEPT ![p] = to]
    BY DEF StopOwned, StopInspect, StopReturns, StopFails, StopVerify, CleanupFails, Goto
  <2> QED
    BY <2>1, <2>2 DEF TypeOK, Moves, PastRecord, Holding, NotStarted, Unhandled, Launching, Steps
<1> QED BY <1>1, <1>2, <1>3, <1>4 DEF Quiet

\* The steps of a guard that are quiet.
QuietGuardStep(a) ==
  \/ RejectUsage(a) \/ PrintPlan(a) \/ LifetimeLock(a) \/ RunPreflight(a)
  \/ VerifyInputs(a) \/ InstallHandlers(a) \/ CancelBeforeCreate(a)
  \/ CreateContainer(a) \/ CreateFails(a) \/ CreateTimesOut(a) \/ CheckOwned(a)
  \/ RecheckReceipt(a) \/ StartReturns(a) \/ StartFails(a) \/ StartTimesOut(a)
  \/ WatchInspect(a) \/ WatchSample(a)

\* They are.
LEMMA QuietGuardSteps ==
  ASSUME NEW a \in Attempts, TypeOK, QuietGuardStep(a)
  PROVE  Quiet
<1> USE DEF QuietGuardStep, RejectUsage, PrintPlan, LifetimeLock, RunPreflight,
        VerifyInputs, InstallHandlers, CancelBeforeCreate, CreateContainer,
        CreateFails, CreateTimesOut, CheckOwned, RecheckReceipt, StartReturns,
        StartFails, StartTimesOut, WatchInspect, WatchSample
<1>1. UNCHANGED <<owner, disk, cid, expect, record>>
  BY DEF restVars, hostVars
<1>2. ASSUME NEW b \in Attempts PROVE Live(b)' => Live(b)
  BY DEF daemonVars, Live, StartReq, Request, Running
<1>3. ASSUME NEW b \in Attempts PROVE Moves(pc[b], pc'[b])
  <2>1. a \in Procs /\ b \in Procs BY DEF Procs
  <2>2. \E to \in Steps : pc' = [pc EXCEPT ![a] = to] /\ Moves(pc[a], to)
    BY DEF Goto, Leave, Moves, PastRecord, Holding, NotStarted, Unhandled, Launching, Steps
  <2>3. Moves(pc[b], pc[b]) BY DEF Moves
  <2> QED BY <2>1, <2>2, <2>3 DEF TypeOK
<1> QED BY <1>1, <1>2, <1>3 DEF Quiet

\* The first state satisfies the invariant.
LEMMA InitRecord == Init => RecordInv
BY ProcAssumption, DirAssumption
   DEF Init, RecordInv, ExpectInv, DirInv, NonceInv, NotStartedInv, SaveCidInv,
       RecordedInv, Live, StartReq, Running, Procs, Containers, NoRecord,
       Holding, PastRecord, Launching, Steps

\* The steps of a guard that write, one by one.
LEMMA GuardStepRecord ==
  ASSUME NEW a \in Attempts, TypeOK, RecordInv, GuardStep(a)
  PROVE  RecordInv'
<1> a \in Procs /\ a \in Containers BY DEF Procs, Containers
<1> USE DEF RecordInv, restVars, hostVars, daemonVars
<1>a. CASE QuietGuardStep(a)
  BY <1>a, QuietGuardSteps, QuietStep
<1>b. CASE StopOwned(a)
  BY <1>b, StopOwnedQuiet, QuietStep
<1>c. CASE SaveEvidence(a)
  <2>1. \A b \in Attempts : record'[b].nonce = record[b].nonce
    BY <1>c, CleanupKeepsNonce DEF SaveEvidence
  <2>2. \A b \in Attempts : Moves(pc[b], pc'[b])
    BY <1>c DEF SaveEvidence, CleanupFails, Goto, TypeOK, Procs, Moves, Holding,
                PastRecord, NotStarted, Unhandled, Launching, Steps
  <2>3. UNCHANGED <<owner, disk, cid, expect>> /\ \A b \in Attempts : Live(b)' = Live(b)
    BY <1>c DEF SaveEvidence, Live, Running
  <2> QED BY <2>1, <2>2, <2>3, QuietStep DEF Quiet
<1>1. CASE MakeStateDir(a)
  <2> USE <1>1 DEF MakeStateDir, FreshStateDir
  <2>1. \A b \in Attempts : pc'[b] = pc[b] \/ (b = a /\ pc[a] = "begin" /\ pc'[a] \in {"lock", "done"})
    BY DEF Goto, TypeOK, Procs
  <2>2. \A b \in Attempts : Live(b)' = Live(b)
    BY DEF Live, Running
  <2>3. DirInv'
    <3>1. CASE owner' = owner
      <4>1. pc'[a] = "done" BY <3>1, IdAssumption, DirAssumption DEF TypeOK, Goto, Containers
      <4> QED BY <2>1, <3>1, <4>1 DEF DirInv, Holding
    <3>2. CASE owner' = [owner EXCEPT ![StateDir[a]] = a] /\ owner[StateDir[a]] = None
      <4>1. \A b \in Attempts : StateDir[b] \in Dirs /\ b # None
        BY DirAssumption, IdAssumption DEF Containers
      <4>2. ASSUME NEW b \in Attempts, pc'[b] \in Holding \cup {"lock"}
            PROVE  owner'[StateDir[b]] = b
        BY <2>1, <3>2, <4>1, <4>2 DEF DirInv, TypeOK
      <4>3. ASSUME NEW d \in Dirs PROVE disk'[d].nonce \in {None, owner'[d]}
        BY <3>2 DEF DirInv, TypeOK
      <4> QED BY <4>2, <4>3 DEF DirInv
    <3> QED BY <3>1, <3>2
  <2> QED
    BY <2>1, <2>2, <2>3
    DEF ExpectInv, NonceInv, NotStartedInv, SaveCidInv, RecordedInv, Holding,
        PastRecord, NotStarted, Unhandled, Launching
<1>2. CASE SaveStarting(a)
  <2> USE <1>2 DEF SaveStarting
  <2>1. \A b \in Attempts : /\ pc'[b] = pc[b] \/ (b = a /\ pc[a] = "record" /\ pc'[a] \in {"handlers", "done"})
                            /\ Live(b)' = Live(b)
    BY DEF Goto, Leave, TypeOK, Procs, Live, Running
  <2>2. owner[StateDir[a]] = a /\ ~Live(a)
    BY DEF DirInv, NotStartedInv, Holding, NotStarted, Unhandled, Steps
  <2>3. NonceInv'
    <3>1. \A b \in Attempts : record'[b].nonce = IF b = a THEN a ELSE record[b].nonce
      BY DEF TypeOK, StartingRecord, NoRecord
    <3> QED BY <2>1, <3>1 DEF NonceInv, PastRecord
  <2>4. \A d \in Dirs : disk'[d] = disk[d] \/ (d = StateDir[a] /\ disk'[d].nonce = a)
    <3>1. StartingRecord(a).nonce = a /\ disk \in [Dirs -> Records]
      BY DEF TypeOK, StartingRecord, NoRecord
    <3>2. disk' = disk \/ disk' = [disk EXCEPT ![StateDir[a]] = StartingRecord(a)]
      BY DEF Save
    <3> QED BY <3>1, <3>2
  <2>5. DirInv'
    BY <2>1, <2>2, <2>4 DEF DirInv, Holding, Steps
  <2>6. RecordedInv'
    <3>1. ASSUME NEW b \in Attempts, pc'[b] \in Launching \/ Live(b)'
          PROVE  disk'[StateDir[b]] = disk[StateDir[b]]
      <4>1. disk[StateDir[b]].nonce = b /\ b # a
        BY <2>1, <2>2, <3>1 DEF RecordedInv, Launching
      <4>2. StateDir[b] # StateDir[a] /\ StateDir[b] \in Dirs
        BY <2>2, <4>1, DirAssumption, IdAssumption DEF DirInv, Containers
      <4> QED BY <4>2 DEF Save, TypeOK
    <3> QED BY <2>1, <3>1 DEF RecordedInv, Launching
  <2> QED
    BY <2>1, <2>3, <2>5, <2>6
    DEF ExpectInv, NotStartedInv, SaveCidInv, NotStarted, Unhandled
<1>3. CASE CreateReturns(a)
  <2> USE <1>3 DEF CreateReturns
  <2>1. \A b \in Attempts : /\ pc'[b] = pc[b] \/ (b = a /\ pc[a] = "creating" /\ pc'[a] \in {"savecid", "stop", "final"})
                            /\ Live(b)' = Live(b)
                            /\ b # a => cid'[b] = cid[b]
    BY DEF Goto, TypeOK, Procs, Live, Running
  <2>2. ~Live(a) /\ pc'[a] \in {"savecid", "stop", "final"}
    BY DEF NotStartedInv, NotStarted, Goto, TypeOK
  <2>3. SaveCidInv'
    BY <2>1 DEF SaveCidInv, Goto, TypeOK
  <2>4. \A b \in Attempts : /\ pc'[b] \in Holding \cup {"lock"} => pc[b] \in Holding \cup {"lock"}
                            /\ pc'[b] \in PastRecord => pc[b] \in PastRecord
    BY <2>1 DEF Holding, PastRecord, Steps
  <2>5. DirInv'
    BY <2>4 DEF DirInv
  <2>6. NonceInv'
    BY <2>4 DEF NonceInv
  <2>7. RecordedInv'
    BY <2>1, <2>2 DEF RecordedInv, Launching
  <2> QED
    BY <2>1, <2>2, <2>3, <2>5, <2>6, <2>7
    DEF ExpectInv, NotStartedInv, NotStarted, Unhandled
<1>4. CASE SaveCid(a)
  <2> USE <1>4 DEF SaveCid
  <2>1. \A b \in Attempts : /\ pc'[b] = pc[b] \/ (b = a /\ pc[a] = "savecid" /\ pc'[a] \in {"own", "stop"})
                            /\ Live(b)' = Live(b)
    BY DEF Goto, TypeOK, Procs, Live, Running
  <2>2. /\ owner[StateDir[a]] = a /\ ~Live(a) /\ cid[a] = a /\ record[a].nonce = a
    BY DEF DirInv, NotStartedInv, NonceInv, SaveCidInv, Holding, PastRecord, NotStarted, Steps
  <2>3. /\ \A b \in Attempts : record'[b].nonce = record[b].nonce
        /\ record'[a].cid = a
    BY <2>2 DEF TypeOK, Records
  <2>4. /\ \A d \in Dirs : disk'[d] = disk[d] \/ (d = StateDir[a] /\ disk'[d].nonce = a)
        /\ pc'[a] = "own" => disk'[StateDir[a]] = record'[a]
    BY <2>2, <2>3, DirAssumption, ZenonT(30) DEF TypeOK, Save, Goto
  <2>5. DirInv'
    BY <2>1, <2>2, <2>4 DEF DirInv, Holding, Steps
  <2>6. RecordedInv'
    <3>1. ASSUME NEW b \in Attempts, b # a, pc'[b] \in Launching \/ Live(b)'
          PROVE  disk'[StateDir[b]] = disk[StateDir[b]]
      <4>1. disk[StateDir[b]].nonce = b
        BY <2>1, <3>1 DEF RecordedInv
      <4>2. StateDir[b] # StateDir[a] /\ StateDir[b] \in Dirs
        BY <2>2, <3>1, <4>1, DirAssumption, IdAssumption DEF DirInv, Containers
      <4> QED BY <2>4, <4>2
    <3>2. pc'[a] \in Launching => disk'[StateDir[a]].nonce = a /\ disk'[StateDir[a]].cid = a
      BY <2>1, <2>2, <2>3, <2>4 DEF Launching
    <3> QED BY <2>1, <2>2, <3>1, <3>2 DEF RecordedInv
  <2> QED
    BY <2>1, <2>2, <2>3, <2>5, <2>6
    DEF ExpectInv, NonceInv, NotStartedInv, SaveCidInv, NotStarted, Unhandled, PastRecord, Holding, Steps
<1>5. CASE StartContainer(a)
  <2> USE <1>5 DEF StartContainer
  <2>1. \A b \in Attempts : /\ pc'[b] = pc[b] \/ (b = a /\ pc[a] = "start" /\ pc'[a] = "starting")
                            /\ b # a => Live(b)' = Live(b)
    BY DEF Goto, TypeOK, Procs, Live, Running, StartReq, Request
  <2> QED
    BY <2>1
    DEF Goto, ExpectInv, DirInv, NonceInv, NotStartedInv, SaveCidInv, RecordedInv, Holding,
        PastRecord, NotStarted, Unhandled, Launching, Steps
<1>6. CASE ResolveCid(a)
  <2> USE <1>6 DEF ResolveCid
  <2>1. \A b \in Attempts : /\ pc'[b] = pc[b] \/ (b = a /\ pc[a] = "resolve" /\ pc'[a] \in {"stop", "final", "done"})
                            /\ Live(b)' = Live(b)
                            /\ b # a => cid'[b] = cid[b]
    BY DEF Goto, Leave, TypeOK, Procs, Live, Running
  <2>2. ~Live(a)
    BY DEF NotStartedInv, NotStarted
  <2>3. \A b \in Attempts : record'[b].nonce = record[b].nonce
    <3>1. record' = record \/ record' = [record EXCEPT ![a].create_outcome = "UNKNOWN"]
      OBVIOUS
    <3> QED BY <3>1, UnknownKeepsNonce
  <2>4. pc[a] = "resolve"
    OBVIOUS
  <2>5. DirInv' /\ NonceInv'
    BY <2>1, <2>3, <2>4 DEF DirInv, NonceInv, Holding, PastRecord, Steps
  <2> QED
    BY <2>1, <2>2, <2>5
    DEF ExpectInv, NotStartedInv, SaveCidInv, RecordedInv, NotStarted, Unhandled, Launching
<1>7. CASE SaveFinal(a)
  <2> USE <1>7 DEF SaveFinal
  <2>1. \A b \in Attempts : /\ pc'[b] = pc[b] \/ (b = a /\ pc[a] = "final" /\ pc'[a] = "done")
                            /\ Live(b)' = Live(b)
    BY DEF Goto, Leave, TypeOK, Procs, Live, Running
  <2>2. owner[StateDir[a]] = a /\ record[a].nonce = a
    BY DEF DirInv, NonceInv, Holding, PastRecord, Steps
  <2>3. FinalRecord(a).nonce = a /\ FinalRecord(a).cid = cid[a]
    BY <2>2 DEF FinalRecord, TypeOK, Records
  <2>4. \A d \in Dirs : disk'[d] = disk[d] \/ (d = StateDir[a] /\ disk'[d] = FinalRecord(a))
    BY DEF TypeOK, Save
  <2>5. DirInv'
    BY <2>1, <2>2, <2>3, <2>4 DEF DirInv, Holding
  <2>6. RecordedInv'
    <3>1. ASSUME NEW b \in Attempts, pc'[b] \in Launching \/ Live(b)'
          PROVE  disk'[StateDir[b]].nonce = b /\ disk'[StateDir[b]].cid = b /\ cid'[b] = b
      <4>1. disk[StateDir[b]].nonce = b /\ disk[StateDir[b]].cid = b /\ cid[b] = b
        BY <2>1, <3>1 DEF RecordedInv, Launching
      <4>2. StateDir[b] \in Dirs /\ (StateDir[b] = StateDir[a] => b = a)
        BY <2>2, <4>1, DirAssumption, IdAssumption DEF DirInv, Containers
      <4> QED BY <2>3, <2>4, <4>1, <4>2
    <3> QED BY <3>1 DEF RecordedInv
  <2>7. NonceInv'
    <3>0. record' = [record EXCEPT ![a] = FinalRecord(a)]
      OBVIOUS
    <3>1. ASSUME NEW b \in Attempts, b # a PROVE record'[b] = record[b]
      BY <3>0, <3>1, OtherRecordsKept
    <3>2. pc'[a] = "done"
      BY DEF Leave, Goto, TypeOK
    <3> QED BY <2>1, <3>1, <3>2 DEF NonceInv, PastRecord, Holding
  <2> QED
    BY <2>1, <2>5, <2>6, <2>7
    DEF ExpectInv, NotStartedInv, SaveCidInv, NotStarted, Unhandled
<1> QED
  BY <1>a, <1>b, <1>c, <1>1, <1>2, <1>3, <1>4, <1>5, <1>6, <1>7
  DEF GuardStep, QuietGuardStep

\* Operators, the daemon, containers and the environment are quiet.
LEMMA OthersQuiet ==
  ASSUME TypeOK, RecordInv,
         (\E o \in Operators : OperatorStep(o)) \/ Daemon \/ Environment
         \/ AllEnded \/ UNCHANGED vars
  PROVE  Quiet
<1> USE DEF restVars, hostVars, daemonVars
<1>0. \A b \in Attempts : b \in Procs /\ b \in Containers /\ b \notin Operators /\ Moves(pc[b], pc[b])
  BY ProcAssumption DEF Procs, Containers, Moves
<1>1. ASSUME NEW o \in Operators, OperatorStep(o) PROVE Quiet
  <2>1. o \in Procs BY DEF Procs
  <2>2. CASE OperatorReads(o)
    <3>1. PICK to : pc' = [pc EXCEPT ![o] = to]
      BY <2>2 DEF OperatorReads, Goto
    <3>2. \A b \in Attempts : cid'[b] = cid[b] /\ expect'[b] = expect[b] /\ pc'[b] = pc[b]
      BY <1>0, <2>1, <2>2, <3>1 DEF OperatorReads, TypeOK
    <3>3. UNCHANGED <<owner, disk, record, pending, cont>>
      BY <2>2 DEF OperatorReads
    <3> QED BY <1>0, <3>2, <3>3 DEF Quiet, Live, Running
  <2>3. CASE StopOwned(o)
    BY <2>1, <2>3, StopOwnedQuiet
  <2> QED BY <1>1, <2>2, <2>3 DEF OperatorStep
<1>2. CASE Daemon
  <2>1. UNCHANGED <<pc, cid, expect, owner, disk, record>>
    BY <1>2 DEF Daemon, DaemonCreate, DaemonStart, DaemonStop, DaemonDrop, ServerReady, ServerExits
  <2>2. ASSUME NEW b \in Attempts PROVE Live(b)' => Live(b)
    <3>1. ASSUME NEW a \in Attempts, DaemonCreate(a) \/ DaemonStart(a) \/ ServerReady(a)
          PROVE  Live(b)' => Live(b)
      BY <3>1, <1>0 DEF DaemonCreate, DaemonStart, ServerReady, Live, Running, StartReq, Request, TypeOK
    <3>2. ASSUME NEW a \in Attempts, ServerExits(a) PROVE Live(b)' => Live(b)
      BY <3>2, <1>0 DEF ServerExits, Finish, Live, Running, TypeOK
    <3>3. ASSUME NEW r \in pending, DaemonStop(r) \/ DaemonDrop(r) PROVE Live(b)' => Live(b)
      BY <3>3, <1>0 DEF DaemonStop, DaemonDrop, Finish, Live, Running, TypeOK, Requests
    <3> QED BY <1>2, <3>1, <3>2, <3>3 DEF Daemon
  <2> QED BY <1>0, <2>1, <2>2 DEF Quiet
<1>3. CASE Environment
  <2>1. UNCHANGED <<cid, expect, owner, disk, record, pending, cont>>
    BY <1>3 DEF Environment, Signal, Kill, Drift
  <2>2. \A b \in Attempts : pc'[b] = pc[b] \/ pc'[b] = "dead"
    BY <1>0, <1>3 DEF Environment, Signal, Kill, Drift, TypeOK
  <2> QED
    BY <1>0, <2>1, <2>2
    DEF Quiet, Live, Running, Moves, Holding, PastRecord, NotStarted, Unhandled, Launching
<1>4. CASE AllEnded \/ UNCHANGED vars
  BY <1>0, <1>4 DEF AllEnded, vars, Quiet, Live, Running
<1> QED BY <1>1, <1>2, <1>3, <1>4

\* Every step keeps the invariant.
LEMMA NextRecord == TypeOK /\ RecordInv /\ [Next]_vars => RecordInv'
BY GuardStepRecord, OthersQuiet, QuietStep DEF Next

\* Wherever any guard dies, a running server is named on disk by a record with
\* its nonce and ID (guard.py:541 before guard.py:547), for every value of the
\* constants.
THEOREM RunningRecorded == Spec => []RunningIsRecorded
<1>1. RecordInv => RunningIsRecorded
  BY DEF RecordInv, RecordedInv, RunningIsRecorded, Live
<1> QED
  BY <1>1, InitType, NextType, InitRecord, NextRecord, PTL DEF Spec

-----------------------------------------------------------------------------
(***************************************************************************)
(* LeaseCoversServer.  The guard leaves the lease with its server verified *)
(* stopped, with a cleanup error noted, or with its start uncertain.       *)
(***************************************************************************)
\* A guard's step touches no other guard, and forgets no uncertain start.
LEMMA GuardFrame ==
  ASSUME NEW a \in Attempts, TypeOK, GuardStep(a), NEW b \in Attempts, b # a
  PROVE  /\ pc'[b] = pc[b] /\ rc'[b] = rc[b] /\ record'[b] = record[b]
         /\ Running(b)' = Running(b)
         /\ StartReq(b) \in pending' => StartReq(b) \in pending
         /\ uncertain \subseteq uncertain'
<1> a \in Procs /\ b \in Procs BY DEF Procs
<1> USE DEF GuardStep, RejectUsage, PrintPlan, MakeStateDir, LifetimeLock,
        RunPreflight, VerifyInputs, SaveStarting, InstallHandlers,
        CancelBeforeCreate, CreateContainer, CreateReturns, CreateFails,
        CreateTimesOut, SaveCid, CheckOwned, RecheckReceipt, StartContainer,
        StartReturns, StartFails, StartTimesOut, WatchInspect, WatchSample,
        ResolveCid, StopOwned, StopInspect, StopReturns, StopFails, StopVerify,
        SaveEvidence, SaveFinal, CleanupFails
<1>1. pc'[b] = pc[b]
  <2>1. \E to : pc' = [pc EXCEPT ![a] = to] BY DEF Goto, Leave
  <2> QED BY <2>1 DEF TypeOK
<1>2. rc'[b] = rc[b]
  <2>1. rc' = rc \/ \E code : rc' = [rc EXCEPT ![a] = code] BY DEF SetRc
  <2> QED BY <2>1 DEF TypeOK
<1>3. record'[b] = record[b]
  <2>1. record' = record \/ \E r : record' = [record EXCEPT ![a] = r] OBVIOUS
  <2> QED BY <2>1 DEF TypeOK
<1>4. Running(b)' = Running(b)
  <2>1. cont' = cont BY DEF daemonVars
  <2> QED BY <2>1 DEF Running
<1>5. StartReq(b) \in pending' => StartReq(b) \in pending
  BY DEF daemonVars, StartReq, Request
<1>6. uncertain \subseteq uncertain'
  BY DEF restVars
<1> QED BY <1>1, <1>2, <1>3, <1>4, <1>5, <1>6

\* How a guard's step moves the lease.
LEMMA LeaseMoves ==
  ASSUME NEW a \in Attempts, TypeOK, GuardStep(a)
  PROVE  \/ lock' = lock /\ (pc'[a] \in Holding => pc[a] \in Holding)
         \/ lock = None /\ lock' = a
         \/ pc[a] \in Holding /\ lock' = None /\ pc'[a] = "done"
<1> a \in Procs BY DEF Procs
<1>1. CASE LifetimeLock(a)
  BY <1>1 DEF LifetimeLock, Goto, TypeOK, Holding
<1>2. CASE \/ RunPreflight(a) \/ VerifyInputs(a) \/ SaveStarting(a)
           \/ ResolveCid(a) \/ SaveFinal(a)
  BY <1>2 DEF RunPreflight, VerifyInputs, SaveStarting, ResolveCid, SaveFinal,
              Leave, Goto, TypeOK, Holding, Steps
<1>3. CASE RejectUsage(a) \/ PrintPlan(a) \/ MakeStateDir(a)
  BY <1>3 DEF RejectUsage, PrintPlan, MakeStateDir, Goto, TypeOK, Holding
<1>4. CASE \/ InstallHandlers(a) \/ CancelBeforeCreate(a) \/ CreateContainer(a)
           \/ CreateReturns(a) \/ CreateFails(a) \/ CreateTimesOut(a)
           \/ SaveCid(a) \/ CheckOwned(a) \/ RecheckReceipt(a)
           \/ StartContainer(a) \/ StartReturns(a) \/ StartFails(a)
           \/ StartTimesOut(a) \/ WatchInspect(a) \/ WatchSample(a)
           \/ StopOwned(a) \/ SaveEvidence(a)
  <2> USE <1>4 DEF InstallHandlers, CancelBeforeCreate, CreateContainer,
          CreateReturns, CreateFails, CreateTimesOut, SaveCid, CheckOwned,
          RecheckReceipt, StartContainer, StartReturns, StartFails,
          StartTimesOut, WatchInspect, WatchSample, StopOwned, StopInspect,
          StopReturns, StopFails, StopVerify, SaveEvidence, CleanupFails
  <2>1. lock' = lock OBVIOUS
  <2>2. pc[a] \in Holding BY DEF Goto, Holding, Steps
  <2> QED BY <2>1, <2>2
<1> QED BY <1>1, <1>2, <1>3, <1>4 DEF GuardStep

\* After a guard's step its start request is being waited for, or uncertain.
LEMMA PendingStep ==
  ASSUME NEW a \in Attempts, TypeOK, RecordInv, LeaseInv, GuardStep(a),
         StartReq(a) \in pending'
  PROVE  pc'[a] = "starting" \/ a \in uncertain'
<1> a \in Procs BY DEF Procs
<1> USE DEF restVars, hostVars, daemonVars
<1>1. CASE StartContainer(a)
  BY <1>1 DEF StartContainer, Goto, TypeOK
<1>2. CASE StartReturns(a) \/ StartFails(a) \/ StartTimesOut(a)
  BY <1>2 DEF StartReturns, StartFails, StartTimesOut, StartReq
<1>3. CASE ~(StartContainer(a) \/ StartReturns(a) \/ StartFails(a) \/ StartTimesOut(a))
  <2> USE <1>3 DEF GuardStep, RejectUsage, PrintPlan, MakeStateDir, LifetimeLock,
        RunPreflight, VerifyInputs, SaveStarting, InstallHandlers,
        CancelBeforeCreate, CreateContainer, CreateReturns, CreateFails,
        CreateTimesOut, SaveCid, CheckOwned, RecheckReceipt, WatchInspect, WatchSample,
        ResolveCid, StopOwned, StopInspect, StopReturns, StopFails, StopVerify,
        SaveEvidence, SaveFinal, CleanupFails, Leave, Goto
  <2>1. StartReq(a) \in pending
    BY DEF StartReq, Request
  <2>2. pc[a] \notin {"starting", "dead"}
    OBVIOUS
  <2>3. uncertain' = uncertain
    OBVIOUS
  <2> QED BY <2>1, <2>2, <2>3 DEF LeaseInv, PendingInv
<1> QED BY <1>1, <1>2, <1>3

\* A noted cleanup error comes with a non-zero exit code.
LEMMA CleanupNoted ==
  ASSUME NEW a \in Attempts, NEW from, TypeOK, CleanupFails(a, from)
  PROVE  record'[a].cleanup_error = "SET" /\ rc'[a] # EXIT_OK
<1> a \in Procs BY DEF Procs
<1>1. record' = [record EXCEPT ![a].cleanup_error = "SET"]
  BY DEF CleanupFails
<1>2. record'[a].cleanup_error = "SET"
  BY <1>1 DEF TypeOK, Records
<1>3. rc'[a] = OrCleanup(rc[a])
  BY DEF CleanupFails, SetRc, TypeOK
<1> QED BY <1>2, <1>3 DEF OrCleanup

\* A guard that reaches the end of its cleanup is settled.
LEMMA SettledStep ==
  ASSUME NEW a \in Attempts, TypeOK, RecordInv, LeaseInv, GuardStep(a),
         pc'[a] \in {"evidence", "final", "done"}, Live(a)'
  PROVE  (record'[a].cleanup_error = "SET" /\ rc'[a] # EXIT_OK) \/ a \in uncertain'
<1> a \in Procs BY DEF Procs
<1> USE DEF restVars, hostVars, daemonVars
<1>1. CASE \/ RejectUsage(a) \/ PrintPlan(a) \/ MakeStateDir(a) \/ LifetimeLock(a)
           \/ RunPreflight(a) \/ VerifyInputs(a) \/ SaveStarting(a)
           \/ CancelBeforeCreate(a) \/ CreateReturns(a) \/ ResolveCid(a)
  <2> USE <1>1 DEF RejectUsage, PrintPlan, MakeStateDir, LifetimeLock, RunPreflight,
          VerifyInputs, SaveStarting, CancelBeforeCreate, CreateReturns, ResolveCid, Leave, Goto
  <2>1. pc[a] \in NotStarted
    BY DEF NotStarted, Unhandled
  <2>2. UNCHANGED <<cont, pending>>
    OBVIOUS
  <2> QED BY <2>1, <2>2 DEF RecordInv, NotStartedInv, Live, Running
<1>2. CASE \/ InstallHandlers(a) \/ CreateContainer(a)
           \/ CreateFails(a) \/ CreateTimesOut(a) \/ SaveCid(a) \/ CheckOwned(a)
           \/ RecheckReceipt(a) \/ StartContainer(a) \/ StartReturns(a)
           \/ StartFails(a) \/ StartTimesOut(a) \/ WatchInspect(a) \/ WatchSample(a)
           \/ StopReturns(a)
  <2>1. PICK to \in Steps \ {"evidence", "final", "done"} : pc' = [pc EXCEPT ![a] = to]
    BY <1>2
    DEF InstallHandlers, CreateContainer, CreateFails, CreateTimesOut,
        SaveCid, CheckOwned, RecheckReceipt, StartContainer, StartReturns, StartFails,
        StartTimesOut, WatchInspect, WatchSample, StopReturns, Goto, Steps
  <2> QED BY <2>1 DEF TypeOK
<1>3. CASE \E from \in Steps : CleanupFails(a, from)
  BY <1>3, CleanupNoted
<1>4. CASE StopInspect(a) /\ ~CleanupFails(a, "stop")
  BY <1>4 DEF StopInspect, Goto, TypeOK
<1>5. CASE StopVerify(a) /\ ~CleanupFails(a, "stopped")
  <2>1. pc[a] = "stopped" /\ VerifyOwnership(a) /\ ~Running(cid[a])
    BY <1>5 DEF StopVerify
  <2>2. ~Running(a)
    BY <2>1 DEF VerifyOwnership, RecordInv, ExpectInv
  <2>3. UNCHANGED <<cont, pending, uncertain>>
    BY <1>5 DEF StopVerify
  <2> QED BY <2>1, <2>2, <2>3 DEF Live, Running, LeaseInv, PendingInv
<1>6. CASE SaveEvidence(a) /\ ~CleanupFails(a, "evidence")
  <2>1. pc[a] = "evidence" /\ UNCHANGED <<cont, pending, uncertain, rc, record>>
    BY <1>6 DEF SaveEvidence
  <2> QED BY <2>1 DEF Live, Running, LeaseInv, SettledInv
<1>7. CASE SaveFinal(a)
  <2>1. pc[a] = "final" /\ UNCHANGED <<cont, pending, uncertain>>
    BY <1>7 DEF SaveFinal
  <2>2. record'[a].cleanup_error = record[a].cleanup_error
    <3>1. record' = [record EXCEPT ![a] = FinalRecord(a)]
      BY <1>7 DEF SaveFinal
    <3> QED BY <3>1 DEF FinalRecord, TypeOK, Records
  <2>3. rc[a] # EXIT_OK => rc'[a] # EXIT_OK
    BY <1>7 DEF SaveFinal, SetRc, OrCleanup, TypeOK
  <2> QED BY <2>1, <2>2, <2>3 DEF Live, Running, LeaseInv, SettledInv
<1>8. StopFails(a) => CleanupFails(a, "stopping")
  BY DEF StopFails
<1> QED
  BY <1>1, <1>2, <1>3, <1>4, <1>5, <1>6, <1>7, <1>8
  DEF GuardStep, StopOwned, Steps

\* The first state satisfies the invariant.
LEMMA InitLease == Init => LeaseInv
BY ProcAssumption
   DEF Init, LeaseInv, HolderInv, PendingInv, SettledInv, Live, Running, Procs, Holding, Containers

\* A guard's step keeps the invariant.
LEMMA GuardStepLease ==
  ASSUME NEW a \in Attempts, TypeOK, RecordInv, LeaseInv, GuardStep(a)
  PROVE  LeaseInv'
<1>1. HolderInv'
  <2> SUFFICES ASSUME NEW b \in Attempts, pc'[b] \in Holding PROVE lock' = b
    BY DEF HolderInv
  <2>1. CASE b = a
    BY <2>1, LeaseMoves DEF LeaseInv, HolderInv, Holding
  <2>2. CASE b # a
    BY <2>2, LeaseMoves, GuardFrame, IdAssumption DEF LeaseInv, HolderInv, Containers
  <2> QED BY <2>1, <2>2
<1>2. PendingInv'
  <2> SUFFICES ASSUME NEW b \in Attempts, StartReq(b) \in pending'
               PROVE  pc'[b] \in {"starting", "dead"} \/ b \in uncertain'
    BY DEF PendingInv, StartReq, Request
  <2>1. CASE b = a
    BY <2>1, PendingStep
  <2>2. CASE b # a
    BY <2>2, GuardFrame DEF LeaseInv, PendingInv
  <2> QED BY <2>1, <2>2
<1>3. SettledInv'
  <2> SUFFICES ASSUME NEW b \in Attempts, pc'[b] \in {"evidence", "final", "done"}, Live(b)'
               PROVE  (record'[b].cleanup_error = "SET" /\ rc'[b] # EXIT_OK) \/ b \in uncertain'
    BY DEF SettledInv
  <2>1. CASE b = a
    BY <2>1, SettledStep
  <2>2. CASE b # a
    <3>1. Live(b)
      BY <2>2, GuardFrame DEF Live, StartReq, Request
    <3> QED BY <2>2, <3>1, GuardFrame DEF LeaseInv, SettledInv
  <2> QED BY <2>1, <2>2
<1> QED BY <1>1, <1>2, <1>3 DEF LeaseInv

\* Operators, the daemon, containers and the environment keep it too.
LEMMA OthersLease ==
  ASSUME TypeOK, RecordInv, LeaseInv,
         (\E o \in Operators : OperatorStep(o)) \/ Daemon \/ Environment
         \/ AllEnded \/ UNCHANGED vars
  PROVE  LeaseInv'
<1>a. Quiet BY OthersQuiet
<1>1. \A b \in Attempts :
        /\ (pc'[b] = pc[b] /\ (lock' = lock \/ lock # b)) \/ pc'[b] = "dead"
        /\ rc'[b] = rc[b] /\ record'[b] = record[b]
        /\ StartReq(b) \in pending' => StartReq(b) \in pending
  <2>0. \A b \in Attempts : b \in Procs /\ b \notin Operators
    BY ProcAssumption DEF Procs
  <2>1. ASSUME NEW o \in Operators, OperatorStep(o)
        PROVE  /\ UNCHANGED <<lock, record>>
               /\ \A b \in Attempts :
                    /\ pc'[b] = pc[b] /\ rc'[b] = rc[b]
                    /\ StartReq(b) \in pending' => StartReq(b) \in pending
    <3> USE <2>1, ProcAssumption DEF OperatorStep, OperatorReads, StopOwned, StopInspect,
            StopReturns, StopFails, StopVerify, CleanupFails
    <3>1. UNCHANGED <<lock, record>> OBVIOUS
    <3>2. \E to : pc' = [pc EXCEPT ![o] = to] BY DEF Goto
    <3>3. rc' = rc \/ \E code : rc' = [rc EXCEPT ![o] = code] BY DEF SetRc
    <3>4. \A b \in Attempts : StartReq(b) \in pending' => StartReq(b) \in pending
      BY DEF StartReq, Request, daemonVars
    <3>5. o \in Procs BY DEF Procs
    <3> QED BY <2>0, <3>1, <3>2, <3>3, <3>4, <3>5 DEF TypeOK
  <2>2. CASE Daemon
    BY <2>2 DEF Daemon, DaemonCreate, DaemonStart, DaemonStop, DaemonDrop, ServerReady, ServerExits
  <2>3. CASE Environment
    BY <2>0, <2>3 DEF Environment, Signal, Kill, Drift, daemonVars, TypeOK
  <2>4. CASE AllEnded \/ UNCHANGED vars
    BY <2>4 DEF AllEnded, vars
  <2> QED BY <2>1, <2>2, <2>3, <2>4
<1>2. uncertain' = uncertain
  BY DEF OperatorStep, OperatorReads, StopOwned, StopInspect, StopReturns, StopFails,
         StopVerify, Daemon, DaemonCreate, DaemonStart, DaemonStop, DaemonDrop,
         ServerReady, ServerExits, Environment, Signal, Kill, Drift, AllEnded, vars, restVars
<1>3. HolderInv'
  BY <1>1 DEF LeaseInv, HolderInv, Holding
<1>4. PendingInv'
  <2> SUFFICES ASSUME NEW b \in Attempts, StartReq(b) \in pending'
               PROVE  pc'[b] \in {"starting", "dead"} \/ b \in uncertain'
    BY DEF PendingInv, StartReq, Request
  <2> QED BY <1>1, <1>2 DEF LeaseInv, PendingInv
<1>5. SettledInv'
  BY <1>a, <1>1, <1>2 DEF LeaseInv, SettledInv, Quiet
<1> QED BY <1>3, <1>4, <1>5 DEF LeaseInv

\* Every step keeps the invariant.
LEMMA NextLease == TypeOK /\ RecordInv /\ LeaseInv /\ [Next]_vars => LeaseInv'
BY GuardStepLease, OthersLease DEF Next

\* The lease covers the server, whatever the number of guards: a server that
\* runs without it belongs to a killed guard, a reported cleanup failure or an
\* uncertain start (guard.py:463, 620-648).
THEOREM LeaseCovers == Spec => []LeaseCoversServer
<1>1. TypeOK /\ RecordInv /\ LeaseInv => LeaseCoversServer
  <2> SUFFICES ASSUME TypeOK, RecordInv, LeaseInv, NEW a \in Attempts, Running(a)
               PROVE  \/ lock = a
                      \/ pc[a] = "dead"
                      \/ pc[a] = "done" /\ record[a].cleanup_error = "SET" /\ rc[a] # EXIT_OK
                      \/ a \in uncertain
    BY DEF LeaseCoversServer
  <2>1. pc[a] \notin {"begin", "lock"}
    BY DEF RecordInv, NotStartedInv, NotStarted, Unhandled, Live
  <2>2. pc[a] # "idle"
    BY DEF RecordInv, ExpectInv
  <2>3. CASE pc[a] \in Holding
    BY <2>3 DEF LeaseInv, HolderInv
  <2>4. CASE pc[a] = "done"
    BY <2>4 DEF LeaseInv, SettledInv, Live
  <2> QED BY <2>1, <2>2, <2>3, <2>4 DEF TypeOK, Procs, Holding
<1> QED
  BY <1>1, InitType, NextType, InitRecord, NextRecord, InitLease, NextLease, PTL DEF Spec
=============================================================================
