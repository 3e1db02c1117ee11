------------------------------ MODULE Sandbox ------------------------------
(***************************************************************************)
(* docker/q200_sandbox_driver.py: the process inside the sandbox container *)
(* that checks a grading request, runs one candidate program under its     *)
(* tests, supervises the process tree and writes one receipt.              *)
(*                                                                         *)
(* The candidate (external) forks, writes to and closes any descriptor it  *)
(* was given, orphans its children and exits between any two steps of the  *)
(* driver.  The driver is a subreaper that never waits for adopted         *)
(* processes: an orphan that exits stays a zombie, and os.kill(pid, 0)     *)
(* still finds it.                                                         *)
(***************************************************************************)
EXTENDS Naturals, FiniteSets, FiniteSetsExt

CONSTANTS
  MaxForks,    \* bound: processes the candidate starts
  Proc,        \* the candidate process itself
  Driver,      \* the driver, parent of every orphan
  MaxChunks,   \* MAX_OUTPUT_BYTES, in chunks of one read
  Outputs,     \* kinds of chunks the candidate writes
  Inputs       \* the requests that are made

Desc == 1..MaxForks    \* the others, numbered as they start

ASSUME ProcAssumption == Proc # Driver /\ {Proc, Driver} \cap Desc = {}
ASSUME ChunkAssumption == MaxChunks \in Nat /\ MaxForks \in Nat

Tree == Desc \cup {Proc}
Pipes == {"output", "completion"}   \* stdout and stderr are treated alike

\* What _validate_request and its callers look at.  The program and the test make
\* up the harness, whose text is the candidate's business.
Checks == {"size", "json", "schema", "source_hash", "image_id", "candidate", "reference",
           "timeout_seconds", "runtime_manifest", "request_sha256"}
Requests == [wrong : {{}} \cup {{c} : c \in Checks},
             test : {"absent", "present"}, entry_point : {"absent", "named"}]
ASSUME InputAssumption == Inputs \subseteq Requests

VARIABLES
  req,         \* the request on stdin
  pc,          \* the driver: "read", "spawn", "loop", "select", "term", "kill", "verdict", "done"
  st,          \* [Tree -> "new" | "run" | "zombie" | "gone"]
  parent,      \* [Desc -> Tree \cup {Driver}]
  hidden,      \* children started by a thread other than the main one
  holds,       \* [Tree -> SUBSET Pipes]: write ends held
  rc,          \* exit status of Proc: "none", "zero", "other", "killed"
  buf,         \* the chunk written to the output pipe and not read, "none" or its kind
  marks,       \* completion markers written and not read
  count,       \* chunks of output read
  tail,        \* kind of the output kept for the receipt
  completion,  \* markers read
  open,        \* pipes registered with the selector
  owned,       \* descendants to terminate
  sampled,     \* history: every process that any sample showed
  clock,       \* "early" or "late": the deadline
  settle,      \* pipe_deadline: "none", "set", "past"
  status,      \* status of the result
  receipt      \* the line written to stdout

tree == <<st, parent, hidden, holds, rc, buf, marks>>
vars == <<req, pc, tree, count, tail, completion, open, owned, sampled, clock,
          settle, status, receipt>>

\* A chunk of output is plain, or wide: its characters are escaped in the receipt
\* (_canonical), which so outgrows its 16 KiB although the tail is 4 KiB.
ASSUME OutputAssumption == Outputs \subseteq {"plain", "wide"}

NoReceipt == [status |-> "none", passed |-> "none", failure_class |-> "none"]

Init ==
  /\ req \in Inputs
  /\ pc = "read"
  /\ st = [p \in Tree |-> "new"]
  /\ parent = [d \in Desc |-> Driver]
  /\ holds = [p \in Tree |-> {}]
  /\ rc = "none" /\ buf = "none" /\ marks = 0 /\ count = 0 /\ completion = 0
  /\ hidden = {} /\ tail = "plain" /\ open = {} /\ owned = {} /\ sampled = {} /\ clock = "early" /\ settle = "none"
  /\ status = "ok" /\ receipt = NoReceipt

(***************************************************************************)
(* The candidate's processes (external).                                   *)
(***************************************************************************)
Running == {p \in Tree : st[p] = "run"}

\* A process ends; its children are adopted by the driver.
Die(dead) ==
  /\ st' = [p \in Tree |-> IF p \in dead THEN "zombie" ELSE st[p]]
  /\ parent' = [d \in Desc |-> IF parent[d] \in dead THEN Driver ELSE parent[d]]
  /\ hidden' = {d \in hidden : parent[d] \notin dead}
  /\ holds' = [p \in Tree |-> IF p \in dead THEN {} ELSE holds[p]]

\* A fork keeps the descriptors of its parent, which it may then close.  The main
\* thread starts it, or another one.
Fork(p, d, thread) ==
  /\ st[p] = "run" /\ st[d] = "new" /\ \A e \in 1..(d - 1) : st[e] # "new"
  /\ st' = [st EXCEPT ![d] = "run"]
  /\ parent' = [parent EXCEPT ![d] = p]
  /\ hidden' = IF thread = "other" THEN hidden \cup {d} ELSE hidden
  /\ holds' = [holds EXCEPT ![d] = holds[p]]
  /\ UNCHANGED <<rc, buf, marks>>

\* The thread that started d ends; its children go to the main thread.
ThreadEnds(d) ==
  /\ d \in hidden /\ parent[d] \in Running
  /\ hidden' = hidden \ {d}
  /\ UNCHANGED <<st, parent, holds, rc, buf, marks>>

Write(p, kind) ==
  /\ st[p] = "run" /\ "output" \in holds[p] /\ buf = "none"
  /\ buf' = kind
  /\ UNCHANGED <<st, parent, hidden, holds, rc, marks>>

\* The marker is a constant and the descriptor is inherited: the last lines of the
\* harness write it, and so may any code that holds the descriptor.  A second
\* marker stands for whatever else spoils the first (bound: two).
Mark(p) ==
  /\ st[p] = "run" /\ "completion" \in holds[p] /\ marks + completion < 2
  /\ marks' = marks + 1
  /\ UNCHANGED <<st, parent, hidden, holds, rc, buf>>

Close(p, pipe) ==
  /\ st[p] = "run" /\ pipe \in holds[p]
  /\ holds' = [holds EXCEPT ![p] = @ \ {pipe}]
  /\ UNCHANGED <<st, parent, hidden, rc, buf, marks>>

\* Of the exit statuses only that of Proc is looked at.
Exit(p, code) ==
  /\ st[p] = "run" /\ (p = Proc \/ code = "zero")
  /\ Die({p})
  /\ rc' = IF p = Proc THEN code ELSE rc
  /\ UNCHANGED <<buf, marks>>

\* A zombie is waited for by its own parent, never by the driver.
Reap(d) ==
  /\ st[d] = "zombie" /\ parent[d] \in Running
  /\ st' = [st EXCEPT ![d] = "gone"]
  /\ parent' = [parent EXCEPT ![d] = Driver] /\ hidden' = hidden \ {d}
  /\ UNCHANGED <<holds, rc, buf, marks>>

Candidate ==
  /\ \/ \E p \in Tree, d \in Desc, thread \in {"main", "other"} : Fork(p, d, thread)
     \/ \E d \in Desc : ThreadEnds(d)
     \/ \E p \in Tree, kind \in Outputs : Write(p, kind)
     \/ \E p \in Tree : Mark(p)
     \/ \E p \in Tree, pipe \in Pipes : Close(p, pipe)
     \/ \E p \in Tree, code \in {"zero", "other", "killed"} : Exit(p, code)
     \/ \E d \in Desc : Reap(d)
  /\ UNCHANGED <<req, pc, count, tail, completion, open, owned, sampled, clock, settle, status, receipt>>

\* Time passes: the deadline of the candidate, then that of its pipes.
Tick ==
  /\ \/ pc \notin {"read", "spawn"} /\ clock = "early" /\ clock' = "late" /\ UNCHANGED settle
     \/ settle = "set" /\ settle' = "past" /\ UNCHANGED clock
  /\ UNCHANGED <<req, pc, tree, count, tail, completion, open, owned, sampled, status, receipt>>

(***************************************************************************)
(* The driver.                                                             *)
(***************************************************************************)
\* Every check of the request holds, and it names something to run.
ValidateRequest(r) ==
  /\ r.wrong = {}
  /\ r.test # "absent" \/ r.entry_point # "absent"

ErrorReceipt == [status |-> "grader_error", passed |-> "none", failure_class |-> "HARNESS_BLOCK"]

ReadRequest ==
  /\ pc = "read"
  /\ IF ValidateRequest(req)
     THEN pc' = "spawn" /\ UNCHANGED receipt
     ELSE pc' = "done" /\ receipt' = ErrorReceipt
  /\ UNCHANGED <<req, tree, count, tail, completion, open, owned, sampled, clock, settle, status>>

Spawn ==
  /\ pc = "spawn"
  /\ st' = [st EXCEPT ![Proc] = "run"]
  /\ holds' = [holds EXCEPT ![Proc] = Pipes]
  /\ open' = Pipes
  /\ pc' = "loop"
  /\ UNCHANGED <<req, parent, hidden, rc, buf, marks, count, tail, completion, owned, sampled, clock, settle, status, receipt>>

\* Popen raises.  Nothing to terminate.
SpawnFails ==
  /\ pc = "spawn"
  /\ status' = "grader_error"
  /\ pc' = "verdict"
  /\ UNCHANGED <<req, tree, count, tail, completion, open, owned, sampled, clock, settle, receipt>>

\* The processes below Proc that /proc/<pid>/task/<pid>/children shows, so the
\* children of main threads only; the walk is taken as one step.
Children ==
  LET Below(S) == {d \in Desc \ hidden : st[d] # "gone" /\ parent[d] \in S}
      one == Below({Proc})
  IN  FoldSet(LAMBDA d, S : S \cup Below(S), one, Desc)

\* Mutant: a round forgets what the rounds before it showed.
SeenNow == Children
\* Every round of the loop adds to the processes seen before.
Seen == owned \cup Children
Sample == owned' = Seen /\ sampled' = sampled \cup Children

Alive(pids) == {p \in pids : st[p] \in {"run", "zombie"}}

Exited == st[Proc] # "run"     \* proc.poll() is not None

TimedOut ==
  /\ pc = "loop" /\ clock = "late" /\ ~Exited
  /\ Sample
  /\ status' = "timeout" /\ pc' = "term"
  /\ UNCHANGED <<req, tree, count, tail, completion, open, clock, settle, receipt>>

\* The candidate is gone and its pipes had their time: whoever still lives or
\* holds an output pipe was left behind.
\* Mutant: a pipe still open is not held against the candidate.
RetainedProcess == Alive(Seen) # {}
Retained == Alive(Seen) # {} \/ "output" \in open

Settled ==
  /\ pc = "loop" /\ Exited /\ settle = "past"
  /\ Sample
  /\ IF Retained
     THEN status' = "failed" /\ pc' = "term"
     ELSE pc' = "verdict" /\ UNCHANGED status
  /\ UNCHANGED <<req, tree, count, tail, completion, open, clock, settle, receipt>>

\* Mutant: the time the pipes get never starts.
ArmNever == settle
ArmSettle == IF Exited /\ settle = "none" THEN "set" ELSE settle

GoOn ==
  /\ pc = "loop" /\ IF Exited THEN settle # "past" ELSE clock = "early"
  /\ Sample
  /\ settle' = ArmSettle
  /\ pc' = "select"
  /\ UNCHANGED <<req, tree, count, tail, completion, open, clock, status, receipt>>

Closed(pipe) == \A p \in Tree : pipe \notin holds[p]

\* Every ready pipe is read once: a chunk, or its end.
Select ==
  /\ pc = "select"
  /\ IF "output" \in open /\ buf # "none"
     THEN count' = count + 1 /\ tail' = buf
     ELSE UNCHANGED <<count, tail>>
  /\ completion' = completion + (IF "completion" \in open THEN marks ELSE 0)
  /\ buf' = IF "output" \in open THEN "none" ELSE buf
  /\ marks' = IF "completion" \in open THEN 0 ELSE marks
  /\ open' = open \ ({p \in {"output"} : buf = "none" /\ Closed(p)}
                     \cup {p \in {"completion"} : marks = 0 /\ Closed(p)})
  /\ IF count' > MaxChunks
     THEN status' = "output_limit" /\ pc' = "term"
     ELSE UNCHANGED status /\ pc' = IF Exited /\ open' = {} THEN "verdict" ELSE "loop"
  /\ UNCHANGED <<req, st, parent, hidden, holds, rc, owned, sampled, clock, settle, receipt>>

\* The supervisor itself fails.
SupervisorFails ==
  /\ pc = "select"
  /\ status' = "grader_error" /\ pc' = "term"
  /\ UNCHANGED <<req, tree, count, tail, completion, open, owned, sampled, clock, settle, receipt>>

\* SIGTERM to the group and to every process ever sampled, who may ignore it;
\* membership of the group is the candidate's choice.
TermSignal ==
  /\ pc = "term"
  /\ \E dead \in SUBSET Running :
       /\ Die(dead)
       /\ rc' = IF Proc \in dead THEN "other" ELSE rc
  /\ pc' = "kill"
  /\ UNCHANGED <<req, buf, marks, count, tail, completion, open, owned, sampled, clock, settle, status, receipt>>

\* Mutant: only the candidate process is killed.
KillProcOnly == {Proc}
KillTargets == owned \cup {Proc}

\* After the grace period, SIGKILL to the targets, and wait for Proc.
KillSignal ==
  /\ pc = "kill"
  /\ Die(KillTargets \cap Running)
  /\ rc' = IF st[Proc] = "run" THEN "killed" ELSE rc
  /\ pc' = "verdict"
  /\ UNCHANGED <<req, buf, marks, count, tail, completion, open, owned, sampled, clock, settle, status, receipt>>

FinalStatus ==
  IF status # "ok" THEN status
  ELSE IF rc # "zero" THEN (IF rc = "killed" THEN "oom" ELSE "failed")
  ELSE IF completion # 1 THEN "failed" ELSE "ok"

\* A receipt that outgrows its bound is replaced by the driver's own error.
Verdict ==
  /\ pc = "verdict"
  /\ receipt' = IF tail = "wide" THEN ErrorReceipt
                ELSE [status |-> FinalStatus,
                      passed |-> IF FinalStatus = "ok" THEN "yes" ELSE "no",
                      failure_class |-> CASE FinalStatus = "ok" -> "none"
                                          [] FinalStatus = "grader_error" -> "HARNESS_BLOCK"
                                          [] OTHER -> "MODEL_REJECT"]
  /\ pc' = "done"
  /\ UNCHANGED <<req, tree, count, tail, completion, open, owned, sampled, clock, settle, status>>

Drive == \/ ReadRequest \/ Spawn \/ SpawnFails \/ TimedOut \/ Settled \/ GoOn \/ Select
         \/ SupervisorFails \/ TermSignal \/ KillSignal \/ Verdict

Done == pc = "done" /\ UNCHANGED vars

\* The verdict looks at nothing that moves; after it the container is torn down.
Next == (pc \notin {"verdict", "done"} /\ Candidate) \/ Tick \/ Drive \/ Done

Spec == Init /\ [][Next]_vars

\* The driver is scheduled and its clock advances; the candidate need not.
Fairness == WF_vars(Drive) /\ WF_vars(Tick)

(***************************************************************************)
(* Properties.                                                             *)
(***************************************************************************)
\* A pass is earned (_run_candidate), whatever the candidate's processes do and in
\* whatever order: the request was valid, the candidate process ended by itself
\* with status zero, all the output there is was counted against the limit, and
\* nobody left behind can still write some.  Processes that hold no output pipe
\* may survive a pass: the loop ends on the last end of file without looking at
\* them.  Who wrote the completion marker is not known to the driver.
PassIsEarned ==
  receipt.passed = "yes" =>
    /\ ValidateRequest(req)
    /\ rc = "zero"
    /\ buf = "none" /\ count <= MaxChunks
    /\ \A p \in Running : "output" \notin holds[p]

\* When the driver gives up on a candidate (timeout, output limit, something
\* left behind, its own failure), no process that any sample ever showed is
\* still running when the receipt is written, also one that a later sample no
\* longer shows because it was orphaned, whoever adopted it and whatever
\* signals it ignores (_run_candidate, _terminate).
SampledAreKilled ==
  pc \in {"verdict", "done"} /\ status # "ok" => (sampled \cup {Proc}) \cap Running = {}
=============================================================================
