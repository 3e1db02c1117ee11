# A TLA+ verification project for the SM121 SGLang release

The repository packages one GPU inference server: a pinned SGLang with a large
patch, a container image, a launcher that owns the server's lifetime, and the
clients and scripts that measure it. This directory models the parts whose
correctness depends on order, failure and concurrency, checks them with TLC on
small instances and proves the central invariants with TLAPS.

## 1. The system

| Part | Code | State it keeps | Operations | Module |
|---|---|---|---|---|
| Owned launcher | `scripts/guard.py` | state directory with `launch-record.json`, cidfile, telemetry, logs; the cache lease (`flock`); local `rc`, `cid`, event | `run`: admission, create, start, watch, clean up, close the record | `Guard`, `Watchdog` |
| Operator stop | `scripts/guard_stop.py` | none of its own | read a selected record, `stop_owned` | `Guard` |
| Docker daemon, server container | external | containers, requests in progress | create, start, inspect, stop | `Guard` |
| Prepared PLE table | `patches/sglang.patch` (`prepare_cache`, `open_prepared_table`), called from `runtime/entrypoint.py` | table file, `prepared.json`, lock file, temporary copies | verify the source, reuse, adopt or copy the table, publish the receipt, map the table | `PleCache` |
| Host preflight | `scripts/preflight.py` | none | architecture, memory, GPU, mounts, disk | `Preflight` |
| Checkpoint verification | `scripts/verify_files.py`, `guard.check_receipt` | verification receipt | hash every file, write and check the receipt | `Receipt`, `Attest` |
| Checkpoint audit | `scripts/audit_checkpoint.py` | none | validate documents, index, headers and tensor families | `Audit` |
| Entrypoint and profile contract | `runtime/entrypoint.py` | environment of the server | validate the profile, prepare the cache, exec the server | `PleCache` (the handoff) |
| HTTP/SSE client | `scripts/http_client.py` | decoder buffer, stream result | decode, classify, request | `SseDecoder`, `StreamClient`, `Niah` |
| NIAH runner | `scripts/niah.py` | manifest, output rows | build and freeze cases, run them, retry infrastructure errors, summarise | `Niah` |
| Q200 sandbox driver | `docker/q200_sandbox_driver.py` | processes and pipes of a candidate | check the request, run, supervise, terminate, report | `Sandbox` |
| Q200 admission | `scripts/q200_single_gpu.py` | admission lock, leases, `failed` | admit and release one row at a time, exit status | `Admission` |
| Captures and benchmarks | `scripts/runtime_context.py`, `freeze_benchmark.py`, `bench_real.py`, `vision_bench.py`, `run_upstream_round.py`, `upstream_capture.py` | context, manifest, row files | capture a server, freeze, measure, bind rows to the manifest | `Campaign` |
| Comparison and promotion | `scripts/compare.py` | none | gates over two manifests and their rows | `Compare` |
| ViT graph cache | `patches/sglang.patch` | LRU of captured graphs | capture, replay, retire | none |
| Build and release | other files under `scripts/` | files they write | one pass from inputs to a file | none |

Interactions. A guard holds the lease of one cache directory for the life of
its launch, talks to the daemon only through `docker` client processes with
timeouts, and leaves a record by which `guard_stop` can find the container.
Guard and guard_stop never talk to each other: they meet in the daemon and in
the record file. Inside the container the entrypoint prepares the PLE table and
hands the digest of its receipt to the server through the environment; sessions
meet in the cache directory only. The scripts around the server meet in files:
a receipt names the stats of a tree that was hashed, a manifest names the server
it was frozen for, and every row names its manifest. Whether such a document
still describes what is there when it is used is the question of half of the
modules.

What is hard. A guard may be killed between any two steps while its container
lives on; a docker client killed by its timeout leaves a request behind which
the daemon may carry out later; the lease is dropped by the kernel on death; a
server that still boots is invisible to the GPU check; the table and the
checkpoint may change between a check and the use of what was checked; several
files are replaced one after the other and a crash may fall in between; the
server may be restarted with another profile between two requests of one
benchmark, or between a capture and its second look; a sandboxed candidate forks,
orphans its children and writes while the driver samples it; a worker thread has
read a flag that another one sets before it takes the lock.
`PROJECT.json` lists these hazards with their lines and the properties aimed at
them.

## 2. Modules

`Guard` models `guard.run` and `guard_stop.main` around the daemon. Each
attempt is a process; `pc` is the place in `run`, `rc`, `cid` and `record` are
its local variables, `disk` the record file of a state directory, `owner` who
made the directory, `lock` the lease. Every early return, exception path and
docker call is a step; a docker call is three steps (issue, daemon, answer),
with a failing answer and a timeout as alternatives. `sig` is the event and
number that the handler stores; before the handlers are installed a signal
kills the process (`Kill`). Values that only decide whether a check passes
(arguments, JSON shapes, image identity, hashes) are a choice between going on
and the code's refusal. A create client that fails may have lost the answer of a
request that was carried out, before or after; one that succeeds may print an ID,
something else or nothing. `ended` records at whose request a server stopped. `watched` counts one-second rounds and only when a
deadline is set. The daemon side (`DaemonCreate`, `DaemonStart`, `DaemonStop`,
`DaemonDrop`, `ServerReady`, `ServerExits`) is external. `PortFree` stands for
the fixed published port: the daemon refuses a second start while another
server holds it. That there is one server at a time follows from that refusal alone,
whatever `guard.py` does, so no property claims it of the launcher.

`EndedWell` says when a server ended well: with exit code 0, not for lack of memory,
and not because a guard asked for it. An operator's stop counts by its exit code, as
in the code: the watch loop reads the exit code and cannot tell who stopped the
container (`guard.py:562-571`).

`OwnedServer` is the abstract specification of a launch, for whoever reads the
state directories and uses the server: an account per directory, opened in an empty
one and closed at most once, and a server that starts at most once, alone, after its
account was opened and never after it says STOPPED. `Guard!LaunchIsOwned` is the
refinement: the account is the nonce and status on disk, the life of the server is
what the daemon says of the container. A FAILED account promises less, because a
start whose client gave up may still be carried out.

`Watchdog` is the watch loop in detail: the readings, the count of low samples,
the half floor, the unknown reading that fails closed, the deadline, and the
telemetry log against which the verdicts are judged. The properties state both floors
themselves (`Scarce`, `Desperate`) and not by the tests of the loop. `Guard` leaves the verdict
of a sample open, so whatever holds in `Guard` holds with every watchdog.

`PleCache` models `prepare_cache` and `open_prepared_table` for any number of
container sessions that share a cache directory. A file is its inode, one
number for its timestamps, and whether its bytes hash to what the plan demands.
A stat and a hash are separate steps wherever the code reads the file in
between. Assumptions: every change of a file changes its timestamps; inside the
cache directory, whose owner and mode the code checks, a foreign writer changes
the table in place and does not replace it; device and size do not vary; a
receipt is determined by the stats it holds, so comparing receipts stands for
comparing digests. An inode number is reused after its file is gone, as file
systems do.

`SseDecoder` is the incremental decoder of `http_client.py` over bytes: the
buffer, the held CR, the pending lines, `close` at EOF. Its reference
(`EventsOf`) defines lines and events of a whole stream by positions, without a
buffer: an event is the data lines between two empty ones, taken in their order
(`InOrder`). `StreamClient` is one streaming request above it: blocks read from the
response, events handed over, every data line folded into the result, the
verdict, and `row_validity`. A line has a kind (an object with content, a usage
object, something that is not JSON, nothing at all, an object whose choices raise,
...), its number in the stream, and says whether its event ends with it. A raw event
is the number of its line, so a lost, repeated or misplaced payload shows. An empty
line alone in an event is a payload that does not parse, and is skipped among others
(`http_client.py:593` and `597-603`), so `single` keeps which of the two the event at
hand is. The response's `read(n)` is external:
it returns when `n` bytes are there or the response has ended.

`Niah` is the needle runner: construction of a case in token space, the frozen
manifest, rows, retries and summary, for several runners given the same paths. The
cases a runner still has to run are a set of positions in the order of the cases.
It also has the non-streaming completion request of `http_client.py` and the check
of the model listing.

`Receipt` is `verify_files`, `write_receipt` and both checks of a receipt, one
step per lstat, hash and second lstat, beside a tree that anybody changes. A stat
is a number that is new after every change (ctime); the directory has one too, which
is new when a name in it comes, goes or is replaced. The code visits files in
sorted order, the model in any order. `Attest` is the abstract specification of
a check: one state that says whether the tree matches, and a pass only if it
matched when the check began. `Receipt!CheckIsAttest` is the refinement; it is
what allows `Guard` to take the check as one step. What has to match is the files of
the receipt: the recorded `root_stat` is compared by nobody (`receipt_root`).

`Preflight` is the serve phase of `preflight.py` over a host that is right or
wrong in one respect (a `statvfs` that fails is one), the longest-prefix choice of the mount, and the disk charge,
composed with the space `_preflight_space` and `_materialize` take on the same
disk: launches follow each other, are killed while they copy, and others write.
`_mount_for` keeps the first of two mounts with the same point, where the kernel
shows the last; `PassIsSafe` names that exception (`Overmounted`).

`Audit` is the structural audit as a predicate on the parsed documents, the index
and the shard headers: `AuditCheckpoint` conjoins one operator per validator.
Its actions edit a contracted checkpoint (a tensor moved, renamed, resized,
removed, shifted, ...). Sorted spans are an order of them that does not decrease
(`SortedSpans`). `AdmittedIsWhole` is the reference it is compared with.

`Sandbox` is the driver beside a candidate whose processes fork from any thread,
close descriptors, ignore SIGTERM, write, orphan and exit between any two of its steps.
A sample of the process tree, the poll loop, EOF accounting, the limit on
output, the deadline, the two rounds of termination and the receipt are steps of
their own. The driver is a subreaper that waits for no adopted child, so an
orphan that exits stays a zombie. A sample shows the children of main threads only
(`q200_sandbox_driver.py:195`): those of another thread are `hidden` until that thread
ends. Any process that holds the completion descriptor may write the marker, which is
a constant that all of them inherit (`:269`, `:275`, `:306`); the text of the program
and of its test is the candidate's business. Output is plain or wide: wide output is
escaped in the receipt, which then outgrows its bound (`:478-482`).

`Admission` is `SingleGpuAdmission.request` and `main`; the toolkit that calls
it from its threads and grades the rows is external. A release whose write raises
leaves no lease on disk; the assumption about the toolkit is that it counts no row as
answered whose admission raised, on entry or on release.

`Compare` is `compare.py` gate by gate as a predicate on manifests and rows. An
element of a sorted list is its order statistic (`Kth`), so medians and percentiles
need no sorting;
`Campaign` is everything that produces them: captures between two inspections,
freezing, lanes with an epoch check before and after, rounds of upstream requests
with what the wire showed, output files that are not overwritten, a round run
again, and an operator who mixes files up. `served`, the epochs that answered a
row, is known to the model only. In a profile, `mode` stands for the mode
together with its speculative steps.

`MCGuard`, `MCPleCache` and `MCStreamClient` instantiate single modules for TLC.
`MCHost` (preflight, audit, watchdog, campaign), `MCReaders` (receipt, decoder,
client) and `MCQuality` (sandbox, admission, needle runner) put modules that
share no variables under one run each: `part` chooses the module that a behaviour
is of and the others keep one initial state. They save runs and claim no
interaction. `GuardProofs`, `GuardOutcomeProofs`, `PleCacheProofs`, `ReaderProofs` (decoder,
receipt), `StreamClientProofs`, `HostProofs` (watchdog, preflight, audit),
`CampaignProofs` and `QualityProofs` (needle runner, sandbox, admission) hold the
theorems.

History variables record what happened for the properties: `drifted`, `uncertain`
and the field `by` of `ended` in `Guard`, `disturbed` and `slipped` in `PleCache`,
`sent`, `first` and `broken` in `StreamClient`, `start` and `rootStart` in `Receipt`,
`taken` in `Preflight`, `sampled` in `Sandbox`, `late` in `Admission`, `served` in
`Campaign`. No other variable
depends on them.

## 3. Runs

| Run | Instance | What it shows |
|---|---|---|
| `guard_lease` | two guards, own directories, signals, kills, drift | `RunningIsRecorded`: a running server is on record wherever its guard died. `LeaseCoversServer`: a server without a lease is an announced exception. `DriftNeverServed` |
| `guard_operator` | one guard, one operator, one foreign container, two signals, fairness | `SuccessIsEarned`: a guard that stopped its own server reports no success, whatever the server's exit code. `ForeignUntouched`, `SignalEndsLaunch` |
| `guard_deadline` | two guards given one directory, one operator, no signal, deadline of two rounds, fairness | `EvidenceKept`, `DeadlineEndsLaunch`, `LaunchIsOwned` (refinement of `OwnedServer`) |
| `guard_create` | one guard | violated: `UncertainCreateResolved` |
| `guard_stop_race` | one guard, one operator | violated: `StopIsFinal` |
| `ple_cache` | three sessions, two inodes, two environment changes | `MappedIsVerified`, `ReceiptHonest`, `PublishesGood`, `UndisturbedSucceeds`, `DriftNeverCopies` |
| `host` | every host one probe away from a good one with six mount tables, three launches; every checkpoint two edits away from the contracted one; floor 8, readings 3, 4, 7, 8, limit 5, deadline 6; a campaign with four kinds of server, two epochs and one upset | `PassIsSafe`, `SpaceAgreed`, `AdmittedIsWhole`, `NoBreachIgnored`, `NoFalseTrip`. `PassIsOneEpoch`: every row of a promotion was answered by the server its manifest describes. `PassIsFair` |
| `readers` | two files, two changes, two verifications; all streams of up to six bytes in all chunkings; responses of up to five lines of eleven kinds, in any events, blocks of two lines, cut anywhere | `ReceiptTruthful`, `CheckIsAttest` (refinement). `ChunkingIrrelevant`: the events are those of the whole stream. `EventsPrompt`: none is late and none is taken back. `ErrorIsExact`, `ValidRowIsEarned`, `TokenClock`. `PayloadsKept`: every object and every payload that does not parse is kept once and in order |
| `quality` | a candidate that forks twice from any thread; two workers and three rows; two needle runners, two cases, commands and answers that are wrong in one respect; fairness of the driver | `PassIsEarned`. `SampledAreKilled`: nothing that any sample showed outlives a verdict that is not ok. `DriverEnds`, `ScoreIsCovered`, `LateRowsBounded`, `CaseExact`, `ScoredOnce`, `OkIsEarned` |
| `stream_ttft` | one streamed response, four kinds of lines | violated: `TtftIsFirstFragment` |
| `stream_kept` | one streamed response, four kinds of lines | violated: `NothingDiscarded` |
| `receipt_root` | two files, one change, one verification | violated: `RootCompared` |

Bounds. Two guards are enough for one to die and another to take its lease; an
attempt creates at most one container, so a third would only repeat the second.
`guard_operator` has one operator because operators share nothing but
containers. Readings lie on both sides of the floor and of its half, and seven
rounds (`MaxRounds`) pass the deadline of six seconds and exceed the limit of
five. In `ple_cache` two changes allow one to go unnoticed and one to follow,
two inodes allow a number to be reused, and three sessions allow a crash, a
recovery and a concurrent reader. Sessions and inodes are interchangeable
there, and the run checks no liveness, so symmetry is sound. Two files and two
changes let a file change after it was hashed while another one still is to be
visited, and let the check meet the tree of one verification with the receipt of
another. Three launches let a killed copy be followed by one that finds its leftover
and one that finds a table. Two edits of a checkpoint allow one to hide another.
Six bytes hold an event, a CRLF pair that ends a line or an event and is cut in
two, and a character in two bytes. Two epochs are one server per side, so every
restart inside a side is one that has to be noticed; an upset is a bad answer, a
killed producer, a lane begun again or a file mixed up. Two forks allow a child
and a grandchild, or two orphans, and a sample between the two. What a candidate does
besides is bounded once it has forked twice: `MaxEffort` (2) counts markers, children
of other threads and descriptors closed by processes that run, and wide output twice;
before that nothing but two markers (`Mark`: one, and one too many) bounds it. No step
of the driver adds to the count, so none is kept from being taken. Two workers are
what the toolkit starts at most. For the client a valid row takes four lines, so five
(`MaxSent`) leave room for one that disturbs it; a block of two lines can hold the end of one event and the start of the next, or lines after
`[DONE]`, and an event may span blocks. `Budget` bounds the weight of a response: a
line weighs one, one more if its event goes on after it and one more if a healthy
server does not send it. So there are responses of five lines with one oddity, and
shorter ones with several. `MaxClock` lets the server be late once. Deadlock is
checked in every run of `MCGuard`, `MCPleCache` and `MCStreamClient`: there the
only state without other steps is the one in which every process has ended. The
merged runs do without: a campaign is over when its verdict is there, an audit when
its edits are used up.

Fairness. `FairSpec` has weak fairness on the steps of each guard and nothing
else: a guard that is not killed goes on, since every docker call and every
wait in `guard.py` has a timeout. Nothing is assumed of the daemon, the server
or the operator. A killed guard has ended. `Sandbox!Fairness` has weak fairness on
the steps of the driver and on its clock, both of which the kernel provides, and
none on the candidate: `DriverEnds` holds for one that hangs, writes for ever or
keeps a silent process on a pipe.

Five runs end in a counterexample. Each states a sentence of the repository; `PROJECT.json` quotes it.

- `guard_create`: a `docker create` client killed by its timeout can leave an
  empty cidfile; the guard reads an empty ID, neither cleans up nor records an
  unknown outcome.
- `guard_stop_race`: `guard_stop` between create and start reports `STOPPED`,
  then the guard starts the container.
- `stream_ttft`: the block read of 8192 bytes waits until it is full or the
  response ends, so the time to first token of a stream is the time of its
  first full block, or of its end.
- `stream_kept`: a payload that is JSON but not an object is neither counted nor kept,
  so a stream that fails has lost it. It is the exception `scalar` of `PayloadsKept`.
- `receipt_root`: the receipt records the stat of the directory, and no check compares
  it: a file that comes into the verified directory goes unnoticed.

Other disagreements are modelled, and are exceptions of a property or outside of all.

- A start request that outlives its client starts the server after cleanup has found
  it stopped and the guard has finished, although `guard.py:621-622` says that no owned
  request is abandoned: `uncertain` in `LeaseCoversServer`, and the FAILED account of
  `OwnedServer`.
- On adoption of a table without a receipt, and after publication, the stat that goes
  into the receipt is read after the content check; a write between the two is served,
  although `docs/build.md:89` says that concurrent mutation fails closed: `slipped` in
  `MappedIsVerified` and `ReceiptHonest`. The warm path has no such window.
- Output of control or non-ASCII characters is escaped to six times its size, the
  sandbox receipt outgrows 16 KiB, and a candidate's result, good or bad, becomes a
  block of the harness (`Verdict`), which the comment at `q200_sandbox_driver.py:479`
  calls a driver defect and not a candidate result. No property is about it.

Further exceptions contradict no promise.
A process that holds no output pipe may outlive a pass (`PassIsEarned`). A pass says
that the completion marker arrived once and the process exited with 0, not that the
tests wrote the marker: the driver cannot know who did. A child that no sample showed,
because another thread had started it or because it came and was orphaned between two
samples, may survive (`SampledAreKilled`). A row
whose worker had passed the test of `failed` before another release failed is
still admitted (`LateRowsBounded` bounds their number). A temporary or stale
table in the cache directory makes the preflight charge nothing for the copy that
preparation then refuses (`SpaceAgreed`). MTP expert names beyond the contract in
another shard, and the set of unquantized tensors, are left to the hashes
(`AdmittedIsWhole`).

## 4. Proofs

All theorems hold for every value of the constants under the named assumptions of
the modules, which TLC evaluates in the runs that extend them: disjoint identities,
natural numbers, 0 among the exit codes, kinds of lines and of output as the modules
name them, and

- in `Preflight`, that a mount table is a sequence of points and filesystems, and
  that the reserve of the preparation is no larger than that of the preflight;
- in `Audit`, that the names of tensors are finitely many and that a stray name
  matches the pattern of a quantized family;
- in `Compare`, that the number of repeats is odd (it is 5: `compare.py:629`, and
  `bench_real.py:243` refuses another number in a bound run), that the vision cases are
  finitely many and at least two, and that the upstream lanes are none of the other two;
- in `Campaign`, that the order of lanes lists the lanes;
- in `Niah`, that the cases are listed once each, that the server keeps at least
  `MAX_TOKENS` free, that needles and filler are not empty and hold no slot, and that
  the depths of a case do not decrease along its codes.

Each safety property is a consequence of an inductive invariant, which TLC checked
before it was proved. The bullets say what it adds and why the property alone is not
inductive.

The launcher.

- `GuardProofs!TypeCorrect`: the type invariant, inductive as it stands; no run repeats it.
- `GuardProofs!RunningRecorded`: a container may be started only by a start request,
  which is issued only after the ID was saved. `RecordInv` adds who owns a directory
  (`DirInv`: past `mkdir`, an attempt owns its directory and nobody else writes
  there), what a nonce on disk means (`NonceInv`), what has not been started
  yet (`NotStartedInv`), the ID between create and save (`SaveCidInv`), and that
  a start request or a started container implies a record (`RecordedInv`).
- `GuardProofs!LeaseCovers`, from `LeaseInv`: a guard between lock and end holds the
  lease (`HolderInv`), a start request is pending only while its client waits or after
  it was given up (`PendingInv`), and a guard past cleanup has a settled container
  (`SettledInv`).
- `GuardOutcomeProofs!ForeignSafe`: a stop is carried out when its client may be long
  gone, so the invariant is about requests: none is for a container that no guard
  made (`StopReqInv`).
- `GuardOutcomeProofs!DriftNotServed`: a guard that has not asked for a start has
  neither a running server nor a request for one (`ArmedInv`), hence one that
  drifted before its recheck never gets to `start` (`DriftInv`).
- `GuardOutcomeProofs!EvidenceIsKept`, an action property: a guard writes only in a
  directory it made (`DirInv`), its record is open until the final save (`OpenInv`),
  and a closed record on disk is of a guard that has ended (`ClosedInv`).
- `GuardOutcomeProofs!SuccessEarned`: before cleanup the return code is not 0
  (`UndecidedInv`); a guard that watches has a container that began, and no start or
  create of it is pending (`CreatedInv`, `BegunInv`), so what its inspection reads is
  final (`EarnedInv`); until it has decided, no stop of its container comes from a guard,
  neither a request on its way (`AskedInv`) nor one carried out (`UnstoppedInv`); and a record says STOPPED only if the code is 0 (`StoppedInv`).
- `GuardOutcomeProofs!LaunchOwned`: `Spec => LaunchIsOwned`, the refinement of
  `OwnedServer`. `OnceInv`: a server has not begun before its guard asks for the
  start nor while that request is open, and by then no create is on its way that
  would put a fresh container in its place. `BookInv`: a directory is empty until its
  owner's first save, and from then on the account is open, on disk and in memory,
  until the last step. Then the first save is `Open`, the save of the ID a stutter,
  the last save `Close`, with STOPPED only for a server that ended well
  (`EarnedInv`), and the daemon's start, however late, is `Start`: the record is
  there (`RecordedInv`) and does not say STOPPED (`StoppedInv`). The proof is the
  reason why `guard.run` must not repeat a start that timed out.

The prepared table.

- `PleCacheProofs!TypeCorrect`, `ReceiptIsHonest`, `ServedIsVerified`,
  `PublishedIsGood`: the inductive invariant `CacheInv` says, step by step, what
  a session knows: timestamps never exceed the clock, so a file whose stat has
  not moved since it was hashed has not changed; a stat held for a receipt
  vouches for the table, also after another session replaced it.
- `PleCacheProofs!DriftIsReused`: whoever copies over a table that its receipt
  fits has read bad bytes there, and nothing but a publication under the lock makes a
  table good again (`CopyInv`).
- `PleCacheProofs!CalmSucceeds`: `CalmInv` says what a session that nothing disturbed
  can rely on at each step: the source is as it was (`SourceCalm`), the table too
  (`TableCalm`), and from the handoff on nobody has prepared anything else and whoever
  prepares now only checks the table again (`ServerCalm`), which is why a second
  session does not pull the receipt from under a server that opens it.

The checkpoint.

- `ReaderProofs!Truthful`: `VerifierInv` says that every stat is at most the number
  of changes plus one, so a stat never comes back (`StatInv`), that each of the three
  documents around (rows so far, published, read by a check) vouches for the files that
  still have the recorded stat (`TruthInv`), and that what was hashed is what is there
  while the first stat stands (`HashedInv`).
- `ReaderProofs!ChecksAttest`: `ReceiptSpec => CheckIsAttest`, the refinement of
  `Attest`. `CheckerInv`: a check that began on a tree that did not match has such a
  file among those it still has to visit; it cannot be mended under its old stat.
- `HostProofs!AdmittedWhole`, for any names, contract and number of edits. The
  invariant `CheckpointInv` only says what an edit cannot do (unknown names, offsets
  that are no numbers); the rest is what the audit means. `SpansTile`: sorted spans of
  which each starts where the one before ended, and one of which ends at the size,
  cover every byte once. `NoStrayPle`: names of a family that are as many as the
  contracted ones and contain them are the contracted ones.

The streaming client.

- `ReaderProofs!StreamDecoded` and `DecodedInTime`, for streams of any length and any
  chunks: `DecoderInv` says that the decoder stands at a place of the stream
  (`Held`, `Tracks`): what it has consumed ends there, its pending lines hold the data
  of the incomplete event, and its events are those that ended by then. It says so of
  the stream and of the stream with the two line ends that `close` supplies, because
  a CR at the end of a chunk is a line end only when the next byte is known. The
  reference is defined by positions and ranks and not by recursion, so no induction
  over the stream is needed: one decoded line moves the place to the next line end
  (`HeldLine`), and where a first or last position is needed the naturals have a least
  element. The mutants `CrAtUnheld` and `LastLineRaw` break exactly those steps.
- `StreamClientProofs!LinesAccounted`: `Spec => []StreamInv`. Its core is the order of
  the lines (`OrderInv`): what was consumed, the event at hand, what the decoder holds,
  the block and the wire are, in this order, the lines that were sent, so none is lost,
  repeated or overtaken, and `Taken`, the number of those consumed, is a place in the
  stream. `FlowInv` says where events end around that place, that no event with `[DONE]`
  and no line that raises was passed, and that in the end the lines that count are
  exactly those consumed (`CountFlow`); `AloneFlow`, that `single` is what the stream
  says of the line at hand. `ResultInv`, `RawInv`, `ErrorInv` and `ClockInv` tie each
  field of the result to the lines up to that place. None of the four properties is
  inductive: each compares the result with lines that may still be in a buffer.
- `ErrorExact`, `RowEarned`, `ClockOfTokens` and `PayloadsAreKept` follow from it, for
  streams of any length, empty and raising lines among them, and any block size.

The host (`HostProofs`).

- `BreachNeverIgnored`, `NeverTripsFalsely`: the count `low` is the
  length of the run of low readings at the end of the log (`LowInv`), which ties the
  counter to the telemetry.
- `PreflightIsSafe`: the lemma `MountIsVisible` shows that the longest-prefix choice
  of `_mount_for` is the mount the kernel shows, for any table without overmounts.
- `SpaceChecksAgree`: what others took since the check and what is left still add up
  to what the check asked for (`SpaceInv`).

Campaign (`CampaignProofs`).

- `OneEpochPromoted`: an epoch is one server, whoever names it (`EpochInv`); if the
  epoch of the manifest runs now, it answered all requests since the look before them
  (`AnswerInv`), which is what makes the second look sufficient; a row was answered by
  the server it is bound to, in whatever file it ends up (`FileInv`). The lemma
  `GatesMean` says what the gates of `compare` add: rows bound to the manifest at hand,
  and different epochs. The proof is for any number of epochs and upsets.
- `FairPromoted`, for any odd number of repeats: PASS is a comparison that passed, and
  nothing moves after it (`PassedInv`), so it is enough to say what the gates mean
  (`PassFair`). No gate bounds the repeats in the vision lane; that each case is there
  once follows from the producer, which writes one row per case and stops at the last
  one (`FlatInv`, `RoomInv`). The lemmas `KthIs` and `MedianMost` say what a median is
  worth: more than half of an odd number of values are not below it, and more than half
  not above. From there the gain of 5% goes over to most of the single rates.

Quality (`QualityProofs`).

- `CasesExact`: what is frozen was built (`ManifestInv`), and what `build_case` lets
  through is exact (`BuiltIsExact`), with lemmas on filling the template's slot
  (`SlotSplits`) and on needles that differ (`CodesDiffer`).
- `RowsScoredOnce`: files are created once (`OwnerInv`); the last row is of the case
  at hand and may be followed by another attempt, or nothing of what is left is in the
  file (`LastInv`).
- `OkEarned`: a verdict that counts has its row, and the row its answer (`ScoreInv`);
  `PassMeans` and `LastTagIs` say what `check_response` accepts.
- `SampledKilled` and `PassEarned`: `SandboxInv` says what each phase of the driver
  has established (`PhaseInv`), that an end of file on the output is final, because only
  a holder of the pipe can pass it on (`PipeInv`), and that whatever any sample showed
  is on the list of what to terminate, also when a later sample does not show it
  (`OwnedInv`).
- `ScoreCovered`, for any workers and rows: the lock is held by exactly the worker
  past `flock` (`LockInv`), rows have one worker (`RowInv`), a failed release is
  remembered (`FailedInv`).
- `LateBounded`, for any finite set of workers: `LateInv` counts rows admitted late
  together with workers on their way to the lock, which the worker that failed is not
  one of.

Left to TLC is liveness (`SignalEndsLaunch`, `DeadlineEndsLaunch`, `DriverEnds`),
because fairness and `ENABLED` are out of the prover's reach. Every other property of
a passing run is a theorem.

## 5. Not modelled

- GPU kernels, attention, allocator code and the PLE runtime of the patch: numerical,
  and part of a vendored server.
- The LRU of captured ViT graphs: used by one scheduler thread, so nothing
  interleaves, and a failed capture is a CUDA error that ends the process.
- Argument, JSON, path and permission validation: a refusal that may happen. The
  profile contract of the entrypoint is of this kind.
- The build phase of the preflight, which makes the same charges to another
  directory.
- Warmups of the benchmarks: they write no measured row, and one that fails ends the
  lane like a killed producer.
- In `http_client.py` the concurrency gate, which callers use with a single slot,
  the chat request without streaming, and the cache flush.
- The time the sandbox driver takes for a walk through `/proc`: a sample is one step.
- `mem_verdict.py`, `refresh_release_summary.py`, `perf_w4a16_method.py`,
  `native_profile_probe.py`, build and release scripts: one pass from an input to
  a number or a file.

## 6. What could follow

1. The chat request without streaming and the build phase of the preflight.
2. The profile contract of the entrypoint, as a predicate on the environment.
