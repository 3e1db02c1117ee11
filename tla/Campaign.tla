------------------------------ MODULE Campaign ------------------------------
(***************************************************************************)
(* A promotion campaign: runtime_context.py captures a running server,     *)
(* freeze_benchmark.py freezes a manifest, bench_real.py, vision_bench.py  *)
(* and run_upstream_round.py (with upstream_capture.py) produce rows bound *)
(* to it, and compare.py decides.  The server may stop and be started with *)
(* another profile at any moment, and files may be mixed up before they    *)
(* are compared.  Sides and lanes are worked on one at a time.             *)
(***************************************************************************)
EXTENDS Compare

CONSTANTS
  Servers,     \* what a server may run: [image, profile, rate, ttft, wall]
  Levers,      \* levers an operator may declare
  Wires,       \* what the capture of an upstream request may observe
  Requests,    \* requests of an upstream round
  LaneOrder,   \* the lanes, in the order they are worked on
  MaxEpochs,   \* bound: starts of the server
  MaxUpsets    \* bound: bad answers, killed producers, lanes begun again and mix-ups together

ASSUME CampaignAssumption == LaneOrder \in Seq(Lanes) /\ ToSet(LaneOrder) = Lanes

Sides == <<"baseline", "candidate">>
Down == [epoch |-> 0]
NoManifest == [epoch |-> 0]
NoContext == [first |-> 0, info |-> Down]

VARIABLES
  running,    \* Down, or a member of Servers with its epoch
  epochs,     \* starts so far
  step,       \* "capture", "read", "reinspect", "freeze", "lane", "verify", "request", "recheck", "compare", "pass", "rejected"
  side,       \* index of the side at hand
  context,    \* [first, info]: what capture has seen
  manifests,  \* [Sides -> manifest]
  files,      \* [Sides -> [Lanes -> rows]]
  lane,       \* the lane at hand
  answers,    \* requests of the item at hand: [served, outcome, rate, ttft, wall]
  upsets      \* upsets so far

campaign == <<running, epochs, step, side, context, manifests, files, lane, answers, upsets>>
flow == <<step, side, context, manifests, files, lane, answers, upsets>>

NoFiles == [l \in Lanes |-> << >>]

CampaignInit ==
  /\ running = Down /\ epochs = 0 /\ step = "capture" /\ side = 1
  /\ context = NoContext
  /\ manifests = [s \in ToSet(Sides) |-> NoManifest]
  /\ files = [s \in ToSet(Sides) |-> NoFiles]
  /\ lane = "prose" /\ answers = << >> /\ upsets = 0

Upset == upsets < MaxUpsets /\ upsets' = upsets + 1

Side == Sides[side]
Manifest == manifests[Side]

ServerStarts(v) ==
  /\ running = Down /\ epochs < MaxEpochs /\ step \notin {"compare", "pass", "rejected"}
  /\ epochs' = epochs + 1
  /\ running' = [epoch |-> epochs + 1, image |-> v.image, profile |-> v.profile,
                rate |-> v.rate, ttft |-> v.ttft, wall |-> v.wall]
  /\ UNCHANGED flow

ServerStops ==
  /\ running # Down /\ step \notin {"compare", "pass", "rejected"}
  /\ running' = Down
  /\ UNCHANGED <<epochs, flow>>

(***************************************************************************)
(* capture, compose_manifest and verify_http_epoch.                        *)
(***************************************************************************)
Stay == UNCHANGED <<running, epochs, side, files, lane, answers, upsets>>

\* docker inspect of the owned, running container.
CaptureInspect ==
  /\ step = "capture" /\ running # Down
  /\ step' = "read" /\ context' = [context EXCEPT !.first = running.epoch]
  /\ Stay /\ UNCHANGED manifests

\* /server_info and /model_info of whatever answers; nothing may.
CaptureRead ==
  /\ step = "read"
  /\ step' = IF running = Down THEN "capture" ELSE "reinspect"
  /\ context' = IF running = Down THEN NoContext ELSE [context EXCEPT !.info = running]
  /\ Stay /\ UNCHANGED manifests

SameEpoch(e) == running.epoch = e

CaptureReinspect ==
  /\ step = "reinspect"
  /\ IF SameEpoch(context.first) THEN step' = "freeze" /\ UNCHANGED context
     ELSE step' = "capture" /\ context' = NoContext
  /\ Stay /\ UNCHANGED manifests

\* verify_http_epoch: startup time, launch command and model of the server that answers now.
VerifyHttpEpoch(m) == running.epoch = m.epoch

\* The lever is given, or follows from the mode.
FreezeManifest(given) ==
  LET m == [epoch |-> context.info.epoch, image |-> context.info.image,
            profile |-> context.info.profile,
            lever |-> IF given # "default" THEN given
                      ELSE IF context.info.profile.mode = "nextn" THEN "nextn" ELSE "none"]
  IN  /\ step = "freeze"
      /\ IF VerifyHttpEpoch(m)
         THEN step' = "lane" /\ manifests' = [manifests EXCEPT ![Side] = m]
         ELSE step' = "capture" /\ UNCHANGED manifests
      /\ context' = NoContext /\ Stay

(***************************************************************************)
(* The producers.  A lane has one item after the other, a case or a round. *)
(***************************************************************************)
\* The cases and repeats of a lane, in order.
Plan(l) ==
  LET cases == SetToSeq(FrozenInputs(l))
      n == IF l = "vision" THEN 1 ELSE Repeats
  IN  [i \in 1..(Len(cases) * n) |-> [case |-> cases[((i - 1) \div n) + 1], repeat |-> (i - 1) % n]]

Rows == files[Side][lane]

\* Output and sidecars are created anew, with the frozen requests.
FreshOutput(l) == files' = [files EXCEPT ![Side][l] = << >>]

\* A fresh output, for the next lane or for one that is begun again.
BeginLane(l) ==
  /\ step = "lane"
  /\ \/ /\ files[Side][l] = << >> /\ UNCHANGED upsets
        /\ \A i, j \in DOMAIN LaneOrder : i < j /\ LaneOrder[j] = l => files[Side][LaneOrder[i]] # << >>
     \/ files[Side][l] # << >> /\ Upset
  /\ lane' = l /\ FreshOutput(l)
  /\ step' = "verify"
  /\ UNCHANGED <<running, epochs, side, context, manifests, answers>>

\* A round is a command of its own: one that wrote nothing is run again, and the
\* rounds before it are kept.
RepeatRound(l) ==
  /\ step = "lane" /\ l \in RoundLanes /\ files[Side][l] # << >> /\ Len(files[Side][l]) < Len(Plan(l))
  /\ lane' = l /\ step' = "verify"
  /\ UNCHANGED <<running, epochs, side, context, manifests, files, answers, upsets>>

Produce(to) ==
  /\ step' = to
  /\ lane' = IF to = "lane" THEN LaneOrder[1] ELSE lane
  /\ UNCHANGED <<running, epochs, side, context, manifests>>

\* Another epoch raises and ends the producer; its file stays.
VerifyBefore ==
  /\ step = "verify"
  /\ Produce(IF VerifyHttpEpoch(Manifest) THEN "request" ELSE "lane")
  /\ UNCHANGED <<files, answers, upsets>>

\* CaptureRecord.finalize: the request was the frozen one, the stream whole and of
\* the model, the usage as asked, and the cache details say that nothing was
\* cached; silence about them means zero only under the pinned contract.
CacheObserved(w) ==
  CASE w.details = "absent" -> IF w.contract = "pinned" THEN "cold" ELSE "missing"
    [] w.details = "zero" -> "cold"
    [] w.details = "hit" -> "hit"
    [] w.details \in {"malformed", "changing"} -> "missing"

CaptureFinalize(w) ==
  /\ w.request = "frozen" /\ w.bytes = "bounded" /\ w.model = "right" /\ w.done
  /\ w.finish = "length" /\ w.usage = "exact"
  /\ CacheObserved(w) = "cold"
  /\ w.aggregate \in {"none", CacheObserved(w)}

Answer(outcome) ==
  /\ step = "request" /\ running # Down
  /\ IF outcome = "valid" THEN UNCHANGED upsets ELSE Upset
  /\ answers' = Append(answers, [served |-> running.epoch, outcome |-> outcome, rate |-> running.rate,
                                 ttft |-> running.ttft, wall |-> running.wall])

AnswerLost ==
  /\ step = "request" /\ running = Down /\ UNCHANGED upsets
  /\ answers' = Append(answers, [served |-> 0, outcome |-> "lost", rate |-> 0, ttft |-> 0, wall |-> 0])

\* chat_stream and row_validity; in the vision lane the semantic check, too.
ChatRequest ==
  /\ lane \notin RoundLanes
  /\ AnswerLost \/ \E outcome \in {"valid", "invalid", "lost"} : Answer(outcome)
  /\ Produce("recheck") /\ UNCHANGED files

\* Requests of a round follow each other without a look at the epoch.
RoundRequest ==
  /\ lane \in RoundLanes
  /\ AnswerLost \/ \E w \in Wires : Answer(IF CaptureFinalize(w) THEN "valid" ELSE "invalid")
  /\ Produce(IF Len(answers) + 1 = Requests THEN "recheck" ELSE "request")
  /\ UNCHANGED files

NewRow ==
  LET item == Plan(lane)[Len(Rows) + 1]
      first == answers[1]
  IN  [case |-> item.case, repeat |-> item.repeat, bound |-> Manifest, verified |-> TRUE,
       valid |-> \A i \in DOMAIN answers : answers[i].outcome = "valid",
       served |-> {answers[i].served : i \in DOMAIN answers},
       rate |-> first.rate, ttft |-> first.ttft, wall |-> first.wall,
       native |-> item.repeat]

EpochKept == VerifyHttpEpoch(Manifest)

\* With the row at hand the lane is complete, or a lost answer ends the vision lane.
LaneOver == Len(Rows) + 1 = Len(Plan(lane)) \/ (lane = "vision" /\ answers[1].outcome = "lost")

\* An upstream round with an invalid request writes nothing.
RoundFails == lane \in RoundLanes /\ ~NewRow.valid

\* The epoch is looked at again, then the row is written.
VerifyAfter ==
  /\ step = "recheck"
  /\ IF ~EpochKept \/ RoundFails
     THEN Produce("lane") /\ UNCHANGED files
     ELSE /\ files' = [files EXCEPT ![Side][lane] = Append(@, NewRow)]
          /\ Produce(IF LaneOver THEN "lane" ELSE "verify")
  /\ answers' = << >> /\ UNCHANGED upsets

\* The producer is killed.
ProducerKilled ==
  /\ step \in {"verify", "request", "recheck"}
  /\ Upset /\ Produce("lane") /\ answers' = << >> /\ UNCHANGED files

\* The operator goes on to the candidate, or captures this side again; both may
\* happen, by mistake, with incomplete files or with those of another manifest.
NextSide ==
  /\ step = "lane"
  /\ IF \A l \in Lanes : Len(files[Side][l]) = Len(Plan(l)) THEN UNCHANGED upsets ELSE Upset
  /\ IF side = 1 THEN step' = "capture" /\ side' = 2 ELSE step' = "compare" /\ UNCHANGED side
  /\ UNCHANGED <<running, epochs, context, manifests, files, lane, answers>>

Recapture ==
  /\ step = "lane" /\ step' = "capture"
  /\ IF files[Side] = NoFiles THEN UNCHANGED upsets ELSE Upset
  /\ UNCHANGED <<running, epochs, side, context, manifests, files, lane, answers>>

(***************************************************************************)
(* Files are mixed up, and compared.                                       *)
(***************************************************************************)
Put(s, l, rows) == files' = [files EXCEPT ![s][l] = rows]

MixUp(s, l) ==
  /\ step = "compare" /\ Upset
  /\ \/ Put(s, l, << >>)
     \/ \E i \in DOMAIN files[s][l] :
          LET rows == files[s][l]
          IN  \/ Put(s, l, RemoveAt(rows, i))
              \/ Put(s, l, Append(rows, rows[i]))
              \/ \E j \in DOMAIN rows : Put(s, l, [rows EXCEPT ![i] = rows[j]])
              \/ \E d \in {-2, 2} : Put(s, l, [rows EXCEPT ![i].rate = @ + d, ![i].ttft = @ + d, ![i].wall = @ + d])
     \/ \E t \in ToSet(Sides) : t # s /\ Put(s, l, files[t][l])
  /\ UNCHANGED <<running, epochs, step, side, context, manifests, lane, answers>>

Compared ==
  /\ step = "compare"
  /\ step' = IF ComparePasses(manifests["baseline"], manifests["candidate"],
                              files["baseline"], files["candidate"])
             THEN "pass" ELSE "rejected"
  /\ UNCHANGED <<running, epochs, side, context, manifests, files, lane, answers, upsets>>

CampaignNext ==
  \/ ServerStops \/ CaptureInspect \/ CaptureRead \/ CaptureReinspect \/ VerifyBefore
  \/ ChatRequest \/ RoundRequest \/ VerifyAfter \/ ProducerKilled \/ NextSide \/ Recapture \/ Compared
  \/ \E v \in Servers : ServerStarts(v)
  \/ \E given \in Levers : FreezeManifest(given)
  \/ \E l \in Lanes : BeginLane(l) \/ RepeatRound(l)
  \/ \E s \in ToSet(Sides), l \in Lanes : MixUp(s, l)

CampaignSpec == CampaignInit /\ [][CampaignNext]_campaign

(***************************************************************************)
(* Properties.                                                             *)
(***************************************************************************)
AllRows(s) == UNION {ToSet(files[s][l]) : l \in Lanes}

\* A promotion rests on one server per side (verify_bound_epoch, verify_http_epoch,
\* check_evidence_binding): every row that PASS is decided from was answered, in
\* every one of its requests, by the very server its manifest describes,
\* although the server was restarted and files were kept from other epochs.
PassIsOneEpoch ==
  step = "pass" =>
    /\ manifests["baseline"].epoch # manifests["candidate"].epoch
    /\ \A s \in ToSet(Sides) : \A row \in AllRows(s) :
         row.valid /\ row.served = {manifests[s].epoch} /\ row.bound = manifests[s]

Better(b, c, n) == 100 * (c - b) >= n * b

\* Every case and repeat of a lane.
Items(l) == [case : FrozenInputs(l), repeat : 0..((IF l = "vision" THEN 1 ELSE Repeats) - 1)]
RowsOf(rows, case) == {rows[i] : i \in OfCase(rows, case)}

\* A promotion is fair (compare): each side brings every case and repeat once and
\* nothing else, the two servers differ in the declared lever only, and no
\* single measurement carries the verdict: for every text case and lane most of
\* the candidate's rates are 5% above the lowest of the baseline's, and most of
\* the baseline's are below the highest of the candidate's.
PassIsFair ==
  step = "pass" =>
    LET mb == manifests["baseline"]
        mc == manifests["candidate"]
    IN  /\ mb.image = mc.image /\ Changed(mb.profile, mc.profile) # {}
        /\ Cardinality(Changed(mb.profile, mc.profile)) = 1
        /\ \A s \in ToSet(Sides), l \in Lanes :
             /\ {[case |-> row.case, repeat |-> row.repeat] : row \in ToSet(files[s][l])} = Items(l)
             /\ Len(files[s][l]) = Cardinality(Items(l))
        /\ \A l \in Lanes \ {"vision"} : \A case \in FrozenInputs(l) :
             LET b == RowsOf(files["baseline"][l], case)
                 c == RowsOf(files["candidate"][l], case)
             IN  /\ 2 * Cardinality({x \in c : \E y \in b : Better(y.rate, x.rate, 5)}) > Repeats
                 /\ 2 * Cardinality({y \in b : \E x \in c : Better(y.rate, x.rate, 5)}) > Repeats
=============================================================================
