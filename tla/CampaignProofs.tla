--------------------------- MODULE CampaignProofs ---------------------------
(***************************************************************************)
(* A campaign promotes a candidate only on rows that the two servers of    *)
(* its manifests have answered, and only when most of its measurements are *)
(* better, for any servers, restarts, lanes, cases and mix-ups.  An epoch  *)
(* is one run of one server; every document and row that carries it was    *)
(* made while that server was looked at.                                   *)
(***************************************************************************)
EXTENDS Campaign, FiniteSetTheorems, WellFoundedInduction, NaturalsInduction, TLAPS

SideSet == {"baseline", "candidate"}

\* Files are kept by side and lane, and a manifest by side.
ShapeInv ==
  /\ DOMAIN files = SideSet /\ \A s \in SideSet : DOMAIN files[s] = Lanes
  /\ DOMAIN manifests = SideSet
  /\ context = [first |-> context.first, info |-> context.info]
  /\ side \in {1, 2} /\ lane \in Lanes /\ epochs \in Nat

\* An epoch is one server: whoever names it means the same profile.
Known == {running, context.info} \cup {manifests[s] : s \in SideSet}
EpochInv ==
  /\ running # Down => running.epoch # 0
  /\ \A x \in Known : x.epoch \in 0..epochs
  /\ \A x, y \in Known : x.epoch = y.epoch /\ x.epoch # 0 => x.profile = y.profile

\* What the steps before have left.
StepInv ==
  /\ step \in {"reinspect", "freeze"} => context.info.epoch # 0
  /\ step \in {"lane", "verify", "request", "recheck"} => Manifest.epoch # 0
  /\ side = 2 => manifests["baseline"].epoch # 0
  /\ step \in {"compare", "pass", "rejected"} => side = 2 /\ manifests["candidate"].epoch # 0

\* A sequence, over its own elements.
IsSeq(q) == q \in Seq(ToSet(q))

\* If the epoch of the manifest runs now it has run since the look before the
\* requests, and has answered them all.
AnswerInv ==
  /\ IsSeq(answers)
  /\ step \notin {"request", "recheck"} => answers = << >>
  /\ step = "recheck" => answers # << >>
  /\ step \in {"request", "recheck"} /\ running.epoch = Manifest.epoch =>
       \A i \in DOMAIN answers : answers[i].served = Manifest.epoch

\* A row was answered by the server it is bound to, in whatever file it is.
GoodRow(row) == {"served", "bound"} \subseteq DOMAIN row /\ row.served = {row.bound.epoch}
GoodFile(rows) == IsSeq(rows) /\ \A i \in DOMAIN rows : GoodRow(rows[i])
FileInv == \A s \in SideSet, l \in Lanes : GoodFile(files[s][l])

CampaignInv == ShapeInv /\ EpochInv /\ StepInv /\ AnswerInv /\ FileInv /\ PassIsOneEpoch

\* The two sides.
LEMMA SidesAre ==
  /\ ToSet(Sides) = SideSet
  /\ side \in {1, 2} => Side \in SideSet
  /\ side = 1 => Side = "baseline"
  /\ side = 2 => Side = "candidate"
BY DEF Sides, SideSet, Side, ToSet

\* A lane is begun with the first of the order.
LEMMA FirstLane == LaneOrder[1] \in Lanes
<1>1. LaneOrder # << >>
  BY CampaignAssumption DEF ToSet, Lanes
<1> QED BY <1>1, CampaignAssumption

\* Rows that are good make a good file.
LEMMA FileOf ==
  ASSUME NEW T, NEW q \in Seq(T), \A t \in T : GoodRow(t)
  PROVE  GoodFile(q)
<1>1. IsSeq(q)
  BY DEF IsSeq, ToSet
<1> QED BY <1>1 DEF GoodFile

\* No file.
LEMMA EmptyFile == GoodFile(<< >>)
BY DEF GoodFile, IsSeq, ToSet

\* A file with one row more.
LEMMA AppendFile ==
  ASSUME NEW q, GoodFile(q), NEW row, GoodRow(row)
  PROVE  GoodFile(Append(q, row))
<1> DEFINE T == ToSet(q) \cup {row}
<1>1. q \in Seq(T)
  BY DEF GoodFile, IsSeq
<1>2. \A t \in T : GoodRow(t)
  BY DEF GoodFile, ToSet
<1> HIDE DEF T
<1>3. Append(q, row) \in Seq(T)
  BY <1>1 DEF T
<1> QED BY <1>2, <1>3, FileOf

\* A file with one row replaced.
LEMMA ExceptFile ==
  ASSUME NEW q, GoodFile(q), NEW i \in DOMAIN q, NEW row, GoodRow(row)
  PROVE  GoodFile([q EXCEPT ![i] = row])
<1> DEFINE T == ToSet(q) \cup {row}
<1>1. q \in Seq(T)
  BY DEF GoodFile, IsSeq
<1>2. \A t \in T : GoodRow(t)
  BY DEF GoodFile, ToSet
<1>3. row \in T
  OBVIOUS
<1> HIDE DEF T
<1>4. [q EXCEPT ![i] = row] \in Seq(T)
  BY <1>1, <1>3
<1> QED BY <1>2, <1>4, FileOf

\* A file with one row less.
LEMMA RemoveFile ==
  ASSUME NEW q, GoodFile(q), NEW i \in DOMAIN q
  PROVE  GoodFile(RemoveAt(q, i))
<1> DEFINE T == ToSet(q)
<1>1. q \in Seq(T)
  BY DEF GoodFile, IsSeq
<1>2. \A t \in T : GoodRow(t)
  BY DEF GoodFile, ToSet
<1> HIDE DEF T
<1>3. i \in 1..Len(q) /\ Len(q) \in Nat
  BY <1>1
<1>4. SubSeq(q, 1, i - 1) \in Seq(T)
  BY <1>1, <1>3
<1>5. SubSeq(q, i + 1, Len(q)) \in Seq(T)
  BY <1>1, <1>3
<1>6. RemoveAt(q, i) \in Seq(T)
  BY <1>4, <1>5 DEF RemoveAt
<1> QED BY <1>2, <1>6, FileOf

\* One file replaced by a good one.
LEMMA PutFile ==
  ASSUME ShapeInv, FileInv, NEW s \in SideSet, NEW l \in Lanes, NEW q, GoodFile(q),
         files' = [files EXCEPT ![s][l] = q]
  PROVE  FileInv' /\ DOMAIN files' = SideSet /\ \A t \in SideSet : DOMAIN files'[t] = Lanes
<1>1. DOMAIN files' = SideSet /\ \A t \in SideSet : DOMAIN files'[t] = Lanes
  BY DEF ShapeInv
<1>2. ASSUME NEW t \in SideSet, NEW k \in Lanes PROVE GoodFile(files'[t][k])
  <2>1. files'[t][k] = IF t = s /\ k = l THEN q ELSE files[t][k]
    BY DEF ShapeInv
  <2> QED BY <2>1 DEF FileInv
<1>3. FileInv'
  <2>1. \A t \in SideSet, k \in Lanes : GoodFile(files'[t][k])
    BY <1>2
  <2> QED BY <2>1 DEF FileInv, GoodFile, IsSeq, GoodRow
<1> QED BY <1>1, <1>3

\* The names of an epoch that a step copies still agree.
LEMMA EpochsCopied ==
  ASSUME EpochInv, epochs' = epochs, epochs \in Nat,
         running' = running \/ running' = Down,
         \A x \in Known' : \/ x.epoch = 0
                           \/ \E y \in Known : x.epoch = y.epoch /\ x.profile = y.profile
  PROVE  EpochInv'
<1>1. running' # Down => running'.epoch # 0
  BY DEF EpochInv
<1>2. \A x \in Known' : x.epoch \in 0..epochs
  BY DEF EpochInv
<1>3. ASSUME NEW x \in Known', NEW y \in Known', x.epoch = y.epoch, x.epoch # 0
      PROVE  x.profile = y.profile
  <2>1. PICK u \in Known : x.epoch = u.epoch /\ x.profile = u.profile
    BY <1>3
  <2>2. PICK w \in Known : y.epoch = w.epoch /\ y.profile = w.profile
    BY <1>3
  <2> QED BY <2>1, <2>2, <1>3 DEF EpochInv
<1> QED BY <1>1, <1>2, <1>3 DEF EpochInv, Down

\* Nothing is captured, frozen or measured yet.
LEMMA CampaignInitInv == CampaignInit => CampaignInv
<1> SUFFICES ASSUME CampaignInit PROVE CampaignInv
  OBVIOUS
<1>0. /\ files = [s \in SideSet |-> [l \in Lanes |-> << >>]]
      /\ manifests = [s \in SideSet |-> NoManifest]
  BY SidesAre DEF CampaignInit, NoFiles
<1>1. ShapeInv
  BY <1>0 DEF CampaignInit, ShapeInv, NoContext, Lanes
<1>2. EpochInv
  BY <1>0 DEF CampaignInit, EpochInv, Known, NoContext, NoManifest, Down
<1>3. StepInv
  BY <1>0 DEF CampaignInit, StepInv
<1>4. AnswerInv
  BY DEF CampaignInit, AnswerInv, IsSeq, ToSet
<1>5. FileInv
  BY <1>0, EmptyFile DEF FileInv
<1>6. PassIsOneEpoch
  BY DEF CampaignInit, PassIsOneEpoch
<1> QED BY <1>1, <1>2, <1>3, <1>4, <1>5, <1>6 DEF CampaignInv

\* A server starts with an epoch that nobody has named.
LEMMA StartsInv ==
  ASSUME CampaignInv, NEW v \in Servers, ServerStarts(v)
  PROVE  CampaignInv'
<1>0. /\ running = Down /\ running' # Down /\ epochs' = epochs + 1 /\ epochs \in Nat
      /\ running'.epoch = epochs + 1
      /\ UNCHANGED flow
  BY DEF ServerStarts, CampaignInv, ShapeInv, Down
<1>1. ShapeInv'
  BY <1>0 DEF CampaignInv, ShapeInv, flow
<1>2. EpochInv'
  <2>1. Known' \subseteq Known \cup {running'}
    BY <1>0 DEF Known, flow
  <2>2. \A x \in Known : x.epoch \in 0..epochs /\ x.epoch # epochs + 1
    BY <1>0 DEF CampaignInv, EpochInv
  <2>3. running' # Down => running'.epoch # 0
    BY <1>0
  <2>4. \A x \in Known' : x.epoch \in 0..epochs'
    BY <1>0, <2>1, <2>2
  <2>5. ASSUME NEW x \in Known', NEW y \in Known', x.epoch = y.epoch, x.epoch # 0
        PROVE  x.profile = y.profile
    <3>1. CASE x = running' \/ y = running'
      BY <3>1, <2>1, <2>2, <2>5, <1>0
    <3>2. CASE x \in Known /\ y \in Known
      BY <3>2, <2>5 DEF CampaignInv, EpochInv
    <3> QED BY <2>1, <3>1, <3>2
  <2> QED BY <2>3, <2>4, <2>5 DEF EpochInv, Down
<1>3. StepInv'
  BY <1>0 DEF CampaignInv, StepInv, flow, Manifest, Side
<1>4. AnswerInv'
  <2>1. Manifest' = Manifest /\ Manifest \in Known
    BY <1>0, SidesAre DEF flow, Manifest, Side, Known, CampaignInv, ShapeInv
  <2>2. running'.epoch # Manifest.epoch
    BY <1>0, <2>1 DEF CampaignInv, EpochInv
  <2> QED BY <2>1, <2>2, <1>0 DEF AnswerInv, CampaignInv, flow, IsSeq
<1>5. FileInv'
  BY <1>0 DEF CampaignInv, FileInv, flow, GoodFile, IsSeq, GoodRow
<1>6. PassIsOneEpoch'
  BY DEF ServerStarts, flow, PassIsOneEpoch
<1> QED BY <1>1, <1>2, <1>3, <1>4, <1>5, <1>6 DEF CampaignInv

\* A server that is down has no epoch of a manifest.
LEMMA StopsInv ==
  ASSUME CampaignInv, ServerStops
  PROVE  CampaignInv'
<1>0. running' = Down /\ epochs' = epochs /\ UNCHANGED flow /\ epochs \in Nat
  BY DEF ServerStops, CampaignInv, ShapeInv
<1>1. ShapeInv'
  BY <1>0 DEF CampaignInv, ShapeInv, flow
<1>2. EpochInv'
  <2>1. Known' \subseteq Known \cup {Down}
    BY <1>0 DEF Known, flow
  <2>2. Down.epoch = 0
    BY DEF Down
  <2> QED BY <1>0, <2>1, <2>2, EpochsCopied DEF CampaignInv
<1>3. StepInv'
  BY <1>0 DEF CampaignInv, StepInv, flow, Manifest, Side
<1>4. AnswerInv'
  <2>1. Manifest' = Manifest
    BY <1>0 DEF flow, Manifest, Side
  <2>2. step \in {"request", "recheck"} => running'.epoch # Manifest.epoch
    BY <1>0 DEF CampaignInv, StepInv, Down
  <2> QED BY <2>1, <2>2, <1>0 DEF AnswerInv, CampaignInv, flow, IsSeq
<1>5. FileInv'
  BY <1>0 DEF CampaignInv, FileInv, flow, GoodFile, IsSeq, GoodRow
<1>6. PassIsOneEpoch'
  BY DEF ServerStops, flow, PassIsOneEpoch
<1> QED BY <1>1, <1>2, <1>3, <1>4, <1>5, <1>6 DEF CampaignInv

\* A step that looks at the server and leaves the files and the answers alone.
LEMMA StayInv ==
  ASSUME CampaignInv, Stay, ShapeInv', EpochInv', StepInv',
         step' \notin {"request", "recheck", "pass"}, step \notin {"request", "recheck"}
  PROVE  CampaignInv'
<1>4. AnswerInv'
  BY DEF Stay, CampaignInv, AnswerInv, IsSeq
<1>5. FileInv'
  BY DEF CampaignInv, FileInv, Stay, GoodFile, IsSeq, GoodRow
<1>6. PassIsOneEpoch'
  BY DEF PassIsOneEpoch
<1> QED BY <1>4, <1>5, <1>6 DEF CampaignInv

\* The capture of a running server.
LEMMA CaptureInv ==
  ASSUME CampaignInv, CaptureInspect \/ CaptureRead \/ CaptureReinspect
  PROVE  CampaignInv'
<1>0. /\ step \in {"capture", "read", "reinspect"} /\ Stay /\ manifests' = manifests
      /\ step' \in {"capture", "read", "reinspect", "freeze"}
  BY DEF CaptureInspect, CaptureRead, CaptureReinspect
<1>1. /\ context' = [first |-> context'.first, info |-> context'.info]
      /\ \/ context'.info = context.info /\ step' # "reinspect" /\ (step' = "freeze" => step = "reinspect")
         \/ context'.info = Down /\ step' \in {"capture", "read"}
         \/ context'.info = running /\ running # Down /\ step' = "reinspect"
  <2>0. context = [first |-> context.first, info |-> context.info]
    BY DEF CampaignInv, ShapeInv
  <2>1. CASE CaptureInspect
    <3>1. context' = [first |-> running.epoch, info |-> context.info] /\ step' = "read"
      BY <2>0, <2>1 DEF CaptureInspect
    <3> QED BY <3>1
  <2>2. CASE CaptureRead
    <3>1. CASE running = Down
      BY <3>1, <2>2 DEF CaptureRead, NoContext
    <3>2. CASE running # Down
      <4>1. context' = [first |-> context.first, info |-> running] /\ step' = "reinspect"
        BY <2>0, <2>2, <3>2 DEF CaptureRead
      <4> QED BY <4>1, <3>2
    <3> QED BY <3>1, <3>2
  <2>3. CASE CaptureReinspect
    BY <2>0, <2>3 DEF CaptureReinspect, NoContext
  <2> QED BY <2>1, <2>2, <2>3
<1>2. ShapeInv'
  BY <1>0, <1>1 DEF CampaignInv, ShapeInv, Stay
<1>3. EpochInv'
  <2>1. Known' \subseteq Known \cup {Down}
    BY <1>0, <1>1 DEF Known, Stay
  <2>2. Down.epoch = 0
    BY DEF Down
  <2> QED BY <1>0, <2>1, <2>2, EpochsCopied DEF CampaignInv, Stay, ShapeInv
<1>4. StepInv'
  BY <1>0, <1>1 DEF CampaignInv, StepInv, EpochInv, Stay, Down
<1> QED BY <1>0, <1>2, <1>3, <1>4, StayInv

\* A manifest names the server that was captured.
LEMMA FreezeInv ==
  ASSUME CampaignInv, NEW given \in Levers, FreezeManifest(given)
  PROVE  CampaignInv'
<1>0. /\ step = "freeze" /\ step' \in {"lane", "capture"} /\ Stay
      /\ context' = NoContext /\ Side \in SideSet
  BY SidesAre DEF FreezeManifest, CampaignInv, ShapeInv
<1>1. \/ step' = "capture" /\ manifests' = manifests
      \/ /\ step' = "lane"
         /\ DOMAIN manifests' = SideSet
         /\ manifests'[Side].epoch = context.info.epoch
         /\ manifests'[Side].profile = context.info.profile
         /\ \A s \in SideSet : s # Side => manifests'[s] = manifests[s]
  BY <1>0 DEF FreezeManifest, CampaignInv, ShapeInv
<1>2. ShapeInv'
  BY <1>0, <1>1 DEF CampaignInv, ShapeInv, Stay, NoContext
<1>3. EpochInv'
  <2>1. ASSUME NEW x \in Known'
        PROVE  \/ x.epoch = 0
               \/ \E y \in Known : x.epoch = y.epoch /\ x.profile = y.profile
    <3>1. CASE x = running'
      BY <3>1, <1>0 DEF Known, Stay
    <3>2. CASE x = context'.info
      BY <3>2, <1>0 DEF NoContext, Down
    <3>3. ASSUME NEW s \in SideSet, x = manifests'[s]
          PROVE  \E y \in Known : x.epoch = y.epoch /\ x.profile = y.profile
      <4>1. CASE manifests'[s] = manifests[s]
        BY <4>1, <3>3 DEF Known
      <4>2. CASE manifests'[s] # manifests[s]
        <5>1. s = Side /\ context.info \in Known
          BY <4>2, <1>1 DEF Known
        <5> QED BY <5>1, <4>2, <3>3, <1>1
      <4> QED BY <4>1, <4>2
    <3> QED BY <3>1, <3>2, <3>3 DEF Known
  <2> QED BY <1>0, <2>1, EpochsCopied DEF CampaignInv, Stay, ShapeInv
<1>4. StepInv'
  <2>1. Side' = Side
    BY <1>0 DEF Side, Stay
  <2>2. context.info.epoch # 0
    BY <1>0 DEF CampaignInv, StepInv
  <2> QED BY <2>1, <2>2, <1>0, <1>1, SidesAre
          DEF CampaignInv, StepInv, Stay, Manifest, SideSet
<1> QED BY <1>0, <1>2, <1>3, <1>4, StayInv

\* A step that leaves the server and the manifests alone.
LEMMA FixedInv ==
  ASSUME CampaignInv, UNCHANGED <<running, epochs, context, manifests>>
  PROVE  EpochInv'
<1>1. Known' = Known
  BY DEF Known
<1> QED BY <1>1 DEF EpochInv, CampaignInv, Down

\* A lane begins with a fresh output, a round is run again after those before.
LEMMA LaneInv ==
  ASSUME CampaignInv, NEW l \in Lanes, BeginLane(l) \/ RepeatRound(l)
  PROVE  CampaignInv'
<1>0. /\ step = "lane" /\ step' = "verify" /\ lane' = l
      /\ UNCHANGED <<running, epochs, side, context, manifests, answers>>
      /\ \/ files' = files
         \/ files' = [files EXCEPT ![Side][l] = << >>]
  BY DEF BeginLane, RepeatRound, FreshOutput
<1>1. Side \in SideSet
  BY SidesAre DEF CampaignInv, ShapeInv
<1>2. FileInv' /\ DOMAIN files' = SideSet /\ \A t \in SideSet : DOMAIN files'[t] = Lanes
  <2>1. CASE files' = files
    BY <2>1 DEF CampaignInv, ShapeInv, FileInv, GoodFile, IsSeq, GoodRow
  <2>2. CASE files' = [files EXCEPT ![Side][l] = << >>]
    BY <2>2, <1>1, EmptyFile, PutFile DEF CampaignInv
  <2> QED BY <1>0, <2>1, <2>2
<1>3. ShapeInv'
  BY <1>0, <1>2 DEF CampaignInv, ShapeInv
<1>4. EpochInv'
  BY <1>0, FixedInv
<1>5. StepInv'
  BY <1>0 DEF CampaignInv, StepInv, Manifest, Side
<1>6. AnswerInv'
  BY <1>0 DEF CampaignInv, AnswerInv, IsSeq
<1>7. PassIsOneEpoch'
  BY <1>0 DEF PassIsOneEpoch
<1> QED BY <1>2, <1>3, <1>4, <1>5, <1>6, <1>7 DEF CampaignInv

\* What a producer leaves alone.
LEMMA ProduceInv ==
  ASSUME CampaignInv, NEW to \in {"lane", "verify", "request", "recheck"}, Produce(to),
         step \in {"verify", "request", "recheck"}, files' = files, AnswerInv'
  PROVE  CampaignInv'
<1>0. /\ step' = to /\ UNCHANGED <<running, epochs, side, context, manifests>>
      /\ lane' \in Lanes
  BY FirstLane DEF Produce, CampaignInv, ShapeInv
<1>1. ShapeInv'
  BY <1>0 DEF CampaignInv, ShapeInv
<1>2. EpochInv'
  BY <1>0, FixedInv
<1>3. StepInv'
  BY <1>0 DEF CampaignInv, StepInv, Manifest, Side
<1>4. FileInv'
  BY DEF CampaignInv, FileInv, GoodFile, IsSeq, GoodRow
<1>5. PassIsOneEpoch'
  BY <1>0 DEF PassIsOneEpoch
<1> QED BY <1>1, <1>2, <1>3, <1>4, <1>5 DEF CampaignInv

\* No answers.
LEMMA NoAnswers ==
  ASSUME answers' = << >>, step' # "recheck"
  PROVE  AnswerInv'
BY DEF AnswerInv, IsSeq, ToSet

\* The epoch is looked at before the requests.
LEMMA VerifyInv ==
  ASSUME CampaignInv, VerifyBefore
  PROVE  CampaignInv'
<1> DEFINE to == IF VerifyHttpEpoch(Manifest) THEN "request" ELSE "lane"
<1>1. /\ step = "verify" /\ to \in {"lane", "verify", "request", "recheck"} /\ to # "recheck"
      /\ Produce(to) /\ files' = files /\ answers' = answers
  BY DEF VerifyBefore
<1> HIDE DEF to
<1>2. answers' = << >>
  BY <1>1 DEF CampaignInv, AnswerInv
<1>3. step' # "recheck"
  BY <1>1 DEF Produce
<1>4. AnswerInv'
  BY <1>2, <1>3, NoAnswers
<1> QED BY <1>1, <1>4, ProduceInv

\* The producer is killed, and its answers are gone.
LEMMA KilledInv ==
  ASSUME CampaignInv, ProducerKilled
  PROVE  CampaignInv'
<1>1. /\ step \in {"verify", "request", "recheck"} /\ Produce("lane")
      /\ files' = files /\ answers' = << >>
  BY DEF ProducerKilled
<1>2. AnswerInv'
  BY <1>1, NoAnswers DEF Produce
<1> QED BY <1>1, <1>2, ProduceInv

\* An answer comes from the server that runs.
LEMMA RequestInv ==
  ASSUME CampaignInv, ChatRequest \/ RoundRequest
  PROVE  CampaignInv'
<1>1. PICK to \in {"request", "recheck"} :
        step = "request" /\ Produce(to) /\ files' = files
  BY DEF ChatRequest, RoundRequest, AnswerLost, Answer
<1>2. PICK a : /\ answers' = Append(answers, a)
               /\ \/ a.served = running.epoch
                  \/ a.served = 0 /\ running = Down
  BY DEF ChatRequest, RoundRequest, AnswerLost, Answer
<1>3. /\ step' = to /\ Manifest' = Manifest /\ running' = running
      /\ Manifest.epoch # 0
  BY <1>1 DEF Produce, Manifest, Side, CampaignInv, StepInv
<1> DEFINE T == ToSet(answers) \cup {a}
<1>4. answers \in Seq(T) /\ a \in T
  BY DEF CampaignInv, AnswerInv, IsSeq
<1> HIDE DEF T
<1>5. /\ answers' \in Seq(T) /\ answers' # << >>
      /\ DOMAIN answers' = 1..Len(answers) + 1 /\ Len(answers) \in Nat
      /\ \A i \in 1..Len(answers) : answers'[i] = answers[i]
      /\ answers'[Len(answers) + 1] = a
      /\ DOMAIN answers = 1..Len(answers)
  BY <1>2, <1>4
<1>6. IsSeq(answers')
  BY <1>5 DEF IsSeq, ToSet
<1>7. ASSUME running.epoch = Manifest.epoch, NEW i \in DOMAIN answers'
      PROVE  answers'[i].served = Manifest.epoch
  <2>1. CASE i = Len(answers) + 1
    BY <2>1, <1>2, <1>3, <1>5, <1>7 DEF Down
  <2>2. CASE i \in 1..Len(answers)
    BY <2>2, <1>1, <1>5, <1>7 DEF CampaignInv, AnswerInv
  <2> QED BY <1>5, <2>1, <2>2
<1>8. AnswerInv'
  BY <1>1, <1>3, <1>5, <1>6, <1>7 DEF AnswerInv, IsSeq
<1> QED BY <1>1, <1>8, ProduceInv

\* A row is written only while the epoch of the manifest runs, which has then
\* answered every request of it.
LEMMA RowWritten ==
  ASSUME CampaignInv, step = "recheck", EpochKept
  PROVE  GoodRow(NewRow)
<1>1. /\ \A i \in DOMAIN answers : answers[i].served = Manifest.epoch
      /\ answers # << >> /\ IsSeq(answers)
  BY DEF CampaignInv, AnswerInv, EpochKept, VerifyHttpEpoch
<1>2. 1 \in DOMAIN answers
  BY <1>1 DEF IsSeq
<1>3. {answers[i].served : i \in DOMAIN answers} = {Manifest.epoch}
  BY <1>1, <1>2
<1>4. /\ NewRow.served = {answers[i].served : i \in DOMAIN answers}
      /\ NewRow.bound = Manifest
      /\ {"served", "bound"} \subseteq DOMAIN NewRow
  BY DEF NewRow
<1> QED BY <1>3, <1>4 DEF GoodRow

\* The epoch is looked at after the requests, and the row is written.
LEMMA AfterInv ==
  ASSUME CampaignInv, VerifyAfter
  PROVE  CampaignInv'
<1>0. /\ step = "recheck" /\ answers' = << >>
      /\ \/ Produce("lane") /\ files' = files
         \/ /\ EpochKept /\ files' = [files EXCEPT ![Side][lane] = Append(@, NewRow)]
            /\ \E to \in {"lane", "verify"} : Produce(to)
  BY DEF VerifyAfter
<1>1. AnswerInv'
  BY <1>0, NoAnswers DEF Produce
<1>2. CASE Produce("lane") /\ files' = files
  BY <1>0, <1>1, <1>2, ProduceInv
<1>3. CASE EpochKept /\ files' = [files EXCEPT ![Side][lane] = Append(@, NewRow)]
           /\ \E to \in {"lane", "verify"} : Produce(to)
  <2>0. /\ step' \in {"lane", "verify"}
        /\ UNCHANGED <<running, epochs, side, context, manifests>>
        /\ lane' \in Lanes
    BY <1>3, FirstLane DEF Produce, CampaignInv, ShapeInv
  <2>1. Side \in SideSet /\ lane \in Lanes
    BY SidesAre DEF CampaignInv, ShapeInv
  <2>2. GoodFile(Append(files[Side][lane], NewRow))
    BY <1>0, <1>3, <2>1, RowWritten, AppendFile DEF CampaignInv, FileInv
  <2>3. files' = [files EXCEPT ![Side][lane] = Append(files[Side][lane], NewRow)]
    BY <1>3
  <2>4. FileInv' /\ DOMAIN files' = SideSet /\ \A t \in SideSet : DOMAIN files'[t] = Lanes
    BY <2>1, <2>2, <2>3, PutFile DEF CampaignInv
  <2>5. ShapeInv'
    BY <2>0, <2>4 DEF CampaignInv, ShapeInv
  <2>6. EpochInv'
    BY <2>0, FixedInv
  <2>7. StepInv'
    BY <1>0, <2>0 DEF CampaignInv, StepInv, Manifest, Side
  <2>8. PassIsOneEpoch'
    BY <2>0 DEF PassIsOneEpoch
  <2> QED BY <1>1, <2>4, <2>5, <2>6, <2>7, <2>8 DEF CampaignInv
<1> QED BY <1>0, <1>2, <1>3

\* The operator goes on, or captures again.
LEMMA SideInv ==
  ASSUME CampaignInv, NextSide \/ Recapture
  PROVE  CampaignInv'
<1>0. /\ step = "lane" /\ UNCHANGED <<running, epochs, context, manifests, files, lane, answers>>
      /\ \/ step' = "capture" /\ side' \in {side, 2}
         \/ step' = "compare" /\ side' = side /\ side # 1
      /\ side \in {1, 2} /\ answers = << >>
      /\ Manifest.epoch # 0
  BY DEF NextSide, Recapture, CampaignInv, ShapeInv, AnswerInv, StepInv
<1>1. ShapeInv'
  BY <1>0 DEF CampaignInv, ShapeInv
<1>2. EpochInv'
  BY <1>0, FixedInv
<1>3. StepInv'
  BY <1>0, SidesAre DEF CampaignInv, StepInv, Manifest
<1>4. AnswerInv'
  BY <1>0, NoAnswers
<1>5. FileInv'
  BY <1>0 DEF CampaignInv, FileInv, GoodFile, IsSeq, GoodRow
<1>6. PassIsOneEpoch'
  BY <1>0 DEF PassIsOneEpoch
<1> QED BY <1>1, <1>2, <1>3, <1>4, <1>5, <1>6 DEF CampaignInv

\* Files are mixed up, by whole rows.
LEMMA MixUpInv ==
  ASSUME CampaignInv, NEW s \in ToSet(Sides), NEW l \in Lanes, MixUp(s, l)
  PROVE  CampaignInv'
<1> DEFINE rows == files[s][l]
<1>0. step = "compare" /\ UNCHANGED <<running, epochs, step, side, context, manifests, lane, answers>>
  BY DEF MixUp
<1>1. s \in SideSet /\ GoodFile(rows)
  BY SidesAre DEF CampaignInv, FileInv
<1>2. PICK q : Put(s, l, q) /\ GoodFile(q)
  <2>1. CASE Put(s, l, << >>)
    BY <2>1, EmptyFile
  <2>2. ASSUME NEW i \in DOMAIN rows, Put(s, l, RemoveAt(rows, i))
        PROVE  \E q : Put(s, l, q) /\ GoodFile(q)
    BY <1>1, <2>2, RemoveFile
  <2>3. ASSUME NEW i \in DOMAIN rows, Put(s, l, Append(rows, rows[i]))
        PROVE  \E q : Put(s, l, q) /\ GoodFile(q)
    <3>1. GoodRow(rows[i])
      BY <1>1 DEF GoodFile
    <3> QED BY <1>1, <2>3, <3>1, AppendFile
  <2>4. ASSUME NEW i \in DOMAIN rows, NEW j \in DOMAIN rows, Put(s, l, [rows EXCEPT ![i] = rows[j]])
        PROVE  \E q : Put(s, l, q) /\ GoodFile(q)
    <3>1. GoodRow(rows[j])
      BY <1>1 DEF GoodFile
    <3> QED BY <1>1, <2>4, <3>1, ExceptFile
  <2>5. ASSUME NEW i \in DOMAIN rows, NEW d \in {-2, 2},
               Put(s, l, [rows EXCEPT ![i].rate = @ + d, ![i].ttft = @ + d, ![i].wall = @ + d])
        PROVE  \E q : Put(s, l, q) /\ GoodFile(q)
    <3> DEFINE row == [rows[i] EXCEPT !.rate = @ + d, !.ttft = @ + d, !.wall = @ + d]
    <3>1. GoodRow(rows[i])
      BY <1>1 DEF GoodFile
    <3>2. GoodRow(row)
      BY <3>1 DEF GoodRow
    <3>3. [rows EXCEPT ![i].rate = @ + d, ![i].ttft = @ + d, ![i].wall = @ + d]
            = [rows EXCEPT ![i] = row]
      OBVIOUS
    <3> HIDE DEF row
    <3>4. GoodFile([rows EXCEPT ![i] = row])
      BY <1>1, <3>2, ExceptFile
    <3> QED BY <2>5, <3>3, <3>4
  <2>6. ASSUME NEW t \in ToSet(Sides), Put(s, l, files[t][l])
        PROVE  \E q : Put(s, l, q) /\ GoodFile(q)
    BY <2>6, SidesAre DEF CampaignInv, FileInv
  <2> QED BY <2>1, <2>2, <2>3, <2>4, <2>5, <2>6 DEF MixUp
<1>3. FileInv' /\ DOMAIN files' = SideSet /\ \A t \in SideSet : DOMAIN files'[t] = Lanes
  BY <1>1, <1>2, PutFile DEF Put, CampaignInv
<1>4. ShapeInv'
  BY <1>0, <1>3 DEF CampaignInv, ShapeInv
<1>5. EpochInv'
  BY <1>0, FixedInv
<1>6. StepInv'
  BY <1>0 DEF CampaignInv, StepInv, Manifest, Side
<1>7. AnswerInv'
  BY <1>0, NoAnswers DEF CampaignInv, AnswerInv
<1>8. PassIsOneEpoch'
  BY <1>0 DEF PassIsOneEpoch
<1> QED BY <1>3, <1>4, <1>5, <1>6, <1>7, <1>8 DEF CampaignInv

\* What the reducer's gates say of every row (check_evidence_binding and the
\* validity each gate asks for).
LEMMA GatesMean ==
  ASSUME NEW mb, NEW mc, NEW b, NEW c, ComparePasses(mb, mc, b, c)
  PROVE  /\ Changed(mb.profile, mc.profile) # {}
         /\ \A l \in Lanes : \A i \in DOMAIN b[l] : b[l][i].valid /\ b[l][i].bound = mb
         /\ \A l \in Lanes : \A i \in DOMAIN c[l] : c[l][i].valid /\ c[l][i].bound = mc
<1>1. Changed(mb.profile, mc.profile) # {}
  BY DEF ComparePasses, CheckParity
<1>2. ASSUME NEW l \in Lanes
      PROVE  /\ \A i \in DOMAIN b[l] : b[l][i].bound = mb
             /\ \A i \in DOMAIN c[l] : c[l][i].bound = mc
  BY DEF ComparePasses, CheckEvidenceBinding, RowBound
<1>3. ASSUME NEW l \in Lanes
      PROVE  /\ \A i \in DOMAIN b[l] : b[l][i].valid
             /\ \A i \in DOMAIN c[l] : c[l][i].valid
  <2>1. CASE l = "prose"
    BY <2>1 DEF ComparePasses, ProseGate, MeasuredProseRows
  <2>2. CASE l = "vision"
    BY <2>2 DEF ComparePasses, VisionTtftGate
  <2>3. CASE l \in RoundLanes
    BY <2>3 DEF ComparePasses, UpstreamGate, UpstreamRounds
  <2> QED BY <2>1, <2>2, <2>3 DEF Lanes
<1> QED BY <1>1, <1>2, <1>3

\* A comparison that passes has found rows of one server a side.
LEMMA ComparedInv ==
  ASSUME CampaignInv, Compared
  PROVE  CampaignInv'
<1>0. /\ step = "compare" /\ step' \in {"pass", "rejected"}
      /\ UNCHANGED <<running, epochs, side, context, manifests, files, lane, answers>>
      /\ step' = "pass" => ComparePasses(manifests["baseline"], manifests["candidate"],
                                         files["baseline"], files["candidate"])
  BY DEF Compared
<1>1. ShapeInv'
  BY <1>0 DEF CampaignInv, ShapeInv
<1>2. EpochInv'
  BY <1>0, FixedInv
<1>3. StepInv'
  BY <1>0 DEF CampaignInv, StepInv
<1>4. AnswerInv'
  BY <1>0, NoAnswers DEF CampaignInv, AnswerInv
<1>5. FileInv'
  BY <1>0 DEF CampaignInv, FileInv, GoodFile, IsSeq, GoodRow
<1>6. ASSUME step' = "pass"
      PROVE  /\ manifests["baseline"].epoch # manifests["candidate"].epoch
             /\ \A s \in SideSet, l \in Lanes : \A i \in DOMAIN files[s][l] :
                  LET row == files[s][l][i]
                  IN  row.valid /\ row.served = {manifests[s].epoch} /\ row.bound = manifests[s]
  <2> DEFINE mb == manifests["baseline"]
             mc == manifests["candidate"]
  <2>1. /\ Changed(mb.profile, mc.profile) # {}
        /\ \A l \in Lanes : \A i \in DOMAIN files["baseline"][l] :
             files["baseline"][l][i].valid /\ files["baseline"][l][i].bound = mb
        /\ \A l \in Lanes : \A i \in DOMAIN files["candidate"][l] :
             files["candidate"][l][i].valid /\ files["candidate"][l][i].bound = mc
    BY <1>0, <1>6, GatesMean
  <2>2. mb.profile # mc.profile
    BY <2>1 DEF Changed
  <2>3. mb \in Known /\ mc \in Known /\ mc.epoch # 0
    BY <1>0 DEF Known, SideSet, CampaignInv, StepInv
  <2>4. mb.epoch # mc.epoch
    BY <2>2, <2>3 DEF CampaignInv, EpochInv
  <2>5. ASSUME NEW s \in SideSet, NEW l \in Lanes, NEW i \in DOMAIN files[s][l]
        PROVE  files[s][l][i].valid /\ files[s][l][i].served = {manifests[s].epoch}
               /\ files[s][l][i].bound = manifests[s]
    <3>1. GoodRow(files[s][l][i])
      BY DEF CampaignInv, FileInv, GoodFile
    <3>2. files[s][l][i].valid /\ files[s][l][i].bound = manifests[s]
      BY <2>1 DEF SideSet
    <3> QED BY <3>1, <3>2 DEF GoodRow
  <2> QED BY <2>4, <2>5
<1>7. PassIsOneEpoch'
  BY <1>0, <1>6, SidesAre DEF PassIsOneEpoch, AllRows, ToSet
<1> QED BY <1>1, <1>2, <1>3, <1>4, <1>5, <1>7 DEF CampaignInv

\* Every step of the campaign keeps the invariant.
LEMMA CampaignStepInv == CampaignInv /\ [CampaignNext]_campaign => CampaignInv'
<1> SUFFICES ASSUME CampaignInv, [CampaignNext]_campaign PROVE CampaignInv'
  OBVIOUS
<1>1. CASE ServerStops
  BY <1>1, StopsInv
<1>2. CASE CaptureInspect \/ CaptureRead \/ CaptureReinspect
  BY <1>2, CaptureInv
<1>3. CASE VerifyBefore
  BY <1>3, VerifyInv
<1>4. CASE ChatRequest \/ RoundRequest
  BY <1>4, RequestInv
<1>5. CASE VerifyAfter
  BY <1>5, AfterInv
<1>6. CASE ProducerKilled
  BY <1>6, KilledInv
<1>7. CASE NextSide \/ Recapture
  BY <1>7, SideInv
<1>8. CASE Compared
  BY <1>8, ComparedInv
<1>9. CASE \E v \in Servers : ServerStarts(v)
  BY <1>9, StartsInv
<1>10. CASE \E given \in Levers : FreezeManifest(given)
  BY <1>10, FreezeInv
<1>11. CASE \E l \in Lanes : BeginLane(l) \/ RepeatRound(l)
  BY <1>11, LaneInv
<1>12. CASE \E s \in ToSet(Sides), l \in Lanes : MixUp(s, l)
  BY <1>12, MixUpInv
<1>13. CASE UNCHANGED campaign
  <2>0. UNCHANGED <<running, epochs, step, side, context, manifests, files, lane, answers>>
    BY <1>13 DEF campaign
  <2>1. ShapeInv' /\ StepInv' /\ AnswerInv'
    BY <2>0 DEF CampaignInv, ShapeInv, StepInv, AnswerInv, Manifest, Side, IsSeq
  <2>2. EpochInv'
    BY <2>0, FixedInv
  <2>3. FileInv'
    BY <2>0 DEF CampaignInv, FileInv, GoodFile, IsSeq, GoodRow
  <2>4. PassIsOneEpoch'
    BY <2>0 DEF CampaignInv, PassIsOneEpoch, AllRows
  <2> QED BY <2>1, <2>2, <2>3, <2>4 DEF CampaignInv
<1> QED BY <1>1, <1>2, <1>3, <1>4, <1>5, <1>6, <1>7, <1>8, <1>9, <1>10, <1>11, <1>12, <1>13
        DEF CampaignNext

\* A promotion rests on one server a side (verify_bound_epoch, verify_http_epoch,
\* check_evidence_binding), for any servers, restarts, lanes, cases and mix-ups.
THEOREM OneEpochPromoted == CampaignSpec => []PassIsOneEpoch
<1>1. CampaignSpec => []CampaignInv
  BY CampaignInitInv, CampaignStepInv, PTL DEF CampaignSpec
<1>2. CampaignInv => PassIsOneEpoch
  BY DEF CampaignInv
<1> QED BY <1>1, <1>2, PTL

(***************************************************************************)
(* Order statistics, and what the gates of the reducer say of the rows.     *)
(***************************************************************************)
\* Of the naturals in a set that is not empty one is the least.
LEMMA HasLeast ==
  ASSUME NEW S \in SUBSET Nat, S # {}
  PROVE  \E x \in S : \A y \in S : x <= y
<1>1. PICK x \in S : \A y \in S : ~(<<y, x>> \in OpToRel(<, Nat))
  BY NatLessThanWellFounded, WFMin
<1>2. \A y \in S : ~(y < x)
  BY <1>1 DEF OpToRel
<1>3. \A y \in S : x <= y
  BY <1>2
<1> QED BY <1>3

\* A finite set of places that is not empty has one with the highest value.
LEMMA HighestAt ==
  ASSUME NEW T, IsFiniteSet(T), T # {}, NEW f, \A i \in T : f[i] \in Nat
  PROVE  \E i \in T : \A j \in T : f[j] <= f[i]
<1> DEFINE Above(i) == {j \in T : f[i] < f[j]}
           Sizes == {Cardinality(Above(i)) : i \in T}
<1>1. \A i \in T : IsFiniteSet(Above(i)) /\ Cardinality(Above(i)) \in Nat
  <2> SUFFICES ASSUME NEW i \in T PROVE IsFiniteSet(Above(i)) /\ Cardinality(Above(i)) \in Nat
    OBVIOUS
  <2>1. Above(i) \in SUBSET T
    OBVIOUS
  <2> HIDE DEF Above
  <2> QED BY <2>1, FS_Subset, FS_CardinalityType
<1>2. PICK n \in Sizes : \A m \in Sizes : n <= m
  <2>1. Sizes \in SUBSET Nat /\ Sizes # {}
    BY <1>1
  <2> HIDE DEF Sizes
  <2> QED BY <2>1, HasLeast
<1>3. PICK i \in T : n = Cardinality(Above(i))
  BY <1>2
<1>4. ASSUME NEW j \in T, ~(f[j] <= f[i]) PROVE FALSE
  <2>1. Above(j) \in SUBSET Above(i) /\ j \in Above(i) /\ j \notin Above(j)
    BY <1>4
  <2>2. Cardinality(Above(j)) < Cardinality(Above(i))
    <3>1. IsFiniteSet(Above(i)) /\ Cardinality(Above(i)) \in Nat /\ Cardinality(Above(j)) \in Nat
      BY <1>1
    <3> HIDE DEF Above
    <3>2. Cardinality(Above(j)) <= Cardinality(Above(i)) /\ Cardinality(Above(j)) # Cardinality(Above(i))
      BY <2>1, <3>1, FS_Subset
    <3> QED BY <3>1, <3>2
  <2>3. n <= Cardinality(Above(j))
    BY <1>2
  <2> QED BY <1>1, <1>3, <2>2, <2>3, SMTT(30)
<1> QED BY <1>4

\* Places of a finite set.
LEMMA SomePlaces ==
  ASSUME NEW S, IsFiniteSet(S), NEW T \in SUBSET S
  PROVE  IsFiniteSet(T) /\ Cardinality(T) \in Nat /\ Cardinality(T) <= Cardinality(S)
BY FS_Subset, FS_CardinalityType

\* There is a k-th value, and it is one of the values.
LEMMA KthIs ==
  ASSUME NEW S, IsFiniteSet(S), NEW f \in [S -> Nat], NEW k \in 1..Cardinality(S)
  PROVE  /\ \E i \in S : f[i] = Kth(f, k)
         /\ Cardinality({i \in S : f[i] < Kth(f, k)}) < k
         /\ k <= Cardinality({i \in S : f[i] <= Kth(f, k)})
<1> DEFINE Under(v) == {i \in S : f[i] < v}
           UpTo(v) == {i \in S : f[i] <= v}
           Values == {f[i] : i \in S}
           Reached == {v \in Values : k <= Cardinality(UpTo(v))}
<1>0. Cardinality(S) \in Nat /\ k \in Nat /\ 1 <= k /\ k <= Cardinality(S)
  BY FS_CardinalityType
<1>1. /\ \A v : Under(v) \in SUBSET S /\ UpTo(v) \in SUBSET S
      /\ \A v : IsFiniteSet(Under(v)) /\ IsFiniteSet(UpTo(v))
      /\ \A v : Cardinality(Under(v)) \in Nat /\ Cardinality(UpTo(v)) \in Nat
  <2>1. \A v : Under(v) \in SUBSET S /\ UpTo(v) \in SUBSET S
    OBVIOUS
  <2> HIDE DEF Under, UpTo
  <2> QED BY <2>1, SomePlaces
<1>2. Reached # {}
  <2>1. S # {}
    BY <1>0, FS_EmptySet
  <2>2. PICK i \in S : \A j \in S : f[j] <= f[i]
    BY <2>1, HighestAt
  <2>3. UpTo(f[i]) = S
    BY <2>2
  <2> QED BY <2>3, <1>0
<1>3. PICK v \in Reached : \A w \in Reached : v <= w
  <2>1. Reached \in SUBSET Nat
    OBVIOUS
  <2> HIDE DEF Reached
  <2> QED BY <1>2, <2>1, HasLeast
<1>4. Cardinality(Under(v)) < k
  <2>1. CASE Under(v) = {}
    BY <2>1, <1>0, FS_EmptySet
  <2>2. CASE Under(v) # {}
    <3>1. PICK i \in Under(v) : \A j \in Under(v) : f[j] <= f[i]
      <4>1. \A i \in Under(v) : f[i] \in Nat
        OBVIOUS
      <4> HIDE DEF Under
      <4> QED BY <2>2, <1>1, <4>1, HighestAt
    <3>2. Under(v) \in SUBSET UpTo(f[i])
      BY <3>1
    <3>3. f[i] \notin Reached
      BY <1>3, <3>1
    <3>4. Cardinality(UpTo(f[i])) < k
      <4>1. f[i] \in Values
        BY <3>1
      <4>2. ~(k <= Cardinality(UpTo(f[i])))
        <5> HIDE DEF Values, UpTo
        <5> QED BY <4>1, <3>3
      <4>3. Cardinality(UpTo(f[i])) \in Nat
        <5> HIDE DEF UpTo
        <5> QED BY <1>1
      <4> HIDE DEF UpTo
      <4> QED BY <4>2, <4>3, <1>0
    <3>5. Cardinality(Under(v)) <= Cardinality(UpTo(f[i]))
      <4> HIDE DEF Under, UpTo
      <4> QED BY <1>1, <3>2, SomePlaces
    <3> HIDE DEF Under, UpTo
    <3> QED BY <3>4, <3>5, <1>0, <1>1
  <2> QED BY <2>1, <2>2
<1>5. DOMAIN f = S
  OBVIOUS
<1>6. Kth(f, k) = CHOOSE u \in Values : Cardinality(Under(u)) < k /\ k <= Cardinality(UpTo(u))
  BY <1>5 DEF Kth
<1>7. v \in Values /\ k <= Cardinality(UpTo(v))
  BY <1>3
<1> DEFINE P(u) == Cardinality(Under(u)) < k /\ k <= Cardinality(UpTo(u))
<1>8. Kth(f, k) \in Values /\ P(Kth(f, k))
  <2>1. P(v) BY <1>4, <1>7
  <2>2. Kth(f, k) = CHOOSE u \in Values : P(u) BY <1>6
  <2> HIDE DEF P, Values
  <2> QED BY <1>7, <2>1, <2>2
<1> QED BY <1>8

\* The median of an odd number of values is one of them; more than half are not
\* below it and more than half are not above it.
LEMMA MedianMost ==
  ASSUME NEW S, IsFiniteSet(S), Cardinality(S) = Repeats, NEW f \in [S -> Nat]
  PROVE  \E v \in Nat :
           /\ Median2(f) = 2 * v
           /\ \E i \in S : f[i] = v
           /\ 2 * Cardinality({i \in S : f[i] <= v}) > Repeats
           /\ 2 * Cardinality({i \in S : v <= f[i]}) > Repeats
<1> DEFINE k == (Repeats + 1) \div 2
           v == Kth(f, k)
           Under == {i \in S : f[i] < v}
           UpTo == {i \in S : f[i] <= v}
           From == {i \in S : v <= f[i]}
<1>1. Repeats \in Nat /\ k \in 1..Repeats /\ 2 * k = Repeats + 1
  BY CompareAssumption
<1>2. (\E i \in S : f[i] = v) /\ Cardinality(Under) < k /\ k <= Cardinality(UpTo)
  <2> HIDE DEF k
  <2> QED BY <1>1, KthIs
<1>3. Median2(f) = 2 * v /\ v \in Nat
  <2>1. DOMAIN f = S
    OBVIOUS
  <2>2. Repeats % 2 = 1
    BY CompareAssumption
  <2>3. v \in Nat
    BY <1>2
  <2> QED BY <2>1, <2>2, <2>3 DEF Median2
<1> HIDE DEF v, k
<1>4. /\ Cardinality(Under) \in Nat /\ Cardinality(UpTo) \in Nat /\ Cardinality(From) \in Nat
      /\ IsFiniteSet(Under) /\ IsFiniteSet(From)
  <2>1. Under \in SUBSET S /\ UpTo \in SUBSET S /\ From \in SUBSET S
    OBVIOUS
  <2> HIDE DEF Under, UpTo, From
  <2> QED BY <2>1, SomePlaces
<1>5. Cardinality(Under) + Cardinality(From) = Repeats
  <2>1. Under \cup From = S /\ Under \cap From = {}
    BY <1>3
  <2> HIDE DEF Under, From
  <2>2. Cardinality(S) = Cardinality(Under) + Cardinality(From) - Cardinality(Under \cap From)
    BY <2>1, <1>4, FS_Union
  <2> QED BY <2>1, <2>2, <1>4, FS_EmptySet
<1>6. 2 * Cardinality(UpTo) > Repeats /\ 2 * Cardinality(From) > Repeats
  <2> HIDE DEF UpTo, From, Under
  <2> QED BY <1>1, <1>2, <1>4, <1>5
<1> QED BY <1>2, <1>3, <1>6
\* The places of a sequence.
LEMMA PlacesCounted ==
  ASSUME NEW n \in Nat
  PROVE  IsFiniteSet(1..n) /\ Cardinality(1..n) = n
<1>1. IsFiniteSet(1..n) /\ Cardinality(1..n) = IF 1 > n THEN 0 ELSE n - 1 + 1
  BY FS_Interval
<1>2. (IF 1 > n THEN 0 ELSE n - 1 + 1) = n
  OBVIOUS
<1> QED BY <1>1, <1>2

\* Rows at different places that differ are as many as the places.
LEMMA RowsCounted ==
  ASSUME NEW rows, NEW S, IsFiniteSet(S), NEW P \in SUBSET S,
         \A i, j \in S : rows[i] = rows[j] => i = j,
         NEW R, R \subseteq {rows[i] : i \in S}, \A i \in P : rows[i] \in R
  PROVE  Cardinality(P) <= Cardinality(R) /\ Cardinality(R) \in Nat
<1> DEFINE all == {rows[i] : i \in S}
           f == [i \in S |-> rows[i]]
           g == [i \in P |-> rows[i]]
<1>1. f \in Bijection(S, all)
  BY DEF Bijection, Injection, Surjection, IsInjective
<1>2. IsFiniteSet(all)
  <2> HIDE DEF all, f
  <2> QED BY <1>1, FS_Bijection DEF ExistsBijection
<1>3. IsFiniteSet(R) /\ Cardinality(R) \in Nat
  <2>1. R \in SUBSET all
    OBVIOUS
  <2> HIDE DEF all
  <2> QED BY <1>2, <2>1, SomePlaces
<1>4. g \in Injection(P, R)
  BY DEF Injection, IsInjective
<1> HIDE DEF g
<1> QED BY <1>3, <1>4, FS_Injection

\* Most rows of X are 5% above some of Y, and most of Y below some of X.
MostGain(Y, X) ==
  /\ 2 * Cardinality({x \in X : \E y \in Y : Better(y.rate, x.rate, 5)}) > Repeats
  /\ 2 * Cardinality({y \in Y : \E x \in X : Better(y.rate, x.rate, 5)}) > Repeats

\* A gain of the medians is one of most rates (gate): most of the candidate's are
\* above one of the baseline's, and most of the baseline's below one of the
\* candidate's.
LEMMA GainIsMost ==
  ASSUME NEW b, NEW c, NEW B, NEW C, IsFiniteSet(B), IsFiniteSet(C),
         Cardinality(B) = Repeats, Cardinality(C) = Repeats,
         \A i, j \in B : b[i] = b[j] => i = j,
         \A i, j \in C : c[i] = c[j] => i = j,
         \A i \in B : b[i].rate \in Nat, \A i \in C : c[i].rate \in Nat,
         Gain(Median2(Rates(b, B)), Median2(Rates(c, C))),
         NEW Y, NEW X, Y = {b[i] : i \in B}, X = {c[i] : i \in C}
  PROVE  MostGain(Y, X)
<1> DEFINE f == Rates(b, B)
           g == Rates(c, C)
           Xs == {x \in X : \E y \in Y : Better(y.rate, x.rate, 5)}
           Ys == {y \in Y : \E x \in X : Better(y.rate, x.rate, 5)}
<1>0. /\ f \in [B -> Nat] /\ g \in [C -> Nat] /\ Repeats \in Nat
      /\ \A i \in B : f[i] = b[i].rate
      /\ \A i \in C : g[i] = c[i].rate
  BY CompareAssumption DEF Rates
<1>1. PICK u \in Nat :
        /\ Median2(f) = 2 * u
        /\ \E i \in B : f[i] = u
        /\ 2 * Cardinality({i \in B : f[i] <= u}) > Repeats
  <2> HIDE DEF f
  <2>1. \E m \in Nat :
          /\ Median2(f) = 2 * m
          /\ \E i \in B : f[i] = m
          /\ 2 * Cardinality({i \in B : f[i] <= m}) > Repeats
          /\ 2 * Cardinality({i \in B : m <= f[i]}) > Repeats
    BY <1>0, MedianMost, Zenon
  <2> QED BY <2>1
<1>2. PICK v \in Nat :
        /\ Median2(g) = 2 * v
        /\ \E i \in C : g[i] = v
        /\ 2 * Cardinality({i \in C : v <= g[i]}) > Repeats
  <2> HIDE DEF g
  <2>1. \E m \in Nat :
          /\ Median2(g) = 2 * m
          /\ \E i \in C : g[i] = m
          /\ 2 * Cardinality({i \in C : g[i] <= m}) > Repeats
          /\ 2 * Cardinality({i \in C : m <= g[i]}) > Repeats
    BY <1>0, MedianMost, Zenon
  <2> QED BY <2>1
<1>3. 100 * (2 * v - 2 * u) >= 5 * (2 * u)
  BY <1>1, <1>2 DEF Gain
<1>4. PICK ib \in B : b[ib].rate = u
  BY <1>0, <1>1
<1>5. PICK ic \in C : c[ic].rate = v
  BY <1>0, <1>2
<1> HIDE DEF f, g
<1>6. 2 * Cardinality(Xs) > Repeats
  <2> DEFINE P == {i \in C : v <= g[i]}
  <2>1. ASSUME NEW i \in P PROVE c[i] \in Xs
    <3>1. c[i].rate \in Nat /\ v <= c[i].rate /\ b[ib] \in Y
      BY <1>0
    <3>2. Better(b[ib].rate, c[i].rate, 5)
      BY <1>3, <1>4, <3>1 DEF Better
    <3> QED BY <3>1, <3>2
  <2>2. P \in SUBSET C /\ Xs \subseteq {c[i] : i \in C}
    OBVIOUS
  <2>3. Cardinality(P) \in Nat
    <3> HIDE DEF P
    <3> QED BY <2>2, SomePlaces
  <2>4. Cardinality(P) <= Cardinality(Xs) /\ Cardinality(Xs) \in Nat
    <3> HIDE DEF P, Xs
    <3> QED BY <2>1, <2>2, RowsCounted
  <2> HIDE DEF Xs
  <2> QED BY <1>0, <1>2, <2>3, <2>4
<1>7. 2 * Cardinality(Ys) > Repeats
  <2> DEFINE P == {i \in B : f[i] <= u}
  <2>1. ASSUME NEW i \in P PROVE b[i] \in Ys
    <3>1. b[i].rate \in Nat /\ b[i].rate <= u /\ c[ic] \in X
      BY <1>0
    <3>2. Better(b[i].rate, c[ic].rate, 5)
      BY <1>3, <1>5, <3>1 DEF Better
    <3> QED BY <3>1, <3>2
  <2>2. P \in SUBSET B /\ Ys \subseteq {b[i] : i \in B}
    OBVIOUS
  <2>3. Cardinality(P) \in Nat
    <3> HIDE DEF P
    <3> QED BY <2>2, SomePlaces
  <2>4. Cardinality(P) <= Cardinality(Ys) /\ Cardinality(Ys) \in Nat
    <3> HIDE DEF P, Ys
    <3> QED BY <2>1, <2>2, RowsCounted
  <2> HIDE DEF Ys
  <2> QED BY <1>0, <1>1, <2>3, <2>4
<1> QED BY <1>6, <1>7 DEF MostGain

Key(row) == [case |-> row.case, repeat |-> row.repeat]

\* A file with each item at one place has as many rows as there are items.
LEMMA ItemsCounted ==
  ASSUME NEW rows, NEW D, rows \in Seq(D), NEW l \in Lanes,
         {Key(rows[i]) : i \in DOMAIN rows} = Items(l),
         \A i, j \in DOMAIN rows : Key(rows[i]) = Key(rows[j]) => i = j
  PROVE  /\ {[case |-> row.case, repeat |-> row.repeat] : row \in ToSet(rows)} = Items(l)
         /\ Len(rows) = Cardinality(Items(l))
<1> DEFINE S == DOMAIN rows
           f == [i \in S |-> Key(rows[i])]
<1>1. {[case |-> row.case, repeat |-> row.repeat] : row \in ToSet(rows)} = {Key(rows[i]) : i \in S}
  BY DEF ToSet, Key
<1>2. S = 1..Len(rows) /\ Len(rows) \in Nat
  OBVIOUS
<1>3. f \in Bijection(S, Items(l))
  BY DEF Bijection, Injection, Surjection, IsInjective
<1>4. IsFiniteSet(S) /\ Cardinality(S) = Len(rows)
  BY <1>2, FS_Interval, SMTT(30)
<1> HIDE DEF f, S
<1>5. Cardinality(Items(l)) = Cardinality(S)
  BY <1>3, <1>4, FS_Bijection DEF ExistsBijection
<1> QED BY <1>1, <1>4, <1>5 DEF S
\* A file brings every item of its lane, each at one place.
EachOnce(rows, l) ==
  /\ {Key(rows[i]) : i \in DOMAIN rows} = Items(l)
  /\ \A i, j \in DOMAIN rows : Key(rows[i]) = Key(rows[j]) => i = j

\* As many rows of each case as repeats.
FullCases(rows, l) ==
  \A case \in FrozenInputs(l) : /\ IsFiniteSet(OfCase(rows, case))
                                /\ Cardinality(OfCase(rows, case)) = Repeats

\* As many rows as repeats, and all repeats, are each repeat once (check_counts).
LEMMA ProseOnce ==
  ASSUME NEW D, NEW rows \in Seq(D), CheckCounts(rows)
  PROVE  EachOnce(rows, "prose") /\ FullCases(rows, "prose")
<1>0. /\ FrozenInputs("prose") = ProseCases /\ Repeats \in Nat
      /\ Items("prose") = [case : ProseCases, repeat : 0..(Repeats - 1)]
  BY CompareAssumption DEF FrozenInputs, Items
<1>1. /\ {rows[i].case : i \in DOMAIN rows} = ProseCases
      /\ \A case \in ProseCases :
           /\ Cardinality(OfCase(rows, case)) = Repeats
           /\ {rows[i].repeat : i \in OfCase(rows, case)} = 0..(Repeats - 1)
  BY DEF CheckCounts
<1>2. ASSUME NEW case \in ProseCases
      PROVE  /\ IsFiniteSet(OfCase(rows, case))
             /\ \A i, j \in OfCase(rows, case) : rows[i].repeat = rows[j].repeat => i = j
  <2> DEFINE own == OfCase(rows, case)
             R == 0..(Repeats - 1)
             f == [i \in own |-> rows[i].repeat]
  <2>1. IsFiniteSet(own)
    <3>1. IsFiniteSet(1..Len(rows)) /\ own \in SUBSET (1..Len(rows))
      BY FS_Interval DEF OfCase
    <3> HIDE DEF own
    <3> QED BY <3>1, SomePlaces
  <2>2. Cardinality(own) = Cardinality(R)
    <3>1. Cardinality(R) = Repeats
      BY <1>0, FS_Interval
    <3> QED BY <1>1, <3>1
  <2>3. {rows[i].repeat : i \in own} = R
    BY <1>1
  <2> HIDE DEF own, R
  <2>4. f \in Surjection(own, R)
    BY <2>3 DEF Surjection
  <2>5. f \in Injection(own, R)
    <3> HIDE DEF f
    <3> QED BY <2>1, <2>2, <2>4, FS_SurjSameCardinalityImpliesInj
  <2>6. \A i, j \in own : rows[i].repeat = rows[j].repeat => i = j
    BY <2>5 DEF Injection, IsInjective
  <2> QED BY <2>1, <2>6 DEF own
<1>3. FullCases(rows, "prose")
  BY <1>0, <1>1, <1>2 DEF FullCases
<1>4. ASSUME NEW i \in DOMAIN rows, NEW j \in DOMAIN rows, Key(rows[i]) = Key(rows[j])
      PROVE  i = j
  <2>1. rows[i].case = rows[j].case /\ rows[i].repeat = rows[j].repeat
    BY <1>4 DEF Key
  <2>2. rows[i].case \in ProseCases /\ {i, j} \subseteq OfCase(rows, rows[i].case)
    BY <1>1, <2>1 DEF OfCase
  <2> QED BY <1>2, <2>1, <2>2
<1>5. ASSUME NEW i \in DOMAIN rows PROVE Key(rows[i]) \in Items("prose")
  <2>1. rows[i].case \in ProseCases /\ i \in OfCase(rows, rows[i].case)
    BY <1>1 DEF OfCase
  <2>2. rows[i].repeat \in 0..(Repeats - 1)
    BY <1>1, <2>1
  <2> QED BY <1>0, <2>1, <2>2 DEF Key
<1>6. ASSUME NEW x \in Items("prose") PROVE \E i \in DOMAIN rows : x = Key(rows[i])
  <2>1. x.case \in ProseCases /\ x.repeat \in 0..(Repeats - 1) /\ x = [case |-> x.case, repeat |-> x.repeat]
    <3>1. x \in [case : ProseCases, repeat : 0..(Repeats - 1)]
      BY <1>0
    <3> QED BY <3>1
  <2>2. PICK i \in OfCase(rows, x.case) : rows[i].repeat = x.repeat
    BY <1>1, <2>1
  <2> QED BY <2>1, <2>2 DEF OfCase, Key
<1>7. EachOnce(rows, "prose")
  BY <1>4, <1>5, <1>6 DEF EachOnce
<1> QED BY <1>3, <1>7

\* The rounds of a lane come in order (check_upstream).
LEMMA RoundsOnce ==
  ASSUME NEW D, NEW rows \in Seq(D), NEW l \in RoundLanes, UpstreamRounds(rows),
         {rows[i].case : i \in DOMAIN rows} = FrozenInputs(l)
  PROVE  EachOnce(rows, l) /\ FullCases(rows, l) /\ OfCase(rows, "batch") = DOMAIN rows
<1>0. /\ FrozenInputs(l) = {"batch"} /\ Repeats \in Nat
      /\ Items(l) = [case : {"batch"}, repeat : 0..(Repeats - 1)]
  BY CompareAssumption DEF FrozenInputs, Items
<1>1. DOMAIN rows = 1..Repeats /\ \A i \in DOMAIN rows : rows[i].case = "batch" /\ rows[i].repeat = i - 1
  <2>1. Len(rows) = Repeats /\ \A i \in DOMAIN rows : rows[i].repeat = i - 1
    BY DEF UpstreamRounds
  <2>2. \A i \in DOMAIN rows : rows[i].case = "batch"
    BY <1>0
  <2> QED BY <2>1, <2>2
<1>2. OfCase(rows, "batch") = DOMAIN rows
  BY <1>1 DEF OfCase
<1>3. FullCases(rows, l)
  BY <1>0, <1>1, <1>2, FS_Interval DEF FullCases
<1>4. \A i \in DOMAIN rows : Key(rows[i]) = [case |-> "batch", repeat |-> i - 1]
  BY <1>1 DEF Key
<1>5. \A x \in Items(l) : \E i \in DOMAIN rows : x = Key(rows[i])
  <2> SUFFICES ASSUME NEW x \in Items(l) PROVE \E i \in DOMAIN rows : x = Key(rows[i])
    OBVIOUS
  <2>1. x = [case |-> "batch", repeat |-> x.repeat] /\ x.repeat \in 0..(Repeats - 1)
    BY <1>0
  <2>2. x.repeat + 1 \in DOMAIN rows /\ (x.repeat + 1) - 1 = x.repeat
    BY <1>0, <1>1, <2>1
  <2> QED BY <1>4, <2>1, <2>2
<1>6. \A i \in DOMAIN rows : Key(rows[i]) \in Items(l)
  BY <1>0, <1>1, <1>4
<1>7. ASSUME NEW i \in DOMAIN rows, NEW j \in DOMAIN rows, Key(rows[i]) = Key(rows[j]) PROVE i = j
  <2>1. i - 1 = j - 1
    BY <1>4, <1>7
  <2> QED BY <1>1, <2>1
<1>8. EachOnce(rows, l)
  BY <1>5, <1>6, <1>7 DEF EachOnce
<1> QED BY <1>2, <1>3, <1>8

\* Vision rows have no repeats.
FlatRow(row) == "repeat" \in DOMAIN row /\ row.repeat = 0
FlatFile(rows) == \A i \in DOMAIN rows : FlatRow(rows[i])

\* Keys as many as rows, with the frozen cases, are each case once (vision_ttft_gate).
LEMMA VisionOnce ==
  ASSUME NEW D, NEW rows \in Seq(D), FlatFile(rows), Cardinality(Keys(rows)) = Len(rows),
         {rows[i].case : i \in DOMAIN rows} = FrozenInputs("vision")
  PROVE  EachOnce(rows, "vision")
<1>0. /\ FrozenInputs("vision") = VisionCases
      /\ Items("vision") = [case : VisionCases, repeat : {0}]
  <2>1. FrozenInputs("vision") = VisionCases
    BY DEF FrozenInputs
  <2>2. 0..(1 - 1) = {0}
    OBVIOUS
  <2> QED BY <2>1, <2>2 DEF Items
<1> DEFINE S == DOMAIN rows
           f == [i \in S |-> <<rows[i].case, rows[i].repeat>>]
<1>1. f \in Surjection(S, Keys(rows))
  BY DEF Surjection, Keys
<1>2. IsFiniteSet(S) /\ Cardinality(S) = Cardinality(Keys(rows))
  <2>1. S = 1..Len(rows) /\ Len(rows) \in Nat
    OBVIOUS
  <2>2. IsFiniteSet(1..Len(rows)) /\ Cardinality(1..Len(rows)) = Len(rows)
    BY <2>1, PlacesCounted
  <2> QED BY <2>1, <2>2
<1>3. f \in Injection(S, Keys(rows))
  <2> HIDE DEF f, S
  <2> QED BY <1>1, <1>2, FS_SurjSameCardinalityImpliesInj
<1>4. ASSUME NEW i \in S, NEW j \in S, Key(rows[i]) = Key(rows[j]) PROVE i = j
  <2>1. rows[i].case = rows[j].case /\ rows[i].repeat = rows[j].repeat
    BY <1>4 DEF Key
  <2>2. f[i] = f[j]
    BY <2>1
  <2> HIDE DEF f
  <2> QED BY <1>3, <2>2 DEF Injection, IsInjective
<1>5. \A i \in S : rows[i].case \in VisionCases /\ Key(rows[i]) = [case |-> rows[i].case, repeat |-> 0]
  BY <1>0 DEF Key, FlatFile, FlatRow
<1>6. \A x \in Items("vision") : \E i \in S : x = Key(rows[i])
  <2> SUFFICES ASSUME NEW x \in Items("vision") PROVE \E i \in S : x = Key(rows[i])
    OBVIOUS
  <2>1. x = [case |-> x.case, repeat |-> 0] /\ x.case \in VisionCases
    <3>1. x \in [case : VisionCases, repeat : {0}]
      BY <1>0
    <3> QED BY <3>1
  <2>2. PICK i \in S : rows[i].case = x.case
    BY <1>0, <2>1
  <2> QED BY <1>5, <2>1, <2>2
<1>7. \A i \in S : Key(rows[i]) \in Items("vision")
  BY <1>0, <1>5
<1> QED BY <1>4, <1>6, <1>7 DEF EachOnce
\* What the gates of the reducer say of one side.
LEMMA SideOnce ==
  ASSUME NEW rows, NEW l \in Lanes, IsSeq(rows),
         {rows[i].case : i \in DOMAIN rows} = FrozenInputs(l),
         l = "prose" => CheckCounts(rows),
         l \in RoundLanes => UpstreamRounds(rows),
         l = "vision" => FlatFile(rows) /\ Cardinality(Keys(rows)) = Len(rows)
  PROVE  /\ EachOnce(rows, l)
         /\ l # "vision" => FullCases(rows, l)
<1>1. rows \in Seq(ToSet(rows))
  BY DEF IsSeq
<1>2. CASE l = "prose"
  BY <1>1, <1>2, ProseOnce
<1>3. CASE l = "vision"
  BY <1>1, <1>3, VisionOnce
<1>4. CASE l \in RoundLanes
  BY <1>1, <1>4, RoundsOnce
<1> QED BY <1>2, <1>3, <1>4 DEF Lanes

\* The lanes of text: every case of them gains.
LEMMA CasesGain ==
  ASSUME NEW b, NEW c, NEW l \in Lanes \ {"vision"}, NEW case \in FrozenInputs(l),
         IsSeq(b), IsSeq(c),
         EachOnce(b, l), EachOnce(c, l), FullCases(b, l), FullCases(c, l),
         l = "prose" => ProseGate(b, c),
         l \in RoundLanes => /\ UpstreamGate(b, c)
                             /\ OfCase(b, "batch") = DOMAIN b /\ OfCase(c, "batch") = DOMAIN c
  PROVE  MostGain(RowsOf(b, case), RowsOf(c, case))
<1> DEFINE B == OfCase(b, case)
           C == OfCase(c, case)
<1>1. /\ IsFiniteSet(B) /\ IsFiniteSet(C) /\ Cardinality(B) = Repeats /\ Cardinality(C) = Repeats
      /\ B \subseteq DOMAIN b /\ C \subseteq DOMAIN c
  BY DEF FullCases, OfCase
<1>2. /\ \A i, j \in B : b[i] = b[j] => i = j
      /\ \A i, j \in C : c[i] = c[j] => i = j
  BY <1>1 DEF EachOnce
<1>3. /\ \A i \in B : b[i].rate \in Nat
      /\ \A i \in C : c[i].rate \in Nat
      /\ Gain(Median2(Rates(b, B)), Median2(Rates(c, C)))
  <2>1. CASE l = "prose"
    <3>1. case \in ProseCases
      BY <2>1 DEF FrozenInputs
    <3> QED BY <1>1, <2>1, <3>1 DEF ProseGate, MeasuredProseRows, FinitePositive
  <2>2. CASE l \in RoundLanes
    <3>1. case = "batch"
      BY <2>2, CompareAssumption DEF FrozenInputs
    <3>2. B = DOMAIN b /\ C = DOMAIN c
      BY <2>2, <3>1
    <3> HIDE DEF B, C
    <3> QED BY <2>2, <3>2 DEF UpstreamGate, UpstreamRounds, FinitePositive
  <2> QED BY <2>1, <2>2 DEF Lanes
<1> DEFINE Y == {b[i] : i \in B}
           X == {c[i] : i \in C}
<1>4. MostGain(Y, X)
  <2>1. X = {c[i] : i \in C} /\ Y = {b[i] : i \in B}
    OBVIOUS
  <2> HIDE DEF B, C, X, Y
  <2> QED BY <1>1, <1>2, <1>3, <2>1, GainIsMost
<1> QED BY <1>4 DEF RowsOf

\* What a comparison that passes means for the rows.
LEMMA PassFair ==
  ASSUME NEW mb, NEW mc, NEW b, NEW c, ComparePasses(mb, mc, b, c),
         \A l \in Lanes : IsSeq(b[l]) /\ IsSeq(c[l]),
         FlatFile(b["vision"]), FlatFile(c["vision"])
  PROVE  /\ mb.image = mc.image
         /\ \E field : Changed(mb.profile, mc.profile) = {field}
         /\ \A l \in Lanes : EachOnce(b[l], l) /\ EachOnce(c[l], l)
         /\ \A l \in Lanes \ {"vision"} : \A case \in FrozenInputs(l) :
              MostGain(RowsOf(b[l], case), RowsOf(c[l], case))
<1>1. mb.image = mc.image /\ \E field : Changed(mb.profile, mc.profile) = {field}
  BY DEF ComparePasses, CheckParity
<1>2. ASSUME NEW l \in Lanes
      PROVE  /\ {b[l][i].case : i \in DOMAIN b[l]} = FrozenInputs(l)
             /\ {c[l][i].case : i \in DOMAIN c[l]} = FrozenInputs(l)
             /\ l = "prose" => ProseGate(b[l], c[l]) /\ CheckCounts(b[l]) /\ CheckCounts(c[l])
             /\ l \in RoundLanes => /\ UpstreamGate(b[l], c[l])
                                    /\ UpstreamRounds(b[l]) /\ UpstreamRounds(c[l])
             /\ l = "vision" => /\ Cardinality(Keys(b[l])) = Len(b[l])
                                /\ Cardinality(Keys(c[l])) = Len(c[l])
  <2>1. /\ {b[l][i].case : i \in DOMAIN b[l]} = FrozenInputs(l)
        /\ {c[l][i].case : i \in DOMAIN c[l]} = FrozenInputs(l)
    BY DEF ComparePasses, CheckEvidenceBinding
  <2>2. l = "prose" => ProseGate(b[l], c[l]) /\ CheckCounts(b[l]) /\ CheckCounts(c[l])
    BY DEF ComparePasses, ProseGate
  <2>3. l \in RoundLanes => UpstreamGate(b[l], c[l]) /\ UpstreamRounds(b[l]) /\ UpstreamRounds(c[l])
    BY DEF ComparePasses, UpstreamGate
  <2>4. l = "vision" => Cardinality(Keys(b[l])) = Len(b[l]) /\ Cardinality(Keys(c[l])) = Len(c[l])
    BY DEF ComparePasses, VisionTtftGate
  <2> QED BY <2>1, <2>2, <2>3, <2>4
<1>3. ASSUME NEW l \in Lanes
      PROVE  /\ EachOnce(b[l], l) /\ EachOnce(c[l], l)
             /\ l # "vision" => FullCases(b[l], l) /\ FullCases(c[l], l)
  <2> DEFINE x == b[l]
             y == c[l]
  <2>1. IsSeq(x) /\ IsSeq(y) /\ (l = "vision" => FlatFile(x) /\ FlatFile(y))
    OBVIOUS
  <2>2. /\ {x[i].case : i \in DOMAIN x} = FrozenInputs(l)
        /\ l = "prose" => CheckCounts(x)
        /\ l \in RoundLanes => UpstreamRounds(x)
        /\ l = "vision" => Cardinality(Keys(x)) = Len(x)
    BY <1>2
  <2>3. /\ {y[i].case : i \in DOMAIN y} = FrozenInputs(l)
        /\ l = "prose" => CheckCounts(y)
        /\ l \in RoundLanes => UpstreamRounds(y)
        /\ l = "vision" => Cardinality(Keys(y)) = Len(y)
    BY <1>2
  <2> HIDE DEF x, y
  <2>4. EachOnce(x, l) /\ (l # "vision" => FullCases(x, l))
    BY <2>1, <2>2, SideOnce
  <2>5. EachOnce(y, l) /\ (l # "vision" => FullCases(y, l))
    BY <2>1, <2>3, SideOnce
  <2> QED BY <2>4, <2>5 DEF x, y
<1>4. ASSUME NEW l \in RoundLanes
      PROVE  OfCase(b[l], "batch") = DOMAIN b[l] /\ OfCase(c[l], "batch") = DOMAIN c[l]
  <2>1. l \in Lanes /\ FrozenInputs(l) = {"batch"}
    BY CompareAssumption DEF Lanes, FrozenInputs
  <2>2. /\ \A i \in DOMAIN b[l] : b[l][i].case = "batch"
        /\ \A i \in DOMAIN c[l] : c[l][i].case = "batch"
    BY <1>2, <2>1
  <2> QED BY <2>2 DEF OfCase
<1>5. ASSUME NEW l \in Lanes \ {"vision"}, NEW case \in FrozenInputs(l)
      PROVE  MostGain(RowsOf(b[l], case), RowsOf(c[l], case))
  <2> DEFINE x == b[l]
             y == c[l]
  <2>1. IsSeq(x) /\ IsSeq(y)
    OBVIOUS
  <2>2. EachOnce(x, l) /\ EachOnce(y, l) /\ FullCases(x, l) /\ FullCases(y, l)
    BY <1>3
  <2>3. /\ l = "prose" => ProseGate(x, y)
        /\ l \in RoundLanes => /\ UpstreamGate(x, y)
                               /\ OfCase(x, "batch") = DOMAIN x /\ OfCase(y, "batch") = DOMAIN y
    BY <1>2, <1>4
  <2> HIDE DEF x, y
  <2>4. MostGain(RowsOf(x, case), RowsOf(y, case))
    BY <2>1, <2>2, <2>3, CasesGain
  <2> QED BY <2>4 DEF x, y
<1> QED BY <1>1, <1>3, <1>5

(***************************************************************************)
(* The campaign keeps what the gates rely on.                              *)
(***************************************************************************)
\* The vision lane has no repeats, and its producer stops at the last case.
FlatInv == \A s \in SideSet : FlatFile(files[s]["vision"])
RoomInv == step \in {"verify", "request", "recheck"} /\ lane = "vision" => Len(Rows) < Len(Plan("vision"))
\* PASS is a comparison that has passed, and nothing moves after it.
PassedInv ==
  step = "pass" => ComparePasses(manifests["baseline"], manifests["candidate"],
                                 files["baseline"], files["candidate"])
FairInv == FlatInv /\ RoomInv /\ PassedInv

\* The plan of the vision lane is its cases.
LEMMA VisionPlan ==
  /\ Len(Plan("vision")) = Cardinality(VisionCases) /\ Len(Plan("vision")) >= 2
  /\ Len(Plan("vision")) \in Nat
  /\ \A i \in 1..Len(Plan("vision")) : Plan("vision")[i].repeat = 0
<1> DEFINE cases == SetToSeq(VisionCases)
           N == Cardinality(VisionCases)
<1>1. N \in Nat /\ N >= 2
  BY CompareAssumption, FS_CardinalityType
<1>2. \E f \in [1..N -> VisionCases] : IsInjective(f)
  <2>1. PICK f : f \in Bijection(1..N, VisionCases)
    BY CompareAssumption, FS_CardinalityType DEF ExistsBijection
  <2> QED BY <2>1 DEF Bijection, Injection
<1>3. cases \in [1..N -> VisionCases]
  BY <1>2 DEF SetToSeq
<1> HIDE DEF cases
<1>4. Len(cases) = N
  BY <1>1, <1>3
<1>5. Plan("vision") = [i \in 1..(Len(cases) * 1) |->
                          [case |-> cases[((i - 1) \div 1) + 1], repeat |-> (i - 1) % 1]]
  BY DEF Plan, FrozenInputs, cases
<1>6. Len(cases) * 1 = N
  BY <1>1, <1>4
<1>7. Plan("vision") = [i \in 1..N |-> [case |-> cases[((i - 1) \div 1) + 1], repeat |-> (i - 1) % 1]]
  BY <1>5, <1>6
<1>8. Len(Plan("vision")) = N
  BY <1>1, <1>7
<1>9. \A i \in 1..N : Plan("vision")[i].repeat = 0
  BY <1>1, <1>7
<1> QED BY <1>1, <1>8, <1>9

\* One file replaced by one that has no repeats, if it is of the vision lane.
LEMMA PutFlat ==
  ASSUME ShapeInv, FlatInv, NEW s \in SideSet, NEW l \in Lanes, NEW q, l = "vision" => FlatFile(q),
         files' = [files EXCEPT ![s][l] = q]
  PROVE  FlatInv'
<1>1. ASSUME NEW t \in SideSet PROVE FlatFile(files'[t]["vision"])
  <2>1. "vision" \in Lanes
    BY DEF Lanes
  <2>2. files'[t]["vision"] = IF t = s /\ l = "vision" THEN q ELSE files[t]["vision"]
    BY <2>1 DEF ShapeInv
  <2> QED BY <2>2 DEF FlatInv
<1>2. \A t \in SideSet : FlatFile(files'[t]["vision"])
  BY <1>1
<1> QED BY <1>2 DEF FlatInv, FlatFile, FlatRow

\* Nothing changes in the files.
LEMMA SameFlat ==
  ASSUME FlatInv, files' = files
  PROVE  FlatInv'
BY DEF FlatInv, FlatFile, FlatRow

\* A lane begins with an empty file and room for the first case.
LEMMA LaneFair ==
  ASSUME CampaignInv, FairInv, NEW l \in Lanes, BeginLane(l) \/ RepeatRound(l)
  PROVE  FlatInv' /\ RoomInv'
<1>0. Side \in SideSet /\ side' = side /\ lane' = l
  BY SidesAre DEF CampaignInv, ShapeInv, BeginLane, RepeatRound
<1>1. CASE BeginLane(l)
  <2>1. files' = [files EXCEPT ![Side][l] = << >>]
    BY <1>1 DEF BeginLane, FreshOutput
  <2>2. FlatInv'
    <3>1. FlatFile(<< >>)
      BY DEF FlatFile
    <3> QED BY <1>0, <2>1, <3>1, PutFlat DEF CampaignInv, FairInv
  <2>3. Rows' = << >>
    <3>1. Rows' = files'[Side][l]
      BY <1>0 DEF Rows, Side
    <3>2. files'[Side][l] = << >>
      BY <1>0, <2>1 DEF CampaignInv, ShapeInv
    <3> QED BY <3>1, <3>2
  <2>4. Len(Rows') = 0
    BY <2>3
  <2> QED BY <2>2, <2>4, VisionPlan DEF RoomInv
<1>2. CASE RepeatRound(l)
  <2>1. files' = files /\ l # "vision"
    BY <1>2, CompareAssumption DEF RepeatRound
  <2> QED BY <1>0, <2>1, SameFlat DEF RoomInv, FairInv
<1> QED BY <1>1, <1>2

\* A row of the vision lane is the next case of the plan.
LEMMA AfterFair ==
  ASSUME CampaignInv, FairInv, VerifyAfter
  PROVE  FlatInv' /\ RoomInv'
<1>0. Side \in SideSet /\ side' = side /\ lane \in Lanes /\ step = "recheck"
  BY SidesAre DEF CampaignInv, ShapeInv, VerifyAfter, Produce
<1>1. CASE Produce("lane") /\ files' = files
  BY <1>1, SameFlat DEF Produce, RoomInv, FairInv
<1>2. CASE /\ files' = [files EXCEPT ![Side][lane] = Append(@, NewRow)]
           /\ Produce(IF LaneOver THEN "lane" ELSE "verify")
  <2> DEFINE q == Append(Rows, NewRow)
             T == ToSet(Rows) \cup {NewRow}
  <2>1. Rows \in Seq(T) /\ NewRow \in T
    BY <1>0 DEF CampaignInv, FileInv, GoodFile, IsSeq, Rows
  <2>2. files' = [files EXCEPT ![Side][lane] = q]
    BY <1>2 DEF Rows
  <2> HIDE DEF T
  <2>3. /\ Len(q) = Len(Rows) + 1 /\ Len(Rows) \in Nat
        /\ \A i \in DOMAIN q : q[i] = NewRow \/ (i \in DOMAIN Rows /\ q[i] = Rows[i])
    BY <2>1
  <2>4. ASSUME lane = "vision" PROVE FlatFile(q)
    <3>1. Len(Rows) + 1 \in 1..Len(Plan("vision"))
      BY <1>0, <2>3, <2>4, VisionPlan DEF FairInv, RoomInv
    <3>2. NewRow.repeat = 0 /\ "repeat" \in DOMAIN NewRow
      <4>1. /\ NewRow.repeat = Plan("vision")[Len(Rows) + 1].repeat
            /\ "repeat" \in DOMAIN NewRow
        BY <2>4 DEF NewRow
      <4> QED BY <3>1, <4>1, VisionPlan
    <3>3. FlatFile(Rows)
      BY <1>0, <2>4 DEF FairInv, FlatInv, Rows
    <3> HIDE DEF q
    <3> QED BY <2>3, <3>2, <3>3 DEF FlatFile, FlatRow
  <2> HIDE DEF q
  <2>5. FlatInv'
    BY <1>0, <2>2, <2>4, PutFlat DEF CampaignInv, FairInv
  <2>6. RoomInv'
    <3> SUFFICES ASSUME step' # "lane", lane' = "vision" PROVE Len(Rows') < Len(Plan("vision"))
      BY DEF RoomInv
    <3>1. ~LaneOver /\ lane = "vision"
      BY <1>2 DEF Produce
    <3>2. Rows' = q
      <4>1. Rows' = files'[Side][lane]
        BY <1>0, <3>1 DEF Rows, Side
      <4> QED BY <1>0, <2>2, <4>1 DEF CampaignInv, ShapeInv
    <3>3. Len(Rows) + 1 # Len(Plan("vision"))
      BY <3>1 DEF LaneOver
    <3>4. Len(Rows) < Len(Plan("vision"))
      BY <1>0, <3>1 DEF FairInv, RoomInv
    <3> QED BY <2>3, <3>2, <3>3, <3>4, VisionPlan
  <2> QED BY <2>5, <2>6
<1> QED BY <1>1, <1>2 DEF VerifyAfter

\* Files that are mixed up have rows of their lane.
LEMMA MixUpFair ==
  ASSUME CampaignInv, FairInv, NEW s \in ToSet(Sides), NEW l \in Lanes, MixUp(s, l)
  PROVE  FlatInv' /\ RoomInv'
<1> DEFINE rows == files[s][l]
           OfLane(q) == l = "vision" => FlatFile(q)
<1>0. s \in SideSet /\ step' = "compare"
  BY SidesAre DEF MixUp
<1>1. IsSeq(rows) /\ OfLane(rows)
  BY <1>0 DEF CampaignInv, FileInv, GoodFile, FairInv, FlatInv
<1>2. PICK q : Put(s, l, q) /\ OfLane(q)
  <2>0. rows \in Seq(ToSet(rows))
    BY <1>1 DEF IsSeq
  <2>1. CASE Put(s, l, << >>)
    BY <2>1 DEF FlatFile
  <2>2. ASSUME NEW i \in DOMAIN rows, Put(s, l, RemoveAt(rows, i))
        PROVE  \E q : Put(s, l, q) /\ OfLane(q)
    <3>1. ASSUME l = "vision" PROVE FlatFile(RemoveAt(rows, i))
      <4> DEFINE T == ToSet(rows)
      <4>1. \A t \in T : FlatRow(t)
        BY <1>1, <3>1 DEF ToSet, FlatFile
      <4> HIDE DEF T
      <4>2. i \in 1..Len(rows) /\ Len(rows) \in Nat /\ rows \in Seq(T)
        BY <2>0 DEF T
      <4>3. SubSeq(rows, 1, i - 1) \in Seq(T) /\ SubSeq(rows, i + 1, Len(rows)) \in Seq(T)
        BY <4>2
      <4>4. RemoveAt(rows, i) \in Seq(T)
        BY <4>3 DEF RemoveAt
      <4> QED BY <4>1, <4>4 DEF FlatFile
    <3> QED BY <2>2, <3>1
  <2>3. ASSUME NEW i \in DOMAIN rows, Put(s, l, Append(rows, rows[i]))
        PROVE  \E q : Put(s, l, q) /\ OfLane(q)
    <3>1. ASSUME l = "vision" PROVE FlatFile(Append(rows, rows[i]))
      BY <1>1, <2>0, <3>1 DEF FlatFile
    <3> QED BY <2>3, <3>1
  <2>4. ASSUME NEW i \in DOMAIN rows, NEW j \in DOMAIN rows, Put(s, l, [rows EXCEPT ![i] = rows[j]])
        PROVE  \E q : Put(s, l, q) /\ OfLane(q)
    <3>1. ASSUME l = "vision" PROVE FlatFile([rows EXCEPT ![i] = rows[j]])
      BY <1>1, <3>1 DEF FlatFile
    <3> QED BY <2>4, <3>1
  <2>5. ASSUME NEW i \in DOMAIN rows, NEW d \in {-2, 2},
               Put(s, l, [rows EXCEPT ![i].rate = @ + d, ![i].ttft = @ + d, ![i].wall = @ + d])
        PROVE  \E q : Put(s, l, q) /\ OfLane(q)
    <3> DEFINE row == [rows[i] EXCEPT !.rate = @ + d, !.ttft = @ + d, !.wall = @ + d]
    <3>1. FlatRow(rows[i]) => FlatRow(row)
      BY DEF FlatRow
    <3>2. [rows EXCEPT ![i].rate = @ + d, ![i].ttft = @ + d, ![i].wall = @ + d]
            = [rows EXCEPT ![i] = row]
      OBVIOUS
    <3> HIDE DEF row
    <3>3. ASSUME l = "vision" PROVE FlatFile([rows EXCEPT ![i] = row])
      BY <1>1, <3>1, <3>3 DEF FlatFile
    <3> QED BY <2>5, <3>2, <3>3
  <2>6. ASSUME NEW t \in ToSet(Sides), Put(s, l, files[t][l])
        PROVE  \E q : Put(s, l, q) /\ OfLane(q)
    BY <2>6, SidesAre DEF FairInv, FlatInv
  <2> QED BY <2>1, <2>2, <2>3, <2>4, <2>5, <2>6 DEF MixUp
<1>3. FlatInv'
  BY <1>0, <1>2, PutFlat DEF Put, CampaignInv, FairInv
<1> QED BY <1>0, <1>3 DEF RoomInv

\* No step but a comparison ends in PASS, and none follows it.
LEMMA PassedStep ==
  ASSUME FairInv, [CampaignNext]_campaign
  PROVE  PassedInv'
<1>1. CASE Compared
  BY <1>1 DEF Compared, PassedInv
<1>2. CASE UNCHANGED campaign
  BY <1>2 DEF campaign, FairInv, PassedInv
<1>3. CASE CampaignNext /\ ~Compared
  <2>1. step' # "pass"
    BY <1>3 DEF CampaignNext, ServerStops, CaptureInspect, CaptureRead, CaptureReinspect, VerifyBefore,
       ChatRequest, RoundRequest, VerifyAfter, ProducerKilled, NextSide, Recapture, ServerStarts,
       FreezeManifest, BeginLane, RepeatRound, MixUp, Produce, flow
  <2> QED BY <2>1 DEF PassedInv
<1> QED BY <1>1, <1>2, <1>3

\* The files and the place in the plan, in every other step.
LEMMA OtherFair ==
  ASSUME CampaignInv, FairInv, files' = files,
         \/ step' \notin {"verify", "request", "recheck"}
         \/ /\ step \in {"verify", "request", "recheck"}
            /\ side' = side /\ lane' = lane
  PROVE  FlatInv' /\ RoomInv'
BY SameFlat DEF FairInv, RoomInv, Rows, Side

\* The invariant holds at first and is kept by every step.
LEMMA FairFirst == CampaignInit => FairInv
<1> SUFFICES ASSUME CampaignInit PROVE FairInv
  OBVIOUS
<1>1. "vision" \in Lanes /\ ToSet(Sides) = SideSet
  BY SidesAre DEF Lanes
<1>2. \A s \in SideSet : files[s]["vision"] = << >>
  BY <1>1 DEF CampaignInit, NoFiles
<1> QED BY <1>2 DEF CampaignInit, FairInv, FlatInv, FlatFile, RoomInv, PassedInv

LEMMA FairStep == CampaignInv /\ FairInv /\ [CampaignNext]_campaign => FairInv'
<1> SUFFICES ASSUME CampaignInv, FairInv, [CampaignNext]_campaign PROVE FairInv'
  OBVIOUS
<1>0. PassedInv'
  BY PassedStep
<1>1. FlatInv' /\ RoomInv'
  <2>1. CASE \E l \in Lanes : BeginLane(l) \/ RepeatRound(l)
    BY <2>1, LaneFair
  <2>2. CASE VerifyAfter
    BY <2>2, AfterFair
  <2>3. CASE \E s \in ToSet(Sides), l \in Lanes : MixUp(s, l)
    BY <2>3, MixUpFair
  <2>4. CASE ServerStops \/ \E v \in Servers : ServerStarts(v)
    <3>1. UNCHANGED <<files, step, side, lane>>
      BY <2>4 DEF ServerStops, ServerStarts, flow
    <3> QED BY <3>1, OtherFair
  <2>5. CASE CaptureInspect \/ CaptureRead \/ CaptureReinspect \/ \E given \in Levers : FreezeManifest(given)
    <3>1. files' = files /\ step' \notin {"verify", "request", "recheck"}
      BY <2>5 DEF CaptureInspect, CaptureRead, CaptureReinspect, FreezeManifest, Stay
    <3> QED BY <3>1, OtherFair
  <2>6. CASE NextSide \/ Recapture \/ Compared
    <3>1. files' = files /\ step' \notin {"verify", "request", "recheck"}
      BY <2>6 DEF NextSide, Recapture, Compared
    <3> QED BY <3>1, OtherFair
  <2>7. CASE VerifyBefore \/ ChatRequest \/ RoundRequest \/ ProducerKilled
    <3>1. /\ files' = files /\ step \in {"verify", "request", "recheck"}
          /\ step' = "lane" \/ (side' = side /\ lane' = lane)
      BY <2>7 DEF VerifyBefore, ChatRequest, RoundRequest, ProducerKilled, Produce, AnswerLost, Answer
    <3> QED BY <3>1, OtherFair
  <2>8. CASE UNCHANGED campaign
    <3>1. UNCHANGED <<files, step, side, lane>>
      BY <2>8 DEF campaign
    <3> QED BY <3>1, OtherFair
  <2> QED BY <2>1, <2>2, <2>3, <2>4, <2>5, <2>6, <2>7, <2>8 DEF CampaignNext
<1> QED BY <1>0, <1>1 DEF FairInv

\* The invariants make a promotion fair.
LEMMA PassIsFairFrom == CampaignInv /\ FairInv => PassIsFair
<1> SUFFICES ASSUME CampaignInv, FairInv, step = "pass" PROVE PassIsFair
  BY DEF PassIsFair
<1> DEFINE mb == manifests["baseline"]
           mc == manifests["candidate"]
           b == files["baseline"]
           c == files["candidate"]
<1>1. ComparePasses(mb, mc, b, c)
  BY DEF FairInv, PassedInv
<1>2. \A l \in Lanes : IsSeq(b[l]) /\ IsSeq(c[l])
  BY DEF CampaignInv, FileInv, GoodFile, SideSet
<1>3. FlatFile(b["vision"]) /\ FlatFile(c["vision"])
  BY DEF FairInv, FlatInv, SideSet
<1> HIDE DEF mb, mc, b, c
<1>4. /\ mb.image = mc.image
      /\ \E field : Changed(mb.profile, mc.profile) = {field}
      /\ \A l \in Lanes : EachOnce(b[l], l) /\ EachOnce(c[l], l)
      /\ \A l \in Lanes \ {"vision"} : \A case \in FrozenInputs(l) :
           MostGain(RowsOf(b[l], case), RowsOf(c[l], case))
  BY <1>1, <1>2, <1>3, PassFair
<1>5. Changed(mb.profile, mc.profile) # {} /\ Cardinality(Changed(mb.profile, mc.profile)) = 1
  BY <1>4, FS_Singleton
<1>6. ASSUME NEW s \in ToSet(Sides), NEW l \in Lanes
      PROVE  /\ {[case |-> row.case, repeat |-> row.repeat] : row \in ToSet(files[s][l])} = Items(l)
             /\ Len(files[s][l]) = Cardinality(Items(l))
  <2> DEFINE rows == files[s][l]
  <2>1. IsSeq(rows) /\ EachOnce(rows, l)
    <3>1. s = "baseline" \/ s = "candidate"
      BY SidesAre DEF SideSet
    <3> QED BY <1>2, <1>4, <3>1 DEF b, c
  <2> HIDE DEF rows
  <2>2. rows \in Seq(ToSet(rows))
    BY <2>1 DEF IsSeq
  <2>3. /\ {[case |-> row.case, repeat |-> row.repeat] : row \in ToSet(rows)} = Items(l)
        /\ Len(rows) = Cardinality(Items(l))
    BY <2>1, <2>2, ItemsCounted DEF EachOnce
  <2> QED BY <2>3 DEF rows
<1>7. \A l \in Lanes \ {"vision"} : \A case \in FrozenInputs(l) :
        LET y == RowsOf(b[l], case)
            x == RowsOf(c[l], case)
        IN  MostGain(y, x)
  BY <1>4
<1> QED BY <1>4, <1>5, <1>6, <1>7 DEF PassIsFair, MostGain, mb, mc, b, c

\* A promotion is fair (compare): every case and repeat once on each side, one
\* lever apart, and no single measurement carries the verdict, for any odd
\* number of repeats, any cases, servers, restarts and mix-ups.
THEOREM FairPromoted == CampaignSpec => []PassIsFair
<1>1. CampaignSpec => [](CampaignInv /\ FairInv)
  BY CampaignInitInv, CampaignStepInv, FairFirst, FairStep, PTL DEF CampaignSpec
<1> QED BY <1>1, PassIsFairFrom, PTL
=============================================================================
