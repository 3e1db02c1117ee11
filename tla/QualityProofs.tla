---------------------------- MODULE QualityProofs ----------------------------
(***************************************************************************)
(* What the quality runs guarantee for every value of the constants: a     *)
(* program passes in the sandbox only if it has earned it, and no process of *)
(* it that was seen outlives it; the admission of Q200 rows covers a score *)
(* and bounds the rows that come late, for any workers and rows; and a     *)
(* needle run builds exact cases, keeps one account of them, and reports ok *)
(* only for answers it got.  The three parts share no variables.           *)
(***************************************************************************)
EXTENDS Sandbox, Admission, Niah, FiniteSetTheorems, SequenceTheorems, WellFoundedInduction, TLAPS

(***************************************************************************)
(* The needle runner.  The invariant follows a case from its construction to *)
(* the frozen manifest, the rows and the summary.                          *)
(***************************************************************************)
\* A sequence, over its own elements.
IsSeq(q) == q \in Seq(ToSet(q))

NiahType ==
  /\ command \in Commands
  /\ npc \in [Runners -> {"start", "freeze", "verify", "open", "case", "done", "refused", "failed"}]
  /\ DOMAIN manifest = Paths
  /\ owner \in Runners \cup {NoRunner}
  /\ left \in [Runners -> SUBSET Selected]
  /\ attempt \in [Runners -> Nat]
  /\ DOMAIN verdicts = Runners /\ DOMAIN summary = Runners
  /\ IsSeq(out)

\* Files are created once: whoever is past a creation owns the file.
OwnerInv ==
  /\ \A r \in Runners : npc[r] \in {"freeze", "verify", "open", "case", "done"} =>
       command.assets = "pinned" /\ \A c \in CaseIds : BuildCase(c) # << >>
  /\ \A r \in Runners : npc[r] \in {"verify", "open", "case", "done"} =>
       manifest[command.path[r]].owner = r
  /\ \A r \in Runners : npc[r] \in {"case", "done"} => owner = r
  /\ \A r \in Runners : npc[r] \in {"start", "freeze", "verify", "open"} => attempt[r] = 0
  /\ owner # NoRunner => manifest[command.path[owner]].owner = owner
  /\ owner = NoRunner => out = << >>

\* What is frozen was built.
ManifestInv ==
  \A p \in Paths : \A i \in DOMAIN manifest[p].cases :
    LET case == manifest[p].cases[i]
    IN  case.id \in CaseIds /\ case.prompt = BuildCase(case.id) /\ case.prompt # << >>

\* The last row is of the case at hand, and may be followed by another attempt,
\* or it is final, and nothing of what is left is in the file.
LastInv ==
  \A r \in Runners : npc[r] = "case" =>
    /\ attempt[r] <= command.retries
    /\ command.dry => attempt[r] = 0
    /\ attempt[r] = 0 =>
         /\ \A j \in DOMAIN out, i \in left[r] : out[j].case # CaseOrder[i]
         /\ out # << >> => \/ out[Len(out)].verdict # "infra_error"
                           \/ out[Len(out)].attempt = command.retries + 1
    /\ attempt[r] # 0 =>
         /\ left[r] # {} /\ out # << >>
         /\ out[Len(out)].case = Case(r) /\ out[Len(out)].attempt = attempt[r]
         /\ out[Len(out)].verdict = "infra_error"
         /\ \A j \in DOMAIN out, i \in Rest(r) : out[j].case # CaseOrder[i]

\* A verdict that counts has its row, and the row its answer.
ScoreInv ==
  /\ \A i \in DOMAIN out : out[i].verdict = "pass" =>
       ~command.dry /\ out[i].answer \in Answers /\ RowVerdict(out[i].case, out[i].answer) = "pass"
  /\ \A r \in Runners :
       /\ summary[r].ok => npc[r] = "done"
       /\ DOMAIN verdicts[r] \subseteq {CaseOrder[i] : i \in Selected}
       /\ \A c \in DOMAIN verdicts[r] : verdicts[r][c] = "pass" =>
            \E i \in DOMAIN out : out[i].case = c /\ out[i].verdict = "pass"

NiahInv == NiahType /\ OwnerInv /\ ManifestInv /\ LastInv /\ ScoreInv /\ ScoredOnce /\ OkIsEarned

\* A set of naturals that is not empty has a least element.
LEMMA HasMin ==
  ASSUME NEW S \in SUBSET Nat, S # {}
  PROVE  Min(S) \in S /\ \A y \in S : Min(S) <= y
<1>1. PICK x \in S : \A y \in S : ~(<<y, x>> \in OpToRel(<, Nat))
  BY NatLessThanWellFounded, WFMin
<1>2. \A y \in S : ~(y < x)
  BY <1>1 DEF OpToRel
<1>3. \A y \in S : x <= y
  BY <1>2
<1> QED BY <1>3 DEF Min

\* A set of naturals with a bound that is not empty has a greatest element.
LEMMA HasLast ==
  ASSUME NEW n \in Nat, NEW S \in SUBSET (1..n), S # {}
  PROVE  \E x \in S : \A y \in S : y <= x
<1> DEFINE T == {n - x : x \in S}
<1>1. T \in SUBSET Nat /\ T # {}
  <2>1. \A x \in S : n - x \in Nat
    OBVIOUS
  <2>2. \A y \in T : y \in Nat
    BY <2>1
  <2>3. PICK x \in S : TRUE
    OBVIOUS
  <2>4. n - x \in T
    BY <2>3
  <2> QED BY <2>2, <2>4
<1> HIDE DEF T
<1>2. Min(T) \in T /\ \A y \in T : Min(T) <= y
  BY <1>1, HasMin
<1>3. PICK x \in S : Min(T) = n - x
  BY <1>2 DEF T
<1>4. \A y \in S : n - x <= n - y
  BY <1>2, <1>3 DEF T
<1> QED BY <1>4

\* Where a tag is last (rfind), 0 if it is nowhere.
LEMMA LastTagIs ==
  ASSUME NEW text \in Seq(STRING), NEW tag
  PROVE  /\ LastTag(text, tag) \in 0..Len(text)
         /\ LastTag(text, tag) > 0 => text[LastTag(text, tag)] = tag
<1> DEFINE S == {i \in DOMAIN text : text[i] = tag}
<1>1. CASE tag \notin ToSet(text)
  BY <1>1 DEF LastTag
<1>2. CASE tag \in ToSet(text)
  <2>1. S \in SUBSET (1..Len(text)) /\ S # {} /\ Len(text) \in Nat
    BY <1>2 DEF ToSet
  <2>2. PICK x \in S : \A y \in S : y <= x
    BY <2>1, HasLast
  <2>3. x \in DOMAIN text /\ text[x] = tag /\ \A j \in (x + 1)..Len(text) : text[j] # tag
    BY <2>1, <2>2
  <2> DEFINE P(i) == text[i] = tag /\ \A j \in (i + 1)..Len(text) : text[j] # tag
  <2>4. LastTag(text, tag) = CHOOSE i \in DOMAIN text : P(i)
    BY <1>2 DEF LastTag
  <2>5. \E i \in DOMAIN text : P(i)
    BY <2>3
  <2>6. LastTag(text, tag) \in DOMAIN text /\ P(LastTag(text, tag))
    <3> HIDE DEF P
    <3> QED BY <2>4, <2>5
  <2> QED BY <2>6
<1> QED BY <1>1, <1>2

\* What an answer says that passes (check_response).
LEMMA PassMeans ==
  ASSUME NEW c \in CaseIds, NEW a \in Answers, command \in Commands, RowVerdict(c, a) = "pass"
  PROVE  /\ a.wire = "json" /\ a.finish = "stop"
         /\ a.usage[1] = PromptSize /\ a.usage[3] = PromptSize + a.usage[2]
         /\ a.usage[2] <= MaxTokens
         /\ Answered(c, a.text)
<1> DEFINE res == JsonRequest(a)
           text == a.text
           final == SubSeq(text, LastTag(text, "close") + 1, Len(text))
<1>1. a.wire # "raises" /\ CheckResponse(c, res) = "pass"
  BY DEF RowVerdict
<1>2. res.usage = a.usage /\ res.finish_reason = a.finish /\ res.text = a.text
  BY DEF JsonRequest
<1>3. res.error = "none"
  BY <1>1 DEF CheckResponse
<1>4. a.wire = "json"
  BY <1>1, <1>3, AnswerAssumption DEF JsonRequest
<1> HIDE DEF res
<1>5. /\ a.usage[2] \in 1..MaxTokens /\ a.usage[3] = a.usage[1] + a.usage[2]
      /\ a.usage[1] = PromptSize /\ a.finish = "stop"
      /\ StartsInThinking => LastTag(text, "close") # 0
      /\ final = Codes[c]
  BY <1>1, <1>2, <1>3 DEF CheckResponse, Finished
<1>6. Answered(c, text)
  <2>1. text \in Seq(STRING)
    BY AnswerAssumption
  <2>2. LastTag(text, "close") \in 0..Len(text)
        /\ (LastTag(text, "close") > 0 => text[LastTag(text, "close")] = "close")
    BY <2>1, LastTagIs
  <2> QED BY <1>5, <2>2 DEF Answered
<1> QED BY <1>4, <1>5, <1>6, NiahAssumption

\* Nothing is done yet.
LEMMA NiahInitInv == NiahInit => NiahInv
<1> SUFFICES ASSUME NiahInit PROVE NiahInv
  OBVIOUS
<1>1. NiahType
  BY DEF NiahInit, NiahType, IsSeq, ToSet
<1>2. OwnerInv /\ LastInv
  BY DEF NiahInit, OwnerInv, LastInv
<1>3. ManifestInv
  BY DEF NiahInit, ManifestInv, Blank
<1>4. ScoreInv
  BY DEF NiahInit, ScoreInv
<1>5. ScoredOnce /\ OkIsEarned
  BY DEF NiahInit, ScoredOnce, OkIsEarned
<1> QED BY <1>1, <1>2, <1>3, <1>4, <1>5 DEF NiahInv

\* What depends on the command alone.
LEMMA CommandFixed ==
  ASSUME command' = command
  PROVE  /\ Selected' = Selected
         /\ \A c : BuildCase(c)' = BuildCase(c)
         /\ \A c, a : RowVerdict(c, a)' = RowVerdict(c, a)
         /\ \A c, text : Answered(c, text)' = Answered(c, text)
<1>1. Selected' = Selected
  BY DEF Selected
<1>2. \A c : BuildCase(c)' = BuildCase(c)
  BY DEF BuildCase, Unique, Overlap, Offset
<1>3. StartsInThinking' = StartsInThinking
  BY DEF StartsInThinking
<1>4. \A c, a : RowVerdict(c, a)' = RowVerdict(c, a)
  BY <1>3 DEF RowVerdict, CheckResponse
<1>5. \A c, text : Answered(c, text)' = Answered(c, text)
  BY <1>3 DEF Answered
<1> QED BY <1>1, <1>2, <1>4, <1>5

\* A step before the first row, or one that ends a run, leaves the rows alone.
LEMMA ControlInv ==
  ASSUME NiahInv, NEW r \in Runners,
         NEW to \in {"freeze", "verify", "open", "refused", "failed"}, Goto(r, to), npc[r] # "done",
         UNCHANGED <<command, owner, out, left, attempt, verdicts, summary>>,
         DOMAIN manifest' = Paths, OwnerInv', ManifestInv'
  PROVE  NiahInv'
<1>0. /\ npc' \in [Runners -> {"start", "freeze", "verify", "open", "case", "done", "refused", "failed"}]
      /\ \A q \in Runners : npc'[q] \in {"case", "done"} => npc[q] = npc'[q]
      /\ \A q \in Runners : npc[q] = "done" => npc'[q] = "done"
  BY DEF Goto, NiahInv, NiahType
<1>1. NiahType'
  BY <1>0, CommandFixed DEF NiahInv, NiahType, IsSeq
<1>2. LastInv'
  BY <1>0 DEF NiahInv, LastInv, Case, Rest
<1>3. ScoreInv'
  BY <1>0, CommandFixed DEF NiahInv, ScoreInv
<1>4. ScoredOnce'
  <2>1. owner # NoRunner => (manifest[command.path[owner]].owner)' = owner
    BY DEF OwnerInv
  <2>2. owner = NoRunner => out = << >>
    BY DEF NiahInv, OwnerInv
  <2> QED BY <2>1, <2>2 DEF NiahInv, ScoredOnce
<1>5. OkIsEarned'
  BY CommandFixed DEF NiahInv, OkIsEarned
<1> QED BY <1>1, <1>2, <1>3, <1>4, <1>5 DEF NiahInv

\* The steps of a runner that leave the files alone.
LEMMA RunnerQuietInv ==
  ASSUME NiahInv, NEW r \in Runners, Prepare(r) \/ VerifyModel(r) \/ RunnerKilled(r)
  PROVE  NiahInv'
<1>1. PICK to \in {"freeze", "open", "refused", "failed"} :
        /\ Goto(r, to) /\ npc[r] # "done"
        /\ to = "freeze" => command.assets = "pinned" /\ \A c \in CaseIds : BuildCase(c) # << >>
        /\ to = "open" => npc[r] = "verify"
        /\ to = "freeze" => npc[r] = "start"
        /\ UNCHANGED <<command, manifest, owner, out, left, attempt, verdicts, summary>>
  <2>1. CASE Prepare(r)
    BY <2>1 DEF Prepare
  <2>2. CASE VerifyModel(r)
    BY <2>2 DEF VerifyModel
  <2>3. CASE RunnerKilled(r)
    BY <2>3 DEF RunnerKilled
  <2> QED BY <2>1, <2>2, <2>3
<1>2. /\ npc' = [npc EXCEPT ![r] = to] /\ npc'[r] = to
      /\ \A q \in Runners : q # r => npc'[q] = npc[q]
  BY <1>1 DEF Goto, NiahInv, NiahType
<1>3. OwnerInv'
  <2>1. \A q \in Runners : npc'[q] \in {"freeze", "verify", "open", "case", "done"} =>
          command.assets = "pinned" /\ \A c \in CaseIds : BuildCase(c) # << >>
    BY <1>1, <1>2 DEF NiahInv, OwnerInv
  <2>2. \A q \in Runners : npc'[q] \in {"verify", "open", "case", "done"} =>
          manifest[command.path[q]].owner = q
    BY <1>1, <1>2 DEF NiahInv, OwnerInv
  <2>3. \A q \in Runners : npc'[q] \in {"case", "done"} => owner = q
    BY <1>1, <1>2 DEF NiahInv, OwnerInv
  <2>4. \A q \in Runners : npc'[q] \in {"start", "freeze", "verify", "open"} => attempt'[q] = 0
    BY <1>1, <1>2 DEF NiahInv, OwnerInv
  <2> QED BY <1>1, <2>1, <2>2, <2>3, <2>4, CommandFixed DEF NiahInv, OwnerInv
<1>4. ManifestInv'
  BY <1>1, CommandFixed DEF NiahInv, ManifestInv
<1> QED BY <1>1, <1>3, <1>4, ControlInv DEF NiahInv, NiahType

\* The manifest is frozen once.
LEMMA FreezeInv ==
  ASSUME NiahInv, NEW r \in Runners, Freeze(r)
  PROVE  NiahInv'
<1> DEFINE p == command.path[r]
           cases == [i \in Selected |-> [id |-> CaseOrder[i], prompt |-> BuildCase(CaseOrder[i])]]
<1>0. /\ npc[r] = "freeze" /\ UNCHANGED <<command, owner, out, left, attempt, verdicts, summary>>
      /\ command \in Commands /\ p \in Paths /\ r # NoRunner
  BY CommandAssumption, NiahAssumption DEF Freeze, NiahInv, NiahType
<1>1. CASE manifest[p].owner # NoRunner
  <2>1. Goto(r, "failed") /\ manifest' = manifest
    BY <1>1 DEF Freeze
  <2>2. npc'[r] = "failed" /\ \A q \in Runners : q # r => npc'[q] = npc[q]
    BY <2>1 DEF Goto, NiahInv, NiahType
  <2>3. OwnerInv'
    BY <1>0, <2>1, <2>2, CommandFixed DEF NiahInv, OwnerInv
  <2>4. ManifestInv'
    BY <1>0, <2>1, CommandFixed DEF NiahInv, ManifestInv
  <2> QED BY <1>0, <2>1, <2>3, <2>4, ControlInv DEF NiahInv, NiahType
<1>2. CASE manifest[p].owner = NoRunner
  <2>1. PICK to \in {"open", "verify"} : Goto(r, to)
    BY <1>2 DEF Freeze
  <2>2. manifest' = [manifest EXCEPT ![p] = [owner |-> r, cases |-> cases]]
    BY <1>2 DEF Freeze
  <2>3. npc'[r] = to /\ \A q \in Runners : q # r => npc'[q] = npc[q]
    BY <2>1 DEF Goto, NiahInv, NiahType
  <2>4. /\ DOMAIN manifest' = Paths
        /\ manifest'[p].owner = r /\ manifest'[p].cases = cases
        /\ \A x \in Paths : x # p => manifest'[x] = manifest[x]
    BY <1>0, <2>2 DEF NiahInv, NiahType
  <2>5. command.assets = "pinned" /\ \A c \in CaseIds : BuildCase(c) # << >>
    BY <1>0 DEF NiahInv, OwnerInv
  <2>6. OwnerInv'
    <3>1. \A q \in Runners : command.path[q] \in Paths
      BY <1>0, CommandAssumption
    <3>2. \A q \in Runners : npc'[q] \in {"verify", "open", "case", "done"} =>
            manifest'[command.path[q]].owner = q
      BY <1>0, <1>2, <2>3, <2>4, <3>1, NiahAssumption DEF NiahInv, OwnerInv
    <3>3. \A q \in Runners : npc'[q] \in {"case", "done"} => owner = q
      BY <2>3 DEF NiahInv, OwnerInv
    <3>4. owner # NoRunner => manifest'[command.path[owner]].owner = owner
      BY <1>0, <1>2, <2>4, <3>1, NiahAssumption DEF NiahInv, OwnerInv, NiahType
    <3>5. \A q \in Runners : npc'[q] \in {"start", "freeze", "verify", "open"} => attempt'[q] = 0
      BY <1>0, <2>3 DEF NiahInv, OwnerInv
    <3> QED BY <1>0, <2>5, <3>2, <3>3, <3>4, <3>5, CommandFixed DEF NiahInv, OwnerInv
  <2>7. ManifestInv'
    <3>1. ASSUME NEW i \in Selected
          PROVE  CaseOrder[i] \in CaseIds
      BY NiahAssumption DEF Selected
    <3>2. \A i \in DOMAIN cases : /\ cases[i].id \in CaseIds /\ cases[i].prompt = BuildCase(cases[i].id)
                                  /\ cases[i].prompt # << >>
      BY <2>5, <3>1
    <3> HIDE DEF cases
    <3>3. ASSUME NEW x \in Paths, NEW i \in DOMAIN manifest'[x].cases
          PROVE  LET case == manifest'[x].cases[i]
                 IN  case.id \in CaseIds /\ case.prompt = BuildCase(case.id) /\ case.prompt # << >>
      <4>1. CASE x = p
        BY <2>4, <3>2, <4>1
      <4>2. CASE x # p
        BY <2>4, <4>2 DEF NiahInv, ManifestInv
      <4> QED BY <4>1, <4>2
    <3> QED BY <1>0, <3>3, CommandFixed DEF ManifestInv
  <2> QED BY <1>0, <2>1, <2>4, <2>6, <2>7, ControlInv
<1> QED BY <1>1, <1>2

\* Exactly one runner creates the output.
LEMMA OpenInv ==
  ASSUME NiahInv, NEW r \in Runners, OpenOutput(r)
  PROVE  NiahInv'
<1>0. /\ npc[r] = "open" /\ UNCHANGED <<command, manifest, out, attempt, verdicts, summary>>
      /\ r # NoRunner
  BY NiahAssumption DEF OpenOutput
<1>1. CASE owner # NoRunner
  <2>1. Goto(r, "failed") /\ owner' = owner /\ left' = left
    BY <1>1 DEF OpenOutput
  <2>2. npc'[r] = "failed" /\ \A q \in Runners : q # r => npc'[q] = npc[q]
    BY <2>1 DEF Goto, NiahInv, NiahType
  <2>3. OwnerInv'
    BY <1>0, <2>1, <2>2, CommandFixed DEF NiahInv, OwnerInv
  <2>4. ManifestInv'
    BY <1>0, <2>1, CommandFixed DEF NiahInv, ManifestInv
  <2> QED BY <1>0, <2>1, <2>3, <2>4, ControlInv DEF NiahInv, NiahType
<1>2. CASE owner = NoRunner
  <2>1. /\ npc' = [npc EXCEPT ![r] = "case"] /\ owner' = r /\ left' = [left EXCEPT ![r] = Selected]
        /\ out = << >> /\ out' = << >>
    BY <1>0, <1>2 DEF OpenOutput, Goto, NiahInv, OwnerInv
  <2>2. /\ npc'[r] = "case" /\ \A q \in Runners : q # r => npc'[q] = npc[q]
        /\ \A q \in Runners : npc[q] \notin {"case", "done"}
    BY <1>2, <2>1, NiahAssumption DEF NiahInv, NiahType, OwnerInv
  <2>3. NiahType'
    BY <1>0, <2>1, CommandFixed DEF NiahInv, NiahType, IsSeq
  <2>4. OwnerInv'
    <3>1. \A q \in Runners : npc'[q] \in {"freeze", "verify", "open", "case", "done"} =>
            command.assets = "pinned" /\ \A c \in CaseIds : BuildCase(c) # << >>
      BY <1>0, <2>2 DEF NiahInv, OwnerInv
    <3>2. \A q \in Runners : npc'[q] \in {"verify", "open", "case", "done"} =>
            manifest[command.path[q]].owner = q
      BY <1>0, <2>2 DEF NiahInv, OwnerInv
    <3>3. \A q \in Runners : npc'[q] \in {"case", "done"} => owner' = q
      BY <2>1, <2>2
    <3>4. \A q \in Runners : npc'[q] \in {"start", "freeze", "verify", "open"} => attempt'[q] = 0
      BY <1>0, <2>2 DEF NiahInv, OwnerInv
    <3> QED BY <1>0, <2>1, <2>2, <3>1, <3>2, <3>3, <3>4, CommandFixed DEF OwnerInv
  <2>5. ManifestInv'
    BY <1>0, CommandFixed DEF NiahInv, ManifestInv
  <2>6. LastInv'
    <3>1. attempt'[r] = 0 /\ command.retries \in Nat
      BY <1>0, CommandAssumption DEF NiahInv, OwnerInv, NiahType
    <3> QED BY <1>0, <2>1, <2>2, <3>1 DEF LastInv
  <2>7. ScoreInv'
    BY <1>0, <2>1, <2>2, CommandFixed DEF NiahInv, ScoreInv
  <2>8. ScoredOnce'
    BY <2>1 DEF ScoredOnce
  <2>9. OkIsEarned'
    BY <1>0, <2>2 DEF NiahInv, ScoreInv, OkIsEarned
  <2> QED BY <2>3, <2>4, <2>5, <2>6, <2>7, <2>8, <2>9 DEF NiahInv
<1> QED BY <1>1, <1>2

\* The case at hand is not one of the rest.
LEMMA CaseAtHand ==
  ASSUME NiahType, NEW r \in Runners, left[r] # {}
  PROVE  /\ Min(left[r]) \in left[r] /\ Min(left[r]) \in Selected
         /\ Rest(r) \in SUBSET Selected
         /\ Case(r) \in {CaseOrder[i] : i \in Selected}
         /\ \A i \in Rest(r) : i \in left[r] /\ CaseOrder[i] # Case(r)
<1>1. left[r] \in SUBSET Nat /\ left[r] \in SUBSET Selected /\ Selected \subseteq DOMAIN CaseOrder
  BY NiahAssumption DEF NiahType, Selected
<1>2. Min(left[r]) \in left[r]
  BY <1>1, HasMin
<1> QED BY <1>1, <1>2, NiahAssumption DEF Rest, Case, IsInjective

\* A row, of a dry run or of an attempt, and what follows it.
LEMMA RowStep ==
  ASSUME NiahInv, NEW r \in Runners, npc[r] = "case", left[r] # {},
         NEW v, NEW n \in Nat, NEW a, NEW again \in BOOLEAN,
         out' = Append(out, Row(r, v, n, a)), Judge(r, v),
         UNCHANGED <<command, npc, manifest, owner, summary>>,
         attempt' = [attempt EXCEPT ![r] = IF again THEN n ELSE 0],
         left' = [left EXCEPT ![r] = IF again THEN left[r] ELSE Rest(r)],
         n = (IF command.dry THEN 0 ELSE attempt[r] + 1),
         command.dry => ~again,
         again => v = "infra_error" /\ n <= command.retries,
         ~again => v # "infra_error" \/ n > command.retries,
         v = "pass" => ~command.dry /\ a \in Answers /\ RowVerdict(Case(r), a) = "pass"
  PROVE  NiahInv'
<1> DEFINE new == Row(r, v, n, a)
           N == Len(out)
           T == ToSet(out) \cup {new}
<1>0. /\ new.by = r /\ new.case = Case(r) /\ new.attempt = n /\ new.verdict = v /\ new.answer = a
  BY DEF Row
<1>1. out \in Seq(T) /\ new \in T
  BY DEF NiahInv, NiahType, IsSeq
<1>2. out' = Append(out, new)
  OBVIOUS
<1> HIDE DEF new, T
<1>3. /\ out' \in Seq(T) /\ N \in Nat /\ Len(out') = N + 1 /\ out' # << >>
      /\ DOMAIN out = 1..N /\ DOMAIN out' = 1..(N + 1)
      /\ \A i \in 1..N : out'[i] = out[i]
      /\ out'[N + 1] = new
      /\ out # << >> => N > 0
  BY <1>1, <1>2
<1> HIDE DEF N
<1>4. /\ owner = r /\ r # NoRunner /\ manifest[command.path[r]].owner = r
      /\ \A q \in Runners : npc[q] \in {"case", "done"} => q = r
      /\ \A q \in Runners : ~summary[q].ok
      /\ command.retries \in Nat /\ attempt[r] \in Nat
  BY NiahAssumption, CommandAssumption DEF NiahInv, OwnerInv, ScoreInv, NiahType
<1>5. /\ Min(left[r]) \in left[r] /\ Min(left[r]) \in Selected
      /\ Rest(r) \in SUBSET Selected
      /\ Case(r) \in {CaseOrder[i] : i \in Selected}
      /\ \A i \in Rest(r) : i \in left[r] /\ CaseOrder[i] # Case(r)
  BY CaseAtHand DEF NiahInv
<1>6. /\ attempt'[r] = (IF again THEN n ELSE 0)
      /\ left'[r] = (IF again THEN left[r] ELSE Rest(r))
      /\ left' \in [Runners -> SUBSET Selected]
      /\ attempt' \in [Runners -> Nat]
  BY <1>5 DEF NiahInv, NiahType
<1>7. /\ attempt[r] <= command.retries
      /\ command.dry => attempt[r] = 0
      /\ attempt[r] = 0 =>
           /\ \A j \in DOMAIN out, i \in left[r] : out[j].case # CaseOrder[i]
           /\ out # << >> => out[N].verdict # "infra_error" \/ out[N].attempt = command.retries + 1
      /\ attempt[r] # 0 =>
           /\ out # << >>
           /\ out[N].case = Case(r) /\ out[N].attempt = attempt[r]
           /\ out[N].verdict = "infra_error"
           /\ \A j \in DOMAIN out, i \in Rest(r) : out[j].case # CaseOrder[i]
  BY DEF NiahInv, LastInv, N
<1>8. /\ verdicts' = [verdicts EXCEPT ![r] =
            [c \in DOMAIN verdicts[r] \cup {Case(r)} |-> IF c = Case(r) THEN v ELSE verdicts[r][c]]]
      /\ DOMAIN verdicts' = Runners
      /\ \A q \in Runners : q # r => verdicts'[q] = verdicts[q]
      /\ DOMAIN verdicts'[r] = DOMAIN verdicts[r] \cup {Case(r)}
      /\ \A c \in DOMAIN verdicts'[r] : verdicts'[r][c] = IF c = Case(r) THEN v ELSE verdicts[r][c]
  BY DEF Judge, NiahInv, NiahType
<1>9. NiahType'
  <2>1. IsSeq(out')
    BY <1>3, SMTT(30) DEF IsSeq, ToSet
  <2> QED BY <1>6, <1>8, <2>1, CommandFixed DEF NiahInv, NiahType, IsSeq
<1>10. OwnerInv'
  <2>1. \A q \in Runners : npc[q] \in {"start", "freeze", "verify", "open"} => attempt'[q] = 0
    BY DEF NiahInv, OwnerInv, NiahType
  <2> QED BY <1>4, <2>1, CommandFixed DEF NiahInv, OwnerInv
<1>11. ManifestInv'
  BY CommandFixed DEF NiahInv, ManifestInv
<1>12. LastInv'
  <2>1. ASSUME NEW j \in DOMAIN out', NEW i \in Rest(r)
        PROVE  out'[j].case # CaseOrder[i]
    <3>1. CASE j = N + 1
      BY <3>1, <1>0, <1>3, <1>5
    <3>2. CASE j \in DOMAIN out
      BY <3>2, <1>3, <1>5, <1>7
    <3> QED BY <1>3, <3>1, <3>2
  <2>2. CASE again
    <3>1. attempt'[r] = n /\ n # 0 /\ n <= command.retries /\ ~command.dry
      BY <2>2, <1>4, <1>6
    <3>2. Case(r)' = Case(r) /\ Rest(r)' = Rest(r) /\ left'[r] # {}
      BY <2>2, <1>6 DEF Case, Rest
    <3>3. out'[Len(out')].case = Case(r) /\ out'[Len(out')].attempt = n
          /\ out'[Len(out')].verdict = "infra_error"
      BY <2>2, <1>0, <1>3
    <3> QED BY <1>3, <1>4, <2>1, <3>1, <3>2, <3>3 DEF LastInv
  <2>3. CASE ~again
    <3>1. attempt'[r] = 0 /\ left'[r] = Rest(r)
      BY <2>3, <1>6
    <3>2. v # "infra_error" \/ n = command.retries + 1
      BY <2>3, <1>4, <1>7
    <3>3. out'[Len(out')].verdict # "infra_error" \/ out'[Len(out')].attempt = command.retries + 1
      BY <1>0, <1>3, <3>2
    <3> QED BY <1>4, <2>1, <3>1, <3>3 DEF LastInv
  <2> QED BY <2>2, <2>3
<1>13. ScoreInv'
  <2>1. ASSUME NEW i \in DOMAIN out', out'[i].verdict = "pass"
        PROVE  ~command.dry /\ out'[i].answer \in Answers
               /\ RowVerdict(out'[i].case, out'[i].answer) = "pass"
    <3>1. CASE i = N + 1
      BY <3>1, <2>1, <1>0, <1>3
    <3>2. CASE i \in DOMAIN out
      BY <3>2, <2>1, <1>3 DEF NiahInv, ScoreInv
    <3> QED BY <1>3, <3>1, <3>2
  <2>2. ASSUME NEW q \in Runners
        PROVE  DOMAIN verdicts'[q] \subseteq {CaseOrder[i] : i \in Selected}
    BY <1>5, <1>8 DEF NiahInv, ScoreInv
  <2>3. ASSUME NEW q \in Runners, NEW c \in DOMAIN verdicts'[q], verdicts'[q][c] = "pass"
        PROVE  \E i \in DOMAIN out' : out'[i].case = c /\ out'[i].verdict = "pass"
    <3>1. CASE q = r /\ c = Case(r)
      BY <3>1, <2>3, <1>0, <1>3, <1>8
    <3>2. CASE ~(q = r /\ c = Case(r))
      <4>1. c \in DOMAIN verdicts[q] /\ verdicts[q][c] = "pass"
        BY <3>2, <2>3, <1>8
      <4>2. PICK i \in DOMAIN out : out[i].case = c /\ out[i].verdict = "pass"
        BY <4>1 DEF NiahInv, ScoreInv
      <4> QED BY <4>2, <1>3
    <3> QED BY <3>1, <3>2
  <2> QED BY <1>4, <2>1, <2>2, <2>3, CommandFixed DEF ScoreInv
<1>14. ScoredOnce'
  <2>1. ASSUME NEW i \in 1..N
        PROVE  /\ out'[i].by = owner /\ manifest[command.path[owner]].owner = owner
               /\ out'[i].attempt <= command.retries + 1
               /\ i > 1 =>
                    \/ /\ out'[i].case = out'[i - 1].case /\ out'[i].attempt = out'[i - 1].attempt + 1
                       /\ out'[i - 1].verdict = "infra_error"
                    \/ /\ out'[i].attempt <= 1 /\ \A j \in 1..(i - 1) : out'[j].case # out'[i].case
                       /\ \/ out'[i - 1].verdict # "infra_error"
                          \/ out'[i - 1].attempt = command.retries + 1
    <3>1. out'[i] = out[i] /\ \A j \in 1..(i - 1) : out'[j] = out[j]
      BY <1>3
    <3>2. i > 1 => i - 1 \in 1..(i - 1)
      OBVIOUS
    <3> QED BY <1>3, <3>1, <3>2 DEF NiahInv, ScoredOnce
  <2>2. /\ new.by = owner /\ manifest[command.path[owner]].owner = owner
        /\ new.attempt <= command.retries + 1
    BY <1>0, <1>4, <1>7
  <2>3. ASSUME N + 1 > 1
        PROVE  \/ /\ new.case = out[N].case /\ new.attempt = out[N].attempt + 1
                  /\ out[N].verdict = "infra_error"
               \/ /\ new.attempt <= 1 /\ \A j \in 1..N : out[j].case # new.case
                  /\ \/ out[N].verdict # "infra_error"
                     \/ out[N].attempt = command.retries + 1
    <3>1. out # << >>
      BY <2>3, <1>3 DEF N
    <3>2. CASE attempt[r] = 0
      <4>1. new.attempt <= 1
        BY <3>2, <1>0
      <4>2. \A j \in 1..N : out[j].case # new.case
        BY <3>2, <1>0, <1>3, <1>5, <1>7 DEF Case
      <4> QED BY <3>1, <3>2, <4>1, <4>2, <1>7
    <3>3. CASE attempt[r] # 0
      BY <3>3, <1>0, <1>7
    <3> QED BY <3>2, <3>3
  <2>4. N + 1 > 1 => N \in 1..N /\ (N + 1) - 1 = N
    BY <1>3
  <2>5. ASSUME NEW i \in DOMAIN out'
        PROVE  /\ out'[i].by = owner /\ manifest[command.path[owner]].owner = owner
               /\ out'[i].attempt <= command.retries + 1
               /\ i > 1 =>
                    \/ /\ out'[i].case = out'[i - 1].case /\ out'[i].attempt = out'[i - 1].attempt + 1
                       /\ out'[i - 1].verdict = "infra_error"
                    \/ /\ out'[i].attempt <= 1 /\ \A j \in 1..(i - 1) : out'[j].case # out'[i].case
                       /\ \/ out'[i - 1].verdict # "infra_error"
                          \/ out'[i - 1].attempt = command.retries + 1
    <3>1. CASE i \in 1..N
      BY <3>1, <2>1
    <3>2. CASE i = N + 1
      BY <3>2, <1>3, <2>2, <2>3, <2>4
    <3> QED BY <1>3, <3>1, <3>2
  <2> QED BY <2>5 DEF ScoredOnce
<1>15. OkIsEarned'
  BY <1>4 DEF OkIsEarned
<1> QED BY <1>9, <1>10, <1>11, <1>12, <1>13, <1>14, <1>15 DEF NiahInv

\* A row of a dry run.
LEMMA DryInv ==
  ASSUME NiahInv, NEW r \in Runners, DryRow(r)
  PROVE  NiahInv'
<1>0. /\ npc[r] = "case" /\ command.dry /\ left[r] # {}
      /\ out' = Append(out, Row(r, "not_run_dry", 0, [wire |-> "none"]))
      /\ Judge(r, "not_run_dry")
      /\ left' = [left EXCEPT ![r] = Rest(r)]
      /\ UNCHANGED <<command, npc, manifest, owner, attempt, summary>>
  BY DEF DryRow
<1>1. attempt[r] = 0 /\ attempt \in [Runners -> Nat]
  BY <1>0 DEF NiahInv, LastInv, NiahType
<1>2. attempt' = [attempt EXCEPT ![r] = 0]
  BY <1>0, <1>1
<1> QED BY <1>0, <1>2, RowStep

\* A row of an attempt.
LEMMA AttemptInv ==
  ASSUME NiahInv, NEW r \in Runners, NEW a \in Answers, Attempt(r, a)
  PROVE  NiahInv'
<1> DEFINE v == RowVerdict(Case(r), a)
           n == attempt[r] + 1
           again == Retried(v) /\ n <= command.retries
<1>0. /\ npc[r] = "case" /\ ~command.dry /\ left[r] # {}
      /\ out' = Append(out, Row(r, v, n, a))
      /\ Judge(r, v)
      /\ attempt' = [attempt EXCEPT ![r] = IF again THEN n ELSE 0]
      /\ left' = [left EXCEPT ![r] = IF again THEN left[r] ELSE Rest(r)]
      /\ UNCHANGED <<command, npc, manifest, owner, summary>>
  BY DEF Attempt
<1>1. n \in Nat /\ command.retries \in Nat
  BY CommandAssumption DEF NiahInv, NiahType
<1>2. /\ again => v = "infra_error" /\ n <= command.retries
      /\ ~again => v # "infra_error" \/ n > command.retries
      /\ again \in BOOLEAN
  BY <1>1 DEF Retried
<1>3. n = (IF command.dry THEN 0 ELSE attempt[r] + 1) /\ (command.dry => ~again)
  BY <1>0
<1>4. v = "pass" => ~command.dry /\ a \in Answers /\ RowVerdict(Case(r), a) = "pass"
  BY <1>0
<1> HIDE DEF v, n, again
<1> QED BY <1>0, <1>1, <1>2, <1>3, <1>4, RowStep

\* The positions of the order are as many as the cases.
LEMMA CasesFinite ==
  /\ IsFiniteSet(CaseIds)
  /\ {CaseOrder[i] : i \in Selected} = CaseIds => Cardinality(Selected) = Cardinality(CaseIds)
<1>1. IsFiniteSet(DOMAIN CaseOrder)
  BY NiahAssumption, FS_Interval
<1>2. IsFiniteSet(Selected) /\ Selected \subseteq DOMAIN CaseOrder
  BY <1>1, FS_Subset DEF Selected
<1>3. IsFiniteSet(CaseIds)
  <2>1. CaseOrder \in Surjection(DOMAIN CaseOrder, CaseIds)
    BY NiahAssumption DEF Surjection, ToSet
  <2> QED BY <1>1, <2>1, FS_Surjection
<1>4. ASSUME {CaseOrder[i] : i \in Selected} = CaseIds
      PROVE  Cardinality(Selected) = Cardinality(CaseIds)
  <2> DEFINE f == [i \in Selected |-> CaseOrder[i]]
  <2>1. f \in [Selected -> CaseIds]
    BY <1>4
  <2>2. \A i, j \in Selected : f[i] = f[j] => i = j
    BY <1>2, NiahAssumption DEF IsInjective
  <2>3. \A c \in CaseIds : \E i \in Selected : f[i] = c
    BY <1>4
  <2> HIDE DEF f
  <2>4. f \in Bijection(Selected, CaseIds)
    <3>1. DOMAIN f = Selected
      BY DEF f
    <3> QED BY <2>1, <2>2, <2>3, <3>1 DEF Bijection, Injection, Surjection, IsInjective
  <2> QED BY <1>2, <2>4, FS_Bijection DEF ExistsBijection
<1> QED BY <1>3, <1>4

\* The summary.
LEMMA SummaryInv ==
  ASSUME NiahInv, NEW r \in Runners, Summarize(r)
  PROVE  NiahInv'
<1> DEFINE given == verdicts[r]
           passed == {c \in DOMAIN given : given[c] = "pass"}
           partial == DOMAIN given # CaseIds \/ \E c \in DOMAIN given : given[c] = "not_run_dry"
           ran == {c \in DOMAIN given : given[c] \notin {"infra_error", "not_run_dry"}}
<1>0. /\ npc[r] = "case"
      /\ summary' = [summary EXCEPT ![r] =
           [ok |-> ~partial /\ Cardinality(passed) = Cardinality(CaseIds),
            partial |-> partial \/ Cardinality(ran) # Cardinality(Selected)]]
      /\ npc' = [npc EXCEPT ![r] = "done"]
      /\ UNCHANGED <<command, manifest, owner, out, left, attempt, verdicts>>
  BY DEF Summarize, Goto
<1>1. /\ summary'[r].ok <=> (~partial /\ Cardinality(passed) = Cardinality(CaseIds))
      /\ summary'[r].partial <=> (partial \/ Cardinality(ran) # Cardinality(Selected))
      /\ \A q \in Runners : q # r => summary'[q] = summary[q]
      /\ DOMAIN summary' = Runners
      /\ npc' \in [Runners -> {"start", "freeze", "verify", "open", "case", "done", "refused", "failed"}]
      /\ npc'[r] = "done" /\ \A q \in Runners : q # r => npc'[q] = npc[q]
  <2> HIDE DEF partial, passed, ran
  <2> QED BY <1>0 DEF NiahInv, NiahType
<1>2. /\ owner = r /\ command.assets = "pinned"
      /\ \A q \in Runners : npc[q] \in {"case", "done"} => q = r
  BY <1>0 DEF NiahInv, OwnerInv
<1>3. NiahType'
  BY <1>0, <1>1, CommandFixed DEF NiahInv, NiahType, IsSeq
<1>4. OwnerInv'
  <2>1. \A q \in Runners : npc'[q] \in {"freeze", "verify", "open", "case", "done"} =>
          command.assets = "pinned" /\ \A c \in CaseIds : BuildCase(c) # << >>
    BY <1>0, <1>1 DEF NiahInv, OwnerInv
  <2>2. \A q \in Runners : npc'[q] \in {"verify", "open", "case", "done"} =>
          manifest[command.path[q]].owner = q
    BY <1>0, <1>1 DEF NiahInv, OwnerInv
  <2>3. \A q \in Runners : npc'[q] \in {"case", "done"} => owner = q
    BY <1>1, <1>2 DEF NiahInv, OwnerInv
  <2>4. \A q \in Runners : npc'[q] \in {"start", "freeze", "verify", "open"} => attempt'[q] = 0
    BY <1>0, <1>1 DEF NiahInv, OwnerInv
  <2> QED BY <1>0, <2>1, <2>2, <2>3, <2>4, CommandFixed DEF NiahInv, OwnerInv
<1>5. ManifestInv'
  BY <1>0, CommandFixed DEF NiahInv, ManifestInv
<1>6. LastInv'
  BY <1>1, <1>2 DEF LastInv
<1>7. ScoreInv'
  <2>1. \A q \in Runners : summary'[q].ok => npc'[q] = "done"
    BY <1>1 DEF NiahInv, ScoreInv
  <2>2. \A i \in DOMAIN out : out[i].verdict = "pass" =>
          ~command.dry /\ out[i].answer \in Answers /\ RowVerdict(out[i].case, out[i].answer) = "pass"
    BY DEF NiahInv, ScoreInv
  <2>3. \A q \in Runners :
          /\ DOMAIN verdicts[q] \subseteq {CaseOrder[i] : i \in Selected}
          /\ \A c \in DOMAIN verdicts[q] : verdicts[q][c] = "pass" =>
               \E i \in DOMAIN out : out[i].case = c /\ out[i].verdict = "pass"
    BY DEF NiahInv, ScoreInv
  <2>4. UNCHANGED <<command, out, verdicts>>
    BY <1>0
  <2> QED BY <2>1, <2>2, <2>3, <2>4, CommandFixed DEF ScoreInv
<1>8. ScoredOnce'
  BY <1>0 DEF NiahInv, ScoredOnce
<1>9. ASSUME summary'[r].ok
      PROVE  /\ ~command.dry /\ ~summary'[r].partial
             /\ {CaseOrder[i] : i \in Selected} = CaseIds
             /\ \A c \in CaseIds : \E i \in DOMAIN out :
                  LET a == out[i].answer
                  IN  /\ out[i].case = c /\ a.wire = "json" /\ a.finish = "stop"
                      /\ a.usage[1] = PromptSize /\ a.usage[3] = PromptSize + a.usage[2]
                      /\ a.usage[2] <= MaxTokens
                      /\ Answered(c, a.text)
  <2>1. DOMAIN given = CaseIds /\ Cardinality(passed) = Cardinality(CaseIds) /\ ~partial
    BY <1>1, <1>9
  <2>2. passed = CaseIds
    <3>1. passed \subseteq CaseIds
      BY <2>1
    <3> HIDE DEF passed
    <3> QED BY <2>1, <3>1, CasesFinite, FS_Subset
  <2>3. \A c \in CaseIds : given[c] = "pass"
    BY <2>2
  <2>4. {CaseOrder[i] : i \in Selected} = CaseIds
    <3>1. CaseIds \subseteq {CaseOrder[i] : i \in Selected}
      BY <2>1 DEF NiahInv, ScoreInv
    <3>2. \A i \in Selected : CaseOrder[i] \in CaseIds
      BY NiahAssumption DEF Selected
    <3> QED BY <3>1, <3>2
  <2>5. ran = CaseIds
    BY <2>1, <2>3
  <2>6. ~summary'[r].partial
    BY <1>1, <2>1, <2>4, <2>5, CasesFinite
  <2>7. \A c \in CaseIds : \E i \in DOMAIN out : out[i].case = c /\ out[i].verdict = "pass"
    BY <2>1, <2>3 DEF NiahInv, ScoreInv
  <2>8. ~command.dry
    <3>1. PICK c \in CaseIds : TRUE
      BY NiahAssumption
    <3> QED BY <2>7, <3>1 DEF NiahInv, ScoreInv
  <2>9. ASSUME NEW c \in CaseIds
        PROVE  \E i \in DOMAIN out :
                  LET a == out[i].answer
                  IN  /\ out[i].case = c /\ a.wire = "json" /\ a.finish = "stop"
                      /\ a.usage[1] = PromptSize /\ a.usage[3] = PromptSize + a.usage[2]
                      /\ a.usage[2] <= MaxTokens
                      /\ Answered(c, a.text)
    <3>1. PICK i \in DOMAIN out : out[i].case = c /\ out[i].verdict = "pass"
      BY <2>7
    <3>2. out[i].answer \in Answers /\ RowVerdict(c, out[i].answer) = "pass" /\ command \in Commands
      BY <3>1 DEF NiahInv, ScoreInv, NiahType
    <3> QED BY <3>1, <3>2, PassMeans
  <2> QED BY <2>4, <2>6, <2>8, <2>9
<1>10. OkIsEarned'
  <2>1. \A q \in Runners : q # r => ~summary'[q].ok
    BY <1>1, <1>2 DEF NiahInv, ScoreInv
  <2> QED BY <1>0, <1>2, <1>9, <2>1, CommandFixed DEF OkIsEarned
<1> QED BY <1>3, <1>4, <1>5, <1>6, <1>7, <1>8, <1>10 DEF NiahInv

\* Every step keeps the invariant.
LEMMA NiahStepInv == NiahInv /\ [NiahNext]_niah => NiahInv'
<1> SUFFICES ASSUME NiahInv, [NiahNext]_niah PROVE NiahInv'
  OBVIOUS
<1>1. ASSUME NEW r \in Runners, Prepare(r) \/ VerifyModel(r) \/ RunnerKilled(r) PROVE NiahInv'
  BY <1>1, RunnerQuietInv
<1>2. ASSUME NEW r \in Runners, Freeze(r) PROVE NiahInv'
  BY <1>2, FreezeInv
<1>3. ASSUME NEW r \in Runners, OpenOutput(r) PROVE NiahInv'
  BY <1>3, OpenInv
<1>4. ASSUME NEW r \in Runners, DryRow(r) PROVE NiahInv'
  BY <1>4, DryInv
<1>5. ASSUME NEW r \in Runners, NEW a \in Answers, Attempt(r, a) PROVE NiahInv'
  BY <1>5, AttemptInv
<1>6. ASSUME NEW r \in Runners, Summarize(r) PROVE NiahInv'
  BY <1>6, SummaryInv
<1>7. CASE UNCHANGED niah
  <2>0. UNCHANGED <<command, npc, manifest, owner, out, left, attempt, verdicts, summary>>
    BY <1>7 DEF niah
  <2>1. NiahType'
    BY <2>0, CommandFixed DEF NiahInv, NiahType, IsSeq
  <2>2. OwnerInv' /\ ManifestInv'
    BY <2>0, CommandFixed DEF NiahInv, OwnerInv, ManifestInv
  <2>3. LastInv'
    BY <2>0 DEF NiahInv, LastInv, Case, Rest
  <2>4. ScoreInv'
    BY <2>0, CommandFixed DEF NiahInv, ScoreInv
  <2>5. ScoredOnce' /\ OkIsEarned'
    BY <2>0, CommandFixed DEF NiahInv, ScoredOnce, OkIsEarned
  <2> QED BY <2>1, <2>2, <2>3, <2>4, <2>5 DEF NiahInv
<1> QED BY <1>1, <1>2, <1>3, <1>4, <1>5, <1>6, <1>7 DEF NiahNext

\* An output is one run's account of itself (_execute_cases), for any runners,
\* commands, cases, numbers of retries and answers.
THEOREM RowsScoredOnce == NiahSpec => []ScoredOnce
<1>1. NiahInv => ScoredOnce
  BY DEF NiahInv
<1> QED BY <1>1, NiahInitInv, NiahStepInv, PTL DEF NiahSpec

\* A run that reports ok has sent every case and got the codes for each (the
\* summary of _execute_cases, check_response).
THEOREM OkEarned == NiahSpec => []OkIsEarned
<1>1. NiahInv => OkIsEarned
  BY DEF NiahInv
<1> QED BY <1>1, NiahInitInv, NiahStepInv, PTL DEF NiahSpec

\* A part of one element.
LEMMA SubSeqOne ==
  ASSUME NEW S, NEW t \in Seq(S), NEW i \in 1..Len(t)
  PROVE  SubSeq(t, i, i) = <<t[i]>>
<1>1. i \in Int /\ \A j \in i..i : t[j] \in S
  OBVIOUS
<1>2. /\ SubSeq(t, i, i) \in Seq(S) /\ Len(SubSeq(t, i, i)) = 1
      /\ SubSeq(t, i, i)[1] = t[i]
  BY <1>1, SubSeqProperties
<1>3. \A q \in Seq(S) : Len(q) = 1 => q = <<q[1]>>
  OBVIOUS
<1> QED BY <1>2, <1>3, Zenon

\* A template with one slot is clean of it on either side.
LEMMA SlotSplits ==
  ASSUME NEW t \in Seq(STRING), Cardinality(Occurrences(<<Slot>>, t)) = 1,
         NEW cut, cut = CHOOSE i \in Occurrences(<<Slot>>, t) : TRUE
  PROVE  /\ cut \in Nat /\ cut + 1 <= Len(t)
         /\ SubSeq(t, 1, cut) \in Seq(STRING \ {Slot})
         /\ SubSeq(t, cut + 2, Len(t)) \in Seq(STRING \ {Slot})
<1> DEFINE slots == Occurrences(<<Slot>>, t)
<1>0. Len(t) \in Nat /\ Len(<<Slot>>) = 1
  OBVIOUS
<1>1. \A i : i \in slots <=> i \in 0..Len(t) /\ i + 1 <= Len(t) /\ SubSeq(t, i + 1, i + 1) = <<Slot>>
  BY <1>0 DEF Occurrences
<1>2. IsFiniteSet(slots)
  <2>1. IsFiniteSet(0..Len(t))
    BY <1>0, FS_Interval
  <2>2. slots \in SUBSET (0..Len(t))
    BY <1>1
  <2> QED BY <2>1, <2>2, FS_Subset
<1>3. \E x : slots = {x}
  BY <1>2, FS_Singleton
<1>4. slots = {cut}
  BY <1>3
<1> HIDE DEF slots
<1>5. cut \in 0..Len(t) /\ cut + 1 <= Len(t)
  BY <1>1, <1>4
<1>6. ASSUME NEW i \in 1..Len(t), i # cut + 1 PROVE t[i] \in STRING \ {Slot}
  <2>1. t[i] # Slot
    <3> SUFFICES ASSUME t[i] = Slot PROVE FALSE
      OBVIOUS
    <3>1. i - 1 \in 0..Len(t) /\ (i - 1) + 1 = i /\ i <= Len(t)
      BY <1>0
    <3>2. SubSeq(t, i, i) = <<Slot>>
      BY SubSeqOne
    <3>3. i - 1 \in slots
      BY <1>1, <3>1, <3>2
    <3>4. i - 1 = cut
      BY <1>4, <3>3
    <3> QED BY <1>5, <1>6, <3>1, <3>4
  <2> QED BY <2>1
<1>7. SubSeq(t, 1, cut) \in Seq(STRING \ {Slot})
  <2>1. \A i \in 1..cut : i \in 1..Len(t) /\ i # cut + 1
    BY <1>0, <1>5
  <2>2. \A i \in 1..cut : t[i] \in STRING \ {Slot}
    BY <1>6, <2>1, Zenon
  <2>3. 1 \in Int /\ cut \in Int
    BY <1>5
  <2> QED BY <2>2, <2>3, SubSeqProperties
<1>8. SubSeq(t, cut + 2, Len(t)) \in Seq(STRING \ {Slot})
  <2>1. \A i \in (cut + 2)..Len(t) : i \in 1..Len(t) /\ i # cut + 1
    BY <1>0, <1>5
  <2>2. \A i \in (cut + 2)..Len(t) : t[i] \in STRING \ {Slot}
    BY <1>6, <2>1, Zenon
  <2>3. cut + 2 \in Int /\ Len(t) \in Int
    BY <1>0, <1>5
  <2> QED BY <2>2, <2>3, SubSeqProperties
<1> QED BY <1>5, <1>7, <1>8

\* The codes of a case are different (build_case).
LEMMA CodesDiffer ==
  ASSUME NEW c \in CaseIds, Cardinality(ToSet(Codes[c])) = Len(Codes[c]),
         NEW m \in DOMAIN Codes[c], NEW n \in DOMAIN Codes[c], m # n
  PROVE  Codes[c][m] # Codes[c][n]
<1> DEFINE f == Codes[c]
           S == 1..Len(f)
           T == ToSet(f)
<1>1. f \in Seq(STRING) /\ Len(f) \in Nat /\ DOMAIN f = S
  BY NeedleAssumption
<1>2. IsFiniteSet(S) /\ Cardinality(S) = Len(f)
  BY <1>1, FS_Interval
<1>3. f \in [S -> T] /\ \A k \in T : \E i \in S : f[i] = k
  BY <1>1 DEF ToSet
<1>4. f \in Surjection(S, T)
  <2> HIDE DEF f, S, T
  <2> QED BY <1>3 DEF Surjection
<1>5. f \in Injection(S, T)
  <2>1. Cardinality(S) = Cardinality(T)
    BY <1>2
  <2> HIDE DEF f, S, T
  <2> QED BY <1>2, <1>4, <2>1, FS_SurjSameCardinalityImpliesInj
<1> QED BY <1>5 DEF Injection, IsInjective

\* What CaseExact says of the prompt of a case.
ExactFor(c, tokens) ==
  LET place(k) == Occurrences(Needle[k], tokens)
  IN  /\ Len(tokens) = PromptSize
      /\ Len(tokens) + MaxTokens + MtpReserve <= Window
      /\ \A k \in ToSet(Codes[c]) : place(k) = {command.depth[k]}
      /\ \A m, n \in DOMAIN Codes[c] : m < n =>
           \A x \in place(Codes[c][m]), y \in place(Codes[c][n]) : x < y
      /\ Slot \notin ToSet(tokens)

\* A case that is built is exact (_encode_with_positions, build_case).
LEMMA BuiltIsExact ==
  ASSUME command \in Commands, NEW c \in CaseIds, BuildCase(c) # << >>
  PROVE  ExactFor(c, BuildCase(c))
<1> DEFINE slots == Occurrences(<<Slot>>, command.template)
           cut == CHOOSE i \in slots : TRUE
           prefix == SubSeq(command.template, 1, cut)
           suffix == SubSeq(command.template, cut + 2, Len(command.template))
           size == PromptSize - Len(prefix) - Len(suffix)
           codes == ToSet(Codes[c])
           hit(i) == {k \in codes : Offset(k) < i /\ i <= Offset(k) + Len(Needle[k])}
           body == Filler(command.filler, size)
           token(j) == LET i == j + Len(prefix)
                           k == CHOOSE x \in hit(i) : TRUE
                       IN  IF hit(i) = {} THEN body[j] ELSE Needle[k][i - Offset(k)]
           middle == [j \in 1..size |-> token(j)]
           prompt == prefix \o middle \o suffix
           Clean == STRING \ {Slot}
<1>1. /\ BuildCase(c) = prompt
      /\ PromptSize <= MaxPrompt
      /\ Cardinality(codes) = Len(Codes[c])
      /\ Cardinality(slots) = 1
      /\ size > 0
      /\ \A j, k \in codes : j # k => ~Overlap(j, k)
      /\ \A k \in codes : Unique(k, prompt)
  BY DEF BuildCase
<1>2. /\ command.template \in Seq(STRING) /\ command.filler \in Seq(Clean) /\ command.filler # << >>
      /\ \A k \in codes : Needle[k] \in Seq(Clean) /\ Needle[k] # << >>
      /\ Codes[c] \in Seq(STRING)
      /\ \A i, j \in DOMAIN Codes[c] :
           /\ Offset(Codes[c][i]) \in Nat
           /\ i < j => Offset(Codes[c][i]) <= Offset(Codes[c][j])
  BY CommandAssumption, NeedleAssumption DEF Offset
<1>3. prefix \in Seq(Clean) /\ suffix \in Seq(Clean)
  <2> HIDE DEF Clean
  <2> QED BY <1>1, <1>2, SlotSplits DEF Clean
<1> HIDE DEF slots, cut, prefix, suffix
<1>4. /\ PromptSize \in Nat /\ Len(prefix) \in Nat /\ Len(suffix) \in Nat
      /\ size \in Nat /\ size + Len(prefix) + Len(suffix) = PromptSize
  <2>1. PromptSize \in Nat /\ Len(prefix) \in Nat /\ Len(suffix) \in Nat
    BY <1>3, NiahAssumption
  <2>2. \A p, x, y \in Nat : p - x - y > 0 => p - x - y \in Nat /\ (p - x - y) + x + y = p
    OBVIOUS
  <2>3. size > 0
    BY <1>1
  <2> QED BY <2>1, <2>2, <2>3
<1>5. \A k \in codes : Offset(k) \in Nat
  BY <1>2 DEF ToSet
<1> HIDE DEF size
<1>6. ASSUME NEW j \in 1..size
      PROVE  token(j) \in Clean
  <2> DEFINE i == j + Len(prefix)
             k == CHOOSE x \in hit(i) : TRUE
  <2>1. CASE hit(i) = {}
    <3> DEFINE n == Len(command.filler)
               pos == ((j - 1) % n) + 1
    <3>1. n \in Nat /\ n > 0
      BY <1>2
    <3>2. pos \in 1..n
      <4> HIDE DEF n
      <4> QED BY <3>1, <1>4
    <3>3. body[j] = command.filler[pos]
      BY DEF Filler
    <3>4. command.filler[pos] \in Clean
      <4> HIDE DEF pos, Clean
      <4> QED BY <3>2, <1>2
    <3> QED BY <2>1, <3>3, <3>4
  <2>2. CASE hit(i) # {}
    <3>1. k \in hit(i)
      BY <2>2
    <3>2. token(j) = Needle[k][i - Offset(k)]
      BY <2>2
    <3> HIDE DEF k
    <3>3. k \in codes /\ Offset(k) < i /\ i <= Offset(k) + Len(Needle[k])
      BY <3>1
    <3>4. Offset(k) \in Nat /\ i \in Nat /\ Needle[k] \in Seq(Clean)
      BY <3>3, <1>2, <1>4, <1>5
    <3>5. i - Offset(k) \in 1..Len(Needle[k])
      <4> HIDE DEF i
      <4> QED BY <3>3, <3>4
    <3>6. Needle[k][i - Offset(k)] \in Clean
      <4> HIDE DEF i, Clean
      <4> QED BY <3>4, <3>5
    <3> QED BY <3>2, <3>6
  <2> QED BY <2>1, <2>2
<1> HIDE DEF token, Clean, codes
<1>7. middle \in Seq(Clean) /\ Len(middle) = size
  BY <1>4, <1>6
<1> HIDE DEF middle
<1>8. prompt \in Seq(Clean) /\ Len(prompt) = PromptSize
  <2>1. prefix \o middle \in Seq(Clean) /\ Len(prefix \o middle) = Len(prefix) + size
    BY <1>3, <1>7, ConcatProperties
  <2>2. prompt \in Seq(Clean) /\ Len(prompt) = Len(prefix) + size + Len(suffix)
    BY <1>3, <2>1, ConcatProperties
  <2> QED BY <1>4, <2>2
<1> HIDE DEF prompt
<1>9. PromptSize + MaxTokens + MtpReserve <= Window
  BY <1>1, NiahAssumption DEF MaxPrompt
<1>10. \A k \in codes : Occurrences(Needle[k], prompt) = {Offset(k)}
  BY <1>1 DEF Unique
<1>11. ASSUME NEW m \in DOMAIN Codes[c], NEW n \in DOMAIN Codes[c], m < n
       PROVE  Offset(Codes[c][m]) < Offset(Codes[c][n])
  <2> DEFINE j == Codes[c][m]
             k == Codes[c][n]
  <2>1. m # n
    BY <1>2, <1>11
  <2>2. j # k
    BY <1>1, <2>1, CodesDiffer DEF codes
  <2>3. j \in codes /\ k \in codes
    BY DEF codes, ToSet
  <2> HIDE DEF j, k
  <2>4. ~Overlap(j, k)
    BY <1>1, <2>2, <2>3
  <2>5. Len(Needle[j]) \in Nat \ {0} /\ Len(Needle[k]) \in Nat \ {0}
    BY <1>2, <2>3
  <2>6. Offset(j) \in Nat /\ Offset(k) \in Nat /\ Offset(j) <= Offset(k)
    BY <1>2, <1>5, <1>11, <2>3 DEF j, k
  <2> QED BY <2>4, <2>5, <2>6 DEF Overlap, j, k
<1>12. \A m, n \in DOMAIN Codes[c] : m < n =>
         \A x \in Occurrences(Needle[Codes[c][m]], prompt), y \in Occurrences(Needle[Codes[c][n]], prompt) : x < y
  <2>1. \A m \in DOMAIN Codes[c] : Codes[c][m] \in codes
    BY DEF codes, ToSet
  <2> QED BY <1>10, <1>11, <2>1
<1>13. Slot \notin ToSet(prompt)
  BY <1>8 DEF Clean, ToSet
<1>14. ExactFor(c, prompt)
  BY <1>8, <1>9, <1>10, <1>12, <1>13 DEF ExactFor, Offset, codes
<1> QED BY <1>1, <1>14

\* A frozen case has the promised size, leaves room for the answer, and holds
\* every needle once, at its depth and in the order asked for (build_case).
THEOREM CasesExact == NiahSpec => []CaseExact
<1>1. ASSUME NiahInv PROVE CaseExact
  <2> SUFFICES ASSUME NEW p \in Paths, NEW i \in DOMAIN manifest[p].cases
               PROVE  ExactFor(manifest[p].cases[i].id, manifest[p].cases[i].prompt)
    BY DEF CaseExact, ExactFor
  <2>1. /\ manifest[p].cases[i].id \in CaseIds
        /\ manifest[p].cases[i].prompt = BuildCase(manifest[p].cases[i].id)
        /\ BuildCase(manifest[p].cases[i].id) # << >>
    BY <1>1 DEF NiahInv, ManifestInv
  <2>2. command \in Commands
    BY <1>1 DEF NiahInv, NiahType
  <2> QED BY <2>1, <2>2, BuiltIsExact
<1> QED BY <1>1, NiahInitInv, NiahStepInv, PTL DEF NiahSpec

(***************************************************************************)
(* The driver in the sandbox.  PhaseInv says what each phase of the driver *)
(* has settled: nothing runs before the spawn, the status is still open in *)
(* the loop and decided when the driver terminates the candidate, and a    *)
(* clean verdict is only reached with the output at its end.  PipeInv is   *)
(* why an end of file is final: a pipe that nobody holds cannot be handed on *)
(* by a fork.                                                              *)
(***************************************************************************)
States == {"new", "run", "zombie", "gone"}
TypeInv ==
  /\ pc \in {"read", "spawn", "loop", "select", "term", "kill", "verdict", "done"}
  /\ st \in [Tree -> States]
  /\ holds \in [Tree -> SUBSET Pipes]
  /\ count \in Nat

\* What has happened by the time the driver is in a phase.
PhaseInv ==
  /\ pc \in {"read", "spawn"} =>
       /\ owned = {} /\ sampled = {} /\ status = "ok" /\ buf = "none" /\ count = 0
       /\ \A p \in Tree : st[p] = "new" /\ holds[p] = {}
  /\ pc # "read" /\ pc # "done" => ValidateRequest(req)
  /\ pc \in {"loop", "select"} => status = "ok" /\ count <= MaxChunks
  /\ pc \in {"term", "kill"} => status # "ok"
  /\ pc = "verdict" /\ status = "ok" => count <= MaxChunks /\ "output" \notin open
  /\ pc # "done" => receipt = NoReceipt

\* An end of file on the output is final.
PipeInv ==
  pc \notin {"read", "spawn"} /\ "output" \notin open => buf = "none" /\ Closed("output")

\* Whatever a sample showed is on the list of what to terminate.
OwnedInv == sampled \subseteq owned

SandboxInv == TypeInv /\ PhaseInv /\ PipeInv /\ OwnedInv /\ SampledAreKilled /\ PassIsEarned

(***************************************************************************)
(* The candidate.                                                          *)
(***************************************************************************)
\* What the driver owns stays as it is while the candidate moves.
LEMMA CandidateFrame ==
  Candidate => UNCHANGED <<req, pc, count, tail, completion, open, owned, sampled, clock, settle, status, receipt>>
BY DEF Candidate

\* A process that ends keeps its type and gives up its pipes.
LEMMA DieTypes ==
  ASSUME TypeInv, NEW dead, Die(dead)
  PROVE  /\ st' \in [Tree -> States] /\ holds' \in [Tree -> SUBSET Pipes]
         /\ \A p \in Tree : holds'[p] \subseteq holds[p]
         /\ \A p \in Tree : p \in dead => st'[p] = "zombie"
         /\ \A p \in Tree : st'[p] = "run" => st[p] = "run"
BY DEF TypeInv, Die, States

\* The candidate keeps the types, and a pipe that nobody holds stays closed.
LEMMA CandidateKeeps ==
  ASSUME TypeInv, Candidate
  PROVE  /\ TypeInv'
         /\ buf = "none" /\ Closed("output") => buf' = "none" /\ Closed("output")'
<1>0. st \in [Tree -> States] /\ holds \in [Tree -> SUBSET Pipes]
  BY DEF TypeInv
<1>1. Proc \in Tree /\ Desc \subseteq Tree
  BY DEF Tree
<1> DEFINE Goal == /\ st' \in [Tree -> States] /\ holds' \in [Tree -> SUBSET Pipes]
                   /\ buf = "none" /\ Closed("output") => buf' = "none" /\ Closed("output")'
<1>2. ASSUME NEW p \in Tree, NEW d \in Desc, NEW thread, Fork(p, d, thread) PROVE Goal
  <2>1. /\ st' = [st EXCEPT ![d] = "run"] /\ holds' = [holds EXCEPT ![d] = holds[p]]
        /\ UNCHANGED buf /\ d \in Tree
    BY <1>1, <1>2 DEF Fork
  <2>2. st' \in [Tree -> States] /\ holds' \in [Tree -> SUBSET Pipes]
    BY <2>1, <1>0 DEF States
  <2>3. Closed("output") => Closed("output")'
    BY <2>1, <1>0 DEF Closed
  <2> QED BY <2>1, <2>2, <2>3
<1>3. ASSUME NEW p \in Tree, NEW kind, Write(p, kind) PROVE Goal
  BY <1>0, <1>3 DEF Write, Closed
<1>4. ASSUME NEW p \in Tree, Mark(p) PROVE Goal
  BY <1>0, <1>4 DEF Mark, Closed
<1>5. ASSUME NEW p \in Tree, NEW n, Exit(p, n) PROVE Goal
  <2>1. Die({p}) /\ UNCHANGED buf
    BY <1>5 DEF Exit
  <2> QED BY <2>1, <1>0, DieTypes DEF Closed
<1>6. ASSUME NEW d \in Desc, Reap(d) PROVE Goal
  BY <1>0, <1>1, <1>6 DEF Reap, Closed, States
<1>7. ASSUME NEW p \in Tree, NEW pipe, Close(p, pipe) PROVE Goal
  <2>1. st' = st /\ holds' = [holds EXCEPT ![p] = holds[p] \ {pipe}] /\ UNCHANGED buf
    BY <1>7 DEF Close
  <2> QED BY <2>1, <1>0 DEF Closed
<1>8. ASSUME NEW d \in Desc, ThreadEnds(d) PROVE Goal
  BY <1>0, <1>8 DEF ThreadEnds, Closed
<1> HIDE DEF Goal
<1>9. Goal
  BY <1>2, <1>3, <1>4, <1>5, <1>6, <1>7, <1>8 DEF Candidate
<1>10. UNCHANGED <<pc, count>>
  BY CandidateFrame
<1> QED BY <1>9, <1>10 DEF TypeInv, Goal

(***************************************************************************)
(* The invariant.                                                          *)
(***************************************************************************)
\* A step keeps the types.
LEMMA TypeStep == TypeInv /\ [Next]_vars => TypeInv'
<1> SUFFICES ASSUME TypeInv, [Next]_vars PROVE TypeInv'
  OBVIOUS
<1>1. CASE Candidate
  BY <1>1, CandidateKeeps
<1>2. CASE Tick
  BY <1>2 DEF Tick, tree, TypeInv
<1>3. CASE ReadRequest \/ SpawnFails \/ TimedOut \/ Settled \/ GoOn \/ SupervisorFails \/ Verdict
  BY <1>3 DEF ReadRequest, SpawnFails, TimedOut, Settled, GoOn, SupervisorFails, Verdict, tree, TypeInv
<1>4. CASE Spawn
  BY <1>4 DEF Spawn, TypeInv, States, Tree
<1>5. CASE Select
  BY <1>5 DEF Select, TypeInv
<1>6. CASE TermSignal
  <2>1. PICK dead \in SUBSET Running : Die(dead)
    BY <1>6 DEF TermSignal
  <2>2. st' \in [Tree -> States] /\ holds' \in [Tree -> SUBSET Pipes]
    BY <2>1, DieTypes
  <2> QED BY <2>2, <1>6 DEF TermSignal, TypeInv
<1>7. CASE KillSignal
  <2>1. Die(KillTargets \cap Running)
    BY <1>7 DEF KillSignal
  <2>2. st' \in [Tree -> States] /\ holds' \in [Tree -> SUBSET Pipes]
    BY <2>1, DieTypes
  <2> QED BY <2>2, <1>7 DEF KillSignal, TypeInv
<1>8. CASE Done \/ UNCHANGED vars
  BY <1>8 DEF Done, vars, tree, TypeInv
<1> QED BY <1>1, <1>2, <1>3, <1>4, <1>5, <1>6, <1>7, <1>8 DEF Next, Drive

\* A step keeps what the phases of the driver have settled.
LEMMA PhaseStep == TypeInv /\ PhaseInv /\ [Next]_vars => PhaseInv'
<1> SUFFICES ASSUME TypeInv, PhaseInv, [Next]_vars PROVE PhaseInv'
  OBVIOUS
<1>0. MaxChunks \in Nat
  BY ChunkAssumption
<1>1. CASE Candidate
  <2>1. UNCHANGED <<req, pc, count, tail, completion, open, owned, sampled, clock, settle, status, receipt>>
    BY <1>1, CandidateFrame
  <2>2. pc \notin {"read", "spawn"}
    <3>1. ASSUME pc \in {"read", "spawn"} PROVE \A p \in Tree : st[p] = "new"
      BY <3>1 DEF PhaseInv
    <3>2. \E p \in Tree : st[p] # "new"
      BY <1>1 DEF Candidate, Fork, ThreadEnds, Write, Mark, Close, Exit, Reap, Running, Tree
    <3> QED BY <3>1, <3>2
  <2> QED BY <2>1, <2>2 DEF PhaseInv
<1>2. CASE Tick
  BY <1>2 DEF Tick, tree, PhaseInv
<1>3. CASE ReadRequest
  BY <1>3 DEF ReadRequest, ValidateRequest, tree, PhaseInv
<1>4. CASE Spawn
  BY <1>0, <1>4 DEF Spawn, PhaseInv
<1>5. CASE SpawnFails \/ TimedOut \/ SupervisorFails
  BY <1>5 DEF SpawnFails, TimedOut, SupervisorFails, PhaseInv
<1>6. CASE Settled
  BY <1>6 DEF Settled, Retained, PhaseInv
<1>7. CASE GoOn
  BY <1>7 DEF GoOn, PhaseInv
<1>8. CASE Select
  <2>1. count' \in Nat
    BY <1>8 DEF Select, TypeInv
  <2>2. pc' = "term" \/ count' <= MaxChunks
    BY <2>1, <1>0, <1>8 DEF Select
  <2>3. pc' = "verdict" => open' = {}
    BY <1>8 DEF Select
  <2> QED BY <2>2, <2>3, <1>8 DEF Select, PhaseInv
<1>9. CASE TermSignal \/ KillSignal
  BY <1>9 DEF TermSignal, KillSignal, PhaseInv
<1>10. CASE Verdict
  BY <1>10 DEF Verdict, PhaseInv
<1>11. CASE Done \/ UNCHANGED vars
  BY <1>11 DEF Done, vars, tree, PhaseInv
<1> QED BY <1>1, <1>2, <1>3, <1>4, <1>5, <1>6, <1>7, <1>8, <1>9, <1>10, <1>11 DEF Next, Drive

\* A step keeps an end of file final.
LEMMA PipeStep == TypeInv /\ PhaseInv /\ PipeInv /\ [Next]_vars => PipeInv'
<1> SUFFICES ASSUME TypeInv, PhaseInv, PipeInv, [Next]_vars PROVE PipeInv'
  OBVIOUS
<1>1. CASE Candidate
  <2>1. UNCHANGED <<pc, open>>
    BY <1>1, CandidateFrame
  <2>2. buf = "none" /\ Closed("output") => buf' = "none" /\ Closed("output")'
    BY <1>1, CandidateKeeps
  <2> QED BY <2>1, <2>2 DEF PipeInv
<1>2. CASE Tick
  BY <1>2 DEF Tick, tree, PipeInv, Closed
<1>3. CASE ReadRequest \/ SpawnFails
  <2>1. buf = "none" /\ Closed("output")
    BY <1>3 DEF ReadRequest, SpawnFails, PhaseInv, Closed
  <2> QED BY <2>1, <1>3 DEF ReadRequest, SpawnFails, tree, PipeInv, Closed
<1>4. CASE Spawn
  BY <1>4 DEF Spawn, PipeInv, Pipes
<1>5. CASE TimedOut \/ Settled \/ GoOn \/ SupervisorFails \/ Verdict
  BY <1>5 DEF TimedOut, Settled, GoOn, SupervisorFails, Verdict, tree, PipeInv, Closed
<1>6. CASE Select
  <2>1. pc = "select" /\ UNCHANGED holds
    BY <1>6 DEF Select
  <2>2. CASE "output" \notin open
    BY <2>1, <2>2, <1>6 DEF Select, PipeInv, Closed
  <2>3. CASE "output" \in open
    <3>1. buf' = "none" /\ ("output" \notin open' => Closed("output"))
      BY <2>3, <1>6 DEF Select
    <3> QED BY <3>1, <2>1 DEF PipeInv, Closed
  <2> QED BY <2>2, <2>3
<1>7. CASE TermSignal \/ KillSignal
  <2>1. PICK dead : Die(dead)
    BY <1>7 DEF TermSignal, KillSignal
  <2>2. \A p \in Tree : holds'[p] \subseteq holds[p]
    BY <2>1, DieTypes
  <2>3. Closed("output") => Closed("output")'
    BY <2>2 DEF Closed
  <2>4. pc \notin {"read", "spawn"} /\ UNCHANGED <<buf, open>>
    BY <1>7 DEF TermSignal, KillSignal
  <2> QED BY <2>3, <2>4 DEF PipeInv
<1>8. CASE Done \/ UNCHANGED vars
  BY <1>8 DEF Done, vars, tree, PipeInv, Closed
<1> QED BY <1>1, <1>2, <1>3, <1>4, <1>5, <1>6, <1>7, <1>8 DEF Next, Drive

\* A step keeps the list of what to terminate complete: every round that looks
\* adds what it sees, and nothing is taken off.
LEMMA OwnedStep == OwnedInv /\ [Next]_vars => OwnedInv'
<1> SUFFICES ASSUME OwnedInv, [Next]_vars PROVE OwnedInv'
  OBVIOUS
<1>1. CASE Sample
  BY <1>1 DEF Sample, Seen, OwnedInv
<1>2. CASE UNCHANGED <<owned, sampled>>
  BY <1>2 DEF OwnedInv
<1> QED BY <1>1, <1>2 DEF Next, Candidate, Tick, Drive, ReadRequest, Spawn, SpawnFails, TimedOut, Settled,
         GoOn, Select, SupervisorFails, TermSignal, KillSignal, Verdict, Done, vars

\* A step keeps the sampled processes killed.
LEMMA KillStep == TypeInv /\ PhaseInv /\ OwnedInv /\ SampledAreKilled /\ [Next]_vars => SampledAreKilled'
<1> SUFFICES ASSUME TypeInv, PhaseInv, OwnedInv, SampledAreKilled, [Next]_vars PROVE SampledAreKilled'
  OBVIOUS
<1>1. CASE pc' \notin {"verdict", "done"}
  BY <1>1 DEF SampledAreKilled
<1>2. CASE UNCHANGED <<pc, status, sampled, st>>
  BY <1>2 DEF SampledAreKilled, Running
<1>3. CASE Candidate /\ pc \notin {"verdict", "done"}
  BY <1>1, <1>3, CandidateFrame
<1>4. CASE ReadRequest \/ SpawnFails
  <2>1. \A p \in Tree : st'[p] = "new"
    BY <1>4 DEF ReadRequest, SpawnFails, PhaseInv, tree
  <2> QED BY <2>1 DEF SampledAreKilled, Running
<1>5. CASE (Settled \/ Select) /\ pc' \in {"verdict", "done"}
  <2>1. status' = "ok"
    BY <1>5 DEF Settled, Select, PhaseInv
  <2> QED BY <2>1 DEF SampledAreKilled
<1>6. CASE KillSignal
  <2>1. Die(KillTargets \cap Running) /\ sampled' = sampled
    BY <1>6 DEF KillSignal
  <2>2. \A p \in Tree : /\ p \in KillTargets \cap Running => st'[p] = "zombie"
                        /\ st'[p] = "run" => st[p] = "run"
    BY <2>1, DieTypes
  <2>3. (sampled \cup {Proc}) \cap Running' = {}
    BY <2>2 DEF KillTargets, Running, OwnedInv
  <2> QED BY <2>1, <2>3 DEF SampledAreKilled
<1>7. CASE Verdict
  BY <1>7 DEF Verdict, SampledAreKilled, Running, tree
<1> QED BY <1>1, <1>2, <1>3, <1>4, <1>5, <1>6, <1>7 DEF Next, Drive, Tick, Spawn, TimedOut, GoOn,
       Settled, Select, SupervisorFails, TermSignal, Done, vars, tree

\* A step keeps a pass earned.
LEMMA PassStep == SandboxInv /\ [Next]_vars => PassIsEarned'
<1> SUFFICES ASSUME SandboxInv, [Next]_vars PROVE PassIsEarned'
  OBVIOUS
<1>1. CASE Verdict
  <2> SUFFICES ASSUME receipt'.passed = "yes" PROVE PassIsEarned'
    BY DEF PassIsEarned
  <2>1. /\ pc = "verdict" /\ UNCHANGED <<req, st, holds, rc, buf, count, open>>
        /\ receipt'.passed \in {"none", IF FinalStatus = "ok" THEN "yes" ELSE "no"}
    BY <1>1 DEF Verdict, ErrorReceipt, tree
  <2>2. status = "ok" /\ rc = "zero"
    BY <2>1 DEF FinalStatus
  <2>3. ValidateRequest(req) /\ count <= MaxChunks /\ "output" \notin open
    BY <2>1, <2>2 DEF SandboxInv, PhaseInv
  <2>4. buf = "none" /\ Closed("output")
    BY <2>1, <2>3 DEF SandboxInv, PipeInv
  <2>5. \A p \in Running : "output" \notin holds[p]
    BY <2>4 DEF Closed, Running
  <2>6. (ValidateRequest(req)' <=> ValidateRequest(req)) /\ Running' = Running
    BY <2>1 DEF ValidateRequest, Running
  <2> QED BY <2>1, <2>2, <2>3, <2>4, <2>5, <2>6 DEF PassIsEarned
<1>2. CASE pc' # "done" /\ UNCHANGED receipt
  <2>1. pc # "done" \/ UNCHANGED pc
    BY DEF Next, Candidate, Tick, Drive, ReadRequest, Spawn, SpawnFails, TimedOut, Settled,
         GoOn, Select, SupervisorFails, TermSignal, KillSignal, Verdict, Done, vars
  <2>2. receipt'.passed = "none"
    BY <2>1, <1>2 DEF SandboxInv, PhaseInv, NoReceipt
  <2> QED BY <2>2 DEF PassIsEarned
<1>3. CASE ReadRequest /\ pc' = "done"
  <2>1. receipt'.passed = "none"
    BY <1>3 DEF ReadRequest, ErrorReceipt
  <2> QED BY <2>1 DEF PassIsEarned
<1>4. CASE pc = "done"
  <2>1. UNCHANGED <<req, receipt, st, holds, rc, buf, count>>
    BY <1>4 DEF Next, Tick, Drive, ReadRequest, Spawn, SpawnFails, TimedOut, Settled,
         GoOn, Select, SupervisorFails, TermSignal, KillSignal, Verdict, Done, vars, tree
  <2> QED BY <2>1 DEF SandboxInv, PassIsEarned, Running, ValidateRequest
<1> QED BY <1>1, <1>2, <1>3, <1>4 DEF Next, Candidate, Tick, Drive, ReadRequest, Spawn, SpawnFails,
       TimedOut, Settled, GoOn, Select, SupervisorFails, TermSignal, KillSignal, Done, vars,
       SandboxInv, TypeInv

\* The invariant holds when the driver starts.
LEMMA SandboxInit == Init => SandboxInv
<1> SUFFICES ASSUME Init PROVE SandboxInv
  OBVIOUS
<1>1. TypeInv
  BY DEF Init, TypeInv, States
<1>2. PhaseInv /\ PipeInv /\ OwnedInv
  BY DEF Init, PhaseInv, PipeInv, OwnedInv
<1>3. SampledAreKilled /\ PassIsEarned
  BY DEF Init, SampledAreKilled, PassIsEarned, NoReceipt
<1> QED BY <1>1, <1>2, <1>3 DEF SandboxInv

\* A step keeps the invariant.
LEMMA SandboxStep == SandboxInv /\ [Next]_vars => SandboxInv'
<1> SUFFICES ASSUME SandboxInv, [Next]_vars PROVE SandboxInv'
  OBVIOUS
<1>1. TypeInv' /\ PhaseInv' /\ PipeInv'
  BY TypeStep, PhaseStep, PipeStep DEF SandboxInv
<1>2. OwnedInv' /\ SampledAreKilled'
  BY OwnedStep, KillStep DEF SandboxInv
<1>3. PassIsEarned'
  BY PassStep
<1> QED BY <1>1, <1>2, <1>3 DEF SandboxInv

(***************************************************************************)
(* The theorems.                                                           *)
(***************************************************************************)
\* _run_candidate and _terminate: when the driver gives up on a candidate, no
\* process that any sample ever showed still runs when the receipt is written,
\* however many there are, also those a later sample no longer showed, whoever
\* adopted them and whatever signals they ignore.
THEOREM SampledKilled == Spec => []SampledAreKilled
<1>1. SandboxInv => SampledAreKilled
  BY DEF SandboxInv
<1> QED BY <1>1, SandboxInit, SandboxStep, PTL DEF Spec

\* _run_candidate: a pass means a valid request, status zero, and output that was
\* read to its end within the limit with nobody left to write more, whatever the
\* candidate's processes do with the descriptors they were given.
THEOREM PassEarned == Spec => []PassIsEarned
<1>1. SandboxInv => PassIsEarned
  BY DEF SandboxInv
<1> QED BY <1>1, SandboxInit, SandboxStep, PTL DEF Spec

(***************************************************************************)
(* The admission of rows.                                                  *)
(***************************************************************************)
USE AdmissionAssumption

AdmissionType ==
  /\ at \in [Workers -> {"free", "entered", "locked", "in"}]
  /\ row \in [Workers -> Rows \cup {NoOne}]
  /\ flock \in Workers \cup {NoOne}
  /\ failed \in {"no", "yes"}
  /\ lease \in [Rows -> {"none", "refused", "open", "VERIFIED", "FAILED", "lost"}]
  /\ health \in {"good", "bad"} /\ finalist \in {"same", "other"}
  /\ code \in 0..4

\* The lock is held by whoever is past it, and by nobody else.
LockInv == \A w \in Workers : at[w] \in {"locked", "in"} <=> flock = w

\* A worker under way has a row of its own; an open lease has a worker.
RowInv ==
  /\ \A w \in Workers : IF at[w] = "free" THEN row[w] = NoOne ELSE row[w] \in Rows
  /\ \A v, w \in Workers : at[v] # "free" /\ row[v] = row[w] => v = w
  /\ \A r \in Rows : lease[r] = "open" => \E w \in Workers : at[w] = "in" /\ row[w] = r

\* A failed release is remembered.
FailedInv == failed = "no" => \A r \in Rows : lease[r] # "FAILED"

\* Nobody works for the wrong finalist, or after the verdict.
QuietInv == code # 3 \/ finalist = "other" => \A w \in Workers : at[w] = "free"

VerdictInv == code \in {0, 2} => finalist = "same" /\ \A r \in Rows : lease[r] = "VERIFIED"

AdmissionInv == AdmissionType /\ LockInv /\ RowInv /\ FailedInv /\ QuietInv /\ VerdictInv

\* The invariant holds before the first row.
LEMMA InitAdmission == AdmissionInit => AdmissionInv
BY DEF AdmissionInit, AdmissionInv, AdmissionType, LockInv, RowInv, FailedInv, QuietInv, VerdictInv

\* Asking for a row takes it, or refuses it.
LEMMA EnterInv ==
  ASSUME AdmissionInv, NEW w \in Workers, NEW r \in Rows, Enter(w, r)
  PROVE  AdmissionInv'
<1> USE DEF AdmissionInv, AdmissionType, Enter, Take, Refuse
<1>1. AdmissionType' OBVIOUS
<1>2. LockInv' BY DEF LockInv
<1>3. RowInv' BY DEF RowInv
<1>4. FailedInv' /\ QuietInv' /\ VerdictInv' BY DEF FailedInv, QuietInv, VerdictInv
<1> QED BY <1>1, <1>2, <1>3, <1>4

\* The lock goes to one worker; the others are refused.
LEMMA LockStepInv ==
  ASSUME AdmissionInv, NEW w \in Workers, Lock(w)
  PROVE  AdmissionInv'
<1> USE DEF AdmissionInv, AdmissionType, Lock, Refuse
<1>0. row[w] \in Rows /\ code = 3 BY DEF RowInv, QuietInv
<1>1. AdmissionType' BY <1>0
<1>2. LockInv' BY <1>0 DEF LockInv
<1>3. RowInv' BY <1>0 DEF RowInv
<1>4. FailedInv' /\ QuietInv' /\ VerdictInv' BY <1>0 DEF FailedInv, QuietInv, VerdictInv
<1> QED BY <1>1, <1>2, <1>3, <1>4

\* Only the holder of the lock is admitted.
LEMMA AdmitInv ==
  ASSUME AdmissionInv, NEW w \in Workers, Admit(w)
  PROVE  AdmissionInv'
<1> USE DEF AdmissionInv, AdmissionType, Admit, Refuse
<1>0. row[w] \in Rows /\ code = 3 /\ flock = w BY DEF RowInv, QuietInv, LockInv
<1>1. AdmissionType' BY <1>0
<1>2. LockInv' BY <1>0 DEF LockInv
<1>3. RowInv' BY <1>0 DEF RowInv
<1>4. FailedInv' /\ QuietInv' /\ VerdictInv' BY <1>0 DEF FailedInv, QuietInv, VerdictInv
<1> QED BY <1>1, <1>2, <1>3, <1>4

\* A release that fails is noted in the lease and in self.failed.
LEMMA ReleaseInv ==
  ASSUME AdmissionInv, NEW w \in Workers, NEW file \in {"written", "raises"}, Release(w, file)
  PROVE  AdmissionInv'
<1> USE DEF AdmissionInv, AdmissionType, Release
<1>0. row[w] \in Rows /\ code = 3 /\ flock = w BY DEF RowInv, QuietInv, LockInv
<1>1. AdmissionType' BY <1>0 DEF FailedAfter
<1>2. LockInv' BY <1>0 DEF LockInv
<1>3. RowInv' BY <1>0 DEF RowInv
<1>4. FailedInv' /\ QuietInv' /\ VerdictInv' BY <1>0 DEF FailedInv, QuietInv, VerdictInv, FailedAfter
<1> QED BY <1>1, <1>2, <1>3, <1>4

\* The exit status counts only what the leases say.
LEMMA FinishInv ==
  ASSUME AdmissionInv, NEW complete \in {"yes", "no"}, NEW scored \in {"yes", "no"}, Finish(complete, scored)
  PROVE  AdmissionInv'
<1> USE DEF AdmissionInv, AdmissionType, Finish
<1>1. AdmissionType' /\ LockInv' /\ RowInv' /\ FailedInv' /\ QuietInv'
  BY DEF LockInv, RowInv, FailedInv, QuietInv
<1>2. VerdictInv'
  <2> SUFFICES ASSUME code' \in {0, 2}, NEW r \in Rows PROVE lease[r] = "VERIFIED"
    BY DEF VerdictInv
  <2>1. complete = "yes" /\ failed = "no" OBVIOUS
  <2>2. lease[r] \notin {"none", "refused", "open", "FAILED", "lost"}
    BY <2>1 DEF RowInv, FailedInv
  <2> QED BY <2>2
<1> QED BY <1>1, <1>2

\* Every step keeps the invariant.
LEMMA NextAdmission == AdmissionInv /\ [AdmissionNext]_admission => AdmissionInv'
<1> SUFFICES ASSUME AdmissionInv, [AdmissionNext]_admission PROVE AdmissionInv'
  OBVIOUS
<1>1. CASE RefuseFinalist \/ Health \/ Ended \/ UNCHANGED admission
  BY <1>1 DEF AdmissionInv, AdmissionType, LockInv, RowInv, FailedInv, QuietInv, VerdictInv,
              RefuseFinalist, Health, Ended, admission
<1>2. CASE \E w \in Workers : Lock(w) \/ Admit(w) \/ \E file \in {"written", "raises"} : Release(w, file)
  BY <1>2, LockStepInv, AdmitInv, ReleaseInv
<1>3. CASE \E w \in Workers, r \in Rows : Enter(w, r)
  BY <1>3, EnterInv
<1>4. CASE \E complete, scored \in {"yes", "no"} : Finish(complete, scored)
  BY <1>4, FinishInv
<1> QED BY <1>1, <1>2, <1>3, <1>4 DEF AdmissionNext

\* Exit status 0 or 2 vouches for every row, and rows are generated one at a
\* time, for any number of workers and rows (q200_single_gpu.py:81-93, 148-150).
THEOREM ScoreCovered == AdmissionSpec => []ScoreIsCovered
<1>1. AdmissionInv => ScoreIsCovered
  <2> SUFFICES ASSUME AdmissionInv
               PROVE  Cardinality({w \in Workers : at[w] = "in"}) <= 1
    BY DEF AdmissionInv, VerdictInv, ScoreIsCovered
  <2> DEFINE In == {w \in Workers : at[w] = "in"}
  <2>1. In \in SUBSET {flock}
    BY DEF AdmissionInv, LockInv
  <2>2. IsFiniteSet({flock}) /\ Cardinality({flock}) = 1
    BY FS_Singleton
  <2>3. Cardinality(In) <= Cardinality({flock})
    BY <2>1, <2>2, FS_Subset
  <2> QED BY <2>2, <2>3
<1> QED BY <1>1, InitAdmission, NextAdmission, PTL DEF AdmissionSpec

(***************************************************************************)
(* Late rows.                                                              *)
(***************************************************************************)
\* The workers that have passed the test of self.failed and not been admitted.
Pending == {w \in Workers : at[w] \in {"entered", "locked"}}

\* Before the first failed release nothing is late; after it the late rows and the
\* pending workers together are fewer than the workers, since the one whose
\* release failed is neither and no one becomes pending any more.
LateInv ==
  /\ IsFiniteSet(late)
  /\ failed = "no" => late = {}
  /\ failed = "yes" => Cardinality(late) + Cardinality(Pending) < Cardinality(Workers)

\* Sets of workers are finite.
LEMMA FiniteWorkers ==
  ASSUME NEW S \in SUBSET Workers
  PROVE  IsFiniteSet(S) /\ Cardinality(S) \in Nat /\ Cardinality(S) <= Cardinality(Workers)
BY FS_Subset, FS_CardinalityType

\* No row is late at first.
LEMMA InitLate == AdmissionInit => LateInv
BY FS_EmptySet DEF AdmissionInit, LateInv

\* Once a release has failed the pending workers only get fewer.
LEMMA ShrinkLate ==
  ASSUME LateInv, UNCHANGED <<failed, late>>, failed = "no" \/ Pending' \subseteq Pending
  PROVE  LateInv'
<1>1. Pending \in SUBSET Workers BY DEF Pending
<1>2. CASE failed = "no" BY <1>2 DEF LateInv
<1>3. CASE Pending' \subseteq Pending
  <2>1. IsFiniteSet(Pending) /\ Cardinality(Pending) \in Nat BY <1>1, FiniteWorkers
  <2>2. Cardinality(Pending') <= Cardinality(Pending) /\ Cardinality(Pending') \in Nat
    BY <1>3, <2>1, FS_Subset, FS_CardinalityType
  <2>3. Cardinality(late) \in Nat /\ Cardinality(Workers) \in Nat
    BY FS_CardinalityType DEF LateInv
  <2> QED BY <2>1, <2>2, <2>3 DEF LateInv
<1> QED BY <1>2, <1>3

\* An admission turns one pending worker into at most one late row.
LEMMA AdmitLate ==
  ASSUME AdmissionInv, LateInv, NEW w \in Workers, Admit(w)
  PROVE  LateInv'
<1>0. w \in Pending /\ Pending \in SUBSET Workers /\ Pending' = Pending \ {w} /\ failed' = failed
  BY DEF Admit, Refuse, AdmissionInv, AdmissionType, Pending
<1>1. CASE late' = late
  BY <1>0, <1>1, ShrinkLate
<1>2. CASE late' # late
  <2>1. failed = "yes" /\ late' = late \cup {row[w]} BY <1>2 DEF Admit, LateInv
  <2>2. IsFiniteSet(late') /\ Cardinality(late') <= Cardinality(late) + 1
    <3>1. IsFiniteSet(late) /\ Cardinality(late) \in Nat BY FS_CardinalityType DEF LateInv
    <3>2. /\ IsFiniteSet(late \cup {row[w]})
          /\ Cardinality(late \cup {row[w]}) =
               IF row[w] \in late THEN Cardinality(late) ELSE Cardinality(late) + 1
      BY <3>1, FS_AddElement
    <3> QED BY <2>1, <3>1, <3>2
  <2>3. Cardinality(Pending') = Cardinality(Pending) - 1
    BY <1>0, FiniteWorkers, FS_RemoveElement
  <2>4. /\ Cardinality(late) \in Nat /\ Cardinality(late') \in Nat
        /\ Cardinality(Workers) \in Nat /\ Cardinality(Pending) \in Nat
    BY <1>0, <2>2, FS_CardinalityType, FiniteWorkers DEF LateInv
  <2> QED BY <1>0, <2>1, <2>2, <2>3, <2>4 DEF LateInv
<1> QED BY <1>1, <1>2

\* The worker whose release fails is not pending.
LEMMA ReleaseLate ==
  ASSUME AdmissionInv, LateInv, NEW w \in Workers, NEW file \in {"written", "raises"}, Release(w, file)
  PROVE  LateInv'
<1>0. Pending' = Pending /\ w \notin Pending /\ Pending \in SUBSET Workers /\ late' = late
  BY DEF Release, AdmissionInv, AdmissionType, Pending
<1>1. CASE failed' = failed
  BY <1>0, <1>1, ShrinkLate
<1>2. CASE failed' # failed
  <2>1. failed = "no" /\ failed' = "yes" /\ late = {}
    BY <1>2 DEF Release, FailedAfter, LateInv, AdmissionInv, AdmissionType
  <2>2. Cardinality(Pending) < Cardinality(Workers)
    <3>1. Pending \in SUBSET (Workers \ {w}) BY <1>0
    <3>2. IsFiniteSet(Workers \ {w}) /\ Cardinality(Workers \ {w}) = Cardinality(Workers) - 1
      BY FS_RemoveElement
    <3>3. Cardinality(Pending) <= Cardinality(Workers \ {w})
      BY <3>1, <3>2, FS_Subset
    <3>4. Cardinality(Workers) \in Nat /\ Cardinality(Pending) \in Nat
      BY <1>0, FS_CardinalityType, FiniteWorkers
    <3> QED BY <3>2, <3>3, <3>4
  <2>3. Cardinality(late) = 0 /\ IsFiniteSet(late) BY <2>1, FS_EmptySet
  <2>4. Cardinality(Pending) \in Nat BY <1>0, FiniteWorkers
  <2> QED BY <1>0, <2>1, <2>2, <2>3, <2>4 DEF LateInv
<1> QED BY <1>1, <1>2

\* Every step keeps the count.
LEMMA NextLate == AdmissionInv /\ LateInv /\ [AdmissionNext]_admission => LateInv'
<1> SUFFICES ASSUME AdmissionInv, LateInv, [AdmissionNext]_admission PROVE LateInv'
  OBVIOUS
<1>1. CASE \E w \in Workers, r \in Rows : Enter(w, r)
  <2>1. UNCHANGED <<failed, late>> /\ (failed = "no" \/ Pending' \subseteq Pending)
    BY <1>1 DEF Enter, Take, Blocked, Refuse, Pending, AdmissionInv, AdmissionType
  <2> QED BY <2>1, ShrinkLate
<1>2. CASE \E w \in Workers : Lock(w)
  <2>1. UNCHANGED <<failed, late>> /\ Pending' \subseteq Pending
    BY <1>2 DEF Lock, Refuse, Pending, AdmissionInv, AdmissionType
  <2> QED BY <2>1, ShrinkLate
<1>3. CASE \E w \in Workers : Admit(w) \/ \E file \in {"written", "raises"} : Release(w, file)
  BY <1>3, AdmitLate, ReleaseLate
<1>4. CASE \/ RefuseFinalist \/ Health \/ Ended \/ UNCHANGED admission
           \/ \E complete, scored \in {"yes", "no"} : Finish(complete, scored)
  <2>1. UNCHANGED <<failed, late>> /\ Pending' \subseteq Pending
    BY <1>4 DEF RefuseFinalist, Health, Ended, Finish, admission, Pending
  <2> QED BY <2>1, ShrinkLate
<1> QED BY <1>1, <1>2, <1>3, <1>4 DEF AdmissionNext

\* After a failed release at most one row per other worker is admitted, for any
\* number of workers (q200_single_gpu.py:70, 86).
THEOREM LateBounded == AdmissionSpec => []LateRowsBounded
<1>1. AdmissionInv /\ LateInv => LateRowsBounded
  <2> SUFFICES ASSUME AdmissionInv, LateInv, Workers # {}
               PROVE  Cardinality(late) < Cardinality(Workers)
    BY DEF LateRowsBounded
  <2>1. /\ Cardinality(Workers) \in Nat /\ Cardinality(Workers) # 0 /\ Cardinality(late) \in Nat
        /\ Cardinality(Pending) \in Nat
    <3>1. Pending \in SUBSET Workers BY DEF Pending
    <3> QED BY <3>1, FS_EmptySet, FS_CardinalityType, FiniteWorkers DEF LateInv
  <2>2. CASE failed = "yes" BY <2>1, <2>2 DEF LateInv
  <2>3. CASE failed = "no" BY <2>1, <2>3, FS_EmptySet DEF LateInv
  <2> QED BY <2>2, <2>3 DEF AdmissionInv, AdmissionType
<1> QED BY <1>1, InitAdmission, NextAdmission, InitLate, NextLate, PTL DEF AdmissionSpec
==============================================================================
