-------------------------------- MODULE Niah --------------------------------
(***************************************************************************)
(* scripts/niah.py with the non-streaming request of http_client.py: the   *)
(* cases are built in token space, frozen in a manifest and sent one by    *)
(* one; every attempt is a row of an output file.  Several runners may be  *)
(* started with the same output path, and each may be killed at any step.  *)
(*                                                                         *)
(* A text is a sequence of code words and of the thinking tags "open" and  *)
(* "close".                                                                *)
(***************************************************************************)
EXTENDS Naturals, Sequences, FiniteSets, SequencesExt

CONSTANTS
  Codes,        \* DEFAULT_CASE_IDS: [case ids -> sequence of codes]
  CaseOrder,    \* the case ids in the order of build_default_cases
  Needle,       \* [codes -> token sequence]: NEEDLE_TEMPLATE, encoded
  PromptSize,   \* n_prompt_tokens of every case
  Window, Reserve, MtpReserve, MaxTokens,   \* WINDOW, RESERVE, MTP_ADMISSION_RESERVE, MAX_TOKENS
  Commands,     \* commands and what they find: [assets, template, filler, depth, only, dry, retries, path]
  Answers,      \* what a request may meet: [wire, usage, finish, text]
  Runners, NoRunner,
  Paths,        \* paths of manifests
  Slot          \* the placeholder token

CaseIds == DOMAIN Codes
MaxPrompt == Window - Reserve - MtpReserve

ASSUME NiahAssumption ==
  /\ CaseOrder \in Seq(CaseIds) /\ ToSet(CaseOrder) = CaseIds /\ IsInjective(CaseOrder) /\ CaseOrder # << >>
  /\ NoRunner \notin Runners
  /\ {PromptSize, Window, Reserve, MtpReserve, MaxTokens} \subseteq Nat
  /\ MaxPrompt \in Nat /\ MaxTokens <= Reserve
ASSUME NeedleAssumption ==
  \A c \in CaseIds : /\ Codes[c] \in Seq(STRING)
                     /\ \A k \in ToSet(Codes[c]) : Needle[k] \in Seq(STRING \ {Slot}) /\ Needle[k] # << >>
ASSUME CommandAssumption ==
  \A m \in Commands :
    /\ m.template \in Seq(STRING) /\ m.filler \in Seq(STRING \ {Slot}) /\ m.filler # << >>
    /\ m.retries \in Nat /\ m.path \in [Runners -> Paths]
    /\ \A c \in CaseIds : \A i, j \in DOMAIN Codes[c] :
         /\ m.depth[Codes[c][i]] \in Nat
         /\ i < j => m.depth[Codes[c][i]] <= m.depth[Codes[c][j]]
ASSUME AnswerAssumption ==
  \A a \in Answers :
    /\ a.wire \in {"http_error", "refused", "body_lost", "timeout", "too_large", "not_json", "no_choices",
                   "json", "raises"}
    /\ a.text \in Seq(STRING)

VARIABLES
  command,    \* in Commands, the same for all runners
  npc,        \* [Runners -> "start", "freeze", "verify", "open", "case", "done", "refused", "failed"]
  manifest,   \* [Paths -> [owner, cases]], the cases by position
  owner,      \* the runner that created the output file
  out,        \* its rows: [by, case, attempt, verdict, answer]
  left,       \* [Runners -> positions of the cases to run]
  attempt,    \* [Runners -> Nat]: attempts at the case at hand
  verdicts,   \* [Runners -> [cases so far -> verdict]]
  summary     \* [Runners -> [ok, partial]]

niah == <<command, npc, manifest, owner, out, left, attempt, verdicts, summary>>

Blank == [owner |-> NoRunner, cases |-> << >>]

NiahInit ==
  /\ command \in Commands
  /\ npc = [r \in Runners |-> "start"]
  /\ manifest = [p \in Paths |-> Blank]
  /\ owner = NoRunner /\ out = << >>
  /\ left = [r \in Runners |-> {}] /\ attempt = [r \in Runners |-> 0]
  /\ verdicts = [r \in Runners |-> << >>]
  /\ summary = [r \in Runners |-> [ok |-> FALSE, partial |-> TRUE]]

(***************************************************************************)
(* Case construction: build_case with _build_filler and                    *)
(* _encode_with_positions.                                                 *)
(***************************************************************************)
Occurrences(seq, s) ==
  {i \in 0..Len(s) : i + Len(seq) <= Len(s) /\ SubSeq(s, i + 1, i + Len(seq)) = seq}

\* Tile the filler sentence.
Filler(sentence, size) == [i \in 1..size |-> sentence[((i - 1) % Len(sentence)) + 1]]

\* Where the needle of a code starts: int(depth * n_target), counted from 0.
Offset(k) == command.depth[k]

Overlap(j, k) == Offset(j) < Offset(k) + Len(Needle[k]) /\ Offset(k) < Offset(j) + Len(Needle[j])

\* Mutant: a needle may occur elsewhere in the prompt, too.
UniqueAtAll(k, prompt) == Offset(k) \in Occurrences(Needle[k], prompt)
Unique(k, prompt) == Occurrences(Needle[k], prompt) = {Offset(k)}

\* The prompt of a case, or << >> if its construction raises.
BuildCase(c) ==
  LET slots == Occurrences(<<Slot>>, command.template)
      at == CHOOSE i \in slots : TRUE
      prefix == SubSeq(command.template, 1, at)
      suffix == SubSeq(command.template, at + 2, Len(command.template))
      size == PromptSize - Len(prefix) - Len(suffix)
      codes == ToSet(Codes[c])
      hit(i) == {k \in codes : Offset(k) < i /\ i <= Offset(k) + Len(Needle[k])}
      body == Filler(command.filler, size)
      prompt == prefix \o
        [j \in 1..size |-> LET i == j + Len(prefix)
                               k == CHOOSE x \in hit(i) : TRUE
                           IN  IF hit(i) = {} THEN body[j] ELSE Needle[k][i - Offset(k)]] \o suffix
  IN  IF /\ PromptSize <= MaxPrompt
         /\ Cardinality(codes) = Len(Codes[c])
         /\ Cardinality(slots) = 1
         /\ size > 0
         /\ \A k \in codes : Offset(k) >= Len(prefix) /\ Offset(k) + Len(Needle[k]) <= Len(prefix) + size
         /\ \A j, k \in codes : j # k => ~Overlap(j, k)
         /\ \A k \in codes : Unique(k, prompt)
      THEN prompt ELSE << >>

(***************************************************************************)
(* The request: _json_request and check_response.                          *)
(***************************************************************************)
\* A usage is << >> (absent), <<0>> (not three integers) or <<prompt, completion, total>>.
JsonRequest(a) ==
  [error |-> CASE a.wire = "http_error" -> "http_status"
               [] a.wire \in {"refused", "body_lost"} -> "transport"
               [] a.wire = "timeout" -> "timeout"
               [] a.wire = "too_large" -> "response_limit"
               [] a.wire \in {"not_json", "no_choices"} -> "stream_format"
               [] a.wire = "json" -> IF a.usage = << >> THEN "missing_usage"
                                     ELSE IF Len(a.usage) # 3 THEN "invalid_usage" ELSE "none",
   usage |-> a.usage, finish_reason |-> a.finish, text |-> a.text]

LastTag(text, tag) == IF tag \in ToSet(text) THEN CHOOSE i \in DOMAIN text :
                           text[i] = tag /\ \A j \in (i + 1)..Len(text) : text[j] # tag
                      ELSE 0

\* The template ends in an open thinking block.
StartsInThinking == LastTag(command.template, "open") > LastTag(command.template, "close")

\* Mutant: an answer that stopped at its limit counts.
FinishedAnyhow(res) == TRUE
Finished(res) == res.finish_reason = "stop"

CheckResponse(c, res) ==
  LET text == res.text
      final == SubSeq(text, LastTag(text, "close") + 1, Len(text))
  IN  IF res.error \in {"http_status", "transport", "timeout"} THEN "infra_error"
      ELSE IF res.error # "none" THEN "invalid_usage"
      ELSE IF \/ res.usage[2] \notin 1..MaxTokens
              \/ res.usage[3] # res.usage[1] + res.usage[2] THEN "invalid_usage"
      ELSE IF res.usage[1] # PromptSize THEN "invalid_usage_echo"
      ELSE IF ~Finished(res) THEN "invalid_finish"
      ELSE IF \/ StartsInThinking /\ LastTag(text, "close") = 0
              \/ LastTag(text, "open") > LastTag(text, "close") THEN "incomplete_thinking"
      ELSE IF final = << >> THEN "empty_answer"
      ELSE IF final # Codes[c] THEN "needle_miss"
      ELSE "pass"

\* Any exception while the answer is looked at is an infrastructure error, too.
RowVerdict(c, a) == IF a.wire = "raises" THEN "infra_error" ELSE CheckResponse(c, JsonRequest(a))

(***************************************************************************)
(* A runner: main, run_cases and _execute_cases.                           *)
(***************************************************************************)
Goto(r, to) == npc' = [npc EXCEPT ![r] = to]

\* The positions of the cases to run.
Selected == {i \in DOMAIN CaseOrder : command.only = << >> \/ CaseOrder[i] \in ToSet(command.only)}

\* The case at hand, the first one left.
Case(r) == CaseOrder[Min(left[r])]
Rest(r) == left[r] \ {Min(left[r])}

OnlyIsGood == Cardinality(ToSet(command.only)) = Len(command.only) /\ ToSet(command.only) \subseteq CaseIds

\* load_real_tokenizer, build_default_cases, --only and the paths.
Prepare(r) ==
  /\ npc[r] = "start"
  /\ Goto(r, IF command.assets # "pinned" \/ \E c \in CaseIds : BuildCase(c) = << >> THEN "failed"
             ELSE IF ~OnlyIsGood \/ manifest[command.path[r]].owner # NoRunner \/ owner # NoRunner THEN "refused"
             ELSE "freeze")
  /\ UNCHANGED <<command, manifest, owner, out, left, attempt, verdicts, summary>>

\* freeze_manifest, and the file with mode "x".
Freeze(r) ==
  /\ npc[r] = "freeze"
  /\ LET p == command.path[r]
         cases == [i \in Selected |-> [id |-> CaseOrder[i], prompt |-> BuildCase(CaseOrder[i])]]
     IN  IF manifest[p].owner # NoRunner
         THEN Goto(r, "failed") /\ UNCHANGED manifest
         ELSE /\ manifest' = [manifest EXCEPT ![p] = [owner |-> r, cases |-> cases]]
              /\ Goto(r, IF command.dry THEN "open" ELSE "verify")
  /\ UNCHANGED <<command, owner, out, left, attempt, verdicts, summary>>

\* The server lists the model, or another one, or does not answer.
VerifyModel(r) ==
  /\ npc[r] = "verify"
  /\ Goto(r, "open") \/ Goto(r, "failed")
  /\ UNCHANGED <<command, manifest, owner, out, left, attempt, verdicts, summary>>

\* Mode "x": exactly one runner creates the output.
OpenOutput(r) ==
  /\ npc[r] = "open"
  /\ IF owner # NoRunner
     THEN Goto(r, "failed") /\ UNCHANGED <<owner, left>>
     ELSE Goto(r, "case") /\ owner' = r /\ left' = [left EXCEPT ![r] = Selected]
  /\ UNCHANGED <<command, manifest, out, attempt, verdicts, summary>>

\* Mutant: whatever did not pass is tried again.
RetriedUnlessPass(v) == v # "pass"
Retried(v) == v = "infra_error"

Row(r, v, a, answer) ==
  [by |-> r, case |-> Case(r), attempt |-> a, verdict |-> v, answer |-> answer]

Judge(r, v) == verdicts' = [verdicts EXCEPT ![r] =
  [c \in DOMAIN @ \cup {Case(r)} |-> IF c = Case(r) THEN v ELSE @[c]]]

DryRow(r) ==
  /\ npc[r] = "case" /\ command.dry /\ left[r] # {}
  /\ out' = Append(out, Row(r, "not_run_dry", 0, [wire |-> "none"]))
  /\ Judge(r, "not_run_dry")
  /\ left' = [left EXCEPT ![r] = Rest(r)]
  /\ UNCHANGED <<command, npc, manifest, owner, attempt, summary>>

Attempt(r, a) ==
  /\ npc[r] = "case" /\ ~command.dry /\ left[r] # {}
  /\ LET v == RowVerdict(Case(r), a)
         n == attempt[r] + 1
         again == Retried(v) /\ n <= command.retries
     IN  /\ out' = Append(out, Row(r, v, n, a))
         /\ Judge(r, v)
         /\ attempt' = [attempt EXCEPT ![r] = IF again THEN n ELSE 0]
         /\ left' = [left EXCEPT ![r] = IF again THEN @ ELSE Rest(r)]
  /\ UNCHANGED <<command, npc, manifest, owner, summary>>

Summarize(r) ==
  /\ npc[r] = "case" /\ left[r] = {}
  /\ LET given == verdicts[r]
         passed == {c \in DOMAIN given : given[c] = "pass"}
         partial == DOMAIN given # CaseIds \/ \E c \in DOMAIN given : given[c] = "not_run_dry"
         ran == {c \in DOMAIN given : given[c] \notin {"infra_error", "not_run_dry"}}
     IN  summary' = [summary EXCEPT ![r] =
           [ok |-> ~partial /\ Cardinality(passed) = Cardinality(CaseIds),
            partial |-> partial \/ Cardinality(ran) # Cardinality(Selected)]]
  /\ Goto(r, "done")
  /\ UNCHANGED <<command, manifest, owner, out, left, attempt, verdicts>>

RunnerKilled(r) ==
  /\ npc[r] \in {"freeze", "verify", "open", "case"}
  /\ Goto(r, "failed")
  /\ UNCHANGED <<command, manifest, owner, out, left, attempt, verdicts, summary>>

NiahNext ==
  \E r \in Runners :
    \/ Prepare(r) \/ Freeze(r) \/ VerifyModel(r) \/ OpenOutput(r) \/ DryRow(r)
    \/ Summarize(r) \/ RunnerKilled(r)
    \/ \E a \in Answers : Attempt(r, a)

NiahSpec == NiahInit /\ [][NiahNext]_niah

(***************************************************************************)
(* Properties.                                                             *)
(***************************************************************************)
\* A frozen case is exact (build_case): its prompt has the promised number of
\* tokens and leaves the server room for the answer and its reserve; every
\* needle is in it once, where its depth says; and the needles come in the order
\* of the codes that are asked for.
CaseExact ==
  \A p \in Paths : \A i \in DOMAIN manifest[p].cases :
    LET c == manifest[p].cases[i].id
        prompt == manifest[p].cases[i].prompt
        place(k) == Occurrences(Needle[k], prompt)
    IN  /\ Len(prompt) = PromptSize
        /\ Len(prompt) + MaxTokens + MtpReserve <= Window
        /\ \A k \in ToSet(Codes[c]) : place(k) = {command.depth[k]}
        /\ \A m, n \in DOMAIN Codes[c] : m < n =>
             \A x \in place(Codes[c][m]), y \in place(Codes[c][n]) : x < y
        /\ Slot \notin ToSet(prompt)

\* An output file is one run's account of itself (_execute_cases): all its rows
\* are of the runner that created it, although several were started and some
\* were killed; the cases come in order, the attempts at a case are numbered
\* without a gap, at most retries + 1, and only the last one has a scored
\* verdict: no scored verdict is ever replaced or repeated.
ScoredOnce ==
  \A i \in DOMAIN out :
    /\ out[i].by = owner /\ manifest[command.path[owner]].owner = owner
    /\ out[i].attempt <= command.retries + 1
    /\ i > 1 =>
         \/ /\ out[i].case = out[i - 1].case /\ out[i].attempt = out[i - 1].attempt + 1
            /\ out[i - 1].verdict = "infra_error"
         \/ /\ out[i].attempt <= 1 /\ \A j \in 1..(i - 1) : out[j].case # out[i].case
            /\ \/ out[i - 1].verdict # "infra_error"
               \/ out[i - 1].attempt = command.retries + 1

\* Thinking closed, and after it nothing but the codes.
Answered(c, text) ==
  \E i \in 0..Len(text) :
    /\ SubSeq(text, i + 1, Len(text)) = Codes[c]
    /\ i > 0 => text[i] = "close"
    /\ i = 0 => ~StartsInThinking

\* A run that reports ok has earned it (the summary of _execute_cases): it sent
\* every case, from a pinned tokenizer and not as a dry run, and the file holds
\* for each a complete answer, within its limit, that says exactly the codes.
OkIsEarned ==
  \A r \in Runners : summary[r].ok =>
    /\ command.assets = "pinned" /\ ~command.dry /\ owner = r /\ ~summary[r].partial
    /\ {CaseOrder[i] : i \in Selected} = CaseIds
    /\ \A c \in CaseIds : \E i \in DOMAIN out :
         LET a == out[i].answer
         IN  /\ out[i].case = c /\ a.wire = "json" /\ a.finish = "stop"
             /\ a.usage[1] = PromptSize /\ a.usage[3] = PromptSize + a.usage[2]
             /\ a.usage[2] <= MaxTokens
             /\ Answered(c, a.text)
=============================================================================
