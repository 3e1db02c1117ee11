------------------------------- MODULE Audit -------------------------------
(***************************************************************************)
(* scripts/audit_checkpoint.py: the structural admission of a checkpoint   *)
(* from its metadata documents, its weight index and its shard headers.    *)
(* The audit is a function of the checkpoint; the module checks it against *)
(* a reference definition over every checkpoint that is a few edits away   *)
(* from the contracted one.                                                *)
(*                                                                         *)
(* A tensor is a name of some family; "form" says whether dtype and shape  *)
(* are the contracted ones, which gives a tensor the length 1.             *)
(***************************************************************************)
EXTENDS Naturals, FiniteSets, Sequences, SequencesExt

CONSTANTS
  Main, Mtp, Ple,   \* contracted names: NVFP4 experts, MTP experts, PLE shards
  Scale,            \* the PLE scale tensor
  Plain, MtpPlain,  \* unquantized names, outside and under the MTP prefix
  Strays,           \* [name -> family]: names that match a family pattern only
  MtpShard, OtherShard, ExtraShard,   \* shard files
  MaxEdits          \* bound: edits

ASSUME EditAssumption == MaxEdits \in Nat

Contracted == Main \cup Mtp \cup Ple \cup {Scale} \cup Plain \cup MtpPlain
Names == Contracted \cup DOMAIN Strays
Shards == {MtpShard, OtherShard}

\* A stray matches the pattern of a quantized family.
ASSUME NameAssumption ==
  IsFiniteSet(Names) /\ \A n \in DOMAIN Strays : Strays[n] \in {"main", "mtp", "ple"}

Family(n) == CASE n \in Main -> "main" [] n \in Mtp -> "mtp" [] n \in Ple -> "ple"
               [] n = Scale -> "scale" [] n \in Plain \cup MtpPlain -> "plain"
               [] OTHER -> Strays[n]
UnderMtp(n) == Family(n) = "mtp" \/ n \in MtpPlain

VARIABLES
  head,     \* [present shards -> [its names -> [form, start, end]]]
  size,     \* [present shards -> Nat]: bytes of the data region
  index,    \* weight_map: [names -> shards]
  config,   \* does config.json describe the contracted architecture? "ok" or "bad"
  quant,    \* quantization metadata of the two entry points
  edits     \* edits so far

checkpoint == <<head, size, index, config, quant, edits>>

(***************************************************************************)
(* The contracted checkpoint, and edits of it.                             *)
(***************************************************************************)
EntryPoints == {"config.json", "hf_quant_config.json"}
MtpAlias == [e \in EntryPoints |-> IF e = "config.json" THEN "FP8_PB_WO" ELSE "FP8_BLOCK_SCALES"]

Quant(e) == [algo |-> "MIXED_PRECISION", alias |-> MtpAlias[e], group |-> 128, rest |-> "same",
             ple |-> "FP8", layers |-> "all"]

Layout(names) ==
  LET order == SetToSeq(names)
      pos(n) == CHOOSE i \in DOMAIN order : order[i] = n
  IN  [n \in names |-> [form |-> "right", start |-> pos(n) - 1, end |-> pos(n)]]

AuditInit ==
  LET own == [s \in Shards |-> IF s = MtpShard THEN Mtp \cup Ple \cup {Scale} \cup MtpPlain
                               ELSE Main \cup Plain]
  IN  /\ head = [s \in Shards |-> Layout(own[s])]
      /\ size = [s \in Shards |-> Cardinality(own[s])]
      /\ index = [n \in Contracted |-> IF n \in own[MtpShard] THEN MtpShard ELSE OtherShard]
      /\ config \in {"ok", "bad"} /\ quant = [e \in EntryPoints |-> Quant(e)] /\ edits = 0

Edit == edits < MaxEdits /\ edits' = edits + 1

Without(f, x) == [y \in DOMAIN f \ {x} |-> f[y]]
With(f, x, v) == [y \in DOMAIN f \cup {x} |-> IF y = x THEN v ELSE f[y]]

EditEntry(s, n, entry) ==
  /\ Edit /\ n \in DOMAIN head[s]
  /\ head' = [head EXCEPT ![s][n] = entry]
  /\ UNCHANGED <<size, index, config, quant>>

\* A tensor is renamed, in the header of its shard and in the index.
EditName(s, n, new) ==
  /\ Edit /\ n \in DOMAIN head[s] /\ new \notin DOMAIN head[s] /\ new \notin DOMAIN index
  /\ n \in DOMAIN index
  /\ head' = [head EXCEPT ![s] = With(Without(@, n), new, @[n])]
  /\ index' = With(Without(index, n), new, s)
  /\ UNCHANGED <<size, config, quant>>

\* A tensor is copied to the end of another shard, or moves there and the index
\* follows.
EditPlace(s, n, to, move) ==
  /\ Edit /\ s # to /\ to \in DOMAIN head /\ n \in DOMAIN head[s] /\ n \notin DOMAIN head[to]
  /\ head' = [head EXCEPT ![s] = IF move THEN Without(@, n) ELSE @,
                          ![to] = With(@, n, [form |-> head[s][n].form, start |-> size[to],
                                              end |-> size[to] + 1])]
  /\ size' = [size EXCEPT ![to] = @ + 1]
  /\ index' = IF move THEN With(index, n, to) ELSE index
  /\ UNCHANGED <<config, quant>>

EditIndex(n, to) ==
  /\ Edit
  /\ index' = IF to = "none" THEN Without(index, n) ELSE With(index, n, to)
  /\ UNCHANGED <<head, size, config, quant>>

EditSize(s, bytes) ==
  /\ Edit /\ size' = [size EXCEPT ![s] = bytes]
  /\ UNCHANGED <<head, index, config, quant>>

EditFiles ==
  /\ Edit
  /\ \/ ExtraShard \notin DOMAIN head /\ head' = With(head, ExtraShard, << >>) /\ size' = With(size, ExtraShard, 0)
     \/ \E s \in DOMAIN head : head' = Without(head, s) /\ size' = Without(size, s)
  /\ UNCHANGED <<index, config, quant>>

EditMetadata ==
  /\ Edit
  /\ \E e \in EntryPoints :
       \/ quant' = [quant EXCEPT ![e].algo = "other"]
       \/ \E a \in {"FP8_PB_WO", "FP8_BLOCK_SCALES"} : quant' = [quant EXCEPT ![e].alias = a]
       \/ quant' = [quant EXCEPT ![e].group = 64]
       \/ quant' = [quant EXCEPT ![e].rest = "changed"]
       \/ quant' = [quant EXCEPT ![e].ple = "other"]
       \/ quant' = [quant EXCEPT ![e].layers = "some"]
  /\ UNCHANGED <<head, size, index, config>>

Entries == [form : {"right", "wrong"}, start : 0..2, end : 0..3]

AuditNext ==
  \/ \E s \in DOMAIN head, n \in Names :
       \/ \E entry \in Entries : entry.start <= entry.end /\ EditEntry(s, n, entry)
       \/ \E new \in Names : EditName(s, n, new)
       \/ \E to \in Shards, move \in BOOLEAN : EditPlace(s, n, to, move)
  \/ \E n \in Names, to \in Shards \cup {"none"} : EditIndex(n, to)
  \/ \E s \in DOMAIN size, bytes \in 0..3 : EditSize(s, bytes)
  \/ EditFiles \/ EditMetadata

AuditSpec == AuditInit /\ [][AuditNext]_checkpoint

(***************************************************************************)
(* The audit.                                                              *)
(***************************************************************************)
ValidateConfig == config = "ok"

ValidateQuantMetadata ==
  LET c == quant["config.json"]
      h == quant["hf_quant_config.json"]
      normalized == [c EXCEPT !.alias = MtpAlias["hf_quant_config.json"]]
  IN  /\ c.algo = "MIXED_PRECISION" /\ h.algo = "MIXED_PRECISION"
      /\ c.alias = MtpAlias["config.json"] /\ h.alias = MtpAlias["hf_quant_config.json"]
      /\ c.group = 128 /\ h.group = 128
      /\ normalized.rest = h.rest
      /\ c.ple = h.ple /\ c.ple = "FP8"
      /\ c.layers = "all" /\ h.layers = "all"

Counted(S) == Cardinality({n \in DOMAIN index : n \in S})

\* Counts of the index, by family and by file.
DeriveIndexFacts ==
  /\ Cardinality(DOMAIN index) = Cardinality(Contracted)
  /\ Counted({n \in Names : UnderMtp(n)}) = Cardinality(Mtp \cup MtpPlain)
  /\ Counted({n \in Names : Family(n) = "ple"}) = Cardinality(Ple)
  /\ Cardinality({index[n] : n \in DOMAIN index}) = Cardinality(Shards)

CheckTensorEntry(e) == e.start <= e.end /\ (e.form = "right" => e.end - e.start = 1)

\* Mutant: overlaps and gaps are not looked for; the sum and the last end decide.
ContiguousAssumed(spans) == TRUE
Contiguous(spans) ==
  \A i \in DOMAIN spans : spans[i].start = IF i = 1 THEN 0 ELSE spans[i - 1].end

\* sorted(intervals): by start, then by end.
SortedSpans(spans) ==
  \A i, j \in DOMAIN spans : i < j =>
    \/ spans[i].start < spans[j].start
    \/ spans[i].start = spans[j].start /\ spans[i].end <= spans[j].end

AuditHeader(s) ==
  LET h == head[s]
      spans(order) == [i \in DOMAIN order |-> h[order[i]]]
  IN  /\ \A n \in DOMAIN h : CheckTensorEntry(h[n]) /\ h[n].end <= size[s]
      /\ \E order \in SetToSeqs(DOMAIN h) : SortedSpans(spans(order)) /\ Contiguous(spans(order))
      /\ MapThenSumSet(LAMBDA n : h[n].end - h[n].start, DOMAIN h) = size[s]
      /\ size[s] = 0 \/ \E n \in DOMAIN h : h[n].end = size[s]

InShard(s, family) == {n \in DOMAIN head[s] : Family(n) = family}

\* Only the shard named by the contract is looked at.
ValidateMtpExpertFamily ==
  /\ MtpShard \in DOMAIN head
  /\ InShard(MtpShard, "mtp") = Mtp
  /\ \A n \in Mtp : head[MtpShard][n].form = "right"

ValidatePleFamily ==
  LET h == head[MtpShard]
  IN  /\ Scale \in DOMAIN h /\ h[Scale].form = "right"
      /\ InShard(MtpShard, "ple") = Ple
      /\ \A n \in Ple : h[n].form = "right"

Claimed(s) == DOMAIN head[s] = {n \in DOMAIN index : index[n] = s}

ValidateIndexHeaderAgreement ==
  /\ \A n \in DOMAIN index : index[n] \in DOMAIN head /\ n \in DOMAIN head[index[n]]
  /\ \A s \in DOMAIN head : Claimed(s)

ValidateDtypeFamilies ==
  \A s \in DOMAIN head : \A n \in InShard(s, "plain") : head[s][n].form = "right"

ValidateNvfp4Families ==
  LET found == [s \in DOMAIN head |-> InShard(s, "main")]
  IN  /\ \A s \in DOMAIN head : \A n \in found[s] : n \in Main /\ head[s][n].form = "right"
      /\ \A s, t \in DOMAIN head : s # t => found[s] \cap found[t] = {}
      /\ UNION {found[s] : s \in DOMAIN head} = Main

AuditCheckpoint ==
  /\ ValidateConfig /\ ValidateQuantMetadata /\ DeriveIndexFacts
  /\ \A s \in DOMAIN head : AuditHeader(s)
  /\ {index[n] : n \in DOMAIN index} = DOMAIN head
  /\ Cardinality(DOMAIN head) = Cardinality(Shards)
  /\ ValidateMtpExpertFamily /\ ValidatePleFamily
  /\ ValidateIndexHeaderAgreement /\ ValidateDtypeFamilies /\ ValidateNvfp4Families

(***************************************************************************)
(* Properties.                                                             *)
(***************************************************************************)
Covering(s, byte) == {n \in DOMAIN head[s] : head[s][n].start <= byte /\ byte < head[s][n].end}

\* An admitted checkpoint is whole (audit_checkpoint): every byte of every shard
\* belongs to exactly one tensor; every tensor is where the index says and
\* nowhere else; the quantized families are the contracted ones, with the
\* contracted dtypes and shapes, and the MTP and PLE tensors are in their shard.
\* Two things are left to the hashes of the source lock: which unquantized
\* tensors there are, and MTP expert names beyond the contract in another shard.
AdmittedIsWhole ==
  AuditCheckpoint =>
    /\ \A s \in DOMAIN head : \A byte \in 0..(size[s] - 1) : Cardinality(Covering(s, byte)) = 1
    /\ \A s \in DOMAIN head : \A n \in DOMAIN head[s] : n \in DOMAIN index /\ index[n] = s
    /\ \A n \in DOMAIN index : index[n] \in DOMAIN head /\ n \in DOMAIN head[index[n]]
    /\ \A n \in Main \cup Mtp \cup Ple \cup {Scale} :
         /\ n \in DOMAIN index
         /\ head[index[n]][n].form = "right"
         /\ n \notin Main => index[n] = MtpShard
    /\ \A n \in DOMAIN index :
         Family(n) # "plain" /\ n \notin Contracted => Family(n) = "mtp" /\ index[n] # MtpShard
    /\ config = "ok"
    /\ \A e \in EntryPoints : quant[e].alias = MtpAlias[e] /\ quant[e].group = 128
    /\ quant["config.json"].rest = quant["hf_quant_config.json"].rest

=============================================================================
