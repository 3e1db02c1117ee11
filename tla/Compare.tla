------------------------------ MODULE Compare ------------------------------
(***************************************************************************)
(* scripts/compare.py: the reducer that promotes a candidate over the      *)
(* baseline, as a predicate on two manifests and two sets of row files.    *)
(* Every Reject and every failed gate is the verdict NOT_OPTIMIZED, so the *)
(* gates are conjuncts.  Rates and times are whole numbers; 5% is exact.   *)
(*                                                                         *)
(* A row is [case, repeat, valid, verified, bound, rate, ttft, wall,       *)
(* native, served]: bound is the manifest its producer wrote into it,      *)
(* native identifies the artifact of an upstream round, and served, which  *)
(* no code sees, is the set of server epochs that answered it.             *)
(***************************************************************************)
EXTENDS Integers, Sequences, FiniteSets, SequencesExt

CONSTANTS
  ProseCases,    \* expected_cases
  VisionCases,   \* the frozen vision envelope
  RoundLanes,    \* "short" and "medium"
  Repeats        \* measured repeats: 5, and no caller gives another number

ASSUME CompareAssumption ==
  /\ Repeats \in Nat /\ Repeats % 2 = 1
  /\ IsFiniteSet(VisionCases) /\ Cardinality(VisionCases) >= 2
  /\ {"prose", "vision"} \cap RoundLanes = {}

Lanes == {"prose", "vision"} \cup RoundLanes
FrozenInputs(lane) == CASE lane = "prose" -> ProseCases [] lane = "vision" -> VisionCases [] OTHER -> {"batch"}

\* sorted(values)[k - 1]: fewer than k values are below it, k or more are not above.
Kth(values, k) ==
  CHOOSE v \in {values[i] : i \in DOMAIN values} :
    /\ Cardinality({i \in DOMAIN values : values[i] < v}) < k
    /\ k <= Cardinality({i \in DOMAIN values : values[i] <= v})

\* Twice the median.
Median2(values) ==
  LET n == Cardinality(DOMAIN values)
  IN  IF n % 2 = 1 THEN 2 * Kth(values, (n + 1) \div 2)
      ELSE Kth(values, n \div 2) + Kth(values, n \div 2 + 1)

\* percentile(_, 0.95): the index is rounded (there is no tie for the 43 cases).
P95(values) == Kth(values, ((95 * (Cardinality(DOMAIN values) - 1) + 50) \div 100) + 1)

Gain(b, c) == 100 * (c - b) >= 5 * b
FinitePositive(x) == x \in Nat /\ x > 0

\* The rows of a case, by their places, and the rates at some places.
OfCase(rows, case) == {i \in DOMAIN rows : rows[i].case = case}
Rates(rows, places) == [i \in places |-> rows[i].rate]

(***************************************************************************)
(* The gates.                                                              *)
(***************************************************************************)
MeasuredProseRows(rows) == rows # << >> /\ \A i \in DOMAIN rows : rows[i].valid /\ FinitePositive(rows[i].rate)

\* Mutant: a repeat may be there twice.
CountsLoose(rows) ==
  /\ {rows[i].case : i \in DOMAIN rows} = ProseCases
  /\ \A case \in ProseCases : Cardinality(OfCase(rows, case)) = Repeats
CheckCounts(rows) ==
  /\ {rows[i].case : i \in DOMAIN rows} = ProseCases
  /\ \A case \in ProseCases :
       LET own == OfCase(rows, case)
       IN  Cardinality(own) = Repeats /\ {rows[i].repeat : i \in own} = 0..(Repeats - 1)

ProseGate(b, c) ==
  /\ MeasuredProseRows(b) /\ MeasuredProseRows(c) /\ CheckCounts(b) /\ CheckCounts(c)
  /\ \A case \in ProseCases :
       Gain(Median2(Rates(b, OfCase(b, case))), Median2(Rates(c, OfCase(c, case))))

\* _upstream_rate of every row, the repeats in order, and an artifact for each.
UpstreamRounds(rows) ==
  /\ Len(rows) = Repeats
  /\ \A i \in DOMAIN rows : rows[i].valid /\ FinitePositive(rows[i].rate) /\ rows[i].repeat = i - 1
  /\ \A i, j \in DOMAIN rows : i # j => rows[i].native # rows[j].native

UpstreamGate(b, c) ==
  UpstreamRounds(b) /\ UpstreamRounds(c) /\ Gain(Median2(Rates(b, DOMAIN b)), Median2(Rates(c, DOMAIN c)))

Keys(rows) == {<<rows[i].case, rows[i].repeat>> : i \in DOMAIN rows}

VisionTtftGate(b, c) ==
  /\ \A rows \in {b, c} :
       /\ \A i \in DOMAIN rows : rows[i].valid /\ FinitePositive(rows[i].ttft)
       /\ Len(rows) >= 2
       /\ Cardinality(Keys(rows)) = Len(rows)
  /\ Keys(b) = Keys(c)
  /\ LET b95 == P95([i \in DOMAIN b |-> b[i].ttft])
         c95 == P95([i \in DOMAIN c |-> c[i].ttft])
     IN  100 * (c95 - b95) <= 5 * b95

\* A vision lever must gain on the wall clock.
VisionLever(m, b, c) ==
  m.lever = "vision" =>
    LET bw == Median2([i \in DOMAIN b |-> b[i].wall])
        cw == Median2([i \in DOMAIN c |-> c[i].wall])
    IN  100 * (bw - cw) >= 5 * bw

\* A manifest is [epoch, image, profile, lever], a profile [mode, vision, other].
Changed(p, q) == {k \in DOMAIN p : p[k] # q[k]}

CheckParity(b, c) ==
  LET field == IF c.lever = "nextn" THEN "mode" ELSE c.lever
  IN  /\ b.image = c.image
      /\ b.lever \in {"none", c.lever}
      /\ c.lever = "nextn" => b.profile.mode = "ar" /\ c.profile.mode = "nextn"
      /\ field \in Changed(b.profile, c.profile)
      /\ Changed(b.profile, c.profile) \subseteq {field}

\* Mutant: two matching documents are enough.
RowBoundAssumed(row, m) == row.verified
RowBound(row, m) == row.verified /\ row.bound = m

CheckEvidenceBinding(m, rows, lane) ==
  /\ {rows[i].case : i \in DOMAIN rows} = FrozenInputs(lane)
  /\ \A i \in DOMAIN rows : RowBound(rows[i], m)

\* b and c are [Lanes -> rows]; a lane that was not given is << >>.
ComparePasses(mb, mc, b, c) ==
  /\ CheckParity(mb, mc)
  /\ \A lane \in Lanes : b[lane] # << >> /\ c[lane] # << >>
  /\ ProseGate(b["prose"], c["prose"])
  /\ \A lane \in RoundLanes : UpstreamGate(b[lane], c[lane])
  /\ VisionTtftGate(b["vision"], c["vision"])
  /\ VisionLever(mc, b["vision"], c["vision"])
  /\ \A lane \in Lanes : /\ CheckEvidenceBinding(mb, b[lane], lane)
                         /\ CheckEvidenceBinding(mc, c[lane], lane)
=============================================================================
