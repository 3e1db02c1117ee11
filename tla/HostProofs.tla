----------------------------- MODULE HostProofs -----------------------------
(***************************************************************************)
(* What the host decides about a server is right for every value of the    *)
(* constants: the memory watchdog neither ignores a breach nor invents     *)
(* one; a launch gets past the preflight only on a host that is right, and *)
(* with the space that the preparation of the table asks for; and the      *)
(* audit admits only a checkpoint that is whole.  The three parts share no *)
(* variables.                                                              *)
(***************************************************************************)
EXTENDS Watchdog, Preflight, Audit, FiniteSetTheorems, SequenceTheorems, WellFoundedInduction,
        NaturalsInduction, TLAPS

(***************************************************************************)
(* The watchdog.                                                           *)
(***************************************************************************)
\* The counter is the length of the run of readings below the floor that ends
\* the log: every reading in it is below, and the one before it is not.
LowInv ==
  why # "unknown" =>
    /\ low <= Len(log)
    /\ \A j \in (Len(log) - low + 1)..Len(log) : log[j] # Unknown /\ Scarce(log[j])
    /\ low < Len(log) => log[Len(log) - low] # Unknown /\ ~Scarce(log[Len(log) - low])
\* The loop runs with a count below the limit and no reason to leave.
RunInv == pc # "left" => why = "none" /\ low < LowLimit

WatchInv == TypeOK /\ LowInv /\ RunInv /\ NoBreachIgnored /\ NoFalseTrip

\* The loop starts with the invariant.
LEMMA WatchInitInv == Init => WatchInv
BY FloorAssumption, LimitAssumption, SampleAssumption, TimeAssumption
   DEF Init, WatchInv, TypeOK, Reasons, LowInv, RunInv, NoBreachIgnored, NoFalseTrip

\* The code's comparisons are the two rules.
LEMMA Rules ==
  ASSUME NEW v \in Samples
  PROVE  (Below(v) <=> Scarce(v)) /\ (Critical(v) <=> Desperate(v))
<1>1. v \in Nat /\ Floor \in Nat
  BY FloorAssumption, SampleAssumption
<1>2. Floor \div 2 \in Nat /\ (Floor = 2 * (Floor \div 2) \/ Floor = 2 * (Floor \div 2) + 1)
  BY <1>1
<1> QED BY <1>1, <1>2 DEF Below, Scarce, Critical, Desperate

\* A known reading extends the run or ends it.
LEMMA SampleLow ==
  ASSUME WatchInv, NEW v \in Samples, pc = "sample", log' = Append(log, v), low' = Count(v)
  PROVE  /\ low' \in 0..LowLimit
         /\ low' <= Len(log')
         /\ \A j \in (Len(log') - low' + 1)..Len(log') : log'[j] # Unknown /\ Scarce(log'[j])
         /\ low' < Len(log') => log'[Len(log') - low'] # Unknown /\ ~Scarce(log'[Len(log') - low'])
<1> USE FloorAssumption, LimitAssumption, SampleAssumption, TimeAssumption
<1>1. /\ v \in Nat /\ v # Unknown
      /\ Len(log) \in Nat /\ Len(log') = Len(log) + 1
      /\ log'[Len(log) + 1] = v
      /\ \A j \in 1..Len(log) : log'[j] = log[j]
  BY DEF WatchInv, TypeOK
<1>2. why = "none" /\ low < LowLimit /\ low \in Nat
  BY DEF WatchInv, RunInv, TypeOK
<1>3. CASE Below(v)
  BY <1>1, <1>2, <1>3, Rules DEF WatchInv, LowInv, Count
<1>4. CASE ~Below(v)
  BY <1>1, <1>2, <1>4, Rules DEF Count
<1> QED BY <1>3, <1>4

\* A reading keeps the invariant.
LEMMA SampleInv ==
  ASSUME WatchInv, NEW v \in Samples \cup {Unknown}, NEW t \in Delays, Sample(v, clock + t)
  PROVE  WatchInv'
<1> USE FloorAssumption, LimitAssumption, SampleAssumption, TimeAssumption
<1>0. /\ pc = "sample" /\ why = "none" /\ low < LowLimit /\ low \in Nat
      /\ Len(log) \in Nat /\ Len(log') = Len(log) + 1
      /\ log'[Len(log) + 1] = v
      /\ \A j \in 1..Len(log) : log'[j] = log[j]
  BY DEF Sample, WatchInv, RunInv, TypeOK
<1>1. TypeOK'
  <2>1. log' \in Seq(Samples \cup {Unknown}) BY DEF Sample, WatchInv, TypeOK
  <2>2. clock' \in Nat BY DEF Sample, WatchInv, TypeOK
  <2>3. low' \in 0..LowLimit
    BY <1>0, SampleLow DEF Sample, WatchInv, TypeOK
  <2> QED BY <2>1, <2>2, <2>3 DEF Sample, WatchInv, TypeOK, Reasons, LeaveLoop
<1>2. CASE v = Unknown
  <2>1. pc' = "left" /\ why' = "unknown"
    BY <1>2 DEF Sample, LeaveLoop
  <2> QED BY <1>1, <2>1 DEF WatchInv, LowInv, RunInv, NoBreachIgnored, NoFalseTrip
<1>3. CASE v # Unknown
  <2>1. /\ v \in Samples /\ low' = Count(v) /\ log' = Append(log, v)
        /\ \/ Trips(v) /\ pc' = "left" /\ why' = "memory"
           \/ ~Trips(v) /\ pc' = "left" /\ why' = "deadline"
           \/ ~Trips(v) /\ ~Expired(clock') /\ pc' = "inspect" /\ why' = "none"
    BY <1>0, <1>3 DEF Sample, LeaveLoop
  <2>2. LowInv'
    BY <1>0, <2>1, SampleLow DEF LowInv
  <2>3. RunInv'
    BY <1>1, <2>1 DEF RunInv, Trips, TypeOK
  <2>4. NoBreachIgnored'
    <3> SUFFICES ASSUME pc' # "left"
                 PROVE  /\ \A i \in 1..Len(log') : log'[i] # Unknown /\ ~Desperate(log'[i])
                        /\ \A i \in 1..(Len(log') - LowLimit + 1) : ~Sustained(i)'
      BY DEF NoBreachIgnored
    <3>1. ~Trips(v) BY <2>1
    <3>2. \A i \in 1..Len(log') : log'[i] # Unknown /\ ~Desperate(log'[i])
      BY <1>0, <1>3, <2>1, <3>1, Rules DEF WatchInv, NoBreachIgnored, Trips
    <3>3. ASSUME NEW i \in 1..(Len(log') - LowLimit + 1) PROVE ~Sustained(i)'
      <4>1. CASE i = Len(log') - LowLimit + 1
        <5>1. low' < LowLimit /\ low' \in Nat /\ Len(log') - low' \in i..(i + LowLimit - 1)
          BY <1>0, <1>1, <2>1, <3>1, <4>1 DEF Trips, TypeOK
        <5>2. low' < Len(log')
          BY <1>0, <5>1, <4>1
        <5>3. log'[Len(log') - low'] # Unknown /\ ~Scarce(log'[Len(log') - low'])
          BY <1>0, <2>1, <2>2, <5>2, SampleLow
        <5> QED BY <5>1, <5>3 DEF Sustained
      <4>2. CASE i # Len(log') - LowLimit + 1
        <5>1. i \in 1..(Len(log) - LowLimit + 1)
          BY <1>0, <4>2
        <5>2. ~Sustained(i)
          BY <1>0, <5>1 DEF WatchInv, NoBreachIgnored
        <5>3. \A j \in i..(i + LowLimit - 1) : log'[j] = log[j]
          BY <1>0, <5>1
        <5> QED BY <5>2, <5>3 DEF Sustained
      <4> QED BY <4>1, <4>2
    <3> QED BY <3>2, <3>3
  <2>5. NoFalseTrip'
    <3> SUFFICES ASSUME why' = "memory"
                 PROVE  /\ Len(log') > 0
                        /\ \/ Desperate(log'[Len(log')])
                           \/ Len(log') >= LowLimit /\ Sustained(Len(log) - LowLimit + 1)'
      BY DEF NoFalseTrip
    <3>1. Trips(v) BY <2>1
    <3>2. CASE Critical(v)
      BY <1>0, <2>1, <3>2, Rules
    <3>3. CASE low' >= LowLimit
      <4>1. low' = LowLimit BY <1>1, <3>3 DEF TypeOK
      <4>2. low' <= Len(log')
        BY <1>0, <2>1, SampleLow
      <4>3. \A j \in (Len(log') - low' + 1)..Len(log') : log'[j] # Unknown /\ Scarce(log'[j])
        BY <1>0, <2>1, SampleLow
      <4>4. Sustained(Len(log) - LowLimit + 1)'
        BY <1>0, <4>1, <4>2, <4>3 DEF Sustained
      <4> QED BY <1>0, <4>1, <4>2, <4>4
    <3> QED BY <2>1, <3>1, <3>2, <3>3 DEF Trips
  <2> QED BY <1>1, <2>2, <2>3, <2>4, <2>5 DEF WatchInv
<1> QED BY <1>2, <1>3

\* Every step keeps the invariant.
LEMMA WatchStepInv == WatchInv /\ [Next]_vars => WatchInv'
<1> SUFFICES ASSUME WatchInv, [Next]_vars PROVE WatchInv'
  OBVIOUS
<1> USE DEF WatchInv, TypeOK, Reasons, LowInv, RunInv, NoBreachIgnored, NoFalseTrip, Sustained
<1>1. CASE Inspect
  BY <1>1 DEF Inspect, LeaveLoop
<1>2. CASE ServerExits \/ SignalCaught \/ Left \/ UNCHANGED vars
  BY <1>2 DEF ServerExits, SignalCaught, Left, vars
<1> QED BY <1>1, <1>2, SampleInv DEF Next

\* While the loop goes on, no breach of either memory rule is in the log.
THEOREM BreachNeverIgnored == Spec => []NoBreachIgnored
<1>1. WatchInv => NoBreachIgnored BY DEF WatchInv
<1> QED BY <1>1, WatchInitInv, WatchStepInv, PTL DEF Spec

\* A server is stopped for memory only after a breach of one of the rules.
THEOREM NeverTripsFalsely == Spec => []NoFalseTrip
<1>1. WatchInv => NoFalseTrip BY DEF WatchInv
<1> QED BY <1>1, WatchInitInv, WatchStepInv, PTL DEF Spec

(***************************************************************************)
(* The preflight.                                                          *)
(***************************************************************************)
\* Space is counted in natural numbers.
SpaceTypes ==
  /\ free \in Nat /\ temps \in Nat /\ tmp \in Nat /\ taken \in Nat
  /\ table \in {"none", "good", "stale"}
  /\ host \in Hosts

\* What others took since the check and what is left still add up to what the
\* check asked for.
SpaceInv ==
  /\ phase = "prepare" => free + taken >= Charged
  /\ phase = "copy" => free + tmp + taken >= TableSize + PrepReserve

PreflightInv == SpaceTypes /\ SpaceInv /\ SpaceAgreed /\ PassIsSafe

\* Of the mounts above a target, none at the place of another, the one the
\* preflight takes is the one the kernel shows (_mount_for).
LEMMA MountIsVisible ==
  ASSUME NEW h \in Hosts, ~Overmounted(h), NEW i \in MountFor(PleDir, h.mounts)
  PROVE  Visible(h) = h.mounts[i]
<1> DEFINE above == {n \in DOMAIN h.mounts : AtOrAbove(h.mounts[n].point, PleDir)}
           Deepest(n) == \A j \in above :
                 \/ Len(h.mounts[j].point) < Len(h.mounts[n].point)
                 \/ Len(h.mounts[j].point) = Len(h.mounts[n].point) /\ j <= n
           k == CHOOSE n \in above : Deepest(n)
<1>1. h.mounts \in Seq([point : Seq(STRING), fstype : STRING])
  <2>1. h.mounts \in MountTables \cup {<< >>}
    BY DEF Hosts, NoMounts
  <2>2. << >> \in Seq([point : Seq(STRING), fstype : STRING])
    OBVIOUS
  <2> QED BY <2>1, <2>2, MountAssumption, Zenon
<1>2. \A n \in DOMAIN h.mounts : n \in Nat /\ Len(h.mounts[n].point) \in Nat
  BY <1>1
<1>3. /\ i \in above
      /\ \A j \in above : \/ Len(h.mounts[j].point) < Len(h.mounts[i].point)
                          \/ Len(h.mounts[j].point) = Len(h.mounts[i].point) /\ i <= j
  BY DEF MountFor
<1>4. ASSUME NEW j \in above, Len(h.mounts[j].point) = Len(h.mounts[i].point) PROVE j = i
  <2>1. h.mounts[j].point = h.mounts[i].point
    BY <1>3, <1>4 DEF AtOrAbove
  <2> QED BY <2>1, <1>3 DEF Overmounted
<1>5. Deepest(i)
  BY <1>2, <1>3, <1>4
<1>6. k \in above /\ Deepest(k)
  BY <1>3, <1>5
<1> HIDE DEF k
<1>7. k = i
  <2>1. \/ Len(h.mounts[i].point) < Len(h.mounts[k].point)
        \/ Len(h.mounts[i].point) = Len(h.mounts[k].point)
    BY <1>3, <1>6
  <2>2. \/ Len(h.mounts[k].point) < Len(h.mounts[i].point)
        \/ Len(h.mounts[k].point) = Len(h.mounts[i].point)
    BY <1>3, <1>6
  <2>3. Len(h.mounts[i].point) \in Nat /\ Len(h.mounts[k].point) \in Nat
    BY <1>2, <1>3, <1>6
  <2>4. Len(h.mounts[k].point) = Len(h.mounts[i].point)
    BY <2>1, <2>2, <2>3
  <2> QED BY <2>4, <1>4, <1>6
<1> QED BY <1>7 DEF Visible, k

\* What PASS says about the host (run_preflight).
LEMMA PassMeans ==
  ASSUME host \in Hosts, Status(host) = "PASS"
  PROVE  /\ host.arch = "aarch64" /\ host.ram = "enough"
         /\ host.gpus = "GB10" /\ host.load = "idle" /\ host.apps = "none"
         /\ host.trees = "readable" /\ host.statvfs = "answers" /\ host.mounts # NoMounts
         /\ Overmounted(host) \/ Visible(host).fstype \notin Remote
         /\ free >= Charged
<1>1. {Decide(host.arch # "unknown", host.arch = "aarch64"),
       Decide(host.ram # "unknown", host.ram = "enough")}
      \cup GpuChecks(host) \cup DiskChecks(host) = {"pass"}
  BY DEF Status
<1>2. host.arch = "aarch64" /\ host.ram = "enough"
  BY <1>1 DEF Decide
<1>3. host.gpus = "GB10" /\ host.load = "idle" /\ host.apps = "none"
  <2>1. GpuChecks(host) \subseteq {"pass"}
    BY <1>1
  <2>2. /\ Decide(host.gpus # "unknown", host.gpus = "GB10") = "pass"
        /\ Decide(host.gpus # "unknown", host.gpus # "none" /\ host.load = "idle") = "pass"
        /\ Decide(host.gpus # "unknown", host.apps = "none") = "pass"
    BY <2>1 DEF GpuChecks
  <2> QED BY <2>2 DEF Decide
<1>4. DiskChecks(host) \subseteq {"pass"}
  BY <1>1
<1>5. /\ host.mounts # NoMounts /\ host.trees # "unknown" /\ MountFor(PleDir, host.mounts) # {}
      /\ Decide(host.statvfs # "unknown", free >= Charged) = "pass"
      /\ Decide(TRUE, \A i \in MountFor(PleDir, host.mounts) :
                         host.mounts[i].fstype \notin Remote) = "pass"
  BY <1>4 DEF DiskChecks
<1>6. host.statvfs # "unknown" /\ free >= Charged /\ \A i \in MountFor(PleDir, host.mounts) : host.mounts[i].fstype \notin Remote
  BY <1>5 DEF Decide
<1>7. Overmounted(host) \/ Visible(host).fstype \notin Remote
  <2>1. PICK i \in MountFor(PleDir, host.mounts) : TRUE
    BY <1>5
  <2> QED BY <2>1, <1>6, MountIsVisible
<1>8. host.trees = "readable" /\ host.statvfs = "answers"
  BY <1>5, <1>6 DEF Hosts
<1> QED BY <1>2, <1>3, <1>5, <1>6, <1>7, <1>8

\* The first launch has the invariant.
LEMMA PreflightFirst == PreflightInit => PreflightInv
<1> SUFFICES ASSUME PreflightInit PROVE PreflightInv
  OBVIOUS
<1>1. SpaceTypes
  BY SpaceAssumption DEF PreflightInit, SpaceTypes, OneOff
<1> QED BY <1>1 DEF PreflightInit, PreflightInv, SpaceInv, SpaceAgreed, PassIsSafe

\* A step keeps the types.
LEMMA SpaceTypesStep == SpaceTypes /\ [PreflightNext]_space => SpaceTypes'
BY SpaceAssumption DEF SpaceTypes, PreflightNext, RunPreflight, WarmTable, AdmitSpace, CopyPart,
   PublishTable, LaunchKilled, Relaunch, OthersWrite, TableSpoiled, Discard, TableBytes, space

\* A step keeps the space the checks have found.
LEMMA SpaceStep ==
  SpaceTypes /\ SpaceInv /\ [PreflightNext]_space => SpaceInv'
<1> SUFFICES ASSUME SpaceTypes, SpaceInv, [PreflightNext]_space PROVE SpaceInv'
  OBVIOUS
<1>0. /\ free \in Nat /\ temps \in Nat /\ tmp \in Nat /\ taken \in Nat
      /\ TableSize \in Nat /\ DiskReserve \in Nat /\ PrepReserve \in Nat
  BY SpaceAssumption DEF SpaceTypes
<1>1. CASE RunPreflight
  <2>1. phase' = "prepare" => free >= Charged
    BY <1>1, PassMeans DEF RunPreflight, SpaceTypes
  <2>2. Charged' = Charged /\ free' = free /\ taken' = 0 /\ phase' \in {"prepare", "rejected"}
    BY <1>1 DEF RunPreflight, Charged, MissingBytes, PresentBytes, TableBytes
  <2> QED BY <2>1, <2>2, <1>0 DEF SpaceInv
<1>2. CASE AdmitSpace
  BY <1>0, <1>2 DEF AdmitSpace, EnoughSpace, SpaceInv
<1>3. CASE CopyPart
  BY <1>0, <1>3 DEF CopyPart, Discard, SpaceInv
<1>4. CASE OthersWrite
  <2>1. Charged' = Charged
    BY <1>4 DEF OthersWrite, Charged, MissingBytes, PresentBytes, TableBytes
  <2>2. free' + taken' = free + taken /\ free' + tmp' + taken' = free + tmp + taken
    BY <1>0, <1>4 DEF OthersWrite
  <2> QED BY <2>1, <2>2, <1>4 DEF OthersWrite, SpaceInv
<1>5. CASE WarmTable \/ PublishTable \/ LaunchKilled \/ Relaunch
  BY <1>5 DEF WarmTable, PublishTable, LaunchKilled, Relaunch, Discard, SpaceInv
<1>6. CASE TableSpoiled
  BY <1>6 DEF TableSpoiled, SpaceInv
<1>7. CASE UNCHANGED space
  BY <1>7 DEF space, SpaceInv, Charged, MissingBytes, PresentBytes, TableBytes
<1> QED BY <1>1, <1>2, <1>3, <1>4, <1>5, <1>6, <1>7 DEF PreflightNext

\* A step keeps the two checks of the space in agreement.
LEMMA AgreedStep ==
  SpaceTypes /\ SpaceInv /\ SpaceInv' /\ SpaceTypes' /\ SpaceAgreed /\ [PreflightNext]_space
    => SpaceAgreed'
<1> SUFFICES ASSUME SpaceTypes, SpaceInv, SpaceInv', SpaceTypes', SpaceAgreed, [PreflightNext]_space
             PROVE  SpaceAgreed'
  OBVIOUS
<1>0. /\ free \in Nat /\ temps \in Nat /\ tmp \in Nat /\ taken \in Nat
      /\ free' \in Nat /\ temps' \in Nat /\ tmp' \in Nat /\ taken' \in Nat
      /\ TableSize \in Nat /\ DiskReserve \in Nat /\ PrepReserve \in Nat /\ PrepReserve <= DiskReserve
  BY SpaceAssumption DEF SpaceTypes
<1>1. ASSUME phase' = "copy", taken' <= PrepReserve
      PROVE  free' >= TableSize - tmp'
  <2>1. free' + tmp' + taken' >= TableSize + PrepReserve
    BY <1>1 DEF SpaceInv
  <2>2. \A f, t, k \in Nat : f + t + k >= TableSize + PrepReserve /\ k <= PrepReserve => f >= TableSize - t
    BY <1>0
  <2> QED BY <2>1, <2>2, <1>0, <1>1
<1>2. ASSUME phase' = "refused", taken' = 0, tmp' = 0
      PROVE  temps' > 0 \/ table' # "none" \/ EnoughSpace'
  <2>1. CASE AdmitSpace
    <3>1. phase = "prepare" /\ taken = 0 /\ UNCHANGED <<free, table, temps>>
      BY <2>1, <1>2 DEF AdmitSpace
    <3>2. free >= Charged
      BY <3>1, <1>0 DEF SpaceInv
    <3>3. temps = 0 /\ table = "none" => Charged = TableSize + DiskReserve
      BY <1>0 DEF Charged, MissingBytes, PresentBytes, TableBytes
    <3> QED BY <3>1, <3>2, <3>3, <1>0 DEF EnoughSpace
  <2>2. CASE CopyPart \/ PublishTable
    <3>1. phase = "copy" /\ taken = 0 /\ free' = free + tmp
      BY <2>2, <1>2 DEF CopyPart, PublishTable, Discard
    <3> QED BY <3>1, <1>0 DEF SpaceInv, EnoughSpace
  <2>3. CASE OthersWrite
    BY <2>3, <1>0, <1>2 DEF OthersWrite
  <2>4. CASE TableSpoiled
    BY <2>4 DEF TableSpoiled
  <2>5. CASE UNCHANGED space
    BY <2>5, <1>2 DEF space, SpaceAgreed, EnoughSpace
  <2> QED BY <2>1, <2>2, <2>3, <2>4, <2>5, <1>2 DEF PreflightNext, RunPreflight, WarmTable,
         LaunchKilled, Relaunch
<1> QED BY <1>1, <1>2 DEF SpaceAgreed

\* A step keeps the host right.
LEMMA SafeStep == SpaceTypes /\ PassIsSafe /\ [PreflightNext]_space => PassIsSafe'
<1> SUFFICES ASSUME SpaceTypes, PassIsSafe, [PreflightNext]_space PROVE PassIsSafe'
  OBVIOUS
<1>1. host' = host
  BY DEF PreflightNext, RunPreflight, WarmTable, AdmitSpace, CopyPart, PublishTable, LaunchKilled,
         Relaunch, OthersWrite, TableSpoiled, space
<1>2. CASE RunPreflight
  <2>1. phase' = "prepare" => Status(host) = "PASS"
    BY <1>2 DEF RunPreflight
  <2>2. phase' \in {"prepare", "rejected"}
    BY <1>2 DEF RunPreflight
  <2> QED BY <2>1, <2>2, <1>1, PassMeans DEF PassIsSafe, SpaceTypes
<1>3. CASE phase' \in {"prepare", "copy"} => phase \in {"prepare", "copy"}
  BY <1>1, <1>3 DEF PassIsSafe
<1> QED BY <1>2, <1>3 DEF PreflightNext, WarmTable, AdmitSpace, CopyPart, PublishTable, LaunchKilled,
       Relaunch, OthersWrite, TableSpoiled, space, Discard

\* A step keeps the invariant.
LEMMA PreflightStep == PreflightInv /\ [PreflightNext]_space => PreflightInv'
BY SpaceTypesStep, SpaceStep, AgreedStep, SafeStep DEF PreflightInv

\* run_preflight fails closed: whatever the probes of a host return, a launch
\* gets past it only if all of them are known and right and, unless one mount
\* hides another, the cache directory is on a local filesystem.
THEOREM PreflightIsSafe == PreflightSpec => []PassIsSafe
<1>1. PreflightInv => PassIsSafe
  BY DEF PreflightInv
<1> QED BY <1>1, PreflightFirst, PreflightStep, PTL DEF PreflightSpec

\* The space checks of preflight.py and of the preparation of the table agree,
\* for any size of the table and any reserves of which the first is the larger.
THEOREM SpaceChecksAgree == PreflightSpec => []SpaceAgreed
<1>1. PreflightInv => SpaceAgreed
  BY DEF PreflightInv
<1> QED BY <1>1, PreflightFirst, PreflightStep, PTL DEF PreflightSpec

(***************************************************************************)
(* The audit.                                                              *)
(***************************************************************************)
\* A header entry, and the keys of a quantization block.
Headers == [form : {"right", "wrong"}, start : Nat, end : Nat]
QuantKeys == {"algo", "alias", "group", "rest", "ple", "layers"}

\* What every edit leaves: names that are known, and offsets that are numbers.
HeadInv ==
  /\ DOMAIN size = DOMAIN head
  /\ \A s \in DOMAIN head :
       /\ head[s] \in [DOMAIN head[s] -> Headers]
       /\ DOMAIN head[s] \subseteq Names
       /\ size[s] \in Nat
IndexInv == DOMAIN index \subseteq Names
QuantInv ==
  /\ DOMAIN quant = EntryPoints
  /\ \A e \in EntryPoints : quant[e] = [k \in QuantKeys |-> quant[e][k]]
CheckpointInv == HeadInv /\ IndexInv /\ QuantInv

(***************************************************************************)
(* What the audit lets through.                                            *)
(***************************************************************************)
\* Of the naturals in a set that is not empty one is the least.
LEMMA HasLeast ==
  ASSUME NEW S \in SUBSET Nat, S # {}
  PROVE  \E x \in S : \A y \in S : x <= y
<1>1. PICK x \in S : \A y \in S : ~(<<y, x>> \in OpToRel(<, Nat))
  BY NatLessThanWellFounded, WFMin
<1>2. \A y \in S : ~(y < x)
  BY <1>1 DEF OpToRel
<1>3. \A y \in S : x <= y
  BY <1>2
<1> QED BY <1>3

\* The places of a sequence.
LEMMA PlacesCounted ==
  ASSUME NEW n \in Nat
  PROVE  IsFiniteSet(1..n) /\ Cardinality(1..n) = n
<1>1. IsFiniteSet(1..n) /\ Cardinality(1..n) = IF 1 > n THEN 0 ELSE n - 1 + 1
  BY FS_Interval
<1>2. (IF 1 > n THEN 0 ELSE n - 1 + 1) = n
  OBVIOUS
<1> QED BY <1>1, <1>2

\* Sorted spans that follow each other without a gap and reach the end of the
\* region cover each of its bytes exactly once (audit_safetensors_headers).
LEMMA SpansTile ==
  ASSUME HeadInv, NEW s \in DOMAIN head, AuditHeader(s), NEW byte \in 0..(size[s] - 1)
  PROVE  Cardinality(Covering(s, byte)) = 1
<1> DEFINE h == head[s]
           N == Cardinality(DOMAIN h)
<1>1. IsFiniteSet(DOMAIN h) /\ N \in Nat
  BY FS_Subset, FS_CardinalityType, NameAssumption DEF HeadInv
<1>2. PICK order \in SetToSeqs(DOMAIN h) :
        LET spans == [i \in DOMAIN order |-> h[order[i]]]
        IN  SortedSpans(spans) /\ Contiguous(spans)
  BY DEF AuditHeader
<1>3. /\ order \in [1..N -> DOMAIN h]
      /\ \A i, j \in 1..N : i # j => order[i] # order[j]
  BY <1>2 DEF SetToSeqs
<1>4. \A n \in DOMAIN h : \E i \in 1..N : order[i] = n
  <2>1. order \in Injection(1..N, DOMAIN h)
    BY <1>3 DEF Injection, IsInjective
  <2>2. IsFiniteSet(1..N) /\ Cardinality(1..N) = N
    <3> HIDE DEF N
    <3> QED BY <1>1, PlacesCounted
  <2>3. order \in Surjection(1..N, DOMAIN h)
    BY <1>1, <2>1, <2>2, FS_Injection
  <2> QED BY <2>3 DEF Surjection
<1> DEFINE Start(i) == h[order[i]].start
           End(i) == h[order[i]].end
<1>5. \A i \in 1..N : Start(i) \in Nat /\ End(i) \in Nat
  BY <1>3 DEF HeadInv, Headers
<1>6. \A i, j \in 1..N : i < j => Start(i) <= Start(j)
  BY <1>2, <1>3, <1>5 DEF SortedSpans
<1>7. \A i \in 1..N : Start(i) = IF i = 1 THEN 0 ELSE End(i - 1)
  <2> SUFFICES ASSUME NEW i \in 1..N PROVE Start(i) = IF i = 1 THEN 0 ELSE End(i - 1)
    OBVIOUS
  <2> DEFINE spans == [j \in DOMAIN order |-> h[order[j]]]
  <2>1. DOMAIN spans = 1..N /\ \A j \in 1..N : spans[j] = h[order[j]]
    BY <1>3
  <2>2. spans[i].start = IF i = 1 THEN 0 ELSE spans[i - 1].end
    BY <1>2, <2>1 DEF Contiguous
  <2>3. i # 1 => i - 1 \in 1..N
    BY <1>1
  <2> HIDE DEF spans
  <2> QED BY <2>1, <2>2, <2>3
<1> DEFINE Past == {i \in 1..N : byte < End(i)}
<1>8. byte \in Nat /\ size[s] \in Nat /\ byte < size[s]
  BY DEF HeadInv
<1>9. Past # {}
  <2>0. size[s] = 0 \/ \E n \in DOMAIN h : h[n].end = size[s]
    BY Zenon DEF AuditHeader
  <2>1. PICK n \in DOMAIN h : h[n].end = size[s]
    BY <2>0, <1>8
  <2> QED BY <2>1, <1>4, <1>8
<1>10. PICK i \in Past : \A j \in Past : i <= j
  <2>1. Past \subseteq Nat OBVIOUS
  <2> HIDE DEF Past
  <2> QED BY <1>9, <2>1, HasLeast
<1>11. Start(i) <= byte
  <2>1. CASE i = 1
    BY <2>1, <1>7, <1>8, <1>10
  <2>2. CASE i # 1
    <3>1. i - 1 \in 1..N /\ i - 1 < i
      BY <2>2, <1>1, <1>10
    <3>2. i - 1 \notin Past
      BY <3>1, <1>10
    <3>3. End(i - 1) \in Nat /\ ~(byte < End(i - 1))
      BY <3>1, <3>2, <1>5
    <3> QED BY <2>2, <3>3, <1>7, <1>8, <1>10
  <2> QED BY <2>1, <2>2
<1>12. ASSUME NEW m \in 1..N, NEW n \in 1..N, m < n,
              Start(n) <= byte, byte < End(m)
       PROVE  FALSE
  <2>1. m + 1 \in 1..N /\ m + 1 <= n /\ m + 1 # 1 /\ (m + 1) - 1 = m
    BY <1>1, <1>12
  <2>2. Start(m + 1) = End(m)
    BY <1>7, <2>1
  <2>3. Start(m + 1) <= Start(n)
    <3>1. CASE m + 1 = n BY <3>1, <1>5
    <3>2. CASE m + 1 < n BY <3>2, <2>1, <1>6
    <3> QED BY <3>1, <3>2, <2>1
  <2> QED BY <2>1, <2>2, <2>3, <1>5, <1>8, <1>12
<1>13. Covering(s, byte) = {order[i]}
  <2>1. order[i] \in Covering(s, byte)
    BY <1>3, <1>10, <1>11 DEF Covering
  <2>2. ASSUME NEW n \in Covering(s, byte) PROVE n = order[i]
    <3>1. PICK j \in 1..N : order[j] = n
      BY <1>4 DEF Covering
    <3>2. Start(j) <= byte /\ byte < End(j)
      BY <3>1 DEF Covering
    <3>3. i \in 1..N /\ byte < End(i)
      BY <1>10
    <3>4. ~(i < j) /\ ~(j < i)
      BY <3>2, <3>3, <1>11, <1>12
    <3>5. i = j
      BY <3>3, <3>4
    <3> QED BY <3>1, <3>5
  <2> QED BY <2>1, <2>2
<1> QED BY <1>13, FS_Singleton

\* A name of the PLE family is one of the contract, or the index counts too many.
LEMMA NoStrayPle ==
  ASSUME IndexInv, DeriveIndexFacts, ValidatePleFamily, Ple \subseteq DOMAIN index,
         NEW n \in DOMAIN index, Family(n) = "ple"
  PROVE  n \in Ple
<1> DEFINE all == {x \in DOMAIN index : x \in {y \in Names : Family(y) = "ple"}}
<1>1. Cardinality(all) = Cardinality(Ple)
  BY DEF DeriveIndexFacts, Counted
<1>2. IsFiniteSet(all)
  <2>1. all \subseteq Names OBVIOUS
  <2> QED BY <2>1, NameAssumption, FS_Subset
<1>3. Ple \subseteq all
  BY DEF ValidatePleFamily, InShard, IndexInv
<1>4. n \in all
  BY DEF IndexInv
<1> HIDE DEF all
<1>5. Ple = all
  BY <1>1, <1>2, <1>3, FS_Subset
<1> QED BY <1>4, <1>5

\* What is admitted is whole (audit_checkpoint).
LEMMA AuditedIsWhole == CheckpointInv => AdmittedIsWhole
<1> SUFFICES ASSUME CheckpointInv, AuditCheckpoint PROVE AdmittedIsWhole
  BY DEF AdmittedIsWhole
<1> USE DEF CheckpointInv
<1>1. \A s \in DOMAIN head : \A byte \in 0..(size[s] - 1) : Cardinality(Covering(s, byte)) = 1
  BY SpansTile DEF AuditCheckpoint
<1>2. \A s \in DOMAIN head : \A n \in DOMAIN head[s] : n \in DOMAIN index /\ index[n] = s
  BY DEF AuditCheckpoint, ValidateIndexHeaderAgreement, Claimed
<1>3. \A n \in DOMAIN index : index[n] \in DOMAIN head /\ n \in DOMAIN head[index[n]]
  BY DEF AuditCheckpoint, ValidateIndexHeaderAgreement
<1>4. MtpShard \in DOMAIN head
  BY DEF AuditCheckpoint, ValidateMtpExpertFamily
<1>5. ASSUME NEW n \in Mtp \cup Ple \cup {Scale}
      PROVE  /\ n \in DOMAIN index /\ index[n] = MtpShard
             /\ head[MtpShard][n].form = "right"
  <2>1. n \in DOMAIN head[MtpShard] /\ head[MtpShard][n].form = "right"
    BY DEF AuditCheckpoint, ValidateMtpExpertFamily, ValidatePleFamily, InShard
  <2> QED BY <2>1, <1>2, <1>4
<1>6. ASSUME NEW n \in Main
      PROVE  n \in DOMAIN index /\ head[index[n]][n].form = "right"
  <2>1. PICK s \in DOMAIN head : n \in InShard(s, "main") /\ head[s][n].form = "right"
    BY DEF AuditCheckpoint, ValidateNvfp4Families
  <2> QED BY <2>1, <1>2 DEF InShard
<1>7. ASSUME NEW n \in DOMAIN index, Family(n) # "plain", n \notin Contracted
      PROVE  Family(n) = "mtp" /\ index[n] # MtpShard
  <2>1. Family(n) \in {"main", "mtp", "ple"}
    BY <1>7, NameAssumption DEF Family, Names, Contracted, IndexInv
  <2>2. index[n] \in DOMAIN head /\ n \in InShard(index[n], Family(n))
    BY <1>3 DEF InShard
  <2>3. Family(n) # "main"
    BY <1>7, <2>2 DEF AuditCheckpoint, ValidateNvfp4Families, Contracted
  <2>4. Family(n) # "ple"
    BY <1>5, <1>7, NoStrayPle DEF AuditCheckpoint, Contracted
  <2>5. Family(n) = "mtp" => index[n] # MtpShard
    BY <1>7, <2>2 DEF AuditCheckpoint, ValidateMtpExpertFamily, Contracted
  <2> QED BY <2>1, <2>3, <2>4, <2>5
<1>8. /\ config = "ok"
      /\ \A e \in EntryPoints : quant[e].alias = MtpAlias[e] /\ quant[e].group = 128
  BY DEF AuditCheckpoint, ValidateConfig, ValidateQuantMetadata, EntryPoints
<1>9. quant["config.json"].rest = quant["hf_quant_config.json"].rest
  <2>1. "rest" \in DOMAIN quant["config.json"]
    BY DEF QuantInv, EntryPoints, QuantKeys
  <2> QED BY <2>1 DEF AuditCheckpoint, ValidateQuantMetadata
<1> QED BY <1>1, <1>2, <1>3, <1>5, <1>6, <1>7, <1>8, <1>9 DEF AdmittedIsWhole

(***************************************************************************)
(* The edits.                                                              *)
(***************************************************************************)
\* The header of a shard as it was published.
LEMMA LayoutIs ==
  ASSUME NEW S \in SUBSET Names
  PROVE  Layout(S) \in [S -> Headers]
<1> DEFINE order == SetToSeq(S)
           pos(n) == CHOOSE i \in DOMAIN order : order[i] = n
           N == Cardinality(S)
<1>1. IsFiniteSet(S) /\ N \in Nat
  BY NameAssumption, FS_Subset, FS_CardinalityType
<1>2. \E f \in [1..N -> S] : IsInjective(f)
  <2>1. PICK f : f \in Bijection(1..N, S)
    BY <1>1, FS_CardinalityType DEF ExistsBijection
  <2> QED BY <2>1 DEF Bijection, Injection
<1>3. order \in [1..N -> S] /\ IsInjective(order)
  BY <1>2 DEF SetToSeq
<1> HIDE DEF order
<1>4. \A n \in S : \E i \in 1..N : order[i] = n
  <2>1. order \in Injection(1..N, S)
    BY <1>3 DEF Injection
  <2>2. IsFiniteSet(1..N) /\ Cardinality(1..N) = N
    <3> HIDE DEF N
    <3> QED BY <1>1, PlacesCounted
  <2>3. order \in Surjection(1..N, S)
    BY <1>1, <2>1, <2>2, FS_Injection
  <2> QED BY <2>3 DEF Surjection
<1>5. \A n \in S : pos(n) \in 1..N
  BY <1>3, <1>4
<1> HIDE DEF pos
<1>6. \A n \in S : [form |-> "right", start |-> pos(n) - 1, end |-> pos(n)] \in Headers
  <2>1. \A n \in S : pos(n) - 1 \in Nat /\ pos(n) \in Nat
    BY <1>1, <1>5
  <2> QED BY <2>1 DEF Headers
<1>7. Layout(S) = [n \in S |-> [form |-> "right", start |-> pos(n) - 1, end |-> pos(n)]]
  BY Zenon DEF Layout, order, pos
<1> QED BY <1>6, <1>7

\* The contracted checkpoint.
LEMMA AuditInitInv == AuditInit => CheckpointInv
<1> SUFFICES ASSUME AuditInit PROVE CheckpointInv OBVIOUS
<1> DEFINE mine == Mtp \cup Ple \cup {Scale} \cup MtpPlain
           own == [s \in Shards |-> IF s = MtpShard THEN mine ELSE Main \cup Plain]
<1>1. /\ head = [s \in Shards |-> Layout(own[s])]
      /\ size = [s \in Shards |-> Cardinality(own[s])]
      /\ DOMAIN index = Contracted
      /\ quant = [e \in EntryPoints |-> Quant(e)]
  BY DEF AuditInit
<1>2. \A s \in Shards : own[s] \in SUBSET Names
  BY DEF Names, Contracted
<1> HIDE DEF own
<1>3. \A s \in Shards : Layout(own[s]) \in [own[s] -> Headers] /\ Cardinality(own[s]) \in Nat
  BY <1>2, LayoutIs, NameAssumption, FS_Subset, FS_CardinalityType
<1>4. HeadInv
  BY <1>1, <1>2, <1>3 DEF HeadInv
<1>5. IndexInv
  BY <1>1 DEF IndexInv, Names
<1>6. QuantInv
  BY <1>1 DEF QuantInv, Quant, QuantKeys
<1> QED BY <1>4, <1>5, <1>6 DEF CheckpointInv

\* An entry that is put into a header leaves it one.
LEMMA WithIs ==
  ASSUME NEW D \in SUBSET Names, NEW h \in [D -> Headers], NEW n \in Names, NEW e \in Headers, NEW m
  PROVE  /\ With(h, n, e) \in [D \cup {n} -> Headers]
         /\ Without(h, m) \in [D \ {m} -> Headers]
         /\ With(Without(h, m), n, e) \in [(D \ {m}) \cup {n} -> Headers]
BY DEF With, Without

\* A header that changes alone.
LEMMA OneHeader ==
  ASSUME HeadInv, NEW s \in DOMAIN head, NEW D \in SUBSET Names, NEW h \in [D -> Headers],
         head' = [head EXCEPT ![s] = h], size' = size
  PROVE  HeadInv'
BY DEF HeadInv

\* A shard without tensors.
LEMMA EmptyHeader ==
  ASSUME NEW h, h = << >>
  PROVE  h \in [{} -> Headers] /\ DOMAIN h = {}
<1>1. h \in Seq(Headers) /\ Len(h) = 0
  OBVIOUS
<1>2. \A q \in Seq(Headers) : Len(q) = 0 => q \in [{} -> Headers] /\ DOMAIN q = {}
  BY LenProperties
<1> QED BY ONLY <1>1, <1>2

\* Every edit keeps names known and offsets numbers.
LEMMA EditStep == CheckpointInv /\ [AuditNext]_checkpoint => CheckpointInv'
<1> SUFFICES ASSUME CheckpointInv, [AuditNext]_checkpoint PROVE CheckpointInv' OBVIOUS
<1> USE DEF CheckpointInv
<1>1. ASSUME NEW s \in DOMAIN head, NEW n \in Names, NEW e \in Entries, EditEntry(s, n, e)
      PROVE  CheckpointInv'
  <2>1. head[s] \in [DOMAIN head[s] -> Headers] /\ DOMAIN head[s] \in SUBSET Names
    BY DEF HeadInv
  <2>2. e \in Headers
    BY DEF Entries, Headers
  <2> DEFINE h == [head[s] EXCEPT ![n] = e]
  <2>3. head' = [head EXCEPT ![s] = h] /\ UNCHANGED <<size, index, quant>>
    BY <1>1 DEF EditEntry
  <2>4. h \in [DOMAIN head[s] -> Headers]
    BY <2>1, <2>2
  <2> HIDE DEF h
  <2>5. HeadInv'
    BY <2>1, <2>3, <2>4, OneHeader
  <2> QED BY <2>3, <2>5 DEF IndexInv, QuantInv
<1>2. ASSUME NEW s \in DOMAIN head, NEW n \in Names, NEW new \in Names, EditName(s, n, new)
      PROVE  CheckpointInv'
  <2>1. head[s] \in [DOMAIN head[s] -> Headers] /\ DOMAIN head[s] \in SUBSET Names
        /\ n \in DOMAIN head[s] /\ head[s][n] \in Headers
    BY <1>2 DEF HeadInv, EditName
  <2> DEFINE h == With(Without(head[s], n), new, head[s][n])
             D == (DOMAIN head[s] \ {n}) \cup {new}
  <2>2. head' = [head EXCEPT ![s] = h] /\ UNCHANGED <<size, quant>> /\ index' = With(Without(index, n), new, s)
    BY <1>2 DEF EditName
  <2>3. h \in [D -> Headers] /\ D \in SUBSET Names
    BY <2>1, WithIs
  <2> HIDE DEF h, D
  <2>4. HeadInv'
    BY <2>2, <2>3, OneHeader
  <2>5. DOMAIN index' = (DOMAIN index \ {n}) \cup {new}
    BY <2>2 DEF With, Without
  <2> QED BY <2>2, <2>4, <2>5 DEF IndexInv, QuantInv
<1>3. ASSUME NEW s \in DOMAIN head, NEW n \in Names, NEW to \in Shards, NEW move \in BOOLEAN,
             EditPlace(s, n, to, move)
      PROVE  CheckpointInv'
  <2> DEFINE e == [form |-> head[s][n].form, start |-> size[to], end |-> size[to] + 1]
             from == IF move THEN Without(head[s], n) ELSE head[s]
             there == With(head[to], n, e)
  <2>1. /\ s # to /\ to \in DOMAIN head /\ n \in DOMAIN head[s]
        /\ head' = [head EXCEPT ![s] = from, ![to] = there]
        /\ size' = [size EXCEPT ![to] = size[to] + 1]
        /\ index' = IF move THEN With(index, n, to) ELSE index
        /\ quant' = quant
    BY <1>3 DEF EditPlace
  <2>2. \A x \in DOMAIN head : /\ head[x] \in [DOMAIN head[x] -> Headers] /\ DOMAIN head[x] \in SUBSET Names
                               /\ size[x] \in Nat
    BY DEF HeadInv
  <2>3. e \in Headers
    BY <2>1, <2>2 DEF Headers
  <2>4. from \in [DOMAIN from -> Headers] /\ DOMAIN from \in SUBSET Names
    <3>1. Without(head[s], n) \in [DOMAIN head[s] \ {n} -> Headers]
      BY <2>2, <2>3, WithIs
    <3> QED BY <2>2, <3>1
  <2>5. there \in [DOMAIN there -> Headers] /\ DOMAIN there \in SUBSET Names
    <3>1. there \in [DOMAIN head[to] \cup {n} -> Headers]
      BY <2>1, <2>2, <2>3, WithIs
    <3> QED BY <2>1, <2>2, <3>1
  <2> HIDE DEF from, there, e
  <2>6. /\ DOMAIN head' = DOMAIN head /\ DOMAIN size' = DOMAIN size
        /\ \A x \in DOMAIN head : head'[x] = IF x = to THEN there ELSE IF x = s THEN from ELSE head[x]
        /\ \A x \in DOMAIN size : size'[x] = IF x = to THEN size[x] + 1 ELSE size[x]
    BY <2>1
  <2>7. HeadInv'
    BY <2>2, <2>4, <2>5, <2>6 DEF HeadInv
  <2>8. IndexInv'
    BY <2>1 DEF IndexInv, With
  <2> QED BY <2>1, <2>7, <2>8 DEF QuantInv
<1>4. ASSUME NEW n \in Names, NEW to \in Shards \cup {"none"}, EditIndex(n, to)
      PROVE  CheckpointInv'
  <2>1. IndexInv'
    BY <1>4 DEF EditIndex, IndexInv, With, Without
  <2> QED BY <1>4, <2>1 DEF EditIndex, HeadInv, QuantInv
<1>5. ASSUME NEW s \in DOMAIN size, NEW bytes \in 0..3, EditSize(s, bytes)
      PROVE  CheckpointInv'
  BY <1>5 DEF EditSize, HeadInv, IndexInv, QuantInv
<1>6. CASE EditFiles
  <2>1. UNCHANGED <<index, quant>>
    BY <1>6 DEF EditFiles
  <2>2. CASE head' = With(head, ExtraShard, << >>) /\ size' = With(size, ExtraShard, 0)
    <3>0. PICK none : none = << >>
      OBVIOUS
    <3>1. none \in [{} -> Headers] /\ DOMAIN none = {}
      BY <3>0, EmptyHeader
    <3>2. /\ DOMAIN head' = DOMAIN head \cup {ExtraShard} /\ DOMAIN size' = DOMAIN size \cup {ExtraShard}
          /\ \A x \in DOMAIN head' : head'[x] = IF x = ExtraShard THEN none ELSE head[x]
          /\ \A x \in DOMAIN size' : size'[x] = IF x = ExtraShard THEN 0 ELSE size[x]
      BY <2>2, <3>0 DEF With
    <3>3. ASSUME NEW x \in DOMAIN head'
          PROVE  /\ head'[x] \in [DOMAIN head'[x] -> Headers]
                 /\ DOMAIN head'[x] \subseteq Names
                 /\ size'[x] \in Nat
      <4>1. CASE x = ExtraShard
        <5>1. head'[x] = none /\ size'[x] = 0
          BY <3>2, <4>1 DEF HeadInv
        <5> QED BY <3>1, <5>1
      <4>2. CASE x # ExtraShard
        <5>1. x \in DOMAIN head /\ head'[x] = head[x] /\ size'[x] = size[x]
          BY <3>2, <4>2 DEF HeadInv
        <5> QED BY <5>1 DEF HeadInv
      <4> QED BY <4>1, <4>2
    <3>4. HeadInv'
      BY <3>2, <3>3 DEF HeadInv
    <3> QED BY <2>1, <3>4 DEF IndexInv, QuantInv
  <2>3. ASSUME NEW s \in DOMAIN head, head' = Without(head, s), size' = Without(size, s)
        PROVE  CheckpointInv'
    BY <2>1, <2>3 DEF Without, HeadInv, IndexInv, QuantInv
  <2> QED BY <1>6, <2>2, <2>3 DEF EditFiles
<1>7. CASE EditMetadata
  <2>1. PICK e \in EntryPoints, k \in QuantKeys : \E v : quant' = [quant EXCEPT ![e] = [quant[e] EXCEPT ![k] = v]]
    BY <1>7 DEF EditMetadata, QuantKeys
  <2>2. QuantInv'
    BY <2>1 DEF QuantInv
  <2> QED BY <1>7, <2>2 DEF EditMetadata, HeadInv, IndexInv
<1>8. CASE UNCHANGED checkpoint
  BY <1>8 DEF checkpoint, HeadInv, IndexInv, QuantInv
<1> QED BY <1>1, <1>2, <1>3, <1>4, <1>5, <1>6, <1>7, <1>8 DEF AuditNext

\* audit_checkpoint: for any contract and after any number of edits a checkpoint
\* that is admitted is whole.
THEOREM AdmittedWhole == AuditSpec => []AdmittedIsWhole
BY AuditInitInv, EditStep, AuditedIsWhole, PTL DEF AuditSpec
=============================================================================
