------------------------------ MODULE Watchdog ------------------------------
(***************************************************************************)
(* The watch loop of the launcher (scripts/guard.py:548-615): one second   *)
(* rounds of inspecting the container, reading MemAvailable, appending it  *)
(* to telemetry.jsonl, and deciding whether to go on.  Module Guard leaves *)
(* the verdict of a sample open; this module is what decides it.           *)
(***************************************************************************)
EXTENDS Integers, Sequences

CONSTANTS
  Floor,      \* _mem_floor_kb of --mem-available-floor-gib
  LowLimit,   \* consecutive samples below the floor that trip: 5 in the code
  Samples,    \* MemAvailable values the reader may return, in kB
  Unknown,    \* a reading that is not a non-negative integer
  MaxWatch,   \* --max-watch-seconds, 0 = none
  Delays,     \* seconds one round may take, sleep(1) included
  MaxRounds   \* bound on the length of the telemetry log

ASSUME FloorAssumption == Floor \in Nat
ASSUME LimitAssumption == LowLimit \in Nat \ {0}
ASSUME SampleAssumption == Samples \subseteq Nat /\ Unknown \notin Nat
ASSUME TimeAssumption ==
  /\ MaxWatch \in Nat /\ MaxRounds \in Nat
  /\ \A t \in Delays : t \in Nat /\ t >= 1

VARIABLES
  pc,       \* "inspect", "sample" or "left"
  why,      \* why the loop was left, "none" while it runs
  low,      \* consecutive samples below the floor
  log,      \* telemetry.jsonl
  clock,    \* monotonic() - start
  server,   \* what the daemon reports: "running" or "exited"
  event     \* "set" once a signal was caught

vars == <<pc, why, low, log, clock, server, event>>

Reasons == {"none", "exit", "error", "signal", "unknown", "memory", "deadline"}

Init ==
  /\ pc = "inspect" /\ why = "none"
  /\ low = 0 /\ log = << >> /\ clock = 0
  /\ server = "running" /\ event = "clear"

LeaveLoop(reason) == pc' = "left" /\ why' = reason

(***************************************************************************)
(* Inspect: a server that exited ends the loop with its own exit code; an  *)
(* error or an undefined state ends it with EXIT_WATCHDOG.  The event is   *)
(* looked at before memory is read.                                        *)
(***************************************************************************)
Inspect ==
  /\ pc = "inspect"
  /\ \/ server = "exited" /\ LeaveLoop("exit")
     \/ LeaveLoop("error")
     \/ server = "running" /\ event = "set" /\ LeaveLoop("signal")
     \/ server = "running" /\ event = "clear" /\ pc' = "sample" /\ UNCHANGED why
  /\ UNCHANGED <<low, log, clock, server, event>>

Below(v) == v < Floor
Critical(v) == v < Floor \div 2

\* Mutant: an even sample does not reset the count.
CountNoReset(v) == IF Below(v) THEN low + 1 ELSE low
Count(v) == IF Below(v) THEN low + 1 ELSE 0

\* Mutant: one sample too many.
TripsLate(v) == Critical(v) \/ Count(v) > LowLimit
Trips(v) == Critical(v) \/ Count(v) >= LowLimit

Expired(now) == MaxWatch # 0 /\ now >= MaxWatch

(***************************************************************************)
(* Sample v: the line is logged before the verdict.  An unknown reading    *)
(* fails closed.                                                           *)
(***************************************************************************)
Sample(v, now) ==
  /\ pc = "sample"
  /\ Len(log) < MaxRounds
  /\ log' = Append(log, v)
  /\ clock' = now
  /\ \/ v = Unknown /\ LeaveLoop("unknown") /\ UNCHANGED low
     \/ /\ v # Unknown
        /\ low' = Count(v)
        /\ \/ Trips(v) /\ LeaveLoop("memory")
           \/ ~Trips(v) /\ Expired(now) /\ LeaveLoop("deadline")
           \/ ~Trips(v) /\ ~Expired(now) /\ pc' = "inspect" /\ UNCHANGED why
  /\ UNCHANGED <<server, event>>

ServerExits == server = "running" /\ server' = "exited"
               /\ UNCHANGED <<pc, why, low, log, clock, event>>
SignalCaught == event = "clear" /\ event' = "set"
                /\ UNCHANGED <<pc, why, low, log, clock, server>>

Left == pc = "left" /\ UNCHANGED vars

Next ==
  \/ Inspect
  \/ \E v \in Samples \cup {Unknown}, t \in Delays : Sample(v, clock + t)
  \/ ServerExits
  \/ SignalCaught
  \/ Left

Spec == Init /\ [][Next]_vars

-----------------------------------------------------------------------------
TypeOK ==
  /\ pc \in {"inspect", "sample", "left"}
  /\ why \in Reasons
  /\ low \in 0..LowLimit
  /\ log \in Seq(Samples \cup {Unknown})
  /\ clock \in Nat
  /\ server \in {"running", "exited"}
  /\ event \in {"clear", "set"}

\* The two rules, in terms of the readings alone: a reading is scarce below
\* the floor, and desperate if twice as much and 2 kB would not exceed it.
Scarce(v) == v \in 0..(Floor - 1)
Desperate(v) == 2 * v + 2 <= Floor
\* The LowLimit readings that start at line i were all scarce.
Sustained(i) == \A j \in i..(i + LowLimit - 1) : log[j] # Unknown /\ Scarce(log[j])

\* The watchdog never sits through a breach (guard.py:594-608): while the loop
\* goes on, telemetry holds no unknown reading, none below half of the floor,
\* and no LowLimit consecutive readings below the floor anywhere.
NoBreachIgnored ==
  pc # "left" =>
    /\ \A i \in 1..Len(log) : log[i] # Unknown /\ ~Desperate(log[i])
    /\ \A i \in 1..(Len(log) - LowLimit + 1) : ~Sustained(i)

\* The watchdog never stops a healthy server (guard.py:596-608): it blames
\* memory only when the last reading was below half of the floor or the last
\* LowLimit readings were all below the floor.
NoFalseTrip ==
  why = "memory" =>
    /\ Len(log) > 0
    /\ \/ Desperate(log[Len(log)])
       \/ Len(log) >= LowLimit /\ Sustained(Len(log) - LowLimit + 1)
=============================================================================
