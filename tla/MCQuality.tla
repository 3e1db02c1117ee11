----------------------------- MODULE MCQuality -----------------------------
(***************************************************************************)
(* The quality runs: the driver in the Q200 sandbox container, the         *)
(* admission of Q200 rows on the host, and the needle runner.  They share  *)
(* nothing, so a behaviour is one of one part, and the others keep one     *)
(* initial state.                                                          *)
(***************************************************************************)
EXTENDS Sandbox, Admission, Niah, TLC

CONSTANT MaxEffort   \* bound on what a candidate with all its forks does besides

VARIABLE part

Request(test, entry, wrong) == [wrong |-> wrong, test |-> test, entry_point |-> entry]

\* A program to run, a request with nothing to run, and requests that fail one
\* check.
MCInputs == {Request("absent", "named", {}), Request("absent", "absent", {})}
            \cup {Request("present", "named", {c}) : c \in Checks}

\* Two needle cases, one with two codes, and commands that differ from a good
\* one in one respect.
MCCodes == ("single" :> <<"k1">>) @@ ("multi" :> <<"k2", "k3">>)
MCCaseOrder == <<"single", "multi">>
MCNeedle == [k \in {"k1", "k2", "k3"} |-> <<"n", k>>]
Good == [assets |-> "pinned", template |-> <<"t", "slot", "q", "open">>, filler |-> <<"f">>,
         depth |-> ("k1" :> 2) @@ ("k2" :> 1) @@ ("k3" :> 4),
         only |-> << >>, dry |-> FALSE, retries |-> 1, path |-> ("r1" :> "m1") @@ ("r2" :> "m2")]
Templates == {<<"t", "slot", "q">>, <<"t", "slot", "slot">>, <<"t", "q">>, <<"t", "slot", "n", "k1">>,
              <<"t", "t", "t", "t", "slot", "t", "t", "t", "t">>}
Depths == {("k1" :> i) @@ ("k2" :> j) @@ ("k3" :> k) : i \in {0, 3, 5}, j \in 0..3, k \in 2..5}
MCCommands ==
  {Good} \cup {[Good EXCEPT !.assets = "differs"], [Good EXCEPT !.dry = TRUE], [Good EXCEPT !.retries = 0],
               [Good EXCEPT !.path = ("r1" :> "m1") @@ ("r2" :> "m1")]}
  \cup {[Good EXCEPT !.template = t, !.retries = 0] : t \in Templates}
  \cup {[Good EXCEPT !.filler = f, !.dry = TRUE] : f \in {<<"f", "n">>, <<"n", "k1">>, <<"f", "n", "k2">>}}
  \cup {[Good EXCEPT !.depth = d, !.dry = TRUE] : d \in {x \in Depths : x["k2"] <= x["k3"]}}
  \cup {[Good EXCEPT !.only = o] : o \in {<<"multi">>, <<"multi", "multi">>, <<"other">>}}
Reply(usage, finish, text) == [wire |-> "json", usage |-> usage, finish |-> finish, text |-> text]
MCAnswers ==
  {[wire |-> w, usage |-> << >>, finish |-> "none", text |-> << >>] :
     w \in {"http_error", "timeout", "too_large", "no_choices", "raises"}}
  \cup {Reply(u, "stop", <<"close", "k1">>) : u \in {<<8, 2, 10>>, <<7, 2, 9>>, <<8, 0, 8>>, <<8, 2, 11>>, <<0>>, << >>}}
  \cup {Reply(<<8, 2, 10>>, "length", <<"close", "k1">>)}
  \cup {Reply(<<8, 2, 10>>, "stop", t) : t \in {<<"close", "k2", "k3">>, <<"close", "k3", "k2">>, <<"k1">>,
         <<"close">>, <<"k2", "close", "k1">>, <<"close", "k1", "open">>, <<"k2", "k3">>}}

\* What a candidate that has forked as often as it can has done besides: markers,
\* children of other threads, closed descriptors, wide output.  No step of the
\* driver adds to it, so the bound keeps none from being taken.
Closings == {<<p, pipe>> \in Running \X Pipes : pipe \notin holds[p]}
Effort == marks + completion + Cardinality(hidden) + Cardinality(Closings)
          + (IF "wide" \in {buf, tail} THEN 2 ELSE 0)
Bounded == st[MaxForks] # "new" => Effort <= MaxEffort

Idle == health = "bad" /\ finalist = "other"

MCInit == /\ Init /\ AdmissionInit /\ NiahInit /\ part \in {"driver", "admission", "niah"}
          /\ \/ part = "driver" /\ Idle /\ command = Good
             \/ part = "admission" /\ req = Request("absent", "absent", {}) /\ command = Good
             \/ part = "niah" /\ req = Request("absent", "absent", {}) /\ Idle

MCNext == /\ \/ part = "driver" /\ Next /\ Bounded' /\ UNCHANGED <<admission, niah>>
             \/ part = "admission" /\ AdmissionNext /\ UNCHANGED <<vars, niah>>
             \/ part = "niah" /\ NiahNext /\ UNCHANGED <<vars, admission>>
          /\ UNCHANGED part

MCSpec == MCInit /\ [][MCNext]_<<vars, admission, niah, part>> /\ Fairness

\* The driver always writes its receipt (main), also for a candidate that hangs,
\* writes for ever, or leaves a silent process on a pipe.
DriverEnds == <>(pc = "done" \/ part # "driver")
=============================================================================
