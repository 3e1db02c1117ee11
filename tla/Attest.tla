------------------------------- MODULE Attest -------------------------------
(***************************************************************************)
(* What a check of a document against a tree promises, whatever it reads   *)
(* and in whichever order: it passes only if the tree matched when the     *)
(* check began, and it fails only if the tree does not match any more.  A  *)
(* tree that has changed never matches the same document again.  Guard     *)
(* uses the check as one step; this is the promise that allows it.         *)
(***************************************************************************)
VARIABLES
  match,   \* "yes" while the tree matches the document of the latest check
  call,    \* "idle", "run", "pass", "fail" or "refused"
  start    \* match when the check began

vars == <<match, call, start>>

Init == match \in {"yes", "no"} /\ call = "idle" /\ start = "no"

Begin == /\ call # "run" /\ call' = "run"
         /\ match' \in {"yes", "no"} /\ start' = match'

\* The document is not the one that was asked for, or none is there.
Refuse == /\ call # "run" /\ call' = "refused"
          /\ match' \in {"yes", "no"} /\ start' = match'

Drift == match = "yes" /\ match' = "no" /\ UNCHANGED <<call, start>>
Pass == call = "run" /\ start = "yes" /\ call' = "pass" /\ UNCHANGED <<match, start>>
Fail == call = "run" /\ match = "no" /\ call' = "fail" /\ UNCHANGED <<match, start>>

Next == Begin \/ Refuse \/ Drift \/ Pass \/ Fail

Spec == Init /\ [][Next]_vars
=============================================================================
