--------------------------- MODULE MCStreamClient ---------------------------
(***************************************************************************)
(* A request whose blocks hold two lines, and the responses to it up to a  *)
(* weight: long ones of a healthy server, shorter ones with what a healthy *)
(* server does not send and with events of several lines.                  *)
(***************************************************************************)
EXTENDS StreamClient, SequencesExt

CONSTANT Budget   \* bound: weight of the lines of one response

Healthy == {"done", "content", "stop", "length", "usage"}
Weight(line) == 1 + (IF line.last = "no" THEN 1 ELSE 0) + (IF line.kind \in Healthy THEN 0 ELSE 1)
Total(s) == FoldSeq(LAMBDA line, w : w + Weight(line), 0, s)

ClientNext == Next /\ Total(sent') <= Budget

ClientSpec == Init /\ [][ClientNext]_vars
=============================================================================
