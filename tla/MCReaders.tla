------------------------------ MODULE MCReaders ------------------------------
(***************************************************************************)
(* What is read piece by piece while the other side changes or sends: the  *)
(* checkpoint files under verification and under the checks of a receipt,  *)
(* the bytes of a response in the decoder, and its lines in the client.    *)
(* The parts share no variables: a behaviour is one of one part, and the   *)
(* others keep one initial state.                                          *)
(***************************************************************************)
EXTENDS Receipt, SseDecoder, MCStreamClient

VARIABLE part

OneReceipt == lock = "bad" /\ \A f \in Files : file[f].bytes = "good"

MCInit == /\ ReceiptInit /\ DecoderInit /\ Init
          /\ \/ part = "receipt" /\ input = << >>
             \/ part = "decoder" /\ OneReceipt
             \/ part = "client" /\ OneReceipt /\ input = << >>

MCNext == /\ \/ part = "receipt" /\ ReceiptNext /\ UNCHANGED <<decoder, vars>>
             \/ part = "decoder" /\ DecoderNext /\ UNCHANGED <<receiptVars, vars>>
             \/ part = "client" /\ ClientNext /\ UNCHANGED <<receiptVars, decoder>>
          /\ UNCHANGED part

MCSpec == MCInit /\ [][MCNext]_<<receiptVars, decoder, vars, part>>
=============================================================================
