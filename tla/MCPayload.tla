------------------------------- MODULE MCPayload -------------------------------
(***************************************************************************)
(* The instance of Payload for TLC.                                        *)
(***************************************************************************)
EXTENDS Payload

CONSTANT d1

\* Two blocks with the same batch: the cleanup of one leaves the other waiting.
MCBlocks == {[round |-> 1, payload |-> {d1}], [round |-> 2, payload |-> {d1}]}
=============================================================================
