------------------------------ MODULE MCProposer ------------------------------
(***************************************************************************)
(* The instance of Proposer for TLC: this authority, an honest one of two  *)
(* units of stake, and a faulty one.                                       *)
(***************************************************************************)
EXTENDS Proposer

CONSTANTS auth1, auth2, auth3

MCAuthority == {auth1, auth2, auth3}
MCKeys == <<auth1, auth2, auth3>>
MCUnits == 1..4
MCOwner == <<auth1, auth2, auth2, auth3>>
MCFaulty == {auth3}
=============================================================================
