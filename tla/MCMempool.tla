------------------------------- MODULE MCMempool -------------------------------
(***************************************************************************)
(* The instance of Mempool for TLC: four authorities of equal stake, the   *)
(* last of them faulty.                                                    *)
(***************************************************************************)
EXTENDS Mempool

CONSTANTS auth1, auth2, auth3, auth4

MCAuthority == {auth1, auth2, auth3, auth4}
MCKeys == <<auth1, auth2, auth3, auth4>>
MCUnits == 1..4
MCFaulty == {auth4}

\* Transactions below the size of a batch, alone and in a pair, and one above.
MCSizes == <<1, 1, 3>>
=============================================================================
