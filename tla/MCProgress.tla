------------------------------ MODULE MCProgress ------------------------------
(***************************************************************************)
(* The instance of Progress for TLC.                                       *)
(***************************************************************************)
EXTENDS Progress

CONSTANTS auth1, auth2, auth3, auth4, LastRound

MCAuthority == {auth1, auth2, auth3, auth4}
MCOwner == <<auth1, auth2, auth3, auth4>>
MCKeys == <<auth1, auth2, auth3, auth4>>

\* A node that lacks a block is a node without which there is no quorum.
ASSUME EveryoneNeeded == \A n \in Honest : ~ IsQuorum(Honest \ {n})

\* The blocks without payload up to the last round.
MCBlock ==
  {[i \in 1..Cardinality(S) |->
      [round |-> CHOOSE r \in S : Cardinality({q \in S : q <= r}) = i, payload |-> {}]] :
   S \in SUBSET (1..LastRound)}
=============================================================================
