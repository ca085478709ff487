-------------------------------- MODULE Blocks --------------------------------
(***************************************************************************)
(* Blocks and what certifies them (consensus/src/messages.rs).             *)
(*                                                                         *)
(* The digest of a block covers its author, round, payload and the digest  *)
(* of its parent, so it stands for the whole chain that leads to it.  A    *)
(* block is that chain: the sequence of the [round, payload] entries from  *)
(* the first block after genesis to the block itself.  Genesis is the      *)
(* empty sequence.  The author is the leader of the round: every other     *)
(* author is turned away before any state changes.                         *)
(* The timeout certificate a block carries is not part of its digest; it   *)
(* travels beside the block in a proposal.                                 *)
(*                                                                         *)
(* Block is the universe of blocks of an instance and its bound: it is     *)
(* closed under taking ancestors, and may hold several blocks of one round   *)
(* (an equivocating leader) or blocks whose round is not above that of     *)
(* their parent (nothing in verify forbids them).                          *)
(***************************************************************************)
EXTENDS Committee, SequencesExt

CONSTANTS
  Block,       \* the blocks of the instance
  Payload      \* the digests of the batches a block may carry

Entry == [round : Nat, payload : SUBSET Payload]
Genesis == <<>>

RoundOf(b) == IF b = Genesis THEN 0 ELSE Last(b).round
PayloadOf(b) == IF b = Genesis THEN {} ELSE Last(b).payload
Parent(b) == IF b = Genesis THEN Genesis ELSE Front(b)

\* b is a or descends from it.
Extends(b, a) == IsPrefix(a, b)

ASSUME BlockAssumption ==
  /\ Block \subseteq Seq(Entry) /\ IsFiniteSet(Block)
  /\ Genesis \in Block
  /\ \A b \in Block : \A i \in 0..Len(b) : SubSeq(b, 1, i) \in Block

(***************************************************************************)
(* A timeout certificate, by what its readers use: its round and the       *)
(* maximum of high_qc_rounds().  NoTC is the None of the code: no          *)
(* authority ever times out in round 0.                                    *)
(***************************************************************************)
TC == [round : Nat, high : Nat]
NoTC == [round |-> 0, high |-> 0]

\* What ConsensusMessage::Propose carries.  block.qc certifies Parent(block).
Proposal == [block : Block, tc : TC]
Vote == [author : Authority, block : Block]
Timeout == [author : Authority, round : Nat, high_qc : Block]
=============================================================================
