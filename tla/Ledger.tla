--------------------------------- MODULE Ledger ---------------------------------
(***************************************************************************)
(* What the consensus promises the applications behind the honest nodes:   *)
(* there is one chain of blocks, which only ever grows, and each of them   *)
(* has been handed the blocks of a beginning of it, more and more of them. *)
(* Neither the order in which a node hands over the blocks it commits at a *)
(* time is promised, nor that it hands over each block only once.          *)
(*                                                                         *)
(* A block is the sequence of entries that leads to it; the chain is its   *)
(* last block.                                                             *)
(***************************************************************************)
EXTENDS Integers, Sequences

CONSTANTS Node, Entry

VARIABLES chain,       \* the blocks agreed on
          delivered    \* per node, the set of the blocks handed over

\* The blocks of a chain.
BlocksOf(s) == {SubSeq(s, 1, i) : i \in 1..Len(s)}

Init == /\ chain = <<>>
        /\ delivered = [n \in Node |-> {}]

\* Blocks are added at the end of the chain, any number at a time.
Grow == /\ chain' \in Seq(Entry)
        /\ chain = <<>> \/ chain \in BlocksOf(chain')

\* n is handed what it lacks of the chain up to block b, the first of the nodes
\* maybe, which is when the chain grows.
Deliver(n, b) == /\ Grow
                 /\ delivered[n] \subseteq BlocksOf(b)
                 /\ delivered' = [delivered EXCEPT ![n] = BlocksOf(b)]

Next == \E n \in Node : \E b \in BlocksOf(chain') : Deliver(n, b)

Spec == Init /\ [][Next]_<<chain, delivered>>
=============================================================================
