------------------------------ MODULE ReliableLink ------------------------------
(***************************************************************************)
(* What a reliable sender promises its caller about the messages to one    *)
(* peer ("keeps trying to re-transmit messages for which it didn't receive *)
(* an ACK back (until they succeed or are canceled)").                     *)
(*                                                                         *)
(* Every message has a cancel handler: none before it is sent, then        *)
(* "waiting" until it is "acked" or its owner drops it, "cancelled".  The  *)
(* peer may receive a message more than once, but never before an earlier  *)
(* one that was not cancelled.                                             *)
(***************************************************************************)
EXTENDS Integers

CONSTANT MaxMessage     \* the messages are 1..MaxMessage, in the order they are sent

Message == 1..MaxMessage

VARIABLES handler,  \* the state of the cancel handler of each message
          received  \* the messages the peer has received

Status == {"none", "waiting", "acked", "cancelled"}

Init == /\ handler = [m \in Message |-> "none"]
        /\ received = {}

Send(m) == /\ handler[m] = "none"
           /\ \A k \in 1..(m - 1) : handler[k] # "none"
           /\ handler' = [handler EXCEPT ![m] = "waiting"]
           /\ UNCHANGED received

Cancel(m) == /\ handler[m] = "waiting"
             /\ handler' = [handler EXCEPT ![m] = "cancelled"]
             /\ UNCHANGED received

\* A message cancelled late may still arrive.
Receive(m) == /\ handler[m] # "none"
              /\ \A k \in 1..(m - 1) : k \in received \/ handler[k] = "cancelled"
              /\ received' = received \union {m}
              /\ UNCHANGED handler

Ack(m) == /\ handler[m] = "waiting"
          /\ m \in received
          /\ handler' = [handler EXCEPT ![m] = "acked"]
          /\ UNCHANGED received

Next == \E m \in Message : Send(m) \/ Cancel(m) \/ Receive(m) \/ Ack(m)

\* A message that is not cancelled gets through and is acknowledged.
Fairness == \A m \in Message : /\ WF_<<handler, received>>(Ack(m))
                               /\ WF_<<handler, received>>(handler[m] = "waiting" /\ Receive(m))

Spec == Init /\ [][Next]_<<handler, received>>
FairSpec == Spec /\ Fairness
=============================================================================
