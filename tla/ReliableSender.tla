----------------------------- MODULE ReliableSender -----------------------------
(***************************************************************************)
(* network/src/reliable_sender.rs: the task `Connection' that sends the    *)
(* messages for one peer, over connections that may break, to a peer whose *)
(* receiver (network/src/receiver.rs and the handlers behind it) answers   *)
(* every frame with an acknowledgement.                                    *)
(*                                                                         *)
(* A message is its number; `handler' is the state of its cancel handler.  *)
(* An acknowledgement carries nothing that says which message it is for;   *)
(* in `acks' it is written as the message it answers, and the sender never *)
(* looks at it.                                                            *)
(***************************************************************************)
EXTENDS Integers, Sequences, SequencesExt

CONSTANTS
  MaxMessage,   \* bound: the messages are 1..MaxMessage, sent in that order
  Capacity,     \* of the channel from the caller, 1000 in the code
  MaxBreaks     \* bound: how many connections break

ASSUME LinkAssumption ==
  MaxMessage \in Nat /\ Capacity \in Nat \ {0} /\ MaxBreaks \in Nat

VARIABLES
  handler,          \* "none" before the message is sent
  channel,          \* the channel from the caller to the task
  buffer,           \* Connection::buffer
  pending_replies,  \* sent on this connection and not acknowledged
  conn,             \* "connect": in TcpStream::connect; "wait": in 'waiter;
                    \* "up": in keep_alive
  wire, acks,       \* frames and acknowledgements under way
  old,              \* for each connection lost, the frames its runner at the
                    \* peer may still come to
  broken,           \* the connection is lost; what is under way to us remains
  breaks,           \* how many connections were lost
  arrived           \* every frame the peer got, in order

net  == <<wire, acks, old, broken, breaks, arrived>>
task == <<buffer, pending_replies, conn>>
vars == <<handler, channel, task, net>>

Message == 1..MaxMessage
Status == {"none", "waiting", "acked", "cancelled"}
is_closed(m) == handler[m] = "cancelled"

Init ==
  /\ handler = [m \in Message |-> "none"]
  /\ channel = <<>> /\ buffer = <<>> /\ pending_replies = <<>>
  /\ conn = "connect"
  /\ wire = <<>> /\ acks = <<>> /\ old = <<>> /\ arrived = <<>>
  /\ broken = FALSE /\ breaks = 0

-----------------------------------------------------------------------------
(* The caller.                                                             *)

\* The caller waits while the channel is full.
Send(m) ==
  /\ handler[m] = "none" /\ \A k \in 1..(m - 1) : handler[k] # "none"
  /\ Len(channel) < Capacity
  /\ handler' = [handler EXCEPT ![m] = "waiting"]
  /\ channel' = Append(channel, m)
  /\ UNCHANGED <<task, net>>

\* The caller drops its CancelHandler.
Cancel(m) ==
  /\ handler[m] = "waiting"
  /\ handler' = [handler EXCEPT ![m] = "cancelled"]
  /\ UNCHANGED <<channel, task, net>>

-----------------------------------------------------------------------------
(* Connection::run.                                                        *)

Connect ==
  /\ conn = "connect"
  /\ conn' = "up"
  /\ wire' = <<>> /\ acks' = <<>> /\ broken' = FALSE
  /\ UNCHANGED <<handler, channel, buffer, pending_replies, old, breaks, arrived>>

ConnectFails ==
  /\ conn = "connect" /\ breaks < MaxBreaks
  /\ conn' = "wait" /\ breaks' = breaks + 1
  /\ UNCHANGED <<handler, channel, buffer, pending_replies, wire, acks, old, broken, arrived>>

\* The delay is over (200 ms, doubled up to a minute: any time here).
RetryTimer ==
  /\ conn = "wait"
  /\ conn' = "connect"
  /\ UNCHANGED <<handler, channel, buffer, pending_replies, net>>

\* VecDeque::retain: the messages that are not cancelled, in their order.
retain(s) ==
  LET kept[i \in 0..Len(s)] ==
        IF i = 0 THEN <<>>
        ELSE IF is_closed(s[i]) THEN kept[i - 1] ELSE Append(kept[i - 1], s[i])
  IN kept[Len(s)]

\* While waiting, the channel is drained and cancelled messages are dropped.
Drain ==
  /\ conn = "wait" /\ channel # <<>>
  /\ buffer' = retain(Append(buffer, Head(channel)))
  /\ channel' = Tail(channel)
  /\ UNCHANGED <<handler, pending_replies, conn, net>>

-----------------------------------------------------------------------------
(* Connection::keep_alive.                                                 *)

\* On any error, what has no answer is put back in front of the buffer.  The
\* task then connects again.
\* Mutant: what has no answer is put back in the order it is popped.
put_back_reversed(replies, b) == Reverse(replies) \o b
\* Mutant: only the message whose answer failed to come is put back.
put_back_head(replies, b) == SelectSeq(replies, LAMBDA m : m = Head(replies)) \o b
put_back(replies, b) == replies \o b

Fail(replies, b) ==
  /\ buffer' = put_back(replies, b)
  /\ pending_replies' = <<>>
  /\ conn' = "connect"

\* One message of the buffer: skipped, sent, or put back when sending fails.
\* Sending on a connection already lost may go unnoticed.
Transmit ==
  /\ conn = "up" /\ buffer # <<>>
  /\ LET m == Head(buffer)
     IN \/ /\ is_closed(m)
           /\ buffer' = Tail(buffer)
           /\ UNCHANGED <<pending_replies, conn, wire>>
        \/ /\ ~ is_closed(m)
           /\ buffer' = Tail(buffer)
           /\ pending_replies' = Append(pending_replies, m)
           /\ wire' = IF broken THEN wire ELSE Append(wire, m)
           /\ UNCHANGED conn
        \/ /\ ~ is_closed(m) /\ broken
           /\ Fail(pending_replies, buffer)
           /\ UNCHANGED wire
  /\ UNCHANGED <<handler, channel, acks, old, broken, breaks, arrived>>

\* select!: a new message from the channel, once the buffer is empty.
TakeMessage ==
  /\ conn = "up" /\ buffer = <<>> /\ channel # <<>>
  /\ buffer' = <<Head(channel)>>
  /\ channel' = Tail(channel)
  /\ UNCHANGED <<handler, pending_replies, conn, net>>

\* Which message an acknowledgement is taken for, and those left to wait.
\* Mutant: the newest.
pop_back(replies) == [message |-> Last(replies), rest |-> Front(replies)]
\* Mutant: the oldest that is not cancelled, as if the peer had skipped the others.
pop_live(replies) ==
  LET live == SelectSeq(replies, LAMBDA m : ~ is_closed(m))
      first == IF live = <<>> THEN Head(replies) ELSE Head(live)
  IN [message |-> first, rest |-> SelectSeq(replies, LAMBDA m : m # first)]
pop_front(replies) == [message |-> Head(replies), rest |-> Tail(replies)]

\* select!: an acknowledgement.  The handler of a cancelled message is closed,
\* and telling it has no effect.
ReadAck ==
  /\ conn = "up" /\ buffer = <<>> /\ acks # <<>>
  /\ acks' = Tail(acks)
  /\ \/ /\ pending_replies = <<>>            \* UnexpectedAck
        /\ Fail(<<>>, buffer)
        /\ UNCHANGED handler
     \/ /\ pending_replies # <<>>
        /\ LET answered == pop_front(pending_replies)
           IN /\ handler' = [handler EXCEPT ![answered.message] =
                               IF @ = "waiting" THEN "acked" ELSE @]
              /\ pending_replies' = answered.rest
        /\ UNCHANGED <<buffer, conn>>
  /\ UNCHANGED <<channel, wire, old, broken, breaks, arrived>>

\* select!: the end of the stream, after every acknowledgement that came.
ReadError ==
  /\ conn = "up" /\ buffer = <<>> /\ broken /\ acks = <<>>
  /\ Fail(pending_replies, buffer)
  /\ UNCHANGED <<handler, channel, net>>

-----------------------------------------------------------------------------
(* The peer and the connection.                                            *)

\* The peer's receiver hands a frame to its handler, which acknowledges it.
Dispatch ==
  /\ wire # <<>>
  /\ arrived' = Append(arrived, Head(wire))
  /\ wire' = Tail(wire)
  /\ acks' = Append(acks, Head(wire))
  /\ UNCHANGED <<handler, channel, task, old, broken, breaks>>

\* A frame of a connection that is lost; its acknowledgement is lost too.
DispatchLate ==
  \E i \in 1..Len(old) :
    /\ old[i] # <<>>
    /\ arrived' = Append(arrived, Head(old[i]))
    /\ old' = [old EXCEPT ![i] = Tail(@)]
    /\ UNCHANGED <<handler, channel, task, wire, acks, broken, breaks>>

\* The connection is lost, and with it some of the acknowledgements.  Frames
\* under way arrive late or never.
Break ==
  /\ conn = "up" /\ ~ broken /\ breaks < MaxBreaks
  /\ broken' = TRUE /\ breaks' = breaks + 1
  /\ wire' = <<>> /\ old' = Append(old, wire)
  /\ \E n \in 0..Len(acks) : acks' = SubSeq(acks, 1, n)
  /\ UNCHANGED <<handler, channel, task, arrived>>

TaskStep == Connect \/ RetryTimer \/ Drain \/ Transmit \/ TakeMessage
              \/ ReadAck \/ ReadError

Next ==
  \/ \E m \in Message : Send(m) \/ Cancel(m)
  \/ TaskStep
  \/ ConnectFails \/ Dispatch \/ DispatchLate \/ Break

Spec == Init /\ [][Next]_vars

\* The task is scheduled, the delay ends, and the peer reads: a connection
\* that does not break makes progress.
Fairness == WF_vars(TaskStep) /\ WF_vars(Dispatch)
FairSpec == Spec /\ Fairness

-----------------------------------------------------------------------------
(* Properties.                                                             *)

TypeOK ==
  /\ handler \in [Message -> Status]
  /\ channel \in Seq(Message) /\ buffer \in Seq(Message)
  /\ pending_replies \in Seq(Message)
  /\ conn \in {"connect", "wait", "up"}
  /\ wire \in Seq(Message) /\ acks \in Seq(Message) /\ arrived \in Seq(Message)
  /\ old \in Seq(Seq(Message))
  /\ broken \in BOOLEAN /\ breaks \in 0..MaxBreaks

\* Acknowledgements are matched by position alone, yet each is taken for the
\* message it answers, and a caller told of a success has its message at the
\* peer, across any number of connections.
AckedArrived ==
  \A m \in Message : handler[m] = "acked" => m \in ToSet(arrived)

\* The answers under way line up with the messages that wait for one; on a
\* connection that is not lost, so do the frames.
Aligned ==
  conn = "up" => /\ IsPrefix(acks, pending_replies)
                 /\ ~ broken => pending_replies = acks \o wire

\* A message that still waits is held in exactly one place of one queue, and
\* the queues, from the oldest to the newest, are in the order of sending.
NothingLost ==
  LET held == pending_replies \o buffer \o channel
  IN /\ \A m \in Message : handler[m] = "waiting" => m \in ToSet(held)
     /\ \A i, j \in 1..Len(held) : i < j => held[i] < held[j]

\* The task behaves as a reliable link: nothing is acknowledged before it is
\* received, nothing overtakes, and what is not cancelled gets through.
Link == INSTANCE ReliableLink WITH received <- ToSet(arrived)
IsReliableLink == Link!FairSpec
=============================================================================
