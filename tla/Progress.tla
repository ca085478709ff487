------------------------------- MODULE Progress -------------------------------
(***************************************************************************)
(* What gets the honest nodes ahead: the steps of Consensus, on a network  *)
(* that has to carry each message, and with timers that expire when the    *)
(* rest has come to a stop.                                                *)
(*                                                                         *)
(* Votes, timeouts and TCs go by the simple sender of the core             *)
(* (network/src/simple_sender.rs): one connection per peer, each message   *)
(* once, and what a broken connection has not delivered is gone.  Blocks   *)
(* go by the proposer's reliable sender (ReliableLink), and their          *)
(* acknowledgement is left to Proposer.  The runner of a connection at the *)
(* other end (network/src/receiver.rs) hands the frames to                 *)
(* ConsensusReceiverHandler, and so to the core, one by one.               *)
(*                                                                         *)
(* The faulty authorities are silent, no node is restarted, and blocks     *)
(* have no payload.  In the instances every quorum needs all the honest    *)
(* nodes: a certified block is stored by each of them, none ever lacks a   *)
(* parent, and the synchronizer has nothing to do.                         *)
(***************************************************************************)
EXTENDS Consensus

CONSTANTS
  MaxFaults,      \* bound: connections that break and timers that are early
  StableRound     \* from this round on all arrives, and before the timers expire

ASSUME ProgressAssumption == StableRound \in Nat /\ MaxFaults \in Nat

VARIABLES
  link,           \* link[n][m]: under way from n to m by the simple sender
  blocks,         \* blocks[n][m]: under way by the reliable sender
  faults,         \* how many connections broke and timers were early
  tc_lost         \* history: whether one that broke had a TC on it

netvars == <<core, restarts, database, link, blocks, faults, tc_lost>>

Peers(n) == Honest \ {n}

-----------------------------------------------------------------------------
(* The senders.  What goes to a silent node is not followed.               *)

send(sent, n, m, msg) ==
  IF m \in Peers(n) THEN [sent EXCEPT ![n][m] = Append(@, msg)] ELSE sent
broadcast(sent, n, msg) ==
  [sent EXCEPT ![n] = [m \in Peers(n) |-> Append(sent[n][m], msg)]]

VoteMsg(n, b) == [kind |-> "vote", vote |-> [author |-> n, block |-> b]]
TimeoutMsg(t) == [kind |-> "timeout", timeout |-> t]
TCMsg(tc) == [kind |-> "tc", tc |-> tc]

\* The TC that handling the timeout makes, if it makes one.
Assembled(c, timeout) ==
  LET d     == process_qc(c, timeout.high_qc)
      after == d.timeouts \union {timeout}
  IN IF /\ timeout.round >= c.round /\ stake(timeout.author) > 0
        /\ timeout.author \notin AuthorsAt(d.timeouts, timeout.round)
        /\ IsQuorum(AuthorsAt(after, timeout.round))
     THEN {MakeTC(after, timeout.round)} ELSE {}

\* The vote of a handler that takes the record of node n from c to d, to the
\* next leader.
send_vote(sent, n, c, d) ==
  LET voted == d.voted \ c.voted
      b     == CHOOSE v \in voted : TRUE
  IN IF voted = {} THEN sent
     ELSE send(sent, n, get_leader(RoundOf(b) + 1), VoteMsg(n, b))

\* All that such a handler sends: the TC it made, to all, and its vote.
\* Mutant: each node is left to make its own TC.
sends_no_tc(sent, n, c, d, tcs) == send_vote(sent, n, c, d)
sends(sent, n, c, d, tcs) ==
  send_vote(IF tcs = {} THEN sent ELSE broadcast(sent, n, TCMsg(CHOOSE tc \in tcs : TRUE)),
            n, c, d)

-----------------------------------------------------------------------------
NetInit ==
  /\ Init
  /\ link = [n \in Honest |-> [m \in Peers(n) |-> <<>>]]
  /\ blocks = link
  /\ faults = 0 /\ tc_lost = FALSE

\* What node n sends in a step is put on its links; `sent' are the links
\* without the message handled.
Sends(n, sent, tcs) == link' = sends(sent, n, core[n], core'[n], tcs)

\* ConsensusReceiverHandler hands node n the next block of m.
ReceiveProposal(m, n) ==
  /\ blocks[m][n] # <<>>
  /\ HandleProposal(n, Head(blocks[m][n]))
  /\ Sends(n, link, {})
  /\ blocks' = [blocks EXCEPT ![m][n] = Tail(@)]
  /\ UNCHANGED <<faults, tc_lost>>

\* ConsensusReceiverHandler hands node n the next vote, timeout or TC of m.
ReceiveMessage(m, n) ==
  /\ link[m][n] # <<>>
  /\ LET msg  == Head(link[m][n])
         rest == [link EXCEPT ![m][n] = Tail(@)]
     IN CASE msg.kind = "vote" -> HandleVote(n, msg.vote) /\ Sends(n, rest, {})
          [] msg.kind = "timeout" -> /\ HandleTimeout(n, msg.timeout)
                                     /\ Sends(n, rest, Assembled(core[n], msg.timeout))
          [] msg.kind = "tc" -> HandleTC(n, msg.tc) /\ Sends(n, rest, {})
  /\ UNCHANGED <<blocks, faults, tc_lost>>

ReceiveLoopback(n) ==
  \E p \in core[n].loopback : /\ HandleLoopback(n, p)
                              /\ Sends(n, link, {})
                              /\ UNCHANGED <<blocks, faults, tc_lost>>

\* The proposer makes the next block, and broadcasts it.
Propose(n) ==
  /\ core[n].makes # <<>>
  /\ LET make == Head(core[n].makes)
         p == [block |-> Append(make.qc, [round |-> make.round, payload |-> {}]),
               tc |-> make.tc]
     IN /\ p.block \in Block
        /\ MakeBlock(n, p.block)
        /\ blocks' = broadcast(blocks, n, p)
  /\ UNCHANGED <<link, faults, tc_lost>>

-----------------------------------------------------------------------------
(* Timers and faults.                                                      *)

\* Something is under way that could end a round: anything but a timeout.
Busy ==
  \E n \in Honest :
    \/ core[n].makes # <<>> \/ core[n].loopback # {}
    \/ \E m \in Peers(n) :
         \/ blocks[n][m] # <<>>
         \/ \E i \in 1..Len(link[n][m]) : link[n][m][i].kind # "timeout"

\* The timer of node n is set to longer than a message takes: its last timeout
\* has arrived, and, but for MaxFaults times, everything else has, too.
Due(n) ==
  /\ core[n].round \in TimeoutRounds
  /\ \A m \in Peers(n) : \A i \in 1..Len(link[n][m]) : link[n][m][i].kind # "timeout"
  /\ Busy => faults < MaxFaults /\ core[n].round < StableRound

Expire(n) ==
  LET t == [author |-> n, round |-> core[n].round, high_qc |-> core[n].high_qc]
  IN /\ Due(n)
     /\ faults' = IF Busy THEN faults + 1 ELSE faults
     /\ LocalTimeout(n)
     /\ Sends(n, broadcast(link, n, TimeoutMsg(t)), Assembled(core[n], t))
     /\ UNCHANGED <<blocks, tc_lost>>

\* The connection from n to m breaks, and what it had not delivered is lost.
Break(n, m) ==
  /\ faults < MaxFaults /\ core[n].round < StableRound
  /\ \E k \in 0..(Len(link[n][m]) - 1) :
       /\ tc_lost' = (tc_lost \/ \E i \in (k + 1)..Len(link[n][m]) :
                                     link[n][m][i].kind = "tc")
       /\ link' = [link EXCEPT ![n][m] = SubSeq(@, 1, k)]
  /\ faults' = faults + 1
  /\ UNCHANGED <<core, restarts, database, blocks>>

\* What the tasks of node n do when there is something for them.
Work(n) ==
  \/ \E m \in Peers(n) : ReceiveProposal(m, n) \/ ReceiveMessage(m, n)
  \/ ReceiveLoopback(n) \/ Propose(n)

NetNext ==
  \E n \in Honest :
    \/ Work(n) \/ Expire(n)
    \/ \E m \in Peers(n) : Break(n, m)

Waiting(n) == core[n].loopback # {} \/ \E m \in Peers(n) : blocks[m][n] # <<>>
Takes(n) ==
  \/ core[n].loopback \ core'[n].loopback # {}
  \/ \E m \in Peers(n) : Len(blocks'[m][n]) < Len(blocks[m][n])
Expires(n) ==
  \E m \in Peers(n) :
    LET k == Len(link[n][m]) + 1
    IN Len(link'[n][m]) >= k /\ link'[n][m][k].kind = "timeout"

\* The tasks are scheduled, the senders deliver what no break has cut off, and an
\* expired timer is noticed: weak fairness of each.  Where a handler runs it is
\* spelled out, as "never ready from some time on, or taken again and again",
\* since TLC would run the handlers once more to tell whether they are enabled.
Fairness ==
  \A n \in Honest :
    /\ WF_netvars(Propose(n))
    /\ []<>(~ Waiting(n)) \/ []<><<Takes(n)>>_netvars
    /\ \A m \in Peers(n) :
         []<>(link[m][n] = <<>>) \/ []<><<Len(link'[m][n]) < Len(link[m][n])>>_netvars
    /\ []<>(~ Due(n)) \/ []<><<Expires(n)>>_netvars

NetSpec == NetInit /\ [][NetNext]_netvars /\ Fairness

-----------------------------------------------------------------------------
(* Properties.                                                             *)

\* Two nodes are in different rounds.
Apart == \E n, m \in Honest : core[n].round # core[m].round

\* Every honest node commits a block: after faults in the first rounds, and with
\* leaders that stay silent, view changes bring the nodes back into one round,
\* with leaders whose blocks the others vote for.  (README.md:16, "A timeout is
\* the mechanism by which nodes detect a failed or slow leader and trigger a view
\* change to elect a new one.")  Only a lost TC, which nobody sends again
\* (core.rs:257), can prevent it, and only by keeping nodes apart for good.
EveryNodeCommits ==
  \/ <>(\A n \in Honest : core[n].last_committed_round > 0)
  \/ <>tc_lost /\ <>[]Apart
=============================================================================
