---------------------------- MODULE BlockSyncProofs ----------------------------
(***************************************************************************)
(* The core never panics for want of an ancestor, for every tree of        *)
(* blocks, every capacity of the channels and any number of restarts.      *)
(*                                                                         *)
(* The database holds the parent of every block in it.  This is kept       *)
(* because a block is written only after its parent was read there, and    *)
(* nothing is ever removed; the rest of the invariant follows the block    *)
(* from the read of its parent to the write.                               *)
(*                                                                         *)
(* Then the waiters: none sleeps through the write of its parent, what one *)
(* of them lacks stays requested, and a block once taken up is held by     *)
(* somebody until it is stored.                                            *)
(***************************************************************************)
EXTENDS BlockSync, TLAPS

Commands == [do : {"write", "read", "notify_read"}, block : Block]

TypeOK ==
  /\ db \subseteq Block
  /\ commands \in Seq(Commands)
  /\ core \in [at    : {"idle", "parent", "grandparent"},
               block : Block \union {Genesis},
               reply : {"none", "some", "missing"}]
  /\ inner \in Seq(Block) /\ loopback \in Seq(Block)
  /\ handing \in Block \union {Genesis}

\* The parent of b is in the database, or there is none.
ParentStored(b) == parent[b] = Genesis \/ parent[b] \in db

\* The block the core reads.
Awaited == IF core.at = "parent" THEN parent[core.block]
           ELSE parent[parent[core.block]]

\* A read in the channel is the one the core waits for.
OneRead ==
  \A i \in 1..Len(commands) : commands[i].do = "read" =>
    /\ core.at # "idle" /\ core.reply = "none" /\ commands[i].block = Awaited
    /\ \A j \in 1..Len(commands) : commands[j].do = "read" => i = j

WritesClosed ==
  \A i \in 1..Len(commands) :
    commands[i].do = "write" => ParentStored(commands[i].block)

CoreKnows ==
  /\ core.at = "parent" =>
       /\ core.block \in Block /\ parent[core.block] \in Block
       /\ core.reply = "some" => parent[core.block] \in db
  /\ core.at = "grandparent" =>
       /\ core.block \in Block /\ parent[core.block] \in db
       /\ parent[parent[core.block]] \in Block
       /\ core.reply # "missing"

IInv ==
  /\ TypeOK
  /\ \A b \in db : ParentStored(b)
  /\ OneRead /\ WritesClosed /\ CoreKnows

-----------------------------------------------------------------------------
(* The operations the actions share.                                       *)

\* What a command appended to the channel changes.
LEMMA AppendedCommand ==
  ASSUME TypeOK, NEW do \in {"write", "read", "notify_read"}, NEW b \in Block,
         Command(do, b)
  PROVE  /\ commands' \in Seq(Commands)
         /\ Len(commands') = Len(commands) + 1
         /\ \A i \in 1..Len(commands) : commands'[i] = commands[i]
         /\ commands'[Len(commands')] = [do |-> do, block |-> b]
<1>1. [do |-> do, block |-> b] \in Commands
  BY DEF Commands
<1> QED  BY <1>1 DEF TypeOK, Command

\* What is left of the channel when its first command is served.
LEMMA ServedCommand ==
  ASSUME TypeOK, NEW do, Serves(do)
  PROVE  /\ commands' \in Seq(Commands)
         /\ Head(commands) = commands[1] /\ commands[1] \in Commands
         /\ commands[1].do = do /\ 1 \in 1..Len(commands)
         /\ Len(commands') = Len(commands) - 1
         /\ \A i \in 1..Len(commands') : commands'[i] = commands[i + 1]
                                          /\ i + 1 \in 1..Len(commands)
BY DEF TypeOK, Serves

\* Serving a command keeps what is known of the others.
LEMMA ServedKeeps ==
  ASSUME IInv, NEW do, Serves(do), UNCHANGED core,
         \A c : ParentStored(c) => ParentStored(c)'
  PROVE  OneRead' /\ WritesClosed'
<1>1. /\ Len(commands') \in Nat
      /\ \A i \in 1..Len(commands') : commands'[i] = commands[i + 1]
                                        /\ i + 1 \in 1..Len(commands)
  BY ServedCommand DEF IInv
<1>2. Awaited' = Awaited
  BY DEF Awaited
<1>3. ASSUME NEW i \in 1..Len(commands'), commands'[i].do = "read"
      PROVE  /\ core'.at # "idle" /\ core'.reply = "none"
             /\ commands'[i].block = Awaited'
             /\ \A j \in 1..Len(commands') : commands'[j].do = "read" => i = j
  <2>1. i + 1 \in 1..Len(commands) /\ commands[i + 1].do = "read"
    BY <1>1, <1>3
  <2>2. /\ core.at # "idle" /\ core.reply = "none"
        /\ commands[i + 1].block = Awaited
        /\ \A k \in 1..Len(commands) : commands[k].do = "read" => i + 1 = k
    BY <2>1 DEF IInv, OneRead
  <2>3. ASSUME NEW j \in 1..Len(commands'), commands'[j].do = "read" PROVE i = j
    <3>1. i + 1 = j + 1
      BY <1>1, <2>2, <2>3
    <3> QED  BY <3>1
  <2> QED  BY <1>1, <1>2, <2>2, <2>3
<1>4. WritesClosed'
  BY <1>1 DEF IInv, WritesClosed
<1> QED  BY <1>3, <1>4 DEF OneRead

\* A block is written when its parent is known and the core has no read out.
LEMMA StoreBlockKeeps ==
  ASSUME IInv, NEW b \in Block, StoreBlock(b), ParentStored(b), db' = db,
         \A i \in 1..Len(commands) : commands[i].do # "read",
         inner' \in Seq(Block), loopback' \in Seq(Block),
         handing' \in Block \union {Genesis}
  PROVE  IInv'
<1>1. /\ commands' \in Seq(Commands)
      /\ Len(commands') = Len(commands) + 1
      /\ \A i \in 1..Len(commands) : commands'[i] = commands[i]
      /\ commands'[Len(commands')] = [do |-> "write", block |-> b]
  BY AppendedCommand DEF IInv, StoreBlock
<1>2. Len(commands) \in Nat
  BY DEF IInv, TypeOK
<1>3. core' = Idle
  BY DEF StoreBlock
<1>4. TypeOK'
  BY <1>1, <1>3 DEF IInv, TypeOK, Idle
<1>5. OneRead'
  BY <1>1, <1>2 DEF OneRead
<1>6. WritesClosed'
  BY <1>1, <1>2 DEF IInv, WritesClosed, ParentStored
<1>7. CoreKnows'
  BY <1>3 DEF CoreKnows, Idle
<1> QED  BY <1>4, <1>5, <1>6, <1>7 DEF IInv, ParentStored

\* The core reads an ancestor of b: its parent, or the parent's parent.
LEMMA ReadingKeeps ==
  ASSUME IInv, NEW b \in Block, NEW at \in {"parent", "grandparent"},
         NEW of \in Block, Reading(at, b, of), db' = db,
         of = IF at = "parent" THEN parent[b] ELSE parent[parent[b]],
         at = "grandparent" => parent[b] \in db,
         \A i \in 1..Len(commands) : commands[i].do # "read",
         inner' \in Seq(Block), loopback' \in Seq(Block),
         handing' \in Block \union {Genesis}
  PROVE  IInv'
<1>1. /\ commands' \in Seq(Commands)
      /\ Len(commands') = Len(commands) + 1
      /\ \A i \in 1..Len(commands) : commands'[i] = commands[i]
      /\ commands'[Len(commands')] = [do |-> "read", block |-> of]
  BY AppendedCommand DEF IInv, Reading
<1>2. Len(commands) \in Nat
  BY DEF IInv, TypeOK
<1>3. core' = [at |-> at, block |-> b, reply |-> "none"]
  BY DEF Reading
<1>4. TypeOK'
  BY <1>1, <1>3 DEF IInv, TypeOK
<1>5. OneRead'
  <2>1. of = Awaited'
    BY <1>3 DEF Awaited
  <2>2. \A i \in 1..Len(commands') : commands'[i].do = "read" => i = Len(commands')
    BY <1>1, <1>2
  <2>3. commands'[Len(commands')].block = of
    BY <1>1
  <2>4. core'.at # "idle" /\ core'.reply = "none"
    BY <1>3
  <2> QED  BY <2>1, <2>2, <2>3, <2>4 DEF OneRead
<1>6. WritesClosed'
  BY <1>1, <1>2 DEF IInv, WritesClosed, ParentStored
<1>7. CoreKnows'
  BY <1>3 DEF CoreKnows
<1> QED  BY <1>4, <1>5, <1>6, <1>7 DEF IInv, ParentStored

\* process_block starts with a core that waits for nothing.
LEMMA ProcessBlockKeeps ==
  ASSUME IInv, SyncAssumption, NEW b \in Block, process_block(b), core = Idle, db' = db,
         inner' \in Seq(Block), loopback' \in Seq(Block),
         handing' \in Block \union {Genesis}
  PROVE  IInv'
<1>1. \A i \in 1..Len(commands) : commands[i].do # "read"
  BY DEF IInv, OneRead, Idle
<1>2. CASE parent[b] = Genesis
  BY <1>1, <1>2, StoreBlockKeeps DEF process_block, ParentStored
<1>3. CASE parent[b] # Genesis
  <2>1. parent[b] \in Block
    BY <1>3 DEF SyncAssumption
  <2> QED  BY <1>1, <1>3, <2>1, ReadingKeeps DEF process_block
<1> QED  BY <1>2, <1>3

-----------------------------------------------------------------------------
(* The invariant.                                                          *)

LEMMA InitIInv == ASSUME SyncAssumption, Init PROVE IInv
<1>1. commands = <<>> /\ core = Idle /\ db = {}
  BY DEF Init
<1>2. TypeOK
  BY DEF Init, TypeOK, Idle
<1>3. OneRead /\ WritesClosed
  BY <1>1 DEF OneRead, WritesClosed
<1>4. CoreKnows
  BY <1>1 DEF CoreKnows, Idle
<1> QED  BY <1>1, <1>2, <1>3, <1>4 DEF IInv

\* The store keeps the invariant.
LEMMA StoreKeeps ==
  ASSUME IInv, SyncAssumption, StoreStep
  PROVE  IInv'
<1> USE DEF IInv
<1>1. CASE Write
  <2> DEFINE b == Head(commands).block
  <2>1. /\ commands' \in Seq(Commands)
        /\ b = commands[1].block /\ b \in Block /\ ParentStored(b)
        /\ \A i \in 1..Len(commands') : commands'[i] = commands[i + 1]
                                          /\ i + 1 \in 1..Len(commands)
    BY <1>1, ServedCommand DEF Write, WritesClosed, Commands
  <2>2. db' = db \union {b} /\ UNCHANGED <<core, inner, handing, loopback>>
    BY <1>1 DEF Write
  <2>3. \A c : ParentStored(c) => ParentStored(c)'
    BY <2>2 DEF ParentStored
  <2>4. TypeOK'
    BY <2>1, <2>2 DEF TypeOK
  <2>5. \A c \in db' : ParentStored(c)'
    BY <2>1, <2>2, <2>3
  <2>6. OneRead' /\ WritesClosed'
    BY <1>1, <2>2, <2>3, ServedKeeps DEF Write
  <2>7. CoreKnows'
    BY <2>2 DEF CoreKnows
  <2> QED  BY <2>4, <2>5, <2>6, <2>7
<1>2. CASE Read
  <2>1. /\ commands' \in Seq(Commands)
        /\ Head(commands) = commands[1]
        /\ 1 \in 1..Len(commands) /\ commands[1].do = "read"
        /\ \A i \in 1..Len(commands') : commands'[i] = commands[i + 1]
                                          /\ i + 1 \in 1..Len(commands)
    BY <1>2, ServedCommand DEF Read
  <2>2. /\ core' = [core EXCEPT !.reply =
                       IF commands[1].block \in db THEN "some" ELSE "missing"]
        /\ UNCHANGED <<db, inner, handing, loopback>>
    <3>1. UNCHANGED <<db, inner, handing, loopback>>
      BY <1>2 DEF Read, synchronizer
    <3>2. core' = [core EXCEPT !.reply =
                     IF Head(commands).block \in db THEN "some" ELSE "missing"]
      BY <1>2 DEF Read
    <3>3. core' = [core EXCEPT !.reply =
                     IF commands[1].block \in db THEN "some" ELSE "missing"]
      BY <2>1, <3>2, Zenon
    <3> QED  BY <3>1, <3>3
  <2>3. core'.at = core.at /\ core'.block = core.block
    BY <2>2 DEF TypeOK
  <2>4. TypeOK'
    BY <2>1, <2>2 DEF TypeOK
  <2>5. \A i \in 1..Len(commands') : commands'[i].do # "read"
    <3>1. SUFFICES ASSUME NEW i \in 1..Len(commands'), commands'[i].do = "read"
                   PROVE  FALSE
      OBVIOUS
    <3>2. i + 1 = 1
      BY <2>1, <3>1 DEF OneRead
    <3> QED  BY <3>2
  <2>6. OneRead' /\ WritesClosed'
    <3>1. OneRead'
      BY <2>5 DEF OneRead
    <3>2. ASSUME NEW i \in 1..Len(commands'), commands'[i].do = "write"
          PROVE  ParentStored(commands[i].block)'
      <4>1. i + 1 \in 1..Len(commands) /\ commands'[i] = commands[i + 1]
        BY <2>1
      <4>2. ParentStored(commands[i + 1].block)
        BY <3>2, <4>1 DEF WritesClosed
      <4> QED  BY <2>2, <4>1, <4>2 DEF ParentStored
    <3> QED  BY <3>1, <3>2 DEF WritesClosed
  <2>7. CoreKnows'
    <3>1. commands[1].block = Awaited /\ core.at # "idle"
      BY <2>1 DEF OneRead
    <3>2. CASE core.at = "parent"
      <4>1. core'.reply = "some" => parent[core.block] \in db
        BY <2>2, <3>1, <3>2 DEF Awaited, TypeOK
      <4> QED  BY <2>2, <2>3, <3>2, <4>1 DEF CoreKnows
    <3>3. CASE core.at = "grandparent"
      <4>1. parent[parent[core.block]] \in db
        BY <3>3 DEF CoreKnows, ParentStored, SyncAssumption
      <4>2. core'.reply = "some"
        BY <2>2, <3>1, <3>3, <4>1 DEF Awaited, TypeOK
      <4> QED  BY <2>2, <2>3, <3>3, <4>2 DEF CoreKnows
    <3> QED  BY <3>1, <3>2, <3>3 DEF TypeOK
  <2> QED  BY <2>2, <2>4, <2>6, <2>7 DEF ParentStored
<1>3. CASE NotifyRead
  <2>1. /\ commands' \in Seq(Commands)
        /\ \A i \in 1..Len(commands') : commands'[i] = commands[i + 1]
                                          /\ i + 1 \in 1..Len(commands)
    BY <1>3, ServedCommand DEF NotifyRead
  <2>2. UNCHANGED <<db, core, inner, handing, loopback>>
    BY <1>3 DEF NotifyRead
  <2>3. TypeOK'
    BY <2>1, <2>2 DEF TypeOK
  <2>4. OneRead' /\ WritesClosed'
    BY <1>3, <2>2, ServedKeeps DEF NotifyRead, ParentStored
  <2> QED  BY <2>2, <2>3, <2>4 DEF CoreKnows, ParentStored
<1> QED  BY <1>1, <1>2, <1>3 DEF StoreStep

\* The core keeps the invariant.
LEMMA CoreKeeps ==
  ASSUME IInv, SyncAssumption,
         \/ CoreStep
         \/ \E b \in Block : HandleProposal(b)
  PROVE  IInv'
<1> USE DEF synchronizer
<1>1. /\ inner \in Seq(Block) /\ loopback \in Seq(Block)
      /\ handing \in Block \union {Genesis}
  BY DEF IInv, TypeOK
\* A reply has come: no read is in the channel.
<1>2. core.reply # "none" => \A i \in 1..Len(commands) : commands[i].do # "read"
  BY DEF IInv, OneRead
<1>3. ASSUME NEW b \in Block, HandleProposal(b) PROVE IInv'
  BY <1>1, <1>3, ProcessBlockKeeps DEF HandleProposal
<1>4. CASE TakeLoopback
  <2>1. Head(loopback) \in Block /\ loopback' \in Seq(Block)
    BY <1>1, <1>4 DEF TakeLoopback
  <2>2. /\ process_block(Head(loopback)) /\ core = Idle /\ db' = db
        /\ inner' = inner /\ handing' = handing
    BY <1>4 DEF TakeLoopback
  <2> QED  BY <1>1, <2>1, <2>2, ProcessBlockKeeps
<1>5. CASE ParentFound
  <2>1. /\ core.block \in Block /\ parent[core.block] \in db
        /\ parent[core.block] \in Block
    BY <1>5 DEF ParentFound, IInv, CoreKnows
  <2>2. UNCHANGED <<db, inner, handing, loopback>>
    BY <1>5 DEF ParentFound
  <2>3. CASE parent[parent[core.block]] = Genesis
    <3>1. StoreBlock(core.block)
      BY <1>5, <2>3 DEF ParentFound
    <3>2. core.reply # "none" /\ ParentStored(core.block)
      BY <1>5, <2>1 DEF ParentFound, ParentStored
    <3> QED  BY <1>1, <1>2, <2>1, <2>2, <3>1, <3>2, StoreBlockKeeps
  <2>4. CASE parent[parent[core.block]] # Genesis
    <3>1. Reading("grandparent", core.block, parent[parent[core.block]])
      BY <1>5, <2>4 DEF ParentFound
    <3>2. parent[parent[core.block]] \in Block
      BY <2>1, <2>4 DEF SyncAssumption
    <3>3. core.reply # "none"
      BY <1>5 DEF ParentFound
    <3> QED  BY <1>1, <1>2, <2>1, <2>2, <3>1, <3>2, <3>3, ReadingKeeps
  <2> QED  BY <2>3, <2>4
<1>6. CASE ParentMissing
  <2>1. core.block \in Block /\ core' = Idle
    BY <1>6 DEF ParentMissing, IInv, CoreKnows
  <2>2. UNCHANGED <<db, commands, handing, loopback>> /\ inner' \in Seq(Block)
    BY <1>1, <1>6, <2>1 DEF ParentMissing, database
  <2>3. \A i \in 1..Len(commands) : commands[i].do # "read"
    BY <1>2, <1>6 DEF ParentMissing
  <2>4. TypeOK'
    BY <2>1, <2>2 DEF IInv, TypeOK, Idle
  <2>5. OneRead' /\ WritesClosed' /\ CoreKnows'
    BY <2>1, <2>2, <2>3 DEF IInv, OneRead, WritesClosed, CoreKnows, ParentStored, Idle
  <2> QED  BY <2>2, <2>4, <2>5 DEF IInv, ParentStored
<1>7. CASE AncestorsFound
  <2>1. core.block \in Block /\ ParentStored(core.block) /\ core.reply # "none"
    BY <1>7 DEF AncestorsFound, IInv, CoreKnows, ParentStored
  <2>2. StoreBlock(core.block) /\ UNCHANGED <<db, inner, handing, loopback>>
    BY <1>7 DEF AncestorsFound
  <2> QED  BY <1>1, <1>2, <2>1, <2>2, StoreBlockKeeps
<1> QED  BY <1>3, <1>4, <1>5, <1>6, <1>7 DEF CoreStep

\* The synchronizer keeps the invariant.
LEMMA SynchronizerKeeps ==
  ASSUME IInv, SyncAssumption,
         \/ TakeInner
         \/ HandOver
         \/ \E b \in Block : PollWaiter(b) \/ TakeReady(b)
  PROVE  IInv'
<1>1. ASSUME NEW b \in Block, PollWaiter(b) PROVE IInv'
  <2>1. /\ commands' \in Seq(Commands)
        /\ Len(commands') = Len(commands) + 1
        /\ \A i \in 1..Len(commands) : commands'[i] = commands[i]
        /\ commands'[Len(commands')].do = "notify_read"
    <3>1. Command("notify_read", b)
      BY <1>1 DEF PollWaiter
    <3>2. /\ commands' \in Seq(Commands)
          /\ Len(commands') = Len(commands) + 1
          /\ \A i \in 1..Len(commands) : commands'[i] = commands[i]
          /\ commands'[Len(commands')] = [do |-> "notify_read", block |-> b]
      BY <3>1, AppendedCommand DEF IInv
    <3> QED  BY <3>2
  <2>2. Len(commands) \in Nat /\ UNCHANGED <<db, core, inner, handing, loopback>>
    BY <1>1 DEF PollWaiter, IInv, TypeOK
  <2>3. TypeOK'
    BY <2>1, <2>2 DEF IInv, TypeOK
  <2>4. \A i \in 1..Len(commands') : commands'[i].do # "notify_read" =>
          i \in 1..Len(commands) /\ commands'[i] = commands[i]
    BY <2>1, <2>2
  <2>5. Awaited' = Awaited /\ \A c : ParentStored(c)' = ParentStored(c)
    BY <2>2 DEF Awaited, ParentStored
  <2>6. OneRead'
    <3>1. ASSUME NEW i \in 1..Len(commands'), commands'[i].do = "read"
          PROVE  i \in 1..Len(commands) /\ commands'[i] = commands[i]
      BY <2>4, <3>1
    <3>2. ASSUME NEW i \in 1..Len(commands'), commands'[i].do = "read"
          PROVE  /\ core'.at # "idle" /\ core'.reply = "none"
                 /\ commands'[i].block = Awaited'
      BY <2>2, <2>5, <3>1, <3>2 DEF IInv, OneRead
    <3>3. ASSUME NEW i \in 1..Len(commands'), commands'[i].do = "read",
                 NEW j \in 1..Len(commands'), commands'[j].do = "read"
          PROVE  i = j
      BY <3>1, <3>3 DEF IInv, OneRead
    <3> QED  BY <3>2, <3>3 DEF OneRead
  <2>7. WritesClosed'
    BY <2>2, <2>4, <2>5 DEF IInv, WritesClosed
  <2> QED  BY <2>2, <2>3, <2>5, <2>6, <2>7 DEF IInv, CoreKnows
<1>2. ASSUME UNCHANGED <<db, commands, core>>, TypeOK' PROVE IInv'
  BY <1>2 DEF IInv, OneRead, WritesClosed, CoreKnows, ParentStored, Awaited
<1>3. CASE TakeInner
  BY <1>2, <1>3 DEF TakeInner, IInv, TypeOK, database
<1>4. CASE HandOver
  <2>1. UNCHANGED <<db, commands, core, inner>> /\ handing' = Genesis
    BY <1>4 DEF HandOver, database
  <2>2. handing \in Block /\ loopback' = Append(loopback, handing)
    BY <1>4 DEF HandOver, IInv, TypeOK
  <2> QED  BY <1>2, <2>1, <2>2 DEF IInv, TypeOK
<1>5. ASSUME NEW b \in Block, TakeReady(b) PROVE IInv'
  BY <1>2, <1>5 DEF TakeReady, IInv, TypeOK, database
<1> QED  BY <1>1, <1>3, <1>4, <1>5

\* A restart keeps the database, and with it what it holds is closed.
LEMMA RestartKeeps == ASSUME IInv, Restart PROVE IInv'
<1>1. /\ db' = db /\ commands' = <<>> /\ core' = Idle
      /\ inner' = <<>> /\ loopback' = <<>> /\ handing' = Genesis
  BY DEF Restart
<1>2. TypeOK'
  BY <1>1 DEF IInv, TypeOK, Idle
<1>3. OneRead' /\ WritesClosed' /\ CoreKnows'
  BY <1>1 DEF OneRead, WritesClosed, CoreKnows, Idle
<1> QED  BY <1>1, <1>2, <1>3 DEF IInv, ParentStored

\* What is invariant: the read of the second ancestor is always answered.
THEOREM SyncInvariant == Spec => []IInv
<1>1. SyncAssumption
  BY SyncAssumption
<1>2. Init => IInv
  BY <1>1, InitIInv
<1>3. ASSUME IInv, [Next]_vars PROVE IInv'
  <2>1. CASE StoreStep
    BY <1>1, <1>3, <2>1, StoreKeeps
  <2>2. CASE CoreStep \/ \E b \in Block : HandleProposal(b)
    BY <1>1, <1>3, <2>2, CoreKeeps
  <2>3. CASE TakeInner \/ HandOver \/ \E b \in Block : PollWaiter(b) \/ TakeReady(b)
    BY <1>1, <1>3, <2>3, SynchronizerKeeps
  <2>4. CASE Restart
    BY <1>3, <2>4, RestartKeeps
  <2>5. CASE UNCHANGED vars
    BY <1>3, <2>5 DEF vars, database, synchronizer, IInv, TypeOK, OneRead,
                      WritesClosed, CoreKnows, ParentStored, Awaited
  <2> QED  BY <1>3, <2>1, <2>2, <2>3, <2>4, <2>5 DEF Next
<1> QED  BY <1>2, <1>3, PTL DEF Spec

\* "We should have all ancestors of delivered blocks" (synchronizer.rs:147): the
\* core finds every second ancestor, whatever is delivered and whenever the node
\* is restarted.
THEOREM AncestorsAlwaysFound == Spec => []HasAllAncestors
<1>1. IInv => HasAllAncestors
  BY DEF IInv, CoreKnows, HasAllAncestors
<1> QED  BY <1>1, SyncInvariant, PTL

-----------------------------------------------------------------------------
(* The waiters of the synchronizer.                                        *)

\* The store has to serve this command.
Sent(do, b) == \E i \in 1..Len(commands) : commands[i] = [do |-> do, block |-> b]

\* A command sent is served last, and those before it stay.
LEMMA SentAfterCommand ==
  ASSUME TypeOK, NEW do \in {"write", "read", "notify_read"}, NEW b \in Block,
         Command(do, b)
  PROVE  /\ Sent(do, b)'
         /\ \A to, c : Sent(to, c) => Sent(to, c)'
<1>1. /\ Len(commands') = Len(commands) + 1 /\ Len(commands) \in Nat
      /\ \A i \in 1..Len(commands) : commands'[i] = commands[i]
      /\ commands'[Len(commands')] = [do |-> do, block |-> b]
  BY AppendedCommand DEF TypeOK
<1>2. Len(commands') \in 1..Len(commands') /\ 1..Len(commands) \subseteq 1..Len(commands')
  BY <1>1
<1> QED  BY <1>1, <1>2 DEF Sent

\* Serving the first command leaves the others.
LEMMA SentAfterServing ==
  ASSUME TypeOK, NEW do, Serves(do), NEW to, NEW c, Sent(to, c)
  PROVE  Sent(to, c)' \/ (to = do /\ c = Head(commands).block)
<1>1. /\ Head(commands) = commands[1] /\ commands[1].do = do
      /\ Len(commands') = Len(commands) - 1 /\ Len(commands) \in Nat
      /\ \A i \in 1..Len(commands') : commands'[i] = commands[i + 1]
  BY ServedCommand DEF TypeOK
<1>2. PICK i \in 1..Len(commands) : commands[i] = [do |-> to, block |-> c]
  BY DEF Sent
<1>3. CASE i = 1
  BY <1>1, <1>2, <1>3
<1>4. CASE i # 1
  <2>1. i - 1 \in 1..Len(commands') /\ commands'[i - 1] = commands[i]
    BY <1>1, <1>4
  <2> QED  BY <1>2, <2>1 DEF Sent
<1> QED  BY <1>3, <1>4

\* What the waiting tasks rely on: the answer ready is that the parent is there.
WaitInv ==
  /\ task \in [Block -> {"none", "new", "reading", "ready"}]
  /\ obligations \subseteq Block /\ restarts \in Nat
  /\ \A w \in obligations : parent[w] \notin db
  /\ \A b \in Block : task[b] = "reading" => b \in obligations \/ Sent("notify_read", b)
  /\ \A b \in Block : task[b] = "ready" => parent[b] \in db
  /\ MissingRequested

LEMMA InitWait == Init => WaitInv
BY SyncAssumption DEF Init, WaitInv, MissingRequested, pending

\* What the core sends to the store.
LEMMA CoreSends ==
  ASSUME IInv,
         \/ CoreStep
         \/ \E b \in Block : HandleProposal(b)
  PROVE  \/ commands' = commands
         \/ \E do \in {"write", "read"}, b \in Block : Command(do, b)
<1>1. SyncAssumption
  BY SyncAssumption
<1>2. ASSUME NEW b \in Block, process_block(b)
      PROVE  \E do \in {"write", "read"}, c \in Block : Command(do, c)
  <2>1. parent[b] \in Block \union {Genesis}
    BY <1>1 DEF SyncAssumption
  <2> QED  BY <1>2, <2>1 DEF process_block, StoreBlock, Reading
<1>3. CASE \E b \in Block : HandleProposal(b)
  BY <1>2, <1>3 DEF HandleProposal
<1>4. CASE TakeLoopback
  <2>1. Head(loopback) \in Block /\ process_block(Head(loopback))
    BY <1>4 DEF TakeLoopback, IInv, TypeOK
  <2> QED  BY <1>2, <2>1
<1>5. CASE ParentFound
  <2>1. core.block \in Block /\ parent[core.block] \in Block
    BY <1>5 DEF ParentFound, IInv, CoreKnows
  <2>2. parent[parent[core.block]] \in Block \union {Genesis}
    BY <1>1, <2>1 DEF SyncAssumption
  <2> QED  BY <1>5, <2>1, <2>2 DEF ParentFound, StoreBlock, Reading
<1>6. CASE ParentMissing
  BY <1>6 DEF ParentMissing, database
<1>7. CASE AncestorsFound
  BY <1>7 DEF AncestorsFound, StoreBlock, IInv, CoreKnows
<1> QED  BY <1>3, <1>4, <1>5, <1>6, <1>7 DEF CoreStep

LEMMA WaitStep == IInv /\ WaitInv /\ [Next]_vars => WaitInv'
<1> SUFFICES ASSUME IInv, WaitInv, [Next]_vars PROVE WaitInv'
  OBVIOUS
<1>1. /\ task \in [Block -> {"none", "new", "reading", "ready"}]
      /\ obligations \subseteq Block /\ restarts \in Nat
      /\ \A w \in obligations : parent[w] \notin db
      /\ \A b \in Block : task[b] = "reading" => b \in obligations \/ Sent("notify_read", b)
      /\ \A b \in Block : task[b] = "ready" => parent[b] \in db
      /\ \A b \in Block : task[b] # "none" => parent[b] \in db \/ parent[b] \in requests
  BY DEF WaitInv, MissingRequested, pending
<1>2. TypeOK /\ Len(commands) \in Nat
  BY DEF IInv, TypeOK
<1>3. SUFFICES
      /\ task' \in [Block -> {"none", "new", "reading", "ready"}]
      /\ obligations' \subseteq Block /\ restarts' \in Nat
      /\ \A w \in obligations' : parent[w] \notin db'
      /\ \A b \in Block : task'[b] = "reading" => b \in obligations' \/ Sent("notify_read", b)'
      /\ \A b \in Block : task'[b] = "ready" => parent[b] \in db'
      /\ \A b \in Block : task'[b] # "none" => parent[b] \in db' \/ parent[b] \in requests'
  BY DEF WaitInv, MissingRequested, pending
<1>4. CASE Write
  <2> DEFINE b == Head(commands).block
  <2>1. /\ Serves("write")
        /\ db' = db \union {b}
        /\ obligations' = {w \in obligations : parent[w] # b}
        /\ task' = [w \in Block |-> IF w \in obligations /\ parent[w] = b THEN "ready" ELSE task[w]]
        /\ requests' = requests /\ restarts' = restarts
    BY <1>4 DEF Write, woken
  <2>2. \A c : Sent("notify_read", c) => Sent("notify_read", c)'
    BY <1>2, <2>1, SentAfterServing
  <2> HIDE DEF b
  <2>3. task' \in [Block -> {"none", "new", "reading", "ready"}]
    BY <1>1, <2>1
  <2> QED  BY <1>1, <2>1, <2>2, <2>3
<1>5. CASE Read
  <2>1. Serves("read") /\ UNCHANGED <<db, obligations, task, requests, restarts>>
    BY <1>5 DEF Read, synchronizer
  <2>2. \A c : Sent("notify_read", c) => Sent("notify_read", c)'
    BY <1>2, <2>1, SentAfterServing
  <2> QED  BY <1>1, <2>1, <2>2
<1>6. CASE NotifyRead
  <2> DEFINE w == Head(commands).block
  <2>1. /\ Serves("notify_read") /\ UNCHANGED <<db, requests, restarts>>
        /\ \/ parent[w] \in db /\ task' = [task EXCEPT ![w] = "ready"]
                /\ obligations' = obligations
           \/ parent[w] \notin db /\ task' = task /\ obligations' = obligations \union {w}
    BY <1>6 DEF NotifyRead
  <2>2. \A c : Sent("notify_read", c) => Sent("notify_read", c)' \/ c = w
    BY <1>2, <2>1, SentAfterServing
  <2>3. w \in Block
    BY <1>2, <2>1, ServedCommand DEF Commands
  <2> HIDE DEF w
  <2>4. CASE parent[w] \in db /\ task' = [task EXCEPT ![w] = "ready"] /\ obligations' = obligations
    BY <1>1, <2>1, <2>2, <2>3, <2>4
  <2>5. CASE parent[w] \notin db /\ task' = task /\ obligations' = obligations \union {w}
    BY <1>1, <2>1, <2>2, <2>3, <2>5
  <2> QED  BY <2>1, <2>4, <2>5
<1>7. CASE CoreStep \/ \E b \in Block : HandleProposal(b)
  <2>1. UNCHANGED <<db, obligations, task, requests, restarts>>
    BY <1>7 DEF CoreStep, HandleProposal, TakeLoopback, ParentFound, ParentMissing,
                AncestorsFound, synchronizer, database
  <2>2. \A c : Sent("notify_read", c) => Sent("notify_read", c)'
    <3>1. CASE commands' = commands
      BY <3>1 DEF Sent
    <3>2. CASE \E do \in {"write", "read"}, b \in Block : Command(do, b)
      BY <1>2, <3>2, SentAfterCommand
    <3> QED  BY <1>7, <3>1, <3>2, CoreSends
  <2> QED  BY <1>1, <2>1, <2>2
<1>8. CASE TakeInner
  <2> DEFINE b == Head(inner)
  <2>1. b \in Block
    BY <1>2, <1>8 DEF TakeInner, TypeOK
  <2>2. /\ UNCHANGED <<db, obligations, commands, restarts>>
        /\ \/ UNCHANGED <<task, requests>>
           \/ task' = [task EXCEPT ![b] = "new"] /\ requests' = requests \union {parent[b]}
    BY <1>8 DEF TakeInner, database, to_request
  <2>3. \A c : Sent("notify_read", c)' = Sent("notify_read", c)
    BY <2>2 DEF Sent
  <2> HIDE DEF b
  <2> QED  BY <1>1, <2>1, <2>2, <2>3
<1>9. CASE \E b \in Block : PollWaiter(b)
  <2> PICK b \in Block : PollWaiter(b)
    BY <1>9
  <2>1. /\ Command("notify_read", b) /\ task[b] = "new"
        /\ task' = [task EXCEPT ![b] = "reading"]
        /\ UNCHANGED <<db, obligations, requests, restarts>>
    BY DEF PollWaiter
  <2>2. Sent("notify_read", b)' /\ \A c : Sent("notify_read", c) => Sent("notify_read", c)'
    BY <1>2, <2>1, SentAfterCommand
  <2> QED  BY <1>1, <2>1, <2>2
<1>10. CASE \E b \in Block : TakeReady(b)
  <2> PICK b \in Block : TakeReady(b)
    BY <1>10
  <2>1. /\ task[b] = "ready" /\ task' = [task EXCEPT ![b] = "none"]
        /\ requests' = requests \ {parent[b]}
        /\ UNCHANGED <<db, obligations, commands, restarts>>
    BY DEF TakeReady, database, answered
  <2>2. \A c : Sent("notify_read", c)' = Sent("notify_read", c)
    BY <2>1 DEF Sent
  <2> QED  BY <1>1, <2>1, <2>2
<1>11. CASE HandOver \/ UNCHANGED vars
  <2>1. UNCHANGED <<db, obligations, commands, task, requests, restarts>>
    BY <1>11 DEF HandOver, database, vars, synchronizer
  <2>2. \A c : Sent("notify_read", c)' = Sent("notify_read", c)
    BY <2>1 DEF Sent
  <2> QED  BY <1>1, <2>1, <2>2
<1>12. CASE Restart
  <2>1. /\ db' = db /\ obligations' = {} /\ task' = [b \in Block |-> "none"]
        /\ restarts' = restarts + 1
    BY <1>12 DEF Restart
  <2> QED  BY <1>1, <2>1
<1> QED  BY <1>3, <1>4, <1>5, <1>6, <1>7, <1>8, <1>9, <1>10, <1>11, <1>12 DEF Next, StoreStep

LEMMA WaitInvariant == Spec => []WaitInv
BY InitWait, WaitStep, SyncInvariant, PTL DEF Spec

\* Store::notify_read and the waiters of the synchronizer: no interleaving of a
\* write with the request to be told of it leaves a waiter asleep for ever.
THEOREM WakeupNeverLost == Spec => []NoLostWakeup
<1>1. WaitInv => NoLostWakeup
  BY DEF WaitInv, NoLostWakeup, Sent
<1> QED  BY <1>1, WaitInvariant, PTL

\* synchronizer.rs, the entries of `requests': what some pending block lacks is
\* asked for again, although another block's answer removes the shared entry.
THEOREM MissingStaysRequested == Spec => []MissingRequested
<1>1. WaitInv => MissingRequested
  BY DEF WaitInv
<1> QED  BY <1>1, WaitInvariant, PTL

-----------------------------------------------------------------------------
(* The blocks on their way.                                                *)

\* What a channel of blocks holds.
In(c) == {c[i] : i \in 1..Len(c)}

LEMMA InAppended ==
  ASSUME NEW c \in Seq(Block), NEW b \in Block
  PROVE  In(Append(c, b)) = In(c) \union {b}
<1> DEFINE d == Append(c, b)
<1>1. /\ Len(d) = Len(c) + 1 /\ Len(c) \in Nat
      /\ \A i \in 1..Len(c) : d[i] = c[i]
      /\ d[Len(c) + 1] = b
  OBVIOUS
<1> HIDE DEF d
<1>2. 1..Len(d) = 1..Len(c) \union {Len(c) + 1}
  BY <1>1
<1>3. In(d) = In(c) \union {b}
  BY <1>1, <1>2 DEF In
<1> QED  BY <1>3 DEF d

LEMMA InTaken ==
  ASSUME NEW c \in Seq(Block), c # <<>>
  PROVE  Head(c) \in Block /\ In(c) = In(Tail(c)) \union {Head(c)}
<1> DEFINE t == Tail(c)
<1>1. /\ Len(t) = Len(c) - 1 /\ Len(c) \in Nat \ {0}
      /\ Head(c) = c[1] /\ Head(c) \in Block
      /\ \A i \in 1..Len(t) : t[i] = c[i + 1]
  OBVIOUS
<1> HIDE DEF t
<1>2. \A i \in 1..Len(c) : i = 1 \/ (i - 1 \in 1..Len(t) /\ t[i - 1] = c[i])
  BY <1>1
<1>3. \A i \in 1..Len(t) : i + 1 \in 1..Len(c)
  BY <1>1
<1>4. In(c) = In(t) \union {Head(c)}
  BY <1>1, <1>2, <1>3 DEF In
<1> QED  BY <1>1, <1>4 DEF t

\* Where a block on its way is.
LEMMA HeldMembers ==
  ASSUME TypeOK, NEW b
  PROVE  b \in Held <=>
           /\ b # Genesis
           /\ \/ b \in Block /\ task[b] # "none"
              \/ b = core.block \/ b = handing
              \/ b \in In(inner) \/ b \in In(loopback)
              \/ Sent("write", b)
<1> DEFINE writes == {i \in 1..Len(commands) : commands[i].do = "write"}
<1>1. Sent("write", b) <=> \E i \in writes : commands[i].block = b
  <2>1. \A i \in 1..Len(commands) :
          /\ commands[i] \in Commands
          /\ commands[i] = [do |-> "write", block |-> b]
               <=> commands[i].do = "write" /\ commands[i].block = b
    <3> SUFFICES ASSUME NEW i \in 1..Len(commands)
                 PROVE  /\ commands[i] \in Commands
                        /\ commands[i] = [do |-> "write", block |-> b]
                             <=> commands[i].do = "write" /\ commands[i].block = b
      OBVIOUS
    <3>1. commands[i] \in Commands
      BY DEF TypeOK
    <3> QED  BY <3>1 DEF Commands
  <2> QED  BY <2>1 DEF Sent
<1>2. Held = (pending \union {core.block, handing} \union In(inner) \union In(loopback)
                \union {commands[i].block : i \in writes}) \ {Genesis}
  BY DEF Held, In
<1> HIDE DEF writes
<1> QED  BY <1>1, <1>2 DEF pending

\* What process_block does with the block.
LEMMA ProcessHolds ==
  ASSUME IInv, NEW b \in Block, process_block(b)
  PROVE  /\ core'.block = b \/ Sent("write", b)'
         /\ \A c : Sent("write", c) => Sent("write", c)'
<1>1. parent[b] \in Block \union {Genesis}
  BY SyncAssumption
<1>2. \/ core' = Idle /\ Command("write", b)
      \/ /\ core' = [at |-> "parent", block |-> b, reply |-> "none"]
         /\ parent[b] \in Block /\ Command("read", parent[b])
  BY <1>1 DEF process_block, StoreBlock, Reading
<1>3. CASE Command("write", b)
  BY <1>3, SentAfterCommand DEF IInv
<1>4. CASE /\ core' = [at |-> "parent", block |-> b, reply |-> "none"]
           /\ parent[b] \in Block /\ Command("read", parent[b])
  BY <1>4, SentAfterCommand DEF IInv
<1> QED  BY <1>2, <1>3, <1>4

LEMMA HeldStep ==
  ASSUME IInv, IInv', WaitInv, Next, restarts' = restarts
  PROVE  Held \subseteq Held' \union db'
<1> DEFINE At(b) == \/ b \in Block /\ task[b] # "none"
                    \/ b = core.block \/ b = handing
                    \/ b \in In(inner) \/ b \in In(loopback)
                    \/ Sent("write", b)
<1>1. \A b : b \in Held <=> b # Genesis /\ At(b)
  BY HeldMembers DEF IInv
<1>2. \A b : b \in Held' <=> b # Genesis /\ At(b)'
  <2> SUFFICES ASSUME NEW b PROVE b \in Held' <=> b # Genesis /\ At(b)'
    OBVIOUS
  <2>1. TypeOK'
    BY DEF IInv
  <2>2. (TypeOK => (b \in Held <=> b # Genesis /\ At(b)))'
    BY HeldMembers, PTL
  <2> QED  BY <2>1, <2>2
<1>3. SUFFICES ASSUME NEW b, b # Genesis, At(b) PROVE At(b)' \/ b \in db'
  BY <1>1, <1>2
<1>4. /\ TypeOK /\ inner \in Seq(Block) /\ loopback \in Seq(Block)
      /\ handing \in Block \union {Genesis}
      /\ task \in [Block -> {"none", "new", "reading", "ready"}]
      /\ obligations \subseteq Block /\ restarts \in Nat
  BY DEF IInv, TypeOK, WaitInv
<1>5. CASE Write
  <2>1. /\ Serves("write") /\ Head(commands).block \in db'
        /\ \A w \in Block : task[w] # "none" => task'[w] # "none"
        /\ UNCHANGED <<core, inner, handing, loopback>>
    BY <1>4, <1>5 DEF Write
  <2>2. Sent("write", b) => Sent("write", b)' \/ b \in db'
    BY <1>4, <2>1, SentAfterServing
  <2> QED  BY <1>3, <2>1, <2>2
<1>6. CASE Read
  <2>1. /\ Serves("read") /\ UNCHANGED <<task, inner, handing, loopback>>
        /\ core'.block = core.block
    BY <1>4, <1>6 DEF Read, synchronizer, TypeOK
  <2>2. Sent("write", b) => Sent("write", b)'
    BY <1>4, <2>1, SentAfterServing
  <2> QED  BY <1>3, <2>1, <2>2
<1>7. CASE NotifyRead
  <2>1. /\ Serves("notify_read") /\ UNCHANGED <<core, inner, handing, loopback>>
        /\ \A w \in Block : task[w] # "none" => task'[w] # "none"
    BY <1>4, <1>7 DEF NotifyRead
  <2>2. Sent("write", b) => Sent("write", b)'
    BY <1>4, <2>1, SentAfterServing
  <2> QED  BY <1>3, <2>1, <2>2
<1>8. ASSUME NEW c \in Block, HandleProposal(c) PROVE At(b)'
  <2>1. /\ process_block(c) /\ core.block = Genesis
        /\ UNCHANGED <<task, inner, handing, loopback>>
    BY <1>8 DEF HandleProposal, synchronizer, Idle
  <2>2. Sent("write", b) => Sent("write", b)'
    BY <2>1, ProcessHolds
  <2> QED  BY <1>3, <2>1, <2>2
<1>9. CASE TakeLoopback
  <2>1. /\ process_block(Head(loopback)) /\ core.block = Genesis /\ loopback # <<>>
        /\ loopback' = Tail(loopback) /\ UNCHANGED <<task, inner, handing>>
    BY <1>9 DEF TakeLoopback, synchronizer, Idle
  <2> PICK h \in Block : h = Head(loopback)
    BY <1>4, <2>1
  <2>2. process_block(h) /\ In(loopback) = In(loopback') \union {h}
    BY <1>4, <2>1, InTaken
  <2>3. /\ core'.block = h \/ Sent("write", h)'
        /\ Sent("write", b) => Sent("write", b)'
    BY <2>1, <2>2, ProcessHolds
  <2> QED  BY <1>3, <2>1, <2>2, <2>3
<1>10. CASE ParentFound
  <2>1. /\ core.block \in Block /\ parent[core.block] \in Block
        /\ parent[parent[core.block]] \in Block \union {Genesis}
    BY <1>10, SyncAssumption DEF ParentFound, IInv, CoreKnows
  <2> PICK c \in Block : c = core.block
    BY <2>1
  <2>2. /\ UNCHANGED <<task, inner, handing, loopback>>
        /\ \/ Command("write", c)
           \/ /\ core'.block = c /\ parent[parent[c]] \in Block
              /\ Command("read", parent[parent[c]])
    BY <1>10, <2>1 DEF ParentFound, synchronizer, StoreBlock, Reading
  <2>3. /\ core'.block = c \/ Sent("write", c)'
        /\ Sent("write", b) => Sent("write", b)'
    BY <1>4, <2>1, <2>2, SentAfterCommand
  <2> QED  BY <1>3, <2>2, <2>3
<1>11. CASE ParentMissing
  <2>1. core.block \in Block
    BY <1>11 DEF ParentMissing, IInv, CoreKnows
  <2>2. /\ inner' = Append(inner, core.block)
        /\ UNCHANGED <<task, handing, loopback, commands>>
    BY <1>11 DEF ParentMissing, synchronizer, database
  <2>3. In(inner') = In(inner) \union {core.block}
    BY <1>4, <2>1, <2>2, InAppended
  <2>4. Sent("write", b)' = Sent("write", b)
    BY <2>2 DEF Sent
  <2> QED  BY <1>3, <2>2, <2>3, <2>4
<1>12. CASE AncestorsFound
  <2>1. core.block \in Block
    BY <1>12 DEF AncestorsFound, IInv, CoreKnows
  <2> PICK c \in Block : c = core.block
    BY <2>1
  <2>2. Command("write", c) /\ UNCHANGED <<task, inner, handing, loopback>>
    BY <1>12 DEF AncestorsFound, StoreBlock, synchronizer
  <2>3. Sent("write", c)' /\ (Sent("write", b) => Sent("write", b)')
    BY <1>4, <2>1, <2>2, SentAfterCommand
  <2> QED  BY <1>3, <2>2, <2>3
<1>13. CASE TakeInner
  <2> DEFINE h == Head(inner)
  <2>1. /\ inner # <<>> /\ inner' = Tail(inner)
        /\ UNCHANGED <<core, handing, loopback, commands>>
        /\ \/ task[h] # "none" /\ task' = task
           \/ task' = [task EXCEPT ![h] = "new"]
    BY <1>13 DEF TakeInner, database, pending
  <2>2. h \in Block /\ In(inner) = In(inner') \union {h}
    BY <1>4, <2>1, InTaken
  <2> HIDE DEF h
  <2>3. task'[h] # "none" /\ \A w \in Block : task[w] # "none" => task'[w] # "none"
    BY <1>4, <2>1, <2>2
  <2>4. Sent("write", b)' = Sent("write", b)
    BY <2>1 DEF Sent
  <2> QED  BY <1>3, <2>1, <2>2, <2>3, <2>4
<1>14. ASSUME NEW c \in Block, PollWaiter(c) PROVE At(b)'
  <2>1. /\ Command("notify_read", c) /\ UNCHANGED <<core, inner, handing, loopback>>
        /\ \A w \in Block : task[w] # "none" => task'[w] # "none"
    BY <1>4, <1>14 DEF PollWaiter
  <2>2. Sent("write", b) => Sent("write", b)'
    BY <1>4, <2>1, SentAfterCommand
  <2> QED  BY <1>3, <2>1, <2>2
<1>15. ASSUME NEW c \in Block, TakeReady(c) PROVE At(b)'
  <2>1. /\ handing = Genesis /\ handing' = c /\ UNCHANGED <<core, inner, loopback, commands>>
        /\ \A w \in Block : task[w] # "none" => task'[w] # "none" \/ w = c
    BY <1>4, <1>15 DEF TakeReady, database
  <2>2. Sent("write", b)' = Sent("write", b)
    BY <2>1 DEF Sent
  <2> QED  BY <1>3, <2>1, <2>2
<1>16. CASE HandOver
  <2>1. /\ handing \in Block /\ loopback' = Append(loopback, handing)
        /\ UNCHANGED <<core, inner, task, commands>>
    BY <1>4, <1>16 DEF HandOver, database
  <2>2. In(loopback') = In(loopback) \union {handing}
    BY <1>4, <2>1, InAppended
  <2>3. Sent("write", b)' = Sent("write", b)
    BY <2>1 DEF Sent
  <2> QED  BY <1>3, <2>1, <2>2, <2>3
<1>17. CASE Restart
  BY <1>4, <1>17 DEF Restart
<1> QED  BY <1>5, <1>6, <1>7, <1>8, <1>9, <1>10, <1>11, <1>12, <1>13, <1>14, <1>15,
            <1>16, <1>17 DEF Next, StoreStep, CoreStep

\* Core::process_block, the synchronizer and the store: a block once taken up is
\* in somebody's hands until it is stored, with channels that are full as well.
THEOREM NoBlockForgotten == Spec => NoneForgotten
<1>1. ASSUME IInv, IInv', WaitInv, [Next]_vars
      PROVE  [restarts' = restarts => Held \subseteq Held' \union db']_vars
  <2>1. CASE Next
    BY <1>1, <2>1, HeldStep
  <2>2. CASE UNCHANGED vars
    BY <2>2
  <2> QED  BY <1>1, <2>1, <2>2
<1> QED  BY <1>1, SyncInvariant, WaitInvariant, PTL DEF Spec, NoneForgotten
=============================================================================
