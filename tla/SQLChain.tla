------------------------------ MODULE SQLChain ------------------------------
(***************************************************************************)
(* The chain engine of one SQL-chain (src/sqlchain/chain.go) run by a      *)
(* committee of N miners.  Every miner runs two goroutines that share its  *)
(* runtime state:                                                          *)
(*   - mainCycle:     syncHead, nextTick, runCurrentTurn (produceBlock and *)
(*                    the deferred setNextTurn / heights notification);    *)
(*   - processBlocks: the ingest loop over c.blocks and c.heights, with    *)
(*                    the stash, the returnStash goroutines and            *)
(*                    CheckAndPushNewBlock / pushBlock.                    *)
(* c.blocks is unbuffered: a sender is blocked until processBlocks takes   *)
(* its block.  Senders are mainCycle (own block, synced block), the        *)
(* returnStash goroutines and the AdviseNewBlock RPC handlers, whose       *)
(* requests are the in-flight set `advise'.                                *)
(*                                                                         *)
(* Time is abstracted to turns: `clock' is height-of(now).  A block is     *)
(* produced at most once per height, by the rotation slot of that height,  *)
(* so a block is identified by its height and carries its parent's height. *)
(***************************************************************************)
EXTENDS Integers, Sequences, FiniteSets, SequencesExt

CONSTANTS
  N,            \* number of peers in the committee, indexed 0..N-1
  MaxTurn,      \* last turn the clock reaches (bound of the model)
  UpdatePeriod, \* c.updatePeriod: billing runs when head count % it = 0
  Synchronous,  \* TRUE: the clock waits until every miner is idle and all
                \* messages are delivered (the period outlasts delivery)
  Lossy,        \* TRUE: an AdviseNewBlock or FetchBlock call may fail
  BlockCacheTTL \* rt.blockCacheTTL: counts below the head whose body stays

ASSUME N \in Nat \ {0} /\ MaxTurn \in Nat /\ UpdatePeriod \in Nat \ {0}
ASSUME Synchronous \in BOOLEAN /\ Lossy \in BOOLEAN /\ BlockCacheTTL \in Nat

Nodes   == 0..N-1
Heights == 0..MaxTurn
Block   == [h : Heights, parent : -1..MaxTurn]
Genesis == [h |-> 0, parent |-> -1]
NoBlock == [h |-> -1, parent |-> -1]   \* a nil *types.Block

VARIABLES
  clock,      \* height-of(now), shared by all miners
  nextTurn,   \* rt.nextTurn of every miner
  head,       \* rt.head: height of the head block of every miner
  index,      \* blockIndex: height -> [parent, count] of every miner
  mcPc,       \* program counter of mainCycle
  mcOut,      \* block mainCycle is blocked sending on c.blocks, or NoBlock
  stash,      \* processBlocks' stash of future blocks
  returning,  \* blocks still to be sent by each returnStash goroutine
  heightsBuf, \* number of values in c.heights (capacity 1)
  pbCur,      \* block processBlocks is about to CheckAndPushNewBlock
  advise,     \* AdviseNewBlock requests not yet taken by the receiver
  produced,   \* every block some miner has produced (history)
  pbBill,     \* processBlocks is about to run billing from its head
  billed,     \* head counts at which each miner ran billing, in order
  billRead,   \* heights of the blocks the last billing of each miner read
  cached      \* heights of the index nodes whose block body is in memory

mcVars == <<mcPc, mcOut>>
pbVars == <<stash, returning, heightsBuf, pbCur, pbBill>>
vars   == <<clock, nextTurn, head, index, mcVars, pbVars, advise, produced,
            billed, billRead, cached>>

-----------------------------------------------------------------------------
(* Runtime helpers (runtime.go is not part of src/: modelled from spec 4.4) *)

\* isMyTurn: the producer of height h is peers[h mod |peers|].
IsMyTurn(n) == nextTurn[n] % N = n

\* The producer identity carried by block b.
Producer(b) == b.h % N

HeadBlock(n) == [h |-> head[n], parent |-> index[n][head[n]].parent]

HeadCount(n) == index[n][head[n]].count

\* blockNode.ancestor: the latest block of n's chain whose height <= h.
\* The index only ever grows by extending the head, so it is one chain.
Ancestor(n, h) == Max({x \in DOMAIN index[n] : x <= h})

\* fetchBlockByIndexKey: bdb.Get of the node's key and decode.  pushBlock
\* puts a block into bdb before it indexes its node, so the get finds it.
FetchBlockByIndexKey(s, x) == [h |-> x, parent |-> index[s][x].parent]

\* FetchBlock(height) on miner s: the block of head.node.ancestor(height).
FetchBlock(s, h) == FetchBlockByIndexKey(s, Ancestor(s, h))

-----------------------------------------------------------------------------
Init ==
  /\ clock = 0
  /\ nextTurn = [n \in Nodes |-> 1]
  /\ head = [n \in Nodes |-> 0]
  /\ index = [n \in Nodes |-> (0 :> [parent |-> -1, count |-> 0])]
  /\ mcPc = [n \in Nodes |-> "sync"]
  /\ mcOut = [n \in Nodes |-> NoBlock]
  /\ stash = [n \in Nodes |-> <<>>]
  /\ returning = [n \in Nodes |-> <<>>]
  /\ heightsBuf = [n \in Nodes |-> 0]
  /\ pbCur = [n \in Nodes |-> NoBlock]
  /\ advise = {}
  /\ produced = {Genesis}
  /\ pbBill = [n \in Nodes |-> FALSE]
  /\ billed = [n \in Nodes |-> <<>>]
  /\ billRead = [n \in Nodes |-> {}]
  /\ cached = [n \in Nodes |-> {0}]

-----------------------------------------------------------------------------
(* mainCycle                                                               *)

\* The loop of mainCycle: syncHead, then nextTick.  It starts a pass when
\* it begins, or when time.Sleep(d) returns at the target time.
LoopStart(n) ==
  \/ mcPc[n] = "sync"
  \/ mcPc[n] = "sleep" /\ clock >= nextTurn[n]

\* The answer syncHead gets for height h: the peers are asked in list
\* order (skipping self) and the first call that succeeds wins, whatever
\* block it returns.  FetchBlock never returns nil since genesis is at 0.
\* Under Lossy any prefix of the peers may fail, so any peer's answer, or
\* none, is possible.
SyncAnswers(n, h) ==
  IF Lossy THEN {FetchBlock(s, h) : s \in Nodes \ {n}} \cup {NoBlock}
           ELSE {FetchBlock(Min(Nodes \ {n}), h)}

\* syncHead: when the head lags nextTurn-1, fetch the block at nextTurn-1
\* and send it on c.blocks.
SyncHead(n) ==
  /\ LoopStart(n)
  /\ mcPc' = [mcPc EXCEPT ![n] = "tick"]
  /\ LET h == nextTurn[n] - 1
     IN  IF head[n] < h /\ N > 1
         THEN \E a \in SyncAnswers(n, h) : mcOut' = [mcOut EXCEPT ![n] = a]
         ELSE UNCHANGED mcOut
  /\ UNCHANGED <<clock, nextTurn, head, index, pbVars, advise, produced, billed, billRead, cached>>

\* nextTick, once the send of a synced block has completed: the delay to
\* the target time of nextTurn is positive, so sleep.
NextTick(n) ==
  /\ mcPc[n] = "tick"
  /\ mcOut[n] = NoBlock
  /\ clock < nextTurn[n]
  /\ mcPc' = [mcPc EXCEPT ![n] = "sleep"]
  /\ UNCHANGED <<clock, nextTurn, head, index, mcOut, pbVars, advise,
                 produced, billed, billRead, cached>>

\* nextTick found the turn due: runCurrentTurn(t) with t its target time.
\* (The clock only grows, so reading it and running the turn are merged.)
TurnDue(n) ==
  /\ mcPc[n] = "tick"
  /\ mcOut[n] = NoBlock
  /\ clock >= nextTurn[n]

\* A mutation: the block is built on the previous height rather than on
\* the current head.
ProduceBlockOnPrevTurn(n) ==
  /\ TurnDue(n)
  /\ IsMyTurn(n)
  /\ LET b == [h |-> nextTurn[n], parent |-> nextTurn[n] - 1]
     IN  /\ mcOut' = [mcOut EXCEPT ![n] = b]
         /\ produced' = produced \cup {b}
  /\ mcPc' = [mcPc EXCEPT ![n] = "advise"]
  /\ UNCHANGED <<clock, nextTurn, head, index, pbVars, advise, billed, billRead, cached>>

\* runCurrentTurn, producing branch: CommitEx returned queries, so a block
\* timestamped at the turn's target (height nextTurn) with the current head
\* as parent is signed and sent on the node's own c.blocks.
ProduceBlock(n) ==
  /\ TurnDue(n)
  /\ IsMyTurn(n)
  /\ LET b == [h |-> nextTurn[n], parent |-> head[n]]
     IN  /\ mcOut' = [mcOut EXCEPT ![n] = b]
         /\ produced' = produced \cup {b}
  /\ mcPc' = [mcPc EXCEPT ![n] = "advise"]
  /\ UNCHANGED <<clock, nextTurn, head, index, pbVars, advise, billed, billRead, cached>>

\* produceBlock, after the block was taken from c.blocks: advise it to
\* every other peer in parallel.
AdviseNewBlock(n) ==
  /\ mcPc[n] = "advise"
  /\ mcOut[n] = NoBlock
  /\ LET b == CHOOSE x \in produced : x.h = nextTurn[n]
     IN  advise' = advise \cup {[from |-> n, to |-> m, blk |-> b] : m \in Nodes \ {n}}
  /\ mcPc' = [mcPc EXCEPT ![n] = "advising"]
  /\ UNCHANGED <<clock, nextTurn, head, index, mcOut, pbVars, produced, billed, billRead, cached>>

\* An AdviseNewBlock call fails (CallNodeWithContext returns an error):
\* the request never reaches the peer, and the caller only logs it.
LoseAdvice(m) ==
  /\ Lossy
  /\ advise' = advise \ {m}
  /\ UNCHANGED <<clock, nextTurn, head, index, mcVars, pbVars, produced, billed, billRead, cached>>

\* wg.Wait(): every AdviseNewBlock call has returned, i.e. every receiver's
\* handler has handed the block to its c.blocks.
AdviseDone(n) ==
  /\ mcPc[n] = "advising"
  /\ \A m \in advise : m.from # n
  /\ mcPc' = [mcPc EXCEPT ![n] = "defer"]
  /\ UNCHANGED <<clock, nextTurn, head, index, mcOut, pbVars, advise,
                 produced, billed, billRead, cached>>

\* The first loop of pruneBlockCache: from node x, walk to the first node
\* whose count is not above the cutoff (-1: walked past genesis).
RECURSIVE AtOrBelowCount(_, _, _)
AtOrBelowCount(idx, x, cut) ==
  IF x = -1 \/ idx[x].count <= cut THEN x
  ELSE AtOrBelowCount(idx, idx[x].parent, cut)

\* The second loop: drop bodies from node x towards genesis, stopping at the
\* first node that already has none.
RECURSIVE DropBodies(_, _, _)
DropBodies(idx, cch, x) ==
  IF x = -1 \/ x \notin cch THEN cch
  ELSE DropBodies(idx, cch \ {x}, idx[x].parent)

\* pruneBlockCache: the bodies left after the walk from the head, with
\* cutoff head.count - blockCacheTTL.
PruneBlockCache(n) ==
  DropBodies(index[n], cached[n],
             AtOrBelowCount(index[n], head[n], HeadCount(n) - BlockCacheTTL))

\* The deferred tail of runCurrentTurn: setNextTurn, then c.heights <- h.
\* It runs after produceBlock, or straight away when it is not this
\* miner's turn or CommitEx returned no query (or failed).
\* c.heights has capacity 1; a full buffer blocks mainCycle (Notify).
\* pruneBlockCache runs first (stat only logs; the ack index and
\* ai.advance are modelled in AckIndex).
EndTurn(n) ==
  /\ mcPc[n] = "defer" \/ TurnDue(n)
  /\ nextTurn' = [nextTurn EXCEPT ![n] = @ + 1]
  /\ IF heightsBuf[n] = 0
     THEN /\ heightsBuf' = [heightsBuf EXCEPT ![n] = 1]
          /\ mcPc' = [mcPc EXCEPT ![n] = "sync"]
     ELSE /\ mcPc' = [mcPc EXCEPT ![n] = "notify"]
          /\ UNCHANGED heightsBuf
  /\ cached' = [cached EXCEPT ![n] = PruneBlockCache(n)]
  /\ UNCHANGED <<clock, head, index, mcOut, stash, returning, pbCur, pbBill,
                 advise, produced, billed, billRead>>

Notify(n) ==
  /\ mcPc[n] = "notify"
  /\ heightsBuf[n] = 0
  /\ heightsBuf' = [heightsBuf EXCEPT ![n] = 1]
  /\ mcPc' = [mcPc EXCEPT ![n] = "sync"]
  /\ UNCHANGED <<clock, nextTurn, head, index, mcOut, stash, returning, pbCur,
                 pbBill, advise, produced, billed, billRead, cached>>

-----------------------------------------------------------------------------
(* processBlocks                                                           *)

\* A mutation: the stash is cleared without being handed to a goroutine.
ReturnStashDropped(n) ==
  /\ stash' = [stash EXCEPT ![n] = <<>>]
  /\ UNCHANGED returning

\* if stash != nil: go returnStash(stash); stash = nil
ReturnStash(n) ==
  IF stash[n] # <<>>
  THEN /\ returning' = [returning EXCEPT ![n] = Append(@, stash[n])]
       /\ stash' = [stash EXCEPT ![n] = <<>>]
  ELSE UNCHANGED <<returning, stash>>

\* processBlocks is back at its select: no block under check, no billing.
PbIdle(n) == pbCur[n] = NoBlock /\ ~pbBill[n]

\* case h := <-c.heights: hand the whole stash to a new returnStash
\* goroutine.
RecvHeight(n) ==
  /\ PbIdle(n)
  /\ heightsBuf[n] = 1
  /\ heightsBuf' = [heightsBuf EXCEPT ![n] = 0]
  /\ ReturnStash(n)
  /\ UNCHANGED <<clock, nextTurn, head, index, mcVars, pbCur, pbBill, advise,
                 produced, billed, billRead, cached>>

\* case block := <-c.blocks: stash a future block, drop a past one (the
\* fork TODO), keep a block of the current turn for CheckAndPushNewBlock.
Ingest(n, b) ==
  CASE b.h > nextTurn[n] - 1 ->
         /\ stash' = [stash EXCEPT ![n] = Append(@, b)]
         /\ UNCHANGED pbCur
    [] b.h < nextTurn[n] - 1 ->
         UNCHANGED <<stash, pbCur>>
    [] OTHER ->
         /\ pbCur' = [pbCur EXCEPT ![n] = b]
         /\ UNCHANGED stash

\* Take the block mainCycle is blocked sending (own or synced block).
RecvFromMainCycle(n) ==
  /\ PbIdle(n)
  /\ mcOut[n] # NoBlock
  /\ mcOut' = [mcOut EXCEPT ![n] = NoBlock]
  /\ Ingest(n, mcOut[n])
  /\ UNCHANGED <<clock, nextTurn, head, index, mcPc, returning, heightsBuf,
                 pbBill, advise, produced, billed, billRead, cached>>

\* Take the next block of returnStash goroutine i.
RecvFromStash(n, i) ==
  /\ PbIdle(n)
  /\ LET rest == Tail(returning[n][i])
     IN  returning' = [returning EXCEPT ![n] =
                         IF rest = <<>> THEN RemoveAt(@, i) ELSE [@ EXCEPT ![i] = rest]]
  /\ Ingest(n, Head(returning[n][i]))
  /\ UNCHANGED <<clock, nextTurn, head, index, mcVars, heightsBuf, pbBill,
                 advise, produced, billed, billRead, cached>>

\* Take the block of an AdviseNewBlock RPC handler.
RecvAdvised(n, m) ==
  /\ PbIdle(n)
  /\ m.to = n
  /\ advise' = advise \ {m}
  /\ Ingest(n, m.blk)
  /\ UNCHANGED <<clock, nextTurn, head, index, mcVars, returning, heightsBuf,
                 pbBill, produced, billed, billRead, cached>>

\* A mutation: the head is swapped but the node is not added to the index.
PushBlockNoIndex(n, b) ==
  /\ head' = [head EXCEPT ![n] = b.h]
  /\ cached' = [cached EXCEPT ![n] = @ \cup {b.h}]
  /\ UNCHANGED index

\* pushBlock: the new node's parent is the current head node, and it keeps
\* the block as its body (newBlockNode).
PushBlock(n, b) ==
  /\ head' = [head EXCEPT ![n] = b.h]
  /\ index' = [index EXCEPT ![n] =
                 @ @@ (b.h :> [parent |-> head[n], count |-> HeadCount(n) + 1])]
  /\ cached' = [cached EXCEPT ![n] = @ \cup {b.h}]

\* processBlocks after a successful CheckAndPushNewBlock: billing is due
\* when the head count is a multiple of UpdatePeriod.
Billing(n, cnt) == pbBill' = [pbBill EXCEPT ![n] = (cnt % UpdatePeriod = 0)]

\* A mutation: the parent check is dropped.
ParentCheckDropped(n, b) == FALSE

\* !block.ParentHash().IsEqual(&head.Head)
ParentMismatch(n, b) == b.parent # head[n]

\* A mutation: the expected slot is taken from nextTurn, not nextTurn-1.
ExpectedProducerNextTurn(n) == nextTurn[n] % N

\* next: the peer index expected to have produced the current block.
ExpectedProducer(n) == (nextTurn[n] - 1) % N

\* CheckAndPushNewBlock, with the billing trigger that follows success.
CheckAndPushNewBlock(n) ==
  /\ pbCur[n] # NoBlock
  /\ pbCur' = [pbCur EXCEPT ![n] = NoBlock]
  /\ LET b == pbCur[n] IN
     CASE b = HeadBlock(n) ->                      \* already applied
            /\ Billing(n, HeadCount(n))
            /\ UNCHANGED <<head, index, cached>>
       [] ParentMismatch(n, b) ->                  \* ErrInvalidBlock
            UNCHANGED <<head, index, cached, pbBill>>
       [] Producer(b) = n ->                       \* self-produced
            /\ PushBlock(n, b)
            /\ Billing(n, HeadCount(n) + 1)
       [] Producer(b) # ExpectedProducer(n) ->     \* ErrInvalidProducer
            UNCHANGED <<head, index, cached, pbBill>>
       [] OTHER ->                                 \* replay, then push
            /\ PushBlock(n, b)
            /\ Billing(n, HeadCount(n) + 1)
  /\ UNCHANGED <<clock, nextTurn, mcVars, stash, returning, heightsBuf,
                 advise, produced, billed, billRead>>

\* A mutation: a pruned body is not fetched again, so nothing is read.
ReadBlockNotFetched(n, x) == IF x \in cached[n] THEN {x} ELSE {}

\* A mutation: a pruned body is fetched with the node's count as height.
ReadBlockByCount(n, x) ==
  IF x \in cached[n] THEN {x} ELSE {FetchBlock(n, index[n][x].count).h}

\* The block billing reads for node x: its body, or, when pruned,
\* FetchBlock(node.height) from the head.
ReadBlock(n, x) == IF x \in cached[n] THEN {x} ELSE {FetchBlock(n, x).h}

\* The loop of billing from node x, i nodes already read.
RECURSIVE BillingReads(_, _, _)
BillingReads(n, x, i) ==
  IF i = UpdatePeriod \/ x = -1 THEN {}
  ELSE ReadBlock(n, x) \cup BillingReads(n, index[n][x].parent, i + 1)

\* billing(head.node): walk back up to UpdatePeriod nodes and read each
\* block (the charges are modelled in Billing), then sign and send the
\* UpdateBilling.  The main cycle may prune bodies meanwhile.
RunBilling(n) ==
  /\ pbBill[n]
  /\ pbBill' = [pbBill EXCEPT ![n] = FALSE]
  /\ billed' = [billed EXCEPT ![n] = Append(@, HeadCount(n))]
  /\ billRead' = [billRead EXCEPT ![n] = BillingReads(n, head[n], 0)]
  /\ UNCHANGED <<clock, nextTurn, head, index, mcVars, stash, returning,
                 heightsBuf, pbCur, advise, produced, cached>>

-----------------------------------------------------------------------------
(* The clock                                                               *)

\* Every miner has run the current turn and sleeps until the next one, and
\* nothing is in flight.
Quiescent ==
  /\ \A n \in Nodes :
       /\ mcPc[n] = "sleep"
       /\ nextTurn[n] > clock
       /\ mcOut[n] = NoBlock
       /\ PbIdle(n)
       /\ returning[n] = <<>>
       /\ heightsBuf[n] = 0
  /\ advise = {}

Tick ==
  /\ clock < MaxTurn
  /\ Synchronous => Quiescent
  /\ clock' = clock + 1
  /\ UNCHANGED <<nextTurn, head, index, mcVars, pbVars, advise, produced,
                 billed, billRead, cached>>

\* The bound is reached and every miner sleeps: the model stops here.
Done ==
  /\ clock = MaxTurn
  /\ Quiescent
  /\ UNCHANGED vars

MainCycle(n) ==
  \/ SyncHead(n) \/ NextTick(n)
  \/ ProduceBlock(n) \/ AdviseNewBlock(n) \/ AdviseDone(n)
  \/ EndTurn(n) \/ Notify(n)

ProcessBlocks(n) ==
  \/ RecvHeight(n)
  \/ RecvFromMainCycle(n)
  \/ \E i \in 1..Len(returning[n]) : RecvFromStash(n, i)
  \/ \E m \in advise : RecvAdvised(n, m)
  \/ CheckAndPushNewBlock(n)
  \/ RunBilling(n)

Next ==
  \/ \E n \in Nodes : MainCycle(n) \/ ProcessBlocks(n)
  \/ \E m \in advise : LoseAdvice(m)
  \/ Tick
  \/ Done

\* Goroutines are scheduled fairly by the Go runtime; the clock is not
\* required to advance.
Fairness == \A n \in Nodes : WF_vars(MainCycle(n)) /\ WF_vars(ProcessBlocks(n))

Spec == Init /\ [][Next]_vars /\ Fairness

-----------------------------------------------------------------------------
(* Properties                                                              *)

TypeOK ==
  /\ clock \in Heights
  /\ nextTurn \in [Nodes -> 1..MaxTurn + 1]
  /\ head \in [Nodes -> Heights]
  /\ \A n \in Nodes : /\ DOMAIN index[n] \subseteq Heights
                      /\ head[n] \in DOMAIN index[n]
  /\ mcPc \in [Nodes -> {"sync", "tick", "sleep", "advise",
                         "advising", "defer", "notify"}]
  /\ mcOut \in [Nodes -> Block \cup {NoBlock}]
  /\ stash \in [Nodes -> Seq(Block)]
  /\ returning \in [Nodes -> Seq(Seq(Block))]
  /\ heightsBuf \in [Nodes -> 0..1]
  /\ pbCur \in [Nodes -> Block \cup {NoBlock}]
  /\ advise \subseteq [from : Nodes, to : Nodes, blk : Block]
  /\ produced \subseteq Block
  /\ pbBill \in [Nodes -> BOOLEAN]
  /\ billed \in [Nodes -> Seq(Nat)]
  /\ billRead \in [Nodes -> SUBSET Heights]
  /\ \A n \in Nodes : cached[n] \subseteq DOMAIN index[n]

\* The blocks of n's index, with the parent each node was linked to.
Chain(n) == {[h |-> x, parent |-> index[n][x].parent] : x \in DOMAIN index[n]}

(* Every node of a miner's block index other than genesis hangs under a   *)
(* parent that is in the index, one count further and strictly lower in   *)
(* height, and that parent is the one the produced block names: pushBlock *)
(* links the new node under the current head without looking at the      *)
(* block's ParentHash, so this holds only if CheckAndPushNewBlock let no  *)
(* block through whose parent is not the head.                            *)
IndexWellFormed ==
  \A n \in Nodes : \A x \in DOMAIN index[n] \ {0} :
    LET p == index[n][x].parent IN
    /\ p \in DOMAIN index[n]
    /\ p < x
    /\ index[n][x].count = index[n][p].count + 1
    /\ [h |-> x, parent |-> p] \in produced

(* No fork: of any two miners, one's chain is a prefix of the other's.    *)
(* Blocks reach a miner by advice, by syncHead or from its stash, in any  *)
(* order, and are checked against the turn the miner is in.               *)
Agreement ==
  \A m, n \in Nodes : Chain(m) \subseteq Chain(n) \/ Chain(n) \subseteq Chain(m)

(* Every block a miner produces ends up in every miner's chain: no miner  *)
(* stashes it forever, drops it as a past block, or rejects its producer. *)
ProducedEventuallyEverywhere ==
  \A b \in Block : b \in produced ~> \A n \in Nodes : b \in Chain(n)

(* Billing runs exactly once per UpdatePeriod blocks of the chain: the    *)
(* counts a miner billed at are UpdatePeriod, 2*UpdatePeriod, ... up to   *)
(* its head count, each once (processBlocks bills after every successful *)
(* CheckAndPushNewBlock whose head count is a multiple of UpdatePeriod),  *)
(* whenever a billing that is due has run.                                *)
BillingOncePerPeriod ==
  \A n \in Nodes :
    ~pbBill[n] =>
      billed[n] = [i \in 1..(HeadCount(n) \div UpdatePeriod) |-> i * UpdatePeriod]

(* The blocks a billing charges are exactly the UpdatePeriod blocks of    *)
(* the miner's chain ending at the head count it billed at, each once,    *)
(* although the main cycle's pruneBlockCache may drop their bodies before *)
(* or while processBlocks walks them: a pruned body is fetched again from *)
(* the block store with FetchBlock(node.height).                          *)
BillingReadsItsWindow ==
  \A n \in Nodes :
    billed[n] # <<>> =>
      LET c == Last(billed[n])
      IN  billRead[n] = {x \in DOMAIN index[n] :
                           c - UpdatePeriod < index[n][x].count /\
                           index[n][x].count <= c}

-----------------------------------------------------------------------------
(* Refinement of the abstract block log                                    *)

\* A miner's chain read from its index, oldest block first.
ChainSeq(n) == SetToSortSeq(Chain(n), LAMBDA a, b : a.h < b.h)

Log == INSTANCE BlockLog WITH log <- [n \in Nodes |-> ChainSeq(n)],
                              made <- produced

(* The engine implements the abstract block log: whatever the goroutines, *)
(* channels, stashes and clock do, every step either leaves all chains    *)
(* alone, makes one new block for an unused height on an existing block,  *)
(* or extends one miner's chain by one made block whose parent is that    *)
(* chain's last block (mainCycle's produceBlock, and pushBlock reached    *)
(* through CheckAndPushNewBlock).  No step rewrites or forks a chain.     *)
ImplementsBlockLog == Log!Spec

=============================================================================
