------------------------------ MODULE AckIndex ------------------------------
(***************************************************************************)
(* The acknowledgement index of one miner (peer 0) and the paths through  *)
(* src/sqlchain/chain.go that write it:                                    *)
(*   - Query serves a request, and the worker records the response with    *)
(*     AddResponse in the bucket of the request's height;                  *)
(*   - VerifyAndPushAckedQuery checks the ack against the TTL window, then *)
(*     pushAckedQuery registers it (an RPC goroutine, two steps);          *)
(*   - runCurrentTurn produces a block on this miner's turns, carrying     *)
(*     the committed queries and the snapshot ai.acks(height), and its     *)
(*     deferred tail advances nextTurn and calls ai.advance(minValid);     *)
(*   - processBlocks waits for a block's turn, drops a past one, and       *)
(*     CheckAndPushNewBlock/pushBlock extends the head, adds the block's   *)
(*     responses and removes its acks.                                     *)
(* ackindex.go and runtime.go are not in src/: the index contracts and     *)
(* min-valid-height are taken from spec 4.3.  Peers' blocks carry no query *)
(* of this miner; every block of the committee is delivered, in order.    *)
(***************************************************************************)
EXTENDS Integers, Sequences, FiniteSets

CONSTANTS
  N,        \* peers in the committee; this miner is peer 0
  Q,        \* query TTL in turns
  MaxTurn,  \* last turn run
  Queries   \* queries this miner serves (each acked at most once)

ASSUME N \in Nat \ {0} /\ Q \in Nat /\ MaxTurn \in Nat \ {0}

Me   == 0
None == -1

VARIABLES
  nextTurn,  \* rt.nextTurn
  head,      \* rt.head.Height
  lastMade,  \* height of the newest block of the committee (peers build on it)
  reqH,      \* height of each query's request timestamp (None: not served)
  respH,     \* height of each query's response timestamp
  tracked,   \* queries served and not yet taken by CommitEx
  resps,     \* queries whose response is in the ack index
  acks,      \* queries whose ack is registered in the ack index
  ackPc,     \* VerifyAndPushAckedQuery of each query's ack
  inbox,     \* blocks on their way to CheckAndPushNewBlock, in turn order
  chain      \* blocks pushed, oldest first

vars == <<nextTurn, head, lastMade, reqH, respH, tracked, resps, acks, ackPc,
          inbox, chain>>

Block == [h : 1..MaxTurn, parent : 0..MaxTurn, txs : SUBSET Queries,
          acks : SUBSET Queries]

-----------------------------------------------------------------------------
\* The producer of height h is peers[h mod N] (spec 4.4).
Producer(h) == h % N

\* runtime.getMinValidHeight: head.height - query TTL (spec 4.3).
MinValidHeight == head - Q

\* runtime.queryTimeIsExpired(t): height-of(t) below min-valid-height.
IsExpired(h) == h < MinValidHeight

\* ai.acks(h): registered acks whose bucket is below h (spec 4.3).
AcksBelow(h) == {q \in acks : reqH[q] < h}

\* ai.advance(m): drop every bucket below m, responses and acks alike.
Advance(s, m) == {q \in s : reqH[q] >= m}

-----------------------------------------------------------------------------
Init ==
  /\ nextTurn = 1
  /\ head = 0
  /\ lastMade = 0
  /\ reqH = [q \in Queries |-> None]
  /\ respH = [q \in Queries |-> None]
  /\ tracked = {}
  /\ resps = {}
  /\ acks = {}
  /\ ackPc = [q \in Queries |-> "none"]
  /\ inbox = <<>>
  /\ chain = <<>>

\* A mutation: the request is stamped with the height of the coming tick.
ServeAtTick(q) ==
  /\ reqH[q] = None
  /\ nextTurn <= MaxTurn
  /\ reqH' = [reqH EXCEPT ![q] = nextTurn]
  /\ respH' = [respH EXCEPT ![q] = nextTurn]
  /\ tracked' = tracked \cup {q}
  /\ resps' = resps \cup {q}
  /\ UNCHANGED <<nextTurn, head, lastMade, acks, ackPc, inbox, chain>>

\* Query: SQL state runs the request at height-of(now) = nextTurn-1 and
\* tracks it; the response is signed then or after the tick.  The worker
\* passes the response header to AddResponse (bucket of the request).
Serve(q) ==
  /\ reqH[q] = None
  /\ nextTurn <= MaxTurn
  /\ reqH' = [reqH EXCEPT ![q] = nextTurn - 1]
  /\ respH' \in {[respH EXCEPT ![q] = t] : t \in {nextTurn - 1, nextTurn}}
  /\ tracked' = tracked \cup {q}
  /\ resps' = resps \cup {q}
  /\ UNCHANGED <<nextTurn, head, lastMade, acks, ackPc, inbox, chain>>

\* VerifyAndPushAckedQuery: the expiry check on the RESPONSE timestamp
\* (ErrQueryExpired), then ack.Verify (taken to succeed).
CheckAck(q) ==
  /\ reqH[q] # None
  /\ ackPc[q] = "none"
  /\ ackPc' = [ackPc EXCEPT ![q] = IF IsExpired(respH[q]) THEN "done"
                                                          ELSE "checked"]
  /\ UNCHANGED <<nextTurn, head, lastMade, reqH, respH, tracked, resps, acks,
                 inbox, chain>>

\* Chain.register: ai.register in the request's bucket, which fails
\* when the response is absent.
Register(q) == IF q \in resps THEN acks \cup {q} ELSE acks

\* pushAckedQuery: register in the bucket of the REQUEST timestamp, which
\* fails when the response is absent; then tdb.Put (the query store is
\* only read back for logging, so it is not tracked).
PushAck(q) ==
  /\ ackPc[q] = "checked"
  /\ acks' = Register(q)
  /\ ackPc' = [ackPc EXCEPT ![q] = "done"]
  /\ UNCHANGED <<nextTurn, head, lastMade, reqH, respH, tracked, resps,
                 inbox, chain>>

\* produceBlock at height k: CommitEx hands over the tracked queries; with
\* none, no block.  Otherwise the block names the head as parent, carries
\* ai.acks(k), and is sent on c.blocks.
ProduceBlock(k) ==
  \/ /\ tracked = {}
     /\ UNCHANGED <<lastMade, tracked, inbox>>
  \/ /\ tracked # {}
     /\ inbox' = Append(inbox, [h |-> k, parent |-> head, txs |-> tracked,
                                acks |-> AcksBelow(k)])
     /\ lastMade' = k
     /\ tracked' = {}

\* A peer's turn: it makes a block on the newest block, or has no query.
PeerBlock(k) ==
  \/ UNCHANGED <<lastMade, inbox>>
  \/ /\ inbox' = Append(inbox, [h |-> k, parent |-> lastMade, txs |-> {},
                                acks |-> {}])
     /\ lastMade' = k

\* runCurrentTurn at the tick of turn k = nextTurn, with its deferred tail:
\* setNextTurn, then ai.advance(getMinValidHeight()).
RunCurrentTurn ==
  LET k == nextTurn IN
  /\ k <= MaxTurn
  /\ IF Producer(k) = Me THEN ProduceBlock(k)
                         ELSE PeerBlock(k) /\ UNCHANGED tracked
  /\ nextTurn' = k + 1
  /\ resps' = Advance(resps, MinValidHeight)
  /\ acks' = Advance(acks, MinValidHeight)
  /\ UNCHANGED <<head, reqH, respH, ackPc, chain>>

\* A mutation: remove does not delete the ack.
RemoveAcksSkipped(b) == acks

\* Chain.remove for every ack of a block (pushBlock's loop).
RemoveAcks(b) == acks \ b.acks

\* CheckAndPushNewBlock: a block whose parent is not the head is rejected
\* (ErrInvalidBlock).
ParentMismatch(b) == b.parent # head

\* pushBlock after bdb.Put: swap the head, then AddResponse for every
\* query tx and remove for every ack of the block (best effort).
PushBlock(b) ==
  /\ head' = b.h
  /\ chain' = Append(chain, b)
  /\ resps' = resps \cup b.txs
  /\ acks' = RemoveAcks(b)

\* processBlocks takes the oldest block once its turn has ended (a block
\* of the running turn waits in the stash): a past block is dropped (the
\* fork TODO), a current one is checked and pushed.
Ingest ==
  LET b == Head(inbox) IN
  /\ inbox # <<>>
  /\ b.h <= nextTurn - 1
  /\ inbox' = Tail(inbox)
  /\ IF b.h = nextTurn - 1 /\ ~ParentMismatch(b)
     THEN PushBlock(b)
     ELSE UNCHANGED <<head, chain, resps, acks>>
  /\ UNCHANGED <<nextTurn, lastMade, reqH, respH, tracked, ackPc>>

\* The last turn has run, every block is ingested and every ack answered.
Done ==
  /\ nextTurn > MaxTurn
  /\ inbox = <<>>
  /\ \A q \in Queries : reqH[q] # None => ackPc[q] = "done"
  /\ UNCHANGED vars

Next ==
  \/ \E q \in Queries : Serve(q) \/ CheckAck(q) \/ PushAck(q)
  \/ RunCurrentTurn \/ Ingest \/ Done

Spec == Init /\ [][Next]_vars

-----------------------------------------------------------------------------
TypeOK ==
  /\ nextTurn \in 1..MaxTurn+1
  /\ head \in 0..MaxTurn /\ lastMade \in 0..MaxTurn
  /\ reqH \in [Queries -> {None} \cup 0..MaxTurn-1]
  /\ respH \in [Queries -> {None} \cup 0..MaxTurn]
  /\ tracked \cup resps \cup acks \subseteq Queries
  /\ ackPc \in [Queries -> {"none", "checked", "done"}]
  /\ inbox \in Seq(Block) /\ chain \in Seq(Block)

(* An ack goes into at most one block of the chain.  pushBlock removes it *)
(* from the index.  A later own block whose snapshot was taken before     *)
(* that removal is made a turn later, and by then processBlocks treats    *)
(* the earlier block as past and drops it, so the two never both reach   *)
(* the chain.                                                             *)
AckInChainOnce ==
  \A q \in Queries :
    Cardinality({i \in 1..Len(chain) : q \in chain[i].acks}) <= 1

(* Spec 4.3 and 8: an ack whose request height is below head.height minus *)
(* the query TTL is expired and rejected.  So every ack a block carries   *)
(* was inside the window [head - Q, head] when the block was made on that *)
(* head (its parent).                                                     *)
AcksWithinWindow ==
  \A i \in 1..Len(chain) :
    \A q \in chain[i].acks : reqH[q] >= chain[i].parent - Q

=============================================================================
