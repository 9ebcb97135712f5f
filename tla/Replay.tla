------------------------------- MODULE Replay -------------------------------
(***************************************************************************)
(* Persistence and restart of one miner's chain (src/sqlchain/chain.go).   *)
(*   - CheckAndPushNewBlock replays a peer's block into the SQL state and  *)
(*     then calls pushBlock, which puts the block into the block store     *)
(*     (bdb) and only then swaps the head and adds the index node.         *)
(*   - NewChainWithContext rebuilds the index by iterating the BLCK keys   *)
(*     (tag, big-endian height, hash: height order) and takes the last     *)
(*     block as head; an empty store gets the genesis block.               *)
(* The process may crash between any two steps: what is in memory (head,  *)
(* index) is lost, the block store and the SQL state (SQLite) stay.  A    *)
(* put may fail (StoreFaults).  Blocks are [h, parent] with the parent     *)
(* named by its height; blocks offered by peers are arbitrary.             *)
(***************************************************************************)
EXTENDS Integers, Sequences, FiniteSets, SequencesExt

CONSTANTS
  MaxH,        \* highest block height offered
  MaxCrashes,  \* bound on crashes
  MaxReplays,  \* bound on blocks replayed into the SQL state
  StoreFaults  \* TRUE: bdb.Put may return an error

ASSUME MaxH \in Nat \ {0} /\ MaxCrashes \in Nat /\ MaxReplays \in Nat
ASSUME StoreFaults \in BOOLEAN

Block   ==
  {b \in [h : 1..MaxH, parent : 0..MaxH-1] : b.parent < b.h}
Genesis == [h |-> 0, parent |-> -1]
NoBlock == [h |-> -1, parent |-> -1]

VARIABLES
  up,       \* the chain object exists (NewChainWithContext succeeded)
  store,    \* blocks in bdb under their BLCK key
  head,     \* rt.head (in memory)
  index,    \* blockIndex (in memory)
  applied,  \* blocks replayed into the SQL state, in order (durable)
  pc,       \* "replayed": between ReplayBlock and the put; "stored":
            \* between the put and setHead
  cur,      \* the block being pushed
  crashes   \* crashes so far

vars == <<up, store, head, index, applied, pc, cur, crashes>>

-----------------------------------------------------------------------------
\* The order of BLCK keys: height, then hash (the parent stands in for the
\* hash of two blocks at one height).
KeyLess(a, b) == a.h < b.h \/ (a.h = b.h /\ a.parent < b.parent)

StoreSeq == SetToSortSeq(store, KeyLess)

\* One iteration of the rebuild loop of NewChainWithContext.  `err' is
\* set by the first failing block and stops the loop (return).
RebuildStep(acc, b) ==
  IF acc.err # "none" THEN acc
  ELSE CASE acc.last = NoBlock ->
              IF b = Genesis \* VerifyAsGenesis
              THEN [acc EXCEPT !.last = b, !.index = {b}]
              ELSE [acc EXCEPT !.err = "genesis"]
         [] b.parent = acc.last.h ->           \* parent is the previous
              [acc EXCEPT !.last = b, !.index = @ \cup {b}]
         [] \E x \in acc.index : x.h = b.parent -> \* lookupNode(parent)
              [acc EXCEPT !.last = b, !.index = @ \cup {b}]
         [] OTHER -> [acc EXCEPT !.err = "parent"]   \* ErrParentNotFound

Rebuild(s) ==
  FoldLeft(RebuildStep, [err |-> "none", last |-> NoBlock, index |-> {}], s)

-----------------------------------------------------------------------------
Init ==
  /\ up = FALSE
  /\ store = {}
  /\ head = NoBlock
  /\ index = {}
  /\ applied = <<>>
  /\ pc = "idle"
  /\ cur = NoBlock
  /\ crashes = 0

\* A mutation: genesis() replays the genesis block into the SQL state.
StartGenesisReplayed ==
  /\ ~up
  /\ store = {}
  /\ store' = {Genesis}
  /\ head' = Genesis
  /\ index' = {Genesis}
  /\ up' = TRUE
  /\ applied' = Append(applied, Genesis)
  /\ UNCHANGED <<pc, cur, crashes>>

\* genesis(): the configured block passes VerifyAsGenesis and pushBlock
\* puts it, makes it the head and indexes it.  It is not replayed.
PushGenesis ==
  /\ store' = {Genesis}
  /\ head' = Genesis
  /\ index' = {Genesis}

\* NewChainWithContext on an empty store: genesis().  A failed put makes
\* NewChainWithContext return the error, and the miner stays down.
StartGenesis ==
  /\ ~up
  /\ store = {}
  /\ PushGenesis
  /\ up' = TRUE
  /\ UNCHANGED <<applied, pc, cur, crashes>>

\* NewChainWithContext on a non-empty store: rebuild the index; the last
\* block becomes the head (setHead).  A failed rebuild returns an error and
\* the process exits, leaving everything as it was.
StartRebuild ==
  /\ ~up
  /\ store # {}
  /\ LET r == Rebuild(StoreSeq)
     IN  IF r.err = "none"
         THEN /\ head' = r.last
              /\ index' = r.index
              /\ up' = TRUE
              /\ UNCHANGED <<store, applied, pc, cur, crashes>>
         ELSE UNCHANGED vars

\* A mutation: the parent check of CheckAndPushNewBlock is missing.
ParentMismatchDropped(b) == FALSE

\* !block.ParentHash().IsEqual(&head.Head): ErrInvalidBlock.
ParentMismatch(b) == b.parent # head.h

\* CheckAndPushNewBlock on a peer's block: already applied -> nil; parent
\* mismatch -> ErrInvalidBlock; otherwise ReplayBlockWithContext, then
\* pushBlock (next step).
CheckAndPushNewBlock(b) ==
  /\ up
  /\ pc = "idle"
  /\ b # head
  /\ ~ParentMismatch(b)
  /\ Len(applied) < MaxReplays
  /\ applied' = Append(applied, b)
  /\ pc' = "replayed"
  /\ cur' = b
  /\ UNCHANGED <<up, store, head, index, crashes>>

\* A mutation: the head is swapped even when the put failed.
PushBlockHeadFirst ==
  /\ up
  /\ pc = "replayed"
  /\ \/ store' = store \cup {cur}
     \/ StoreFaults /\ UNCHANGED store
  /\ head' = cur
  /\ index' = index \cup {cur}
  /\ pc' = "idle"
  /\ cur' = NoBlock
  /\ UNCHANGED <<up, applied, crashes>>

\* pushBlock: bdb.Put; on error return it with nothing changed.
PushBlock ==
  /\ up
  /\ pc = "replayed"
  /\ \/ /\ store' = store \cup {cur}
        /\ pc' = "stored"
        /\ UNCHANGED cur
     \/ /\ StoreFaults
        /\ UNCHANGED store
        /\ pc' = "idle"
        /\ cur' = NoBlock
  /\ UNCHANGED <<up, head, index, applied, crashes>>

\* pushBlock after a successful put: setHead, then bi.addBlock.
SetHead ==
  /\ up
  /\ pc = "stored"
  /\ head' = cur
  /\ index' = index \cup {cur}
  /\ pc' = "idle"
  /\ cur' = NoBlock
  /\ UNCHANGED <<up, store, applied, crashes>>

\* The process dies: memory is lost, bdb and the SQL state remain.
Crash ==
  /\ up
  /\ crashes < MaxCrashes
  /\ up' = FALSE
  /\ head' = NoBlock
  /\ index' = {}
  /\ pc' = "idle"
  /\ cur' = NoBlock
  /\ crashes' = crashes + 1
  /\ UNCHANGED <<store, applied>>

\* The bounds of the model are reached: no more crashes, and no block can
\* be replayed (the replay bound, or the head at the highest height).
Done ==
  /\ up
  /\ pc = "idle"
  /\ crashes = MaxCrashes
  /\ Len(applied) = MaxReplays \/ head.h = MaxH
  /\ UNCHANGED vars

Next ==
  \/ StartGenesis \/ StartRebuild
  \/ \E b \in Block : CheckAndPushNewBlock(b)
  \/ PushBlock \/ SetHead \/ Crash \/ Done

Spec == Init /\ [][Next]_vars

-----------------------------------------------------------------------------
TypeOK ==
  /\ up \in BOOLEAN
  /\ store \subseteq Block \cup {Genesis}
  /\ head \in Block \cup {Genesis, NoBlock}
  /\ index \subseteq Block \cup {Genesis}
  /\ applied \in Seq(Block)
  /\ pc \in {"idle", "replayed", "stored"}
  /\ crashes \in 0..MaxCrashes

(* Whatever the crashes and failed puts, the block store holds a single  *)
(* chain from genesis: in key order every block's parent is the block    *)
(* before it.  So the rebuild of NewChainWithContext always takes its    *)
(* fast path and never meets ErrParentNotFound or two blocks at a height. *)
StoreIsChain ==
  LET s == StoreSeq
  IN  store # {} =>
        /\ s[1] = Genesis
        /\ \A i \in 2..Len(s) : s[i].parent = s[i-1].h

(* The head and index in memory are always those a restart would rebuild *)
(* from the block store: the last stored block and every stored block.   *)
(* Hence a crash at any point and a restart give back the same head and  *)
(* index (spec 8.3), and a failed put leaves the head where it was.      *)
(* The one exception is the step between the put and setHead, where the  *)
(* stored block is not yet head; a crash there makes it head on restart.  *)
HeadIsDurable ==
  up /\ pc # "stored" => /\ head = StoreSeq[Len(StoreSeq)]
                         /\ index = store

(* The SQL state has applied exactly the stored blocks after genesis, in *)
(* chain order, each once: the state a restarted miner serves queries    *)
(* from matches its chain.                                               *)
StateMatchesChain ==
  pc = "idle" /\ store # {} => applied = Tail(StoreSeq)

=============================================================================
