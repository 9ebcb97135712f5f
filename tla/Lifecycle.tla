----------------------------- MODULE Lifecycle ------------------------------
(***************************************************************************)
(* Start, Stop and cancellation of one miner's chain (src/sqlchain/       *)
(* chain.go).  Start spawns processBlocks, runs sync() on the caller's    *)
(* goroutine, then spawns mainCycle.  Stop cancels the runtime context,   *)
(* waits for the workers and closes the stores.  Every goroutine that     *)
(* blocks is modelled with its select:                                    *)
(*   - senders on c.blocks (syncHead, produceBlock, returnStash) also     *)
(*     wait on ctx.Done (returnStash on the derived context cld);         *)
(*   - the deferred c.heights send of runCurrentTurn waits on nothing;    *)
(*   - processBlocks' select takes any ready case, ctx.Done included.     *)
(* Blocks are reduced to their height: what the ingest loop does with a  *)
(* block depends only on how it compares with nextTurn-1.  Whether a      *)
(* block that reaches CheckAndPushNewBlock is accepted is a free choice   *)
(* here (its checks are modelled in SQLChain).                            *)
(***************************************************************************)
EXTENDS Integers, Sequences, SequencesExt

CONSTANTS
  N,             \* peers in the committee; this miner is peer 0
  MaxTurn,       \* last value of the clock
  StartHeights,  \* the values height-of(now) may have when Start is called
  InitNextTurns, \* the values the runtime's next turn may have at Start
  IngestModes    \* timing regimes of a run: TRUE, a turn never ends while
                 \* processBlocks still has the previous height
                 \* notification or a block in hand; FALSE, no such bound

ASSUME N \in Nat \ {0} /\ StartHeights \subseteq 0..MaxTurn
ASSUME InitNextTurns \subseteq 1..MaxTurn+1 /\ IngestModes \subseteq BOOLEAN

Me      == 0
NoBlock == -1

VARIABLES
  keepsUp,    \* the timing regime of this behaviour (IngestModes)
  clock,      \* height-of(now)
  nextTurn,   \* rt.nextTurn
  head,       \* rt.head.Height
  ctxDone,    \* the runtime context (and every context derived from it)
              \* has been cancelled
  stPc,       \* the goroutine that called Start
  stOut,      \* block sync()'s syncHead is sending on c.blocks
  syncH,      \* `height' read by sync()'s outer loop
  mcPc,       \* mainCycle
  mcOut,      \* block mainCycle is sending on c.blocks
  pbPc,       \* processBlocks
  pbCur,      \* block processBlocks is checking
  stash,      \* processBlocks' stash
  returning,  \* one sequence of blocks per live returnStash goroutine
  heightsBuf, \* values in c.heights (capacity 1)
  stopPc      \* the goroutine that calls Stop

vars == <<keepsUp, clock, nextTurn, head, ctxDone, stPc, stOut, syncH, mcPc, mcOut,
          pbPc, pbCur, stash, returning, heightsBuf, stopPc>>

-----------------------------------------------------------------------------
\* runtime.isMyTurn, with the producer of height h being peers[h mod N]
\* (runtime.go is not part of src/; spec 4.4).
IsMyTurn == nextTurn % N = Me

\* The blocks syncHead can deliver for FetchBlock(nextTurn-1): nothing
\* (every peer failed or N = 1), the wanted block, or a peer's stale head
\* that is no further than ours.
SyncHeadResults ==
  IF head < nextTurn - 1 /\ N > 1
  THEN {NoBlock, nextTurn - 1, head}
  ELSE {NoBlock}

-----------------------------------------------------------------------------
Init ==
  /\ keepsUp \in IngestModes
  /\ clock \in StartHeights
  /\ nextTurn \in InitNextTurns
  /\ head = 0
  /\ ctxDone = FALSE
  /\ stPc = "spawnPB"
  /\ stOut = NoBlock
  /\ syncH = 0
  /\ mcPc = "none"
  /\ mcOut = NoBlock
  /\ pbPc = "none"
  /\ pbCur = NoBlock
  /\ stash = <<>>
  /\ returning = <<>>
  /\ heightsBuf = 0
  /\ stopPc = "idle"

(* --- Start and sync ---------------------------------------------------- *)

\* Start: c.rt.goFunc(c.processBlocks).
StartProcessBlocks ==
  /\ stPc = "spawnPB"
  /\ stPc' = "sync"
  /\ pbPc' = "select"
  /\ UNCHANGED <<keepsUp, clock, nextTurn, head, ctxDone, stOut, syncH, mcPc, mcOut,
                 pbCur, stash, returning, heightsBuf, stopPc>>

\* sync(), outer loop: read height-of(now) and leave when nextTurn is
\* past it; otherwise enter the inner loop, whose bound stays this height.
SyncLoop ==
  /\ stPc = "sync"
  /\ syncH' = clock
  /\ stPc' = IF nextTurn > clock THEN "spawnMC" ELSE "syncInner"
  /\ UNCHANGED <<keepsUp, clock, nextTurn, head, ctxDone, stOut, mcPc, mcOut, pbPc,
                 pbCur, stash, returning, heightsBuf, stopPc>>

\* sync(), inner loop: while nextTurn <= height { syncHead() }.
SyncInner ==
  /\ stPc = "syncInner"
  /\ IF nextTurn <= syncH
     THEN \E b \in SyncHeadResults :
            /\ stOut' = b
            /\ stPc' = IF b = NoBlock THEN "syncInner" ELSE "syncSend"
     ELSE /\ stPc' = "sync"
          /\ UNCHANGED stOut
  /\ UNCHANGED <<keepsUp, clock, nextTurn, head, ctxDone, syncH, mcPc, mcOut, pbPc,
                 pbCur, stash, returning, heightsBuf, stopPc>>

\* syncHead's select, ctx.Done case: give up the fetched block.
SyncSendAbort ==
  /\ stPc = "syncSend"
  /\ ctxDone
  /\ stPc' = "syncInner"
  /\ stOut' = NoBlock
  /\ UNCHANGED <<keepsUp, clock, nextTurn, head, ctxDone, syncH, mcPc, mcOut, pbPc,
                 pbCur, stash, returning, heightsBuf, stopPc>>

\* Start: c.rt.goFunc(c.mainCycle); c.rt.startService(c); return.
StartMainCycle ==
  /\ stPc = "spawnMC"
  /\ stPc' = "started"
  /\ mcPc' = "loop"
  /\ UNCHANGED <<keepsUp, clock, nextTurn, head, ctxDone, stOut, syncH, mcOut, pbPc,
                 pbCur, stash, returning, heightsBuf, stopPc>>

(* --- mainCycle ------------------------------------------------------- *)

\* A mutation: the loop has no ctx.Done case.
MainCycleLoopNoCancel ==
  /\ mcPc = "loop"
  /\ \E b \in SyncHeadResults :
       /\ mcOut' = b
       /\ mcPc' = IF b = NoBlock THEN "tick" ELSE "syncSend"
  /\ UNCHANGED <<keepsUp, clock, nextTurn, head, ctxDone, stPc, stOut, syncH, pbPc,
                 pbCur, stash, returning, heightsBuf, stopPc>>

\* Top of the loop: return on ctx.Done, else syncHead, which may have a
\* fetched block to send.
MainCycleLoop ==
  /\ mcPc = "loop"
  /\ IF ctxDone
     THEN /\ mcPc' = "exited"
          /\ UNCHANGED mcOut
     ELSE \E b \in SyncHeadResults :
            /\ mcOut' = b
            /\ mcPc' = IF b = NoBlock THEN "tick" ELSE "syncSend"
  /\ UNCHANGED <<keepsUp, clock, nextTurn, head, ctxDone, stPc, stOut, syncH, pbPc,
                 pbCur, stash, returning, heightsBuf, stopPc>>

\* syncHead's select, ctx.Done case: return from syncHead; nextTick runs.
MainSyncAbort ==
  /\ mcPc = "syncSend"
  /\ ctxDone
  /\ mcPc' = "tick"
  /\ mcOut' = NoBlock
  /\ UNCHANGED <<keepsUp, clock, nextTurn, head, ctxDone, stPc, stOut, syncH, pbPc,
                 pbCur, stash, returning, heightsBuf, stopPc>>

\* nextTick: sleep until the target of nextTurn, or run the turn now.
\* time.Sleep does not look at ctx; after Stop the rest of the sleep is
\* taken as one step rather than by moving the bounded clock.
NextTick ==
  \/ /\ mcPc = "tick"
     /\ mcPc' = IF clock < nextTurn THEN "sleep" ELSE "turn"
  \/ /\ mcPc = "sleep"
     /\ clock >= nextTurn \/ ctxDone
     /\ mcPc' = "loop"
  /\ UNCHANGED <<keepsUp, clock, nextTurn, head, ctxDone, stPc, stOut, syncH, mcOut,
                 pbPc, pbCur, stash, returning, heightsBuf, stopPc>>

\* runCurrentTurn up to the defer: on its turn produceBlock sends the block
\* (height = its turn) on c.blocks, unless CommitEx found no query or the
\* context is already cancelled (the tracker wait returns ctx.Err()).
RunCurrentTurn ==
  /\ mcPc = "turn"
  /\ \/ /\ IsMyTurn
        /\ ~ctxDone
        /\ mcOut' = nextTurn
        /\ mcPc' = "produceSend"
     \/ /\ mcPc' = "defer"
        /\ UNCHANGED mcOut
  /\ UNCHANGED <<keepsUp, clock, nextTurn, head, ctxDone, stPc, stOut, syncH, pbPc,
                 pbCur, stash, returning, heightsBuf, stopPc>>

\* produceBlock's select, ctx.Done case: return the error; the defer runs.
ProduceSendAbort ==
  /\ mcPc = "produceSend"
  /\ ctxDone
  /\ mcPc' = "defer"
  /\ mcOut' = NoBlock
  /\ UNCHANGED <<keepsUp, clock, nextTurn, head, ctxDone, stPc, stOut, syncH, pbPc,
                 pbCur, stash, returning, heightsBuf, stopPc>>

\* The AdviseNewBlock fan-out: one goroutine per peer, each call bound to
\* the runtime context, then wg.Wait.
AdviseFanOut ==
  /\ mcPc = "advise"
  /\ mcPc' = "defer"
  /\ UNCHANGED <<keepsUp, clock, nextTurn, head, ctxDone, stPc, stOut, syncH, mcOut,
                 pbPc, pbCur, stash, returning, heightsBuf, stopPc>>

\* runCurrentTurn's defer: stat, pruneBlockCache, setNextTurn, ai.advance,
\* then c.heights <- head; a full buffer blocks the send.
EndTurn ==
  /\ mcPc = "defer"
  /\ nextTurn' = nextTurn + 1
  /\ IF heightsBuf = 0
     THEN /\ heightsBuf' = 1
          /\ mcPc' = "loop"
     ELSE /\ mcPc' = "heights"
          /\ UNCHANGED heightsBuf
  /\ UNCHANGED <<keepsUp, clock, head, ctxDone, stPc, stOut, syncH, mcOut, pbPc,
                 pbCur, stash, returning, stopPc>>

\* The blocked c.heights send completes once the buffer has room.
NotifyHeight ==
  /\ mcPc = "heights"
  /\ heightsBuf = 0
  /\ heightsBuf' = 1
  /\ mcPc' = "loop"
  /\ UNCHANGED <<keepsUp, clock, nextTurn, head, ctxDone, stPc, stOut, syncH, mcOut,
                 pbPc, pbCur, stash, returning, stopPc>>

(* --- processBlocks and returnStash --------------------------------- *)

\* processBlocks' case block := <-c.blocks, after the block is taken:
\* stash a future block, drop a past one, check the current one.
Ingest(b) ==
  CASE b > nextTurn - 1 -> /\ stash' = Append(stash, b)
                           /\ UNCHANGED <<pbPc, pbCur>>
    [] b < nextTurn - 1 -> UNCHANGED <<stash, pbPc, pbCur>>
    [] OTHER            -> /\ pbPc' = "busy"
                           /\ pbCur' = b
                           /\ UNCHANGED stash

\* The select takes the block of the Start goroutine's syncHead.
RecvFromSync ==
  /\ pbPc = "select"
  /\ stPc = "syncSend"
  /\ Ingest(stOut)
  /\ stPc' = "syncInner"
  /\ stOut' = NoBlock
  /\ UNCHANGED <<keepsUp, clock, nextTurn, head, ctxDone, syncH, mcPc, mcOut,
                 returning, heightsBuf, stopPc>>

\* The select takes mainCycle's block: a synced one (syncHead returns) or
\* its own (produceBlock goes on to the advise fan-out).
RecvFromMainCycle ==
  /\ pbPc = "select"
  /\ mcPc \in {"syncSend", "produceSend"}
  /\ Ingest(mcOut)
  /\ mcPc' = IF mcPc = "syncSend" THEN "tick" ELSE "advise"
  /\ mcOut' = NoBlock
  /\ UNCHANGED <<keepsUp, clock, nextTurn, head, ctxDone, stPc, stOut, syncH,
                 returning, heightsBuf, stopPc>>

\* A mutation: a returnStash goroutine does not end after its last block.
RecvFromStashNoEnd(i) ==
  /\ pbPc = "select"
  /\ Ingest(Head(returning[i]))
  /\ returning' = [returning EXCEPT ![i] = Tail(@)]
  /\ UNCHANGED <<keepsUp, clock, nextTurn, head, ctxDone, stPc, stOut, syncH, mcPc,
                 mcOut, heightsBuf, stopPc>>

\* The select takes the next block of returnStash goroutine i; the
\* goroutine ends after its last block.
RecvFromStash(i) ==
  /\ pbPc = "select"
  /\ Ingest(Head(returning[i]))
  /\ returning' = IF Len(returning[i]) = 1 THEN RemoveAt(returning, i)
                  ELSE [returning EXCEPT ![i] = Tail(@)]
  /\ UNCHANGED <<keepsUp, clock, nextTurn, head, ctxDone, stPc, stOut, syncH, mcPc,
                 mcOut, heightsBuf, stopPc>>

\* A mutation: the heights case is only taken when there is a stash.
RecvHeightOnlyWithStash ==
  /\ pbPc = "select"
  /\ heightsBuf = 1
  /\ stash # <<>>
  /\ heightsBuf' = 0
  /\ returning' = Append(returning, stash)
  /\ stash' = <<>>
  /\ UNCHANGED <<keepsUp, clock, nextTurn, head, ctxDone, stPc, stOut, syncH, mcPc,
                 mcOut, pbPc, pbCur, stopPc>>

\* case h := <-c.heights: hand a non-empty stash to a new returnStash
\* goroutine (wg.Add(1); go returnStash(stash)) and start a new stash.
RecvHeight ==
  /\ pbPc = "select"
  /\ heightsBuf = 1
  /\ heightsBuf' = 0
  /\ IF stash # <<>>
     THEN /\ returning' = Append(returning, stash)
          /\ stash' = <<>>
     ELSE UNCHANGED <<returning, stash>>
  /\ UNCHANGED <<keepsUp, clock, nextTurn, head, ctxDone, stPc, stOut, syncH, mcPc,
                 mcOut, pbPc, pbCur, stopPc>>

\* CheckAndPushNewBlock on the current block, then back to the select.
\* Acceptance is free here; an accepted block extends the head.
CheckAndPushNewBlock ==
  /\ pbPc = "busy"
  /\ \E accepted \in BOOLEAN :
       head' = IF accepted /\ pbCur > head THEN pbCur ELSE head
  /\ pbPc' = "select"
  /\ pbCur' = NoBlock
  /\ UNCHANGED <<keepsUp, clock, nextTurn, ctxDone, stPc, stOut, syncH, mcPc, mcOut,
                 stash, returning, heightsBuf, stopPc>>

\* case <-ctx.Done(): return; the defer calls ccl() and wg.Wait().
ProcessBlocksCancel ==
  /\ pbPc = "select"
  /\ ctxDone
  /\ pbPc' = "wait"
  /\ UNCHANGED <<keepsUp, clock, nextTurn, head, ctxDone, stPc, stOut, syncH, mcPc,
                 mcOut, pbCur, stash, returning, heightsBuf, stopPc>>

\* A mutation: the defer returns without wg.Wait().
ProcessBlocksExitNoWait ==
  /\ pbPc = "wait"
  /\ pbPc' = "exited"

\* wg.Wait() returns once every returnStash goroutine has ended.
ProcessBlocksExit ==
  /\ pbPc = "wait"
  /\ returning = <<>>
  /\ pbPc' = "exited"

\* returnStash's select, cld.Done case (cld is derived from the runtime
\* context, so it is done as soon as Stop cancels): abandon the rest.
ReturnStashAbort(i) ==
  /\ ctxDone
  /\ returning' = RemoveAt(returning, i)

(* --- Stop --------------------------------------------------------------- *)

\* Stop, called by the owner of the chain once Start is under way (it may
\* still be in sync()): c.rt.stop cancels the context ...
StopCancel ==
  /\ stopPc = "idle"
  /\ stPc # "spawnPB"
  /\ ctxDone' = TRUE
  /\ stopPc' = "waiting"
  /\ UNCHANGED <<keepsUp, clock, nextTurn, head, stPc, stOut, syncH, mcPc, mcOut,
                 pbPc, pbCur, stash, returning, heightsBuf>>

\* ... waits for the goroutines spawned by goFunc so far, then Stop closes
\* bdb, tdb and the SQL state and returns.
StopReturn ==
  /\ stopPc = "waiting"
  /\ mcPc \in {"none", "exited"}
  /\ pbPc = "exited"
  /\ stopPc' = "stopped"
  /\ UNCHANGED <<keepsUp, clock, nextTurn, head, ctxDone, stPc, stOut, syncH, mcPc,
                 mcOut, pbPc, pbCur, stash, returning, heightsBuf>>

(* --- time and the specification ---------------------------------------- *)

\* Time passes.  Under keepsUp a new turn only begins when mainCycle
\* is asleep before its target, not started (and Start is not between
\* sync() and spawning it) or gone, and processBlocks holds neither a
\* block nor an unread height: no goroutine falls a turn behind.
Tick ==
  /\ clock < MaxTurn
  /\ keepsUp => /\ \/ mcPc = "sleep" /\ clock < nextTurn
                   \/ mcPc = "exited"
                   \/ mcPc = "none" /\ stPc # "spawnMC"
                /\ pbPc # "busy"
                /\ heightsBuf = 0
  /\ clock' = clock + 1
  /\ UNCHANGED <<keepsUp, nextTurn, head, ctxDone, stPc, stOut, syncH, mcPc, mcOut,
                 pbPc, pbCur, stash, returning, heightsBuf, stopPc>>

\* Stop has returned: nothing is left to run.
Done ==
  /\ stopPc = "stopped"
  /\ UNCHANGED vars

StartGoroutine ==
  StartProcessBlocks \/ SyncLoop \/ SyncInner \/ SyncSendAbort \/ StartMainCycle

MainCycle ==
  \/ MainCycleLoop \/ MainSyncAbort \/ NextTick \/ RunCurrentTurn
  \/ ProduceSendAbort \/ AdviseFanOut \/ EndTurn \/ NotifyHeight

ProcessBlocks ==
  \/ RecvFromSync \/ RecvFromMainCycle \/ RecvHeight \/ CheckAndPushNewBlock
  \/ \E i \in 1..Len(returning) : RecvFromStash(i)
  \/ ProcessBlocksCancel
  \/ /\ ProcessBlocksExit
     /\ UNCHANGED <<keepsUp, clock, nextTurn, head, ctxDone, stPc, stOut, syncH, mcPc,
                    mcOut, pbCur, stash, returning, heightsBuf, stopPc>>

ReturnStash(i) ==
  /\ ReturnStashAbort(i)
  /\ UNCHANGED <<keepsUp, clock, nextTurn, head, ctxDone, stPc, stOut, syncH, mcPc,
                 mcOut, pbPc, pbCur, stash, heightsBuf, stopPc>>

StopGoroutine == StopCancel \/ StopReturn

Next ==
  \/ StartGoroutine \/ MainCycle \/ ProcessBlocks \/ StopGoroutine
  \/ \E i \in 1..Len(returning) : ReturnStash(i)
  \/ Tick \/ Done

\* The Go scheduler runs every runnable goroutine: each goroutine that can
\* take a step keeps being able to until it does.  Neither the clock nor
\* the owner's call of Stop is fair; once called, Stop's wait is.  Go's
\* select chooses uniformly among its ready cases, so processBlocks'
\* ctx.Done case, ready at every later select, is eventually chosen even
\* when a sender keeps another case ready: strong fairness.
Fairness ==
  /\ WF_vars(StartGoroutine)
  /\ WF_vars(MainCycle)
  /\ WF_vars(ProcessBlocks)
  /\ SF_vars(ProcessBlocksCancel)
  /\ WF_vars(\E i \in 1..Len(returning) : ReturnStash(i))
  /\ WF_vars(StopReturn)

Spec == Init /\ [][Next]_vars /\ Fairness

-----------------------------------------------------------------------------
Pcs == {"none", "loop", "syncSend", "tick", "sleep", "turn", "produceSend",
        "advise", "defer", "heights", "exited"}

TypeOK ==
  /\ clock \in 0..MaxTurn
  /\ nextTurn \in 1..MaxTurn+2
  /\ head \in 0..MaxTurn+1
  /\ ctxDone \in BOOLEAN
  /\ stPc \in {"spawnPB", "sync", "syncInner", "syncSend", "spawnMC",
               "started"}
  /\ mcPc \in Pcs
  /\ pbPc \in {"none", "select", "busy", "wait", "exited"}
  /\ heightsBuf \in 0..1
  /\ \A i \in 1..Len(returning) : returning[i] # <<>>
  /\ stopPc \in {"idle", "waiting", "stopped"}

(* Stop returns: once Stop has cancelled the context, mainCycle and       *)
(* processBlocks (after its returnStash goroutines) both exit, so the     *)
(* runtime's wait ends and the stores are closed.  It depends on every    *)
(* blocking send and receive of the two loops also watching ctx.Done.     *)
StopTerminates == stopPc = "waiting" ~> stopPc = "stopped"

(* Stop returns in every behaviour whose ingest loop keeps up with the    *)
(* turns: the hang of the unguarded c.heights send at the end of          *)
(* runCurrentTurn needs processBlocks to fall a notification behind.      *)
StopTerminatesKeepingUp == keepsUp => StopTerminates

(* mainCycle is never left blocked on the c.heights send while the chain *)
(* runs: processBlocks, whatever it is doing, eventually takes the        *)
(* pending height from the one-slot buffer, so the tick loop goes on even *)
(* when it ran two turns before the ingest loop read one notification.    *)
MainCycleNotBlocked ==
  (mcPc = "heights" /\ ~ctxDone) ~> (mcPc # "heights" \/ ctxDone)


=============================================================================
