------------------------------ MODULE Billing -------------------------------
(***************************************************************************)
(* Chain.billing (src/sqlchain/chain.go): starting at the new head, walk   *)
(* back up to UpdatePeriod nodes and charge, per user and per miner,       *)
(*   - every query tx: the rows read (read query) or the rows affected,    *)
(*     credited to the miner that signed the response;                     *)
(*   - every failed request: its number of queries, credited to the miner  *)
(*     that signed the block.                                              *)
(* The result is the UpdateBilling header: per user a cost and per miner   *)
(* an income.  The aggregation is a fold over the window; it is checked    *)
(* against a reference that sums the same charges directly.               *)
(***************************************************************************)
EXTENDS Integers, Sequences, FiniteSets, SequencesExt

CONSTANTS
  Users,        \* user accounts (request signees)
  Miners,       \* miner accounts (response and block signees)
  UpdatePeriod, \* c.updatePeriod: length of the billing window
  MaxChain      \* longest chain (newest block first) the window is cut from

ASSUME UpdatePeriod \in Nat \ {0} /\ MaxChain \in Nat \ {0}

\* A query tx: the request's signee, the response's miner, the query type
\* and the counters of the response header.
QueryTx == [user : Users, miner : Miners, read : BOOLEAN,
            rows : {1}, affected : {2}]
\* A failed request: its signee and len(req.Payload.Queries).
FailedReq == [user : Users, queries : {1}]
\* A block: its signee, its query txs and its failed requests (at most one
\* of each, enough for the order of the loop to matter).
BlockBody == [signee : Miners,
              queryTxs : {<<>>} \cup {<<t>> : t \in QueryTx},
              failedReqs : {<<>>} \cup {<<r>> : r \in FailedReq}]

VARIABLES
  chain,   \* blocks from the head back towards genesis
  ran,     \* billing has run
  result   \* [users, miners]: usersMap and minersMap computed by billing

vars == <<chain, ran, result>>

-----------------------------------------------------------------------------
\* f[k] += c on a Go map (a missing key reads as 0).
AddTo(f, k, c) ==
  IF k \in DOMAIN f THEN [f EXCEPT ![k] = @ + c] ELSE f @@ (k :> c)

\* A mutation: the two counters swapped.
TxCostSwapped(tx) == IF tx.read THEN tx.affected ELSE tx.rows

\* The charge of a query tx: RowCount for a read, AffectedRows otherwise.
TxCost(tx) == IF tx.read THEN tx.rows ELSE tx.affected

\* A mutation: minersMap keyed by miner, then user.
AddQueryTxKeyedByMiner(acc, tx) ==
  LET mm == IF tx.miner \in DOMAIN acc.miners THEN acc.miners[tx.miner]
                                               ELSE <<>>
  IN  [users  |-> AddTo(acc.users, tx.user, TxCost(tx)),
       miners |-> (tx.miner :> AddTo(mm, tx.user, TxCost(tx)))
                    @@ acc.miners]

\* Loop over block.QueryTxs: minersMap[user] is created when missing.
AddQueryTx(acc, tx) ==
  LET mm == IF tx.user \in DOMAIN acc.miners THEN acc.miners[tx.user]
                                              ELSE <<>>
  IN  [users  |-> AddTo(acc.users, tx.user, TxCost(tx)),
       miners |-> (tx.user :> AddTo(mm, tx.miner, TxCost(tx)))
                    @@ acc.miners]

\* Loop over block.FailedReqs: when minersMap[user][miner] is missing,
\* minersMap[user] is replaced by a new empty map.
AddFailedReq(acc, signee, req) ==
  LET known == /\ req.user \in DOMAIN acc.miners
               /\ signee \in DOMAIN acc.miners[req.user]
      mm    == IF known THEN acc.miners[req.user] ELSE <<>>
  IN  [users  |-> AddTo(acc.users, req.user, req.queries),
       miners |-> (req.user :> AddTo(mm, signee, req.queries)) @@ acc.miners]

\* One iteration of the walk: query txs first, then failed requests.
AddBlock(acc, b) ==
  FoldLeft(LAMBDA a, r : AddFailedReq(a, b.signee, r),
           FoldLeft(AddQueryTx, acc, b.queryTxs),
           b.failedReqs)

\* for i = 0; i < c.updatePeriod && node != nil; i++ { ...; node = node.parent }
Window(c) == SubSeq(c, 1, IF Len(c) < UpdatePeriod THEN Len(c) ELSE UpdatePeriod)

EmptyMaps == [users |-> <<>>, miners |-> <<>>]

BillingOf(c) == FoldLeft(AddBlock, EmptyMaps, Window(c))

-----------------------------------------------------------------------------
Init ==
  /\ chain \in UNION {[1..k -> BlockBody] : k \in 1..MaxChain}
  /\ ran = FALSE
  /\ result = EmptyMaps

\* processBlocks runs billing once for the window ending at the head.
RunBilling ==
  /\ ~ran
  /\ ran' = TRUE
  /\ result' = BillingOf(chain)
  /\ UNCHANGED chain

Done ==
  /\ ran
  /\ UNCHANGED vars

Next == RunBilling \/ Done

Spec == Init /\ [][Next]_vars

-----------------------------------------------------------------------------
(* Reference: the charges of the window, summed directly.                  *)

\* All charges of the window as <<block, kind, item, user, miner, cost>>
\* (spec 4.7: a read is charged its row count, any other query its
\* affected rows, a failed request its number of queries).
Charges(c) ==
  LET w == [i \in (1..Len(c)) \cap (1..UpdatePeriod) |-> c[i]]
      Cost(tx) == IF tx.read THEN tx.rows ELSE tx.affected
  IN
  UNION {{<<i, 0, j, w[i].queryTxs[j].user, w[i].queryTxs[j].miner,
            Cost(w[i].queryTxs[j])>> : j \in DOMAIN w[i].queryTxs}
         \cup
         {<<i, 1, j, w[i].failedReqs[j].user, w[i].signee,
            w[i].failedReqs[j].queries>> : j \in DOMAIN w[i].failedReqs} :
           i \in DOMAIN w}

SumCost(S) == FoldSet(LAMBDA ch, acc : acc + ch[6], 0, S)

RefCost(c, u) == SumCost({ch \in Charges(c) : ch[4] = u})

RefIncome(c, u, m) == SumCost({ch \in Charges(c) : ch[4] = u /\ ch[5] = m})

TypeOK ==
  /\ chain \in Seq(BlockBody)
  /\ ran \in BOOLEAN
  /\ DOMAIN result.users \subseteq Users
  /\ DOMAIN result.miners \subseteq Users

(* The cost billed to each user is the sum of every read's row count,     *)
(* every write's affected rows and every failed request's queries that    *)
(* the user signed within the last UpdatePeriod blocks, and exactly the   *)
(* users with a charge appear.                                            *)
UserCostsCorrect ==
  ran =>
    /\ DOMAIN result.users = {ch[4] : ch \in Charges(chain)}
    /\ \A u \in DOMAIN result.users : result.users[u] = RefCost(chain, u)

(* Each user's cost is split among the miners that served it: the income  *)
(* recorded for miner m is the sum of that user's charges credited to m,  *)
(* so the incomes of a user add up to its cost.                           *)
MinerIncomesCorrect ==
  ran =>
    \A u \in DOMAIN result.users :
      \A m \in Miners :
        RefIncome(chain, u, m) =
          IF m \in DOMAIN result.miners[u] THEN result.miners[u][m] ELSE 0

=============================================================================
