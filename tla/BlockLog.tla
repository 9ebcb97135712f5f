------------------------------ MODULE BlockLog ------------------------------
(***************************************************************************)
(* What the chain engine promises each miner, without goroutines, turns,  *)
(* channels or stashes: blocks are made at most one per height, each on   *)
(* an earlier block; a miner's chain starts at genesis and only ever grows *)
(* by one made block that extends its last block.  Chains of different    *)
(* miners may diverge (a fork), but no chain is ever rewritten.           *)
(***************************************************************************)
EXTENDS Integers, Sequences

CONSTANTS
  Nodes,    \* the miners
  Heights   \* the heights blocks can have (0 is genesis)

Block   == [h : Heights, parent : {-1} \cup Heights]
Genesis == [h |-> 0, parent |-> -1]

VARIABLES
  log,   \* the chain of every miner, oldest block first
  made   \* every block made so far

Init ==
  /\ log = [n \in Nodes |-> <<Genesis>>]
  /\ made = {Genesis}

\* A block is made for a height nobody has made a block for, on a block
\* that exists.
Make(b) ==
  /\ b.h > b.parent
  /\ \A x \in made : x.h # b.h
  /\ b.parent \in {x.h : x \in made}
  /\ made' = made \cup {b}
  /\ UNCHANGED log

\* Miner n takes a made block that extends the last block of its chain.
Extend(n, b) ==
  /\ b \in made
  /\ b.parent = log[n][Len(log[n])].h
  /\ log' = [log EXCEPT ![n] = Append(@, b)]
  /\ UNCHANGED made

Next == \E b \in Block : Make(b) \/ \E n \in Nodes : Extend(n, b)

Spec == Init /\ [][Next]_<<log, made>>

=============================================================================
