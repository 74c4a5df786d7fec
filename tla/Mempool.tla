------------------------------- MODULE Mempool -------------------------------
(***************************************************************************)
(* One job order in the mempool pallet, block by block, as the receipt of  *)
(* xqsa/quip/receipt.py reads it through a node that may serve an older    *)
(* block.  blocks[h] is the order as the block at height h leaves it; the *)
(* order is placed in block 1.                                             *)
(*                                                                         *)
(* The pallet is external to the repository.  What it does is taken from   *)
(* what the client states of it: answers are accepted until the effective  *)
(* expiry, a claim pays a final answered order, a reclaim refunds a final  *)
(* unanswered one to its proposer, either closes it, and an order may stay *)
(* Opened for some blocks past its expiry.                                 *)
(***************************************************************************)
EXTENDS Naturals, Sequences, FiniteSets

CONSTANTS
    Deadline,   \* deadline_blocks of the order
    BlockWait,  \* block_wait of the order
    Lag,        \* how many blocks a node that answers a read may be behind
    MaxHeight,  \* bound: the last block of the run
    MaxPending  \* bound: reclaims of this client in the pool at once

ASSUME MempoolAssumption ==
    /\ Deadline \in Nat \ {0} /\ BlockWait \in Nat /\ Lag \in Nat
    /\ MaxHeight \in Nat /\ MaxPending \in Nat

VARIABLES
    blocks,     \* the order after each block; empty before it is placed
    mine,       \* the order's proposer is this client's account
    pending,    \* this client's reclaims that wait in the pool
    included    \* how the last reclaim of this client that a block took ended

mempoolVars == <<blocks, mine, pending, included>>

Created == 1    \* created_at

\* An order is a record: status, which is Opened, Expired or Closed, and first,
\* its first_solution_at, 0 for none.

Height == Len(blocks)
Now == blocks[Height]

Answered(o) == o.first # 0

-----------------------------------------------------------------------------
(* What the client derives from an order (codec.py, chain.py). *)

\* effective_expiry.
EffectiveExpiry(o) ==
    LET hard == Created + Deadline
        soft == o.first + BlockWait
    IN  IF Answered(o) /\ soft < hard THEN soft ELSE hard

\* Mutant: the block before the expiry counts as final.
IsFinalEarly(o, block) == o.status # "Opened" \/ block + 1 >= EffectiveExpiry(o)

\* is_final: a terminal status, or a height at or past the expiry.
IsFinal(o, block) == o.status # "Opened" \/ block >= EffectiveExpiry(o)

\* order_lifecycle: the view every receipt method decides on.
Lifecycle(o, block) ==
    [status |-> o.status, expiry |-> EffectiveExpiry(o), final |-> IsFinal(o, block)]

-----------------------------------------------------------------------------
(* What a node answers.  A read returns a height of the chain; current_block *)
(* is that height, fetch_order and the solution reads the order in it.       *)

Views == {v \in 1..Height : Height <= v + Lag}

\* proposer_orders at v: the pallet drops an order when it closes.
ListedAt(v) == mine /\ blocks[v].status # "Closed"

-----------------------------------------------------------------------------
(* What the network does on its own: one block at a time. *)

\* The order is accepted by the pallet and the block after leaves it as o.
NewBlock(o) ==
    /\ 0 < Height /\ Height < MaxHeight
    /\ blocks' = Append(blocks, o)

\* The pallet judges expiry by the block it executes.
OverAt(h) == Now.status # "Opened" \/ h >= EffectiveExpiry(Now)
Expired == OverAt(Height + 1)

EmptyBlock == NewBlock(Now) /\ UNCHANGED <<mine, pending, included>>

\* The first answer; a later one changes nothing that is modelled here, and
\* which answer is paid for is module Answers.
AnswerBlock ==
    /\ Height > 0 /\ ~Expired /\ ~Answered(Now)
    /\ NewBlock([Now EXCEPT !.first = Height + 1])
    /\ UNCHANGED <<mine, pending, included>>

ExpireBlock ==
    /\ Height > 0 /\ Now.status = "Opened" /\ Expired
    /\ NewBlock([Now EXCEPT !.status = "Expired"])
    /\ UNCHANGED <<mine, pending, included>>

\* A claim, by anyone; or a reclaim the account's owner sent from elsewhere.
CloseBlock ==
    /\ Height > 0 /\ Now.status # "Closed" /\ Expired
    /\ NewBlock([Now EXCEPT !.status = "Closed"])
    /\ UNCHANGED <<mine, pending, included>>

Reclaimable == mine /\ Now.status # "Closed" /\ Expired /\ ~Answered(Now)

\* The block takes the next reclaim of this client; a refused one pays its fee.
ReclaimBlock ==
    /\ Height > 0 /\ pending > 0
    /\ NewBlock(IF Reclaimable THEN [Now EXCEPT !.status = "Closed"] ELSE Now)
    /\ pending' = pending - 1
    /\ included' = IF Reclaimable THEN "ok" ELSE "failed"
    /\ UNCHANGED mine

MempoolNext ==
    \/ EmptyBlock
    \/ AnswerBlock
    \/ ExpireBlock
    \/ CloseBlock
    \/ ReclaimBlock
=============================================================================
