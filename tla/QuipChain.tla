------------------------------ MODULE QuipChain ------------------------------
(***************************************************************************)
(* The Quip Network chain as one account's client sees it through a node:  *)
(* the finalized head, the transactions of the account that the finalized  *)
(* chain holds, and the transactions that some node's pool may still hold. *)
(*                                                                         *)
(* The chain is external to the repository.  What is modelled is what      *)
(* xqsa/quip/chain.py reads: an account nonce that every included          *)
(* transaction raises by one, mortal transactions that only the blocks of  *)
(* their window may include, and a finalized prefix that never changes.    *)
(* Unfinalized forks are not kept: everything above the finalized head is  *)
(* a nondeterministic answer of the reads below, so every reorganisation   *)
(* of the best chain is covered.                                           *)
(***************************************************************************)
EXTENDS Naturals, Sequences

CONSTANTS
    Orders,     \* the JobOrder objects of the account
    Foreign,    \* stands for another client that signs with the same account
    Window,     \* inclusion_window_blocks, the period of a mortal era
    NodeLag,    \* how many blocks the serving node's finalized head may be behind
    BestLead,   \* how many blocks a node's best block may be ahead of finality
    MaxBlock,   \* bound: the last block of the run
    MaxNonce    \* bound: the highest nonce of the account in the run

(* The period is a power of two from 4 on (MortalEra.__post_init__); what  *)
(* matters here is that half a window is at least one block.               *)
ASSUME ChainAssumption ==
    /\ Foreign \notin Orders
    /\ Window \in Nat /\ Window >= 2
    /\ NodeLag \in Nat /\ BestLead \in Nat
    /\ MaxBlock \in Nat /\ MaxNonce \in Nat

VARIABLES
    final,      \* height of the finalized head
    ledger,     \* the account's transactions in chain order: [tx, block, ok]
    pool        \* propose_job transactions that reached some node, ever

chainVars == <<final, ledger, pool>>

(* A signed propose_job: the order it places, its nonce and its checkpoint. *)
Tx == [order : Orders \cup {Foreign}, nonce : Nat, checkpoint : Nat]

Entry == [tx : Tx, block : Nat, ok : BOOLEAN]

ChainTypeOK ==
    /\ final \in Nat
    /\ ledger \in Seq(Entry)
    /\ pool \subseteq Tx

-----------------------------------------------------------------------------
(* Mortality. *)

\* MortalEra.last_block: the last block that can include t.
WindowEnd(t) == t.checkpoint + Window - 1

\* t may be included in the next block that becomes final.
Live(t) == Len(ledger) <= t.nonce /\ final < WindowEnd(t)

\* t is in the chain.
Landed(t) == t.nonce < Len(ledger) /\ ledger[t.nonce + 1].tx = t

-----------------------------------------------------------------------------
(* What a node answers. *)

\* chain.finalized_head: a node may serve a head that is behind.
FinalizedHeads == {f \in 0..final : final <= f + NodeLag}

\* chain.current_block at a node whose finalized head is f.
BestBlocks(f) == f..(final + BestLead)

\* chain.account_nonce_at(block f) > n: the nonce n is spent in block f or before.
SpentAt(n, f) == n < Len(ledger) /\ ledger[n + 1].block <= f

\* chain.account_nonce: counts the node's best fork and its pool, so it runs
\* ahead of the finalized nonce by any number of pending transactions, and lags
\* with the node.
AccountNonces ==
    {n \in 0..MaxNonce : \E f \in FinalizedHeads : ~SpentAt(n, f)}

\* chain.first_block_past_nonce(low, high): the first block of low..high whose
\* state has nonce n spent (it never decreases, and the code searches by halving).
FirstBlockPast(n, low) ==
    LET spentIn == ledger[n + 1].block
    IN  IF spentIn <= low THEN low ELSE spentIn

\* Mutant: expiry judged by the best block instead of the finalized head.
SettleByBest(t, f) ==
    IF ~SpentAt(t.nonce, f)
    THEN IF f + BestLead >= WindowEnd(t) THEN "never" ELSE "pending"
    ELSE IF Landed(t) THEN "landed" ELSE "never"

\* Mutant: a proposal in a block that is not final yet counts as landed.
SettleUnfinalized(t, f) ==
    CASE Landed(t) -> "landed"
      [] ~Landed(t) /\ t.nonce < Len(ledger) -> "never"
      [] OTHER -> IF f >= WindowEnd(t) THEN "never" ELSE "pending"

\* Mutant: a proposal whose nonce is free is awaited past its window.
SettleForever(t, f) ==
    CASE ~SpentAt(t.nonce, f) -> "pending"
      [] Landed(t) -> "landed"
      [] OTHER -> "never"

\* chain.settle_proposal at a node whose finalized head is f.
SettleProposal(t, f) ==
    IF ~SpentAt(t.nonce, f)
    THEN IF f >= WindowEnd(t) THEN "never" ELSE "pending"
    ELSE LET number == FirstBlockPast(t.nonce, t.checkpoint)
         IN  IF \E i \in DOMAIN ledger : ledger[i].tx = t /\ ledger[i].block = number
             THEN "landed" ELSE "never"

-----------------------------------------------------------------------------
(* What the network does on its own. *)

ChainInit ==
    /\ final = 0
    /\ ledger = <<>>
    /\ pool = {}

Append1(t, ok) ==
    ledger' = Append(ledger, [tx |-> t, block |-> final + 1, ok |-> ok])

\* The block after the finalized head includes a proposal of the pool: the
\* next nonce, inside its window.  Its dispatch may fail; the nonce is spent.
Include(t) ==
    /\ final < MaxBlock
    /\ t \in pool
    /\ t.nonce = Len(ledger)
    /\ t.checkpoint < final + 1 /\ final + 1 <= WindowEnd(t)
    /\ \E ok \in BOOLEAN : Append1(t, ok)
    /\ UNCHANGED <<final, pool>>

\* The same account spends its next nonce elsewhere.
IncludeForeign ==
    /\ final < MaxBlock
    /\ Len(ledger) <= MaxNonce
    /\ Append1([order |-> Foreign, nonce |-> Len(ledger), checkpoint |-> final], TRUE)
    /\ UNCHANGED <<final, pool>>

\* The block after the finalized head becomes final.
Finalize ==
    /\ final < MaxBlock
    /\ final' = final + 1
    /\ UNCHANGED <<ledger, pool>>

ChainNext ==
    \/ \E t \in pool : Include(t)
    \/ IncludeForeign
    \/ Finalize
=============================================================================
