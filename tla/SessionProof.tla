----------------------------- MODULE SessionProof -----------------------------
(***************************************************************************)
(* The safety properties of module Session, for every deadline, wait, lag  *)
(* and price: what the receipt says of an order stays true while the chain *)
(* moves on, and no money moves before the gates consented.                *)
(*                                                                         *)
(* The inductive invariant Inv has one part per actor: the chain only adds *)
(* to an order (ChainOK), the pool holds reclaims that were fit to be sent *)
(* (PoolOK), a call remembers what its reads showed (CallOK, KnownFinal,   *)
(* KnownUnanswered), and what was said and refunded still holds (Outcomes, *)
(* Said); the gates are a small machine of their own (GatesOK).            *)
(***************************************************************************)
EXTENDS Session, SequenceTheorems, TLAPS

Statuses == {"Opened", "Expired", "Closed"}
Order == [status : Statuses, first : Nat]

\* What the chain may make of an order: it never reopens, a closed order stays
\* closed, and the first answer stays the first.
Evolves(o, p) ==
    /\ o.status # "Opened" => p.status # "Opened"
    /\ o.status = "Closed" => p.status = "Closed"
    /\ Answered(o) => p.first = o.first

ChainOK ==
    /\ blocks \in Seq(Order)
    /\ \A i, j \in 1..Height : i <= j => Evolves(blocks[i], blocks[j])

Settled == Now.status = "Closed" \/ Answered(Now)

\* A reclaim is in the pool only when the order was over: it can fail for one
\* reason only, that somebody settled the order first.
PoolOK ==
    /\ mine \in BOOLEAN
    /\ pending \in Nat
    /\ pending > 0 => Height > 0 /\ mine /\ Expired
    /\ included \in {"none", "ok", "failed"}
    /\ included = "ok" => Height > 0 /\ Now.status = "Closed" /\ ~Answered(Now)
    /\ included = "failed" => Height > 0 /\ Settled

\* The reads of the running call that its next step uses were made.
CallOK ==
    /\ finalSeen \in BOOLEAN
    /\ lagged \in BOOLEAN
    /\ headView \in 0..Height
    /\ orderView \in 0..Height
    /\ call # "none" => Height > 0 /\ refund = "none"
    /\ call \in {"status", "wait", "summary"} /\ place = "head" => orderView > 0
    /\ call = "reclaim" /\ place \in {"order", "send", "watch"} => headView > 0
    /\ call = "list" /\ place = "order" => headView > 0
    /\ call = "reclaim" /\ place = "send" => orderView > 0

\* A verdict of final is true of the chain, and is not forgotten: not by status(),
\* and not while solve() or query() goes on to the answers.
KnownFinal ==
    /\ finalSeen => Height > 0 /\ OverAt(Height)
    /\ told = "finalized" => finalSeen
    /\ call = "collect" => finalSeen

\* solve() and query() reclaim an order that nobody answered and nobody can.
KnownUnanswered ==
    call = "reclaim" /\ flow # "reclaim"
        => finalSeen /\ (~lagged => ~Answered(Now))

\* What reclaim() knows of the order before and after it sends.
KnownReclaimable ==
    /\ call = "reclaim" /\ place = "send" /\ ~lagged => headView <= orderView
    /\ call = "reclaim" /\ place = "watch"
        => /\ pending = 0 => included # "none"
           /\ ~lagged => blocks[headView].status # "Closed" /\ ~Answered(blocks[headView])

Outcomes ==
    /\ refund # "none" => Height > 0
    /\ refund = "refunded" => Now.status = "Closed" /\ ~Answered(Now)
    /\ refund = "not_proposer" => ~mine
    /\ refund \in {"closed", "answered", "refused_on_chain"} => Settled
    /\ refund = "refused_on_chain"
        => headView > 0 /\ (~lagged => blocks[headView].status # "Closed" /\ ~Answered(blocks[headView]))

Unanswered == {"no_solutions", "no_answers", "listed"}

Said ==
    said \in Unanswered => Height > 0 /\ (~lagged => ~Answered(Now) /\ OverAt(Height))

\* Before the order is placed no call has run.
NotPlaced ==
    Height = 0 => /\ call = "none" /\ ~finalSeen /\ told # "finalized"

\* Where the gates are, with what was asked, agreed and paid for this quote.
Worthwhile ==
    \/ quoted >= Total
    \/ settings.faucet /\ quoted <= Drip /\ quoted + Drip >= Total

Needed == quoted < Total /\ quoted + Drip >= Total

GatesOK ==
    /\ balance \in Nat /\ unseen \in Nat /\ quoted \in Nat /\ unseen <= balance
    /\ gate # "off" => Height = 0
    /\ gate \in {"shown", "autoconfirm"} => asked = {} /\ consents = {} /\ drips = 0
    /\ gate \in {"autoconfirm", "autofund"} => Worthwhile
    /\ gate = "autofund" => consents = {"autoconfirm"} /\ drips = 0 /\ Needed
    /\ gate \in {"request", "retry"}
        => consents = {"autoconfirm", "autofund"} /\ drips = 0 /\ Needed
    /\ gate = "clear" => "autoconfirm" \in consents
    /\ asked # {} => Worthwhile
    /\ drips \in Nat
    /\ drips > 0 => consents = {"autoconfirm", "autofund"} /\ drips = 1 /\ Needed
    /\ gate = "poll" => "autoconfirm" \in consents

ReceiptOK ==
    /\ PoolOK /\ CallOK /\ KnownFinal /\ KnownUnanswered /\ KnownReclaimable
    /\ Outcomes /\ Said /\ NotPlaced

Inv == ChainOK /\ ReceiptOK /\ GatesOK

-----------------------------------------------------------------------------
(* The chain. *)

\* The constants are natural numbers.
LEMMA Constants ==
    /\ Deadline \in Nat /\ BlockWait \in Nat /\ Lag \in Nat /\ MaxHeight \in Nat
    /\ MaxPending \in Nat /\ Created + Deadline \in Nat
    /\ Reward \in Nat /\ Fee \in Nat /\ Drip \in Nat /\ MaxBalance \in Nat /\ Total \in Nat
BY MempoolAssumption, GatesAssumption DEF Created, Total

\* So is the height of the chain.
LEMMA HeightIsNat == ASSUME ChainOK PROVE Height \in Nat
BY DEF ChainOK, Height

\* Each block holds the order as it leaves it.
LEMMA OrderAt ==
    ASSUME ChainOK, NEW h \in 1..Height
    PROVE  blocks[h] \in Order
BY DEF ChainOK, Height

\* The order of the chain's head is an order, and every earlier one evolved into it.
LEMMA NowIs ==
    ASSUME ChainOK, NEW h \in 1..Height
    PROVE  /\ Height > 0 /\ Now \in Order
           /\ Evolves(blocks[h], Now)
<1>1. Height \in Nat
    BY HeightIsNat
<1>2. Height \in 1..Height /\ h <= Height
    BY <1>1
<1>3. QED
    BY <1>1, <1>2, OrderAt DEF ChainOK, Now

\* effective_expiry is a height, and it never moves up: an answer can only move it
\* down, and it stands once there is one.
LEMMA ExpiryMovesDown ==
    ASSUME NEW o \in Order, NEW p \in Order, Evolves(o, p)
    PROVE  /\ EffectiveExpiry(o) \in Nat /\ EffectiveExpiry(p) \in Nat
           /\ EffectiveExpiry(p) <= EffectiveExpiry(o)
<1>1. Created + Deadline \in Nat /\ BlockWait \in Nat
    BY Constants
<1>2. o.first \in Nat /\ p.first \in Nat
    BY DEF Order
<1>3. o.first + BlockWait \in Nat /\ p.first + BlockWait \in Nat
    BY <1>1, <1>2
<1>4. o.first # 0 => p.first = o.first
    BY DEF Evolves, Answered
<1> QED
    BY <1>1, <1>3, <1>4 DEF EffectiveExpiry, Answered

\* A verdict of final reached with an older order holds of a younger one, at that
\* height and at every later one.
LEMMA FinalStands ==
    ASSUME NEW o \in Order, NEW p \in Order, Evolves(o, p),
           NEW h \in Nat, NEW k \in Nat, h <= k, IsFinal(o, h)
    PROVE  IsFinal(p, k)
<1>1. /\ EffectiveExpiry(o) \in Nat /\ EffectiveExpiry(p) \in Nat
      /\ EffectiveExpiry(p) <= EffectiveExpiry(o)
    BY ExpiryMovesDown
<1>2. CASE o.status # "Opened"
    BY <1>2 DEF Evolves, IsFinal
<1>3. CASE h >= EffectiveExpiry(o)
    BY <1>1, <1>3 DEF IsFinal
<1>4. QED BY <1>2, <1>3 DEF IsFinal

\* What the chain calls over is what a read at its head calls final.
LEMMA OverIsFinal == \A h : OverAt(h) <=> IsFinal(Now, h)
BY DEF OverAt, IsFinal

\* What was final in a read is final at the head.
LEMMA FinalIsOver ==
    ASSUME ChainOK, NEW i \in 1..Height, NEW h \in 1..Height, IsFinal(blocks[i], h)
    PROVE  Height > 0 /\ OverAt(Height)
<1>1. Height \in Nat /\ Height > 0 /\ h \in Nat /\ h <= Height
    BY HeightIsNat
<1>2. blocks[i] \in Order /\ Now \in Order /\ Evolves(blocks[i], Now)
    BY OrderAt, NowIs
<1>3. IsFinal(Now, Height)
    BY <1>1, <1>2, FinalStands
<1>4. QED BY <1>1, <1>3, OverIsFinal

\* The order on the states of an order is reflexive
LEMMA EvolvesIsReflexive == \A o : Evolves(o, o)
BY DEF Evolves

\* and transitive.
LEMMA EvolvesIsTransitive ==
    \A o, p, q : Evolves(o, p) /\ Evolves(p, q) => Evolves(o, q)
BY DEF Evolves, Answered

\* A new block keeps the chain a chain.
LEMMA ChainGrows ==
    ASSUME ChainOK, NEW o \in Order, Height > 0, Evolves(Now, o), blocks' = Append(blocks, o)
    PROVE  /\ ChainOK'
           /\ Height' = Height + 1
           /\ Now' = o
           /\ \A h \in 1..Height : blocks'[h] = blocks[h]
<1>1. blocks \in Seq(Order) /\ Len(blocks) \in Nat /\ Height = Len(blocks)
    BY DEF ChainOK, Height
<1>2. /\ blocks' \in Seq(Order)
      /\ Len(blocks') = Height + 1
      /\ \A h \in 1..Height : blocks'[h] = blocks[h]
      /\ blocks'[Height + 1] = o
    BY <1>1, AppendProperties
<1>3. Height' = Height + 1 /\ Now' = o
    BY <1>2 DEF Height, Now
<1>4. ASSUME NEW i \in 1..Height', NEW j \in 1..Height', i <= j
      PROVE  Evolves(blocks'[i], blocks'[j])
    <2>1. CASE j \in 1..Height
        <3>1. i \in 1..Height
            BY <1>1, <2>1, <1>4
        <3>2. QED BY <1>2, <2>1, <3>1, <1>4 DEF ChainOK
    <2>2. CASE j = Height + 1 /\ i \in 1..Height
        <3>1. Evolves(blocks[i], Now)
            BY <2>2, NowIs
        <3>2. QED BY <1>2, <2>2, <3>1, EvolvesIsTransitive
    <2>3. CASE i = Height + 1 /\ j = Height + 1
        BY <1>2, <2>3, EvolvesIsReflexive
    <2>4. QED BY <1>1, <1>3, <1>4, <2>1, <2>2, <2>3
<1>5. (\A i, j \in 1..Height : i <= j => Evolves(blocks[i], blocks[j]))'
    BY <1>4
<1>6. QED BY <1>2, <1>3, <1>5 DEF ChainOK

\* What one block does to the order, whoever made it: the chain grows, the order
\* evolves, and an order that is over gets no answer.
Grows ==
    /\ ChainOK'
    /\ Height > 0 /\ Height' = Height + 1
    /\ Now' \in Order /\ Evolves(Now, Now')
    /\ Expired => Now'.first = Now.first
    /\ \A h \in 1..Height : blocks'[h] = blocks[h]

\* A block that lets the order evolve lets the chain grow.
LEMMA BlockGrows ==
    ASSUME ChainOK, NEW o, NewBlock(o), Evolves(Now, o),
           o.first # Now.first => ~Expired,
           Now \in Order => o \in Order
    PROVE  Grows
<1>1. Height > 0 /\ blocks' = Append(blocks, o)
    BY DEF NewBlock
<1>2. Height \in 1..Height
    BY <1>1, HeightIsNat
<1>3. o \in Order
    BY <1>2, NowIs
<1>4. QED BY <1>1, <1>3, ChainGrows DEF Grows

\* Every block is one of these.
LEMMA EveryBlockGrows ==
    ASSUME ChainOK, MempoolNext
    PROVE  Grows
<1>1. Height \in Nat
    BY HeightIsNat
<1>2. Height > 0
    BY DEF MempoolNext, EmptyBlock, AnswerBlock, ExpireBlock, CloseBlock, ReclaimBlock, NewBlock
<1>3. Now \in Order /\ Height + 1 \in Nat \ {0}
    BY <1>1, <1>2, NowIs
<1> DEFINE answered == [Now EXCEPT !.first = Height + 1]
           expired == [Now EXCEPT !.status = "Expired"]
           closed == [Now EXCEPT !.status = "Closed"]
<1>4. CASE EmptyBlock
    BY <1>4, BlockGrows, EvolvesIsReflexive DEF EmptyBlock
<1>5. CASE AnswerBlock
    <2>1. NewBlock(answered) /\ ~Expired /\ ~Answered(Now)
        BY <1>5 DEF AnswerBlock
    <2>2. answered \in Order /\ answered.status = Now.status
        BY <1>3 DEF Order
    <2>3. Evolves(Now, answered)
        BY <2>1, <2>2 DEF Evolves
    <2> HIDE DEF answered
    <2>4. QED BY <2>1, <2>2, <2>3, BlockGrows
<1>6. CASE ExpireBlock
    <2>1. NewBlock(expired) /\ Now.status = "Opened"
        BY <1>6 DEF ExpireBlock
    <2>2. expired \in Order /\ expired.first = Now.first
        BY <1>3 DEF Order, Statuses
    <2>3. Evolves(Now, expired)
        BY <2>1, <2>2 DEF Evolves
    <2> HIDE DEF expired
    <2>4. QED BY <2>1, <2>2, <2>3, BlockGrows
<1>7. closed \in Order /\ closed.first = Now.first /\ closed.status = "Closed"
    BY <1>3 DEF Order, Statuses
<1>8. Evolves(Now, closed)
    BY <1>7 DEF Evolves
<1>9. CASE CloseBlock
    <2>1. NewBlock(closed)
        BY <1>9 DEF CloseBlock
    <2> HIDE DEF closed
    <2>2. QED BY <2>1, <1>7, <1>8, BlockGrows
<1>10. CASE ReclaimBlock
    <2>1. NewBlock(closed) \/ NewBlock(Now)
        BY <1>10 DEF ReclaimBlock
    <2> HIDE DEF closed
    <2>2. QED BY <2>1, <1>3, <1>7, <1>8, EvolvesIsReflexive, BlockGrows
<1>11. QED BY <1>4, <1>5, <1>6, <1>9, <1>10 DEF MempoolNext

\* An order that is over, or closed, or answered, stays so.
LEMMA GrowsKeeps ==
    ASSUME ChainOK, Grows
    PROVE  /\ OverAt(Height) => OverAt(Height)'
           /\ Expired => Expired'
           /\ OverAt(Height) => Expired
           /\ Now.status = "Closed" => Now'.status = "Closed" /\ Expired
           /\ Answered(Now) => Answered(Now')
           /\ Expired /\ ~Answered(Now) => ~Answered(Now')
<1>1. Height \in Nat /\ Height' = Height + 1 /\ Height > 0
    BY HeightIsNat DEF Grows
<1>2. Now \in Order /\ Now' \in Order /\ Evolves(Now, Now')
    BY <1>1, NowIs DEF Grows
<1>3. /\ EffectiveExpiry(Now) \in Nat /\ EffectiveExpiry(Now') \in Nat
      /\ EffectiveExpiry(Now') <= EffectiveExpiry(Now)
    BY <1>2, ExpiryMovesDown
<1>4. \A h, k \in Nat : h <= k /\ OverAt(h) => OverAt(k) /\ IsFinal(Now', k)
    BY <1>2, <1>3, FinalStands DEF OverAt, IsFinal, Evolves
<1>5. /\ OverAt(Height)' <=> IsFinal(Now', Height + 1)
      /\ Expired' <=> IsFinal(Now', Height + 2)
    BY <1>1 DEF OverAt, Expired, IsFinal
<1>6. (OverAt(Height) => OverAt(Height)') /\ (Expired => Expired') /\ (OverAt(Height) => Expired)
    BY <1>1, <1>4, <1>5 DEF Expired
<1>7. Now.status = "Closed" => Now'.status = "Closed" /\ Expired
    BY <1>2 DEF Evolves, Expired, OverAt
<1>8. Answered(Now) => Answered(Now')
    BY <1>2 DEF Evolves, Answered
<1>9. Expired /\ ~Answered(Now) => ~Answered(Now')
    BY DEF Grows, Answered
<1>10. QED BY <1>6, <1>7, <1>8, <1>9

-----------------------------------------------------------------------------
(* The receipt: while a call takes its steps the chain stands still. *)

Still ==
    /\ UNCHANGED blocks
    /\ ChainOK' /\ Height' = Height /\ Now' = Now
    /\ OverAt(Height)' = OverAt(Height) /\ Expired' = Expired /\ Settled' = Settled

\* A step that makes no block leaves the chain as it is.
LEMMA StandsStill ==
    ASSUME ChainOK, UNCHANGED blocks
    PROVE  Still
BY DEF Still, ChainOK, Height, Now, OverAt, Expired, Settled, EffectiveExpiry, Answered, Evolves

\* A read is answered with an order that evolved into the head's, and a node that
\* is up to date answers with the head's.
LEMMA ViewIs ==
    ASSUME ChainOK, NEW v \in Views
    PROVE  /\ v \in 1..Height /\ v \in Nat /\ Height \in Nat /\ Height > 0
           /\ blocks[v] \in Order /\ Evolves(blocks[v], Now)
           /\ ~(v < Height) => v = Height /\ blocks[v] = Now
<1>1. v \in 1..Height /\ Height \in Nat
    BY HeightIsNat DEF Views
<1>2. QED BY <1>1, OrderAt, NowIs DEF Now

\* A step of the running call that only reads: what it may learn is that an order
\* it has seen final has no answer.
Reading ==
    /\ call # "none"
    /\ UNCHANGED <<mempoolVars, finalSeen, told, refund>>
    /\ \E v \in Views :
        /\ lagged' = (lagged \/ v < Height)
        /\ headView' \in {headView, v} /\ orderView' \in {orderView, v, 0}

\* What a reading call may rest on.
LEMMA ReadingIs ==
    ASSUME Inv, Reading
    PROVE  /\ ChainOK /\ Still
           /\ Height \in Nat /\ Height > 0
           /\ headView' \in 0..Height /\ orderView' \in 0..Height
           /\ lagged' \in BOOLEAN /\ (lagged => lagged')
           /\ refund = "none" /\ refund' = "none"
<1>1. ChainOK /\ Still
    BY StandsStill DEF Inv, Reading, mempoolVars
<1>2. PICK v \in Views :
        /\ lagged' = (lagged \/ v < Height)
        /\ headView' \in {headView, v} /\ orderView' \in {orderView, v, 0}
    BY DEF Reading
<1>3. v \in 1..Height /\ Height \in Nat /\ Height > 0
    BY <1>1, ViewIs
<1>4. headView \in 0..Height /\ orderView \in 0..Height /\ refund = "none" /\ refund' = "none"
    BY DEF Inv, ReceiptOK, CallOK, Reading
<1>5. headView' \in 0..Height /\ orderView' \in 0..Height
    BY <1>2, <1>3, <1>4
<1>6. lagged' \in BOOLEAN /\ (lagged => lagged')
    BY <1>2
<1>7. QED BY <1>1, <1>3, <1>4, <1>5, <1>6

\* The step is right when the reads its next step uses were made, and when what it
\* knows and says of the order is true.
LEMMA ReadingStep ==
    ASSUME Inv, Reading,
           call' \in {"status", "wait", "summary"} /\ place' = "head" => orderView' > 0,
           call' = "reclaim" /\ place' \in {"order", "send", "watch"} => headView' > 0,
           call' = "list" /\ place' = "order" => headView' > 0,
           call' = "reclaim" /\ place' = "send" => orderView' > 0,
           call' = "collect" => finalSeen,
           KnownUnanswered', KnownReclaimable',
           said' \in Unanswered => said' = said \/ (~lagged' => ~Answered(Now) /\ OverAt(Height))
    PROVE  ReceiptOK'
<1>1. /\ ChainOK /\ Still
      /\ Height \in Nat /\ Height > 0
      /\ headView' \in 0..Height /\ orderView' \in 0..Height
      /\ lagged' \in BOOLEAN /\ (lagged => lagged')
      /\ refund = "none" /\ refund' = "none"
    BY ReadingIs
<1>2. PoolOK' /\ NotPlaced'
    BY <1>1 DEF Still, Inv, ReceiptOK, Reading, mempoolVars, PoolOK, NotPlaced
<1>3. CallOK'
    BY <1>1 DEF Still, Inv, ReceiptOK, Reading, CallOK
<1>4. KnownFinal'
    BY <1>1 DEF Still, Inv, ReceiptOK, Reading, KnownFinal
<1>5. Outcomes'
    BY <1>1 DEF Outcomes
<1>6. Said'
    BY <1>1 DEF Still, Inv, ReceiptOK, Said
<1>7. QED BY <1>2, <1>3, <1>4, <1>5, <1>6 DEF ReceiptOK

\* status() and summary() read the order, and then the head.
LEMMA StatusOrderStep ==
    ASSUME Inv, StatusOrder \/ SummaryOrder
    PROVE  ReceiptOK'
<1>1. PICK v \in Views : orderView' = v /\ ReadAt(v, "head")
    BY DEF StatusOrder, SummaryOrder, ReadOrder
<1>2. /\ call \in {"status", "summary"} /\ call' = call /\ said' = said /\ place' = "head"
      /\ UNCHANGED <<mempoolVars, finalSeen, told, refund, headView>>
    BY <1>1 DEF StatusOrder, SummaryOrder, KeepLocals, ReadAt
<1>3. v \in 1..Height /\ orderView' > 0
    BY <1>1, ViewIs DEF Inv
<1>4. Reading
    BY <1>1, <1>2 DEF Reading, ReadAt
<1>5. KnownUnanswered' /\ KnownReclaimable'
    BY <1>2 DEF KnownUnanswered, KnownReclaimable
<1>6. QED BY <1>2, <1>3, <1>4, <1>5, ReadingStep

\* The second read of a summary.
LEMMA SummaryHeadStep ==
    ASSUME Inv, SummaryHead
    PROVE  ReceiptOK'
<1>1. PICK v \in Views : headView' = v /\ lagged' = (lagged \/ v < Height)
    BY DEF SummaryHead
<1>2. /\ call = "summary" /\ call' = "none" /\ orderView' = 0 /\ said' \notin Unanswered
      /\ UNCHANGED <<mempoolVars, finalSeen, told, refund>>
    BY DEF SummaryHead, Return, Outcome, Unanswered
<1>3. Reading
    BY <1>1, <1>2 DEF Reading
<1>4. KnownUnanswered' /\ KnownReclaimable'
    BY <1>2 DEF KnownUnanswered, KnownReclaimable
<1>5. QED BY <1>2, <1>3, <1>4, ReadingStep

\* status() learns the order is final, and says so from then on.
LEMMA StatusHeadStep ==
    ASSUME Inv, StatusHead
    PROVE  ReceiptOK'
<1>1. ChainOK /\ Still
    BY StandsStill DEF Inv, StatusHead, mempoolVars
<1>2. PICK v \in Views : /\ headView' = v
                         /\ lagged' = (lagged \/ v < Height)
                         /\ Tell(Lifecycle(blocks[orderView], v).final)
    BY DEF StatusHead
<1>3. v \in 1..Height /\ orderView \in 1..Height /\ Height > 0 /\ Height \in Nat
    BY <1>1, <1>2, ViewIs DEF StatusHead, Inv, ReceiptOK, CallOK
<1>4. finalSeen' \in BOOLEAN /\ (finalSeen => finalSeen')
    BY <1>2 DEF Tell, Inv, ReceiptOK, CallOK, Lifecycle, IsFinal
<1>5. finalSeen' => OverAt(Height)
    <2>1. IsFinal(blocks[orderView], v) => OverAt(Height)
        BY <1>1, <1>3, FinalIsOver
    <2>2. finalSeen' => finalSeen \/ IsFinal(blocks[orderView], v)
        BY <1>2 DEF Tell, Lifecycle
    <2>3. QED BY <2>1, <2>2 DEF Inv, ReceiptOK, KnownFinal
<1>6. \/ flow = "query" /\ finalSeen' /\ call' = "collect" /\ place' = "answers" /\ orderView' = 0 /\ UNCHANGED <<flow, said>>
      \/ /\ call' = "none" /\ flow' = "none" /\ orderView' = 0 /\ said' \in {"not_final", "status"}
    BY DEF StatusHead, Enter, Return
<1>7. PoolOK' /\ NotPlaced'
    BY <1>1, <1>3 DEF Still, Inv, ReceiptOK, StatusHead, mempoolVars, PoolOK, NotPlaced
<1>8. CallOK'
    BY <1>1, <1>2, <1>3, <1>4, <1>6 DEF Still, Inv, ReceiptOK, StatusHead, CallOK
<1>9. KnownFinal'
    BY <1>1, <1>2, <1>3, <1>5, <1>6 DEF Still, KnownFinal, Tell
<1>10. KnownUnanswered' /\ KnownReclaimable'
    BY <1>6 DEF KnownUnanswered, KnownReclaimable
<1>11. Outcomes'
    BY <1>1 DEF Still, Inv, ReceiptOK, StatusHead, mempoolVars, Outcomes, CallOK
<1>12. Said'
    BY <1>1, <1>2, <1>6 DEF Still, Inv, ReceiptOK, Said, Unanswered
<1>13. QED BY <1>7, <1>8, <1>9, <1>10, <1>11, <1>12 DEF ReceiptOK

\* wait() that ends because the order is final: solve() goes on to the answers.
WaitedOn ==
    /\ finalSeen' = TRUE /\ orderView' = 0
    /\ \/ call' = "collect" /\ place' = "answers" /\ UNCHANGED said
       \/ call' = "none" /\ said' = "waited"

\* wait() that has its answer returns it, or reads the vectors.
LEMMA WaitedGoesOn == ASSUME Waited PROVE WaitedOn
BY DEF Waited, WaitedOn, Enter, Return

\* wait() that goes on, or gives up.
StillWaiting ==
    /\ UNCHANGED finalSeen
    /\ \/ /\ call' = call /\ UNCHANGED said
          /\ \/ place' = "order" /\ orderView' = 0
             \/ place' = "head" /\ orderView' \in 1..Height
       \/ call' = "none" /\ orderView' = 0 /\ said' = "timeout"

\* Either way of a poll.
LEMMA PollStep ==
    ASSUME Inv, call = "wait", UNCHANGED <<mempoolVars, refund, told>>,
           (WaitedOn /\ OverAt(Height)) \/ StillWaiting,
           headView' \in 0..Height, lagged' \in BOOLEAN, lagged => lagged'
    PROVE  ReceiptOK'
<1>1. ChainOK /\ Still
    BY StandsStill DEF Inv, mempoolVars
<1>2. Height > 0 /\ refund = "none" /\ Height \in Nat
    BY <1>1, HeightIsNat DEF Inv, ReceiptOK, CallOK
<1>3. call' \in {"wait", "collect", "none"}
    BY DEF WaitedOn, StillWaiting
<1>4. PoolOK' /\ NotPlaced'
    BY <1>1, <1>2 DEF Still, Inv, ReceiptOK, mempoolVars, PoolOK, NotPlaced
<1>5. CallOK'
    <2>1. orderView' \in 0..Height
        BY <1>2 DEF WaitedOn, StillWaiting
    <2>2. finalSeen' \in BOOLEAN
        <3>1. finalSeen \in BOOLEAN
            BY DEF Inv, ReceiptOK, CallOK
        <3>2. finalSeen' = TRUE \/ finalSeen' = finalSeen
            BY DEF WaitedOn, StillWaiting
        <3>3. QED BY <3>1, <3>2, Zenon
    <2>3. call' = "wait" /\ place' = "head" => orderView' > 0
        BY <1>2 DEF WaitedOn, StillWaiting
    <2>4. QED
        BY <1>1, <1>2, <1>3, <2>1, <2>2, <2>3 DEF Still, Inv, ReceiptOK, CallOK
<1>6. KnownFinal'
    BY <1>1, <1>2 DEF Still, Inv, ReceiptOK, KnownFinal, WaitedOn, StillWaiting
<1>7. KnownUnanswered' /\ KnownReclaimable'
    BY <1>3 DEF KnownUnanswered, KnownReclaimable
<1>8. Outcomes'
    BY <1>1, <1>2 DEF Still, Outcomes
<1>9. Said'
    BY <1>1 DEF Still, Inv, ReceiptOK, Said, Unanswered, WaitedOn, StillWaiting
<1>10. QED BY <1>4, <1>5, <1>6, <1>7, <1>8, <1>9 DEF ReceiptOK

\* The first read of a round of wait().
LEMMA WaitOrderStep ==
    ASSUME Inv, WaitOrder
    PROVE  ReceiptOK'
<1>1. ChainOK /\ Height \in Nat
    BY HeightIsNat DEF Inv
<1>2. PICK v \in Views :
        /\ lagged' = (lagged \/ v < Height)
        /\ IF finalSeen \/ blocks[v].status # "Opened"
           THEN Waited
           ELSE /\ orderView' = v /\ place' = "head"
                /\ UNCHANGED <<finalSeen, flow, call, answerView, late, said>>
    BY DEF WaitOrder
<1>3. v \in 1..Height
    BY <1>1, ViewIs
<1>4. blocks[v].status # "Opened" => OverAt(Height)
    BY <1>1, <1>3, FinalIsOver DEF IsFinal
<1>5. (WaitedOn /\ OverAt(Height)) \/ StillWaiting
    <2>1. CASE finalSeen \/ blocks[v].status # "Opened"
        BY <1>2, <1>4, <2>1, WaitedGoesOn DEF Inv, ReceiptOK, KnownFinal
    <2>2. CASE ~(finalSeen \/ blocks[v].status # "Opened")
        BY <1>2, <1>3, <2>2 DEF StillWaiting
    <2>3. QED BY <2>1, <2>2
<1>6. headView' \in 0..Height /\ lagged' \in BOOLEAN /\ (lagged => lagged')
    BY <1>1, <1>2 DEF WaitOrder, Inv, ReceiptOK, CallOK
<1>7. QED BY <1>5, <1>6, PollStep DEF WaitOrder

\* The second read of a round of wait().
LEMMA WaitHeadStep ==
    ASSUME Inv, WaitHead
    PROVE  ReceiptOK'
<1>1. ChainOK /\ Height \in Nat
    BY HeightIsNat DEF Inv
<1>2. PICK v \in Views : /\ headView' = v
                         /\ lagged' = (lagged \/ v < Height)
                         /\ PollEnds(Lifecycle(blocks[orderView], v).final)
    BY DEF WaitHead
<1>3. v \in 1..Height /\ orderView \in 1..Height
    BY <1>1, ViewIs DEF WaitHead, Inv, ReceiptOK, CallOK
<1>4. IsFinal(blocks[orderView], v) => OverAt(Height)
    BY <1>1, <1>3, FinalIsOver
<1>5. (WaitedOn /\ OverAt(Height)) \/ StillWaiting
    <2>1. PollEnds(IsFinal(blocks[orderView], v))
        BY <1>2 DEF Lifecycle
    <2>2. CASE IsFinal(blocks[orderView], v)
        <3>1. Waited
            BY <2>1, <2>2 DEF PollEnds
        <3>2. QED BY <3>1, <2>2, <1>4, WaitedGoesOn
    <2>3. CASE ~IsFinal(blocks[orderView], v) /\ late
        <3>1. Return("timeout") /\ UNCHANGED finalSeen
            BY <2>1, <2>3 DEF PollEnds
        <3>2. QED BY <3>1 DEF Return, StillWaiting
    <2>4. CASE ~IsFinal(blocks[orderView], v) /\ ~late
        BY <2>1, <2>4 DEF PollEnds, StillWaiting
    <2>5. QED BY <2>2, <2>3, <2>4
<1>6. headView' \in 0..Height /\ lagged' \in BOOLEAN /\ (lagged => lagged')
    BY <1>1, <1>2, <1>3 DEF Inv, ReceiptOK, CallOK
<1>7. QED BY <1>5, <1>6, PollStep DEF WaitHead

\* _collect_result finds no answer to a final order, and goes on to reclaim it.
LEMMA CollectAnswersStep ==
    ASSUME Inv, CollectAnswers
    PROVE  ReceiptOK'
<1>1. PICK v \in Views :
        /\ lagged' = (lagged \/ v < Height)
        /\ IF Answered(blocks[v]) THEN place' = "vectors" /\ UNCHANGED call
                                  ELSE Enter("reclaim", "head")
    BY DEF CollectAnswers
<1>2. /\ call = "collect" /\ finalSeen /\ said' = said
      /\ UNCHANGED <<mempoolVars, finalSeen, told, refund, headView, orderView>>
    BY DEF CollectAnswers, Inv, ReceiptOK, KnownFinal
<1>3. Reading
    BY <1>1, <1>2 DEF Reading
<1>4. Still /\ (~(v < Height) => blocks[v] = Now)
    BY <1>3, ReadingIs, ViewIs DEF Inv
<1>5. \/ call' = "collect" /\ place' = "vectors"
      \/ call' = "reclaim" /\ place' = "head" /\ ~Answered(blocks[v])
    BY <1>1, <1>2 DEF Enter
<1>6. KnownUnanswered'
    BY <1>1, <1>2, <1>4, <1>5 DEF KnownUnanswered, Still, Answered
<1>7. KnownReclaimable'
    BY <1>5 DEF KnownReclaimable
<1>8. QED BY <1>2, <1>3, <1>5, <1>6, <1>7, ReadingStep

\* The answers of a finished order are read.
LEMMA CollectVectorsStep ==
    ASSUME Inv, CollectVectors \/ CollectRanking
    PROVE  ReceiptOK'
<1>1. PICK v \in Views :
        /\ lagged' = (lagged \/ v < Height)
        /\ \/ call' = call /\ place' = "ranking" /\ UNCHANGED <<said, orderView>>
           \/ ~Answered(blocks[v]) /\ Return("no_answers")
           \/ Return("result")
    BY DEF CollectVectors, CollectRanking
<1>2. /\ call = "collect" /\ finalSeen /\ OverAt(Height)
      /\ UNCHANGED <<mempoolVars, finalSeen, told, refund, headView>>
    BY DEF CollectVectors, CollectRanking, Inv, ReceiptOK, KnownFinal
<1>3. /\ call' \in {"collect", "none"} /\ orderView' \in {orderView, 0}
      /\ call' = "collect" => place' = "ranking"
      /\ said' \in Unanswered => said' = said \/ ~Answered(blocks[v])
    BY <1>1, <1>2 DEF Return, Unanswered
<1>4. Reading
    BY <1>1, <1>2, <1>3 DEF Reading
<1>5. ~lagged' => blocks[v] = Now
    BY <1>1, ViewIs DEF Inv
<1>6. KnownUnanswered' /\ KnownReclaimable'
    BY <1>3 DEF KnownUnanswered, KnownReclaimable
<1>7. QED BY <1>2, <1>3, <1>4, <1>5, <1>6, ReadingStep

\* list_orders reads the list, the head and the order.
LEMMA ListStep ==
    ASSUME Inv, ListIds \/ ListHead
    PROVE  ReceiptOK'
<1>1. PICK v \in Views :
        /\ lagged' = (lagged \/ v < Height)
        /\ \/ call' = call /\ place' = "head" /\ UNCHANGED <<said, orderView, headView>>
           \/ Return("unlisted") /\ UNCHANGED headView
           \/ call' = call /\ place' = "order" /\ headView' = v /\ UNCHANGED <<said, orderView>>
    BY DEF ListIds, ListHead, ReadHead, ReadAt, KeepLocals
<1>2. call = "list" /\ UNCHANGED <<mempoolVars, finalSeen, told, refund>>
    BY DEF ListIds, ListHead, KeepLocals
<1>3. v \in 1..Height
    BY ViewIs DEF Inv
<1>4. /\ call' \in {"list", "none"} /\ orderView' \in {orderView, 0} /\ headView' \in {headView, v}
      /\ call' = "list" /\ place' = "order" => headView' > 0
      /\ said' \in Unanswered => said' = said
    BY <1>1, <1>2, <1>3 DEF Return, Unanswered
<1>5. Reading
    BY <1>1, <1>2, <1>4 DEF Reading
<1>6. KnownUnanswered' /\ KnownReclaimable'
    BY <1>4 DEF KnownUnanswered, KnownReclaimable
<1>7. QED BY <1>2, <1>4, <1>5, <1>6, ReadingStep

\* The order is named as unanswered: it is over at the head that was read.
LEMMA ListOrderStep ==
    ASSUME Inv, ListOrder
    PROVE  ReceiptOK'
<1>1. PICK v \in Views :
        /\ lagged' = (lagged \/ v < Height)
        /\ Return(IF InState(blocks[v], Lifecycle(blocks[v], headView)) THEN "listed" ELSE "unlisted")
    BY DEF ListOrder
<1>2. /\ call = "list" /\ place = "order"
      /\ UNCHANGED <<mempoolVars, finalSeen, told, refund, headView>>
    BY DEF ListOrder
<1>3. call' = "none" /\ orderView' = 0
    BY <1>1 DEF Return
<1>4. Reading
    BY <1>1, <1>2, <1>3 DEF Reading
<1>5. v \in 1..Height /\ headView \in 1..Height /\ ChainOK
    BY <1>2, ViewIs, HeightIsNat DEF Inv, ReceiptOK, CallOK
<1>6. said' \in Unanswered => ~Answered(blocks[v]) /\ IsFinal(blocks[v], headView)
    BY <1>1 DEF Return, Unanswered, InState, Lifecycle
<1>7. IsFinal(blocks[v], headView) => OverAt(Height)
    BY <1>5, FinalIsOver
<1>8. ~lagged' => blocks[v] = Now
    BY <1>1, ViewIs DEF Inv
<1>9. KnownUnanswered' /\ KnownReclaimable'
    BY <1>3 DEF KnownUnanswered, KnownReclaimable
<1>10. QED BY <1>3, <1>4, <1>6, <1>7, <1>8, <1>9, ReadingStep

\* reclaim() reads the head before the order: read from nodes that are up to date,
\* the order is no older than the head.
LEMMA ReclaimReadStep ==
    ASSUME Inv, ReclaimHead \/ ReclaimOrder
    PROVE  ReceiptOK'
<1>1. PICK v \in Views :
        /\ lagged' = (lagged \/ v < Height)
        /\ \/ place' = "order" /\ headView' = v /\ UNCHANGED orderView
           \/ place' = "send" /\ place = "order" /\ orderView' = v /\ UNCHANGED headView
    BY DEF ReclaimHead, ReclaimOrder, ReadHead, ReadOrder, ReadAt
<1>2. /\ call = "reclaim" /\ call' = "reclaim" /\ flow' = flow /\ said' = said
      /\ UNCHANGED <<mempoolVars, finalSeen, told, refund>>
    BY DEF ReclaimHead, ReclaimOrder, KeepLocals
<1>3. Reading
    BY <1>1, <1>2 DEF Reading
<1>4. /\ Still /\ v \in 1..Height /\ (~(v < Height) => v = Height)
      /\ Height \in Nat /\ headView \in 0..Height
    BY <1>3, ReadingIs, ViewIs DEF Inv, ReceiptOK, CallOK
<1>5. /\ place' \in {"order", "send"} /\ headView' > 0
      /\ place' = "send" => orderView' > 0
    BY <1>1, <1>2, <1>4 DEF Inv, ReceiptOK, CallOK
<1>6. KnownUnanswered'
    BY <1>1, <1>2, <1>4 DEF Still, Inv, ReceiptOK, KnownUnanswered, Answered
<1>7. place' = "send" /\ ~lagged' => headView' <= orderView'
    <2>1. place' = "send" => headView' = headView /\ orderView' = v
        BY <1>1
    <2>2. ~lagged' => v = Height
        BY <1>1, <1>4
    <2>3. QED BY <1>4, <2>1, <2>2
<1>8. KnownReclaimable'
    BY <1>5, <1>7 DEF KnownReclaimable
<1>9. QED BY <1>2, <1>3, <1>5, <1>6, <1>8, ReadingStep

\* reclaim() ends: the outcome it reports is true of the chain, and so is the
\* failure solve() and query() go on to raise.
LEMMA EndStep ==
    ASSUME Inv, call = "reclaim", NEW outcome, EndReclaim(outcome), PoolOK',
           outcome = "refunded" => Now.status = "Closed" /\ ~Answered(Now),
           outcome = "not_proposer" => ~mine,
           outcome \in {"closed", "answered", "refused_on_chain"} => Settled,
           outcome = "refused_on_chain"
               => headView > 0 /\ (~lagged => blocks[headView].status # "Closed" /\ ~Answered(blocks[headView]))
    PROVE  ReceiptOK'
<1>1. ChainOK /\ Still
    BY StandsStill DEF Inv, EndReclaim
<1>2. /\ refund' = outcome /\ call' = "none" /\ orderView' = 0
      /\ UNCHANGED <<mine, blocks, finalSeen, headView, lagged, told>>
      /\ said' = IF flow = "reclaim" THEN "reclaimed" ELSE "no_solutions"
    BY DEF EndReclaim, Return
<1>3. Height \in Nat /\ Height > 0
    BY <1>1, HeightIsNat DEF Inv, ReceiptOK, CallOK
<1>4. CallOK'
    BY <1>1, <1>2, <1>3 DEF Still, Inv, ReceiptOK, CallOK
<1>5. KnownFinal'
    BY <1>1, <1>2 DEF Still, Inv, ReceiptOK, KnownFinal
<1>6. KnownUnanswered' /\ KnownReclaimable'
    BY <1>2 DEF KnownUnanswered, KnownReclaimable
<1>7. Outcomes'
    BY <1>1, <1>2, <1>3 DEF Still, Outcomes
<1>8. Said'
    <2>1. CASE flow = "reclaim"
        BY <1>2, <2>1 DEF Said, Unanswered
    <2>2. CASE flow # "reclaim"
        <3>1. OverAt(Height) /\ (~lagged => ~Answered(Now))
            BY <2>2 DEF Inv, ReceiptOK, KnownUnanswered, KnownFinal
        <3>2. QED BY <1>1, <1>2, <1>3, <3>1 DEF Still, Said
    <2>3. QED BY <2>1, <2>2
<1>9. NotPlaced'
    BY <1>1, <1>3 DEF Still, NotPlaced
<1>10. QED BY <1>4, <1>5, <1>6, <1>7, <1>8, <1>9 DEF ReceiptOK

\* A refusal is about an older order, and what made it unfit then holds now.
LEMMA RefuseStep ==
    ASSUME Inv, Refuse
    PROVE  ReceiptOK'
<1>1. /\ call = "reclaim" /\ place = "send" /\ EndReclaim(Refusal)
      /\ UNCHANGED <<pending, included>>
    BY DEF Refuse
<1>2. ChainOK /\ Still /\ orderView \in 1..Height
    BY <1>1, StandsStill, HeightIsNat DEF Inv, EndReclaim, ReceiptOK, CallOK
<1>3. Evolves(blocks[orderView], Now)
    BY <1>2, NowIs
<1>4. PoolOK'
    BY <1>1, <1>2 DEF Still, Inv, ReceiptOK, PoolOK, EndReclaim
<1>5. /\ Refusal \in {"not_proposer", "closed", "open", "answered", "none"}
      /\ Refusal = "not_proposer" => ~mine
      /\ Refusal = "closed" => blocks[orderView].status = "Closed"
      /\ Refusal = "answered" => Answered(blocks[orderView])
    BY DEF Refusal, Life, Lifecycle
<1>6. Refusal \in {"closed", "answered"} => Settled
    BY <1>3, <1>5 DEF Evolves, Answered, Settled
<1>7. QED BY <1>1, <1>4, <1>5, <1>6, EndStep

\* A reclaim that is sent is of this account, and of an order that is over by the
\* time a block takes it.
LEMMA FitToSend ==
    ASSUME Inv, call = "reclaim", place = "send", Refusal = "none"
    PROVE  /\ Height > 0 /\ mine /\ Expired
           /\ headView \in 1..Height
           /\ ~lagged => blocks[headView].status # "Closed" /\ ~Answered(blocks[headView])
<1>1. /\ ChainOK /\ Height \in Nat
      /\ headView \in 1..Height /\ orderView \in 1..Height
    BY HeightIsNat DEF Inv, ReceiptOK, CallOK
<1>2. /\ mine /\ ~Answered(blocks[orderView]) /\ blocks[orderView].status # "Closed"
      /\ \/ IsFinal(blocks[orderView], headView)
         \/ finalSeen
         \/ ~(headView + 1 < EffectiveExpiry(blocks[orderView]))
    BY DEF Refusal, Life, Lifecycle, Inv, ReceiptOK, PoolOK
<1>3. blocks[orderView] \in Order /\ Now \in Order /\ Evolves(blocks[orderView], Now)
    BY <1>1, OrderAt, NowIs
<1>4. /\ EffectiveExpiry(blocks[orderView]) \in Nat /\ EffectiveExpiry(Now) \in Nat
      /\ EffectiveExpiry(Now) <= EffectiveExpiry(blocks[orderView])
    BY <1>3, ExpiryMovesDown
<1>5. IsFinal(blocks[orderView], headView) => Expired
    <2> HAVE IsFinal(blocks[orderView], headView)
    <2>1. IsFinal(Now, Height + 1)
        BY <1>1, <1>3, FinalStands
    <2>2. QED BY <2>1, OverIsFinal DEF Expired
<1>6. finalSeen => Expired
    <2> HAVE finalSeen
    <2>1. OverAt(Height)
        BY DEF Inv, ReceiptOK, KnownFinal
    <2>2. Now.status # "Opened" \/ Height >= EffectiveExpiry(Now)
        BY <2>1 DEF OverAt
    <2>3. QED BY <1>1, <1>4, <2>2 DEF Expired, OverAt
<1>7. ~(headView + 1 < EffectiveExpiry(blocks[orderView])) => Expired
    BY <1>1, <1>4 DEF Expired, OverAt
<1>8. Expired
    BY <1>2, <1>5, <1>6, <1>7
<1>9. ~lagged => Evolves(blocks[headView], blocks[orderView])
    BY <1>1 DEF Inv, ReceiptOK, KnownReclaimable, ChainOK
<1>10. ~lagged => blocks[headView].status # "Closed" /\ ~Answered(blocks[headView])
    BY <1>2, <1>9 DEF Evolves, Answered
<1>11. QED BY <1>1, <1>2, <1>8, <1>10

\* A reclaim is sent.
LEMMA SendStep ==
    ASSUME Inv, Send
    PROVE  ReceiptOK'
<1>1. call = "reclaim" /\ place = "send" /\ Refusal = "none" /\ UNCHANGED <<blocks, mine>>
    BY DEF Send, EndReclaim
<1>2. ChainOK /\ Still
    BY <1>1, StandsStill DEF Inv
<1>3. /\ Height > 0 /\ mine /\ Expired /\ headView \in 1..Height
      /\ ~lagged => blocks[headView].status # "Closed" /\ ~Answered(blocks[headView])
    BY <1>1, FitToSend
<1>4. \/ pending' = pending + 1 /\ included' = "none"
      \/ UNCHANGED <<pending, included>>
    BY DEF Send
<1>5. PoolOK'
    BY <1>1, <1>2, <1>3, <1>4 DEF Still, Inv, ReceiptOK, PoolOK
<1>6. CASE EndReclaim("not_taken") \/ EndReclaim("unknown")
    BY <1>1, <1>5, <1>6, EndStep
<1>7. CASE /\ pending' = pending + 1
           /\ place' = "watch"
           /\ UNCHANGED <<blocks, mine, finalSeen, flow, call, headView, orderView,
                          answerView, late, lagged, said, refund, told>>
    <2>1. CallOK' /\ NotPlaced'
        BY <1>2, <1>3, <1>7 DEF Still, Inv, ReceiptOK, CallOK, NotPlaced
    <2>2. KnownFinal' /\ KnownUnanswered'
        BY <1>1, <1>2, <1>7 DEF Still, Inv, ReceiptOK, KnownFinal, KnownUnanswered, Answered
    <2>3. pending' # 0
        BY <1>7 DEF Inv, ReceiptOK, PoolOK
    <2>4. KnownReclaimable'
        BY <1>3, <1>7, <2>3 DEF KnownReclaimable, Answered
    <2>5. Outcomes'
        BY <1>1, <1>7 DEF Inv, ReceiptOK, CallOK, Outcomes
    <2>6. Said'
        BY <1>2, <1>7 DEF Still, Inv, ReceiptOK, Said, Answered
    <2>7. QED BY <1>5, <2>1, <2>2, <2>4, <2>5, <2>6 DEF ReceiptOK
<1>8. QED BY <1>6, <1>7 DEF Send

\* The watched reclaim is in a block, or watching it fails.
LEMMA WatchStep ==
    ASSUME Inv, WatchEnds \/ WatchFails
    PROVE  ReceiptOK'
<1>1. call = "reclaim" /\ place = "watch" /\ UNCHANGED <<blocks, mine>>
    BY DEF WatchEnds, WatchFails, EndReclaim
<1>2. ChainOK /\ Still
    BY <1>1, StandsStill DEF Inv
<1>3. /\ included' = included
      /\ \/ pending' = pending
         \/ pending > 0 /\ pending' = pending - 1
    BY DEF WatchEnds, WatchFails
<1>4. PoolOK'
    BY <1>1, <1>2, <1>3 DEF Still, Inv, ReceiptOK, PoolOK
<1>5. CASE EndReclaim("not_taken") \/ EndReclaim("unknown")
    BY <1>1, <1>4, <1>5, EndStep
<1>6. CASE pending = 0 /\ EndReclaim(Verdict(included))
    <2>1. included \in {"ok", "failed"}
        BY <1>1, <1>6 DEF Inv, ReceiptOK, PoolOK, KnownReclaimable
    <2>2. /\ Verdict(included) \in {"refunded", "refused_on_chain"}
          /\ Verdict(included) = "refunded" => included = "ok"
          /\ Verdict(included) = "refused_on_chain" => included = "failed"
        BY <2>1 DEF Verdict
    <2>3. /\ Verdict(included) = "refunded" => Now.status = "Closed" /\ ~Answered(Now)
          /\ Verdict(included) = "refused_on_chain" => Settled
        BY <2>2 DEF Inv, ReceiptOK, PoolOK
    <2>4. headView > 0 /\ (~lagged => blocks[headView].status # "Closed" /\ ~Answered(blocks[headView]))
        BY <1>1 DEF Inv, ReceiptOK, CallOK, KnownReclaimable
    <2>5. QED BY <1>1, <1>4, <1>6, <2>2, <2>3, <2>4, EndStep
<1>7. QED BY <1>5, <1>6 DEF WatchEnds, WatchFails

\* A call begins: what the last one said, refunded and read is forgotten.
LEMMA CallsStep ==
    ASSUME Inv, Calls
    PROVE  ReceiptOK'
<1>1. PICK method \in {"status", "wait", "summary", "query", "reclaim", "list"} :
        \E first \in {"order", "head", "answers"} :
            /\ Start(method, first)
            /\ first = "head" => method = "reclaim"
            /\ first = "order" => method \notin {"reclaim", "list"}
    BY DEF Calls, StartReclaim
<1>2. PICK first \in {"order", "head", "answers"} :
            /\ Start(method, first)
            /\ first = "head" => method = "reclaim"
            /\ first = "order" => method \notin {"reclaim", "list"}
    BY <1>1
<1>3. ChainOK /\ Still /\ Height > 0 /\ Height \in Nat
    BY <1>2, StandsStill, HeightIsNat DEF Inv, Start, mempoolVars
<1>4. /\ place' = first /\ flow' = method
      /\ call' = IF method = "query" THEN "status" ELSE method
      /\ headView' = 0 /\ lagged' = FALSE /\ said' = "nothing" /\ refund' = "none"
      /\ UNCHANGED <<mempoolVars, orderView>>
      /\ \/ finalSeen' = FALSE /\ told' = "nothing"
         \/ finalSeen' = finalSeen /\ told' = told
    BY <1>2 DEF Start, Enter
<1>5. PoolOK' /\ NotPlaced'
    BY <1>3, <1>4 DEF Still, Inv, ReceiptOK, mempoolVars, PoolOK, NotPlaced
<1>6. CallOK'
    <2>1. finalSeen' \in BOOLEAN
        <3>1. finalSeen \in BOOLEAN
            BY DEF Inv, ReceiptOK, CallOK
        <3>2. finalSeen' = FALSE \/ finalSeen' = finalSeen
            BY <1>4
        <3>3. QED BY <3>1, <3>2, Zenon
    <2>2. headView' \in 0..Height /\ orderView' \in 0..Height
        BY <1>3, <1>4 DEF Inv, ReceiptOK, CallOK
    <2>3. lagged' \in BOOLEAN
        BY <1>4, Zenon
    <2>4. QED BY <1>2, <1>3, <1>4, <2>1, <2>2, <2>3 DEF Still, CallOK
<1>7. KnownFinal'
    BY <1>3, <1>4 DEF Still, Inv, ReceiptOK, KnownFinal
<1>8. KnownUnanswered' /\ KnownReclaimable'
    BY <1>2, <1>4 DEF KnownUnanswered, KnownReclaimable
<1>9. Outcomes' /\ Said'
    BY <1>4 DEF Outcomes, Said, Unanswered
<1>10. QED BY <1>5, <1>6, <1>7, <1>8, <1>9 DEF ReceiptOK

\* The deadline of a wait passes.
LEMMA TimePassesStep ==
    ASSUME Inv, TimePasses
    PROVE  ReceiptOK'
<1>1. ChainOK /\ Still
    BY StandsStill DEF Inv, TimePasses, mempoolVars
<1>2. UNCHANGED <<mempoolVars, finalSeen, flow, call, place, headView, orderView,
                  lagged, said, refund, told>>
    BY DEF TimePasses
<1>3. PoolOK' /\ NotPlaced' /\ CallOK'
    BY <1>1, <1>2 DEF Still, Inv, ReceiptOK, mempoolVars, PoolOK, NotPlaced, CallOK
<1>4. KnownFinal' /\ KnownUnanswered' /\ KnownReclaimable'
    BY <1>1, <1>2 DEF Still, Inv, ReceiptOK, mempoolVars, KnownFinal, KnownUnanswered, KnownReclaimable, Answered
<1>5. Outcomes' /\ Said'
    BY <1>1, <1>2 DEF Still, Inv, ReceiptOK, mempoolVars, Outcomes, Said, Answered
<1>6. QED BY <1>3, <1>4, <1>5 DEF ReceiptOK

\* Every step of a call on the order keeps the chain and what is known of it.
LEMMA ReceiptStep ==
    ASSUME Inv, ReceiptNext
    PROVE  ReceiptOK' /\ UNCHANGED blocks
<1>1. ReceiptOK'
    BY StatusOrderStep, StatusHeadStep, WaitOrderStep, WaitHeadStep, SummaryHeadStep,
       ReclaimReadStep, RefuseStep, SendStep, WatchStep, CollectAnswersStep,
       CollectVectorsStep, ListStep, ListOrderStep, CallsStep, TimePassesStep
    DEF ReceiptNext, CallStep
<1>2. CallStep => blocks' = blocks
    BY DEF CallStep, StatusOrder, StatusHead, WaitOrder, WaitHead, SummaryOrder, SummaryHead,
       ReclaimHead, ReclaimOrder, Refuse, Send, WatchEnds, WatchFails, EndReclaim,
       CollectAnswers, CollectVectors, CollectRanking, ListIds, ListHead, ListOrder, mempoolVars
<1>3. Calls \/ TimePasses => blocks' = blocks
    BY DEF Calls, StartReclaim, Start, TimePasses, mempoolVars
<1>4. QED BY <1>1, <1>2, <1>3 DEF ReceiptNext

-----------------------------------------------------------------------------
(* The chain: what is known of the order stays true while blocks are made. *)

\* The pool: a reclaim that a block takes pays, or the order was settled before.
LEMMA PoolStep ==
    ASSUME Inv, OnChain
    PROVE  PoolOK' /\ Grows
<1>1. ChainOK /\ MempoolNext /\ Grows
    BY EveryBlockGrows DEF Inv, OnChain
<1>2. /\ OverAt(Height) => OverAt(Height)'
      /\ Expired => Expired'
      /\ Now.status = "Closed" => Now'.status = "Closed" /\ Expired
      /\ Answered(Now) => Answered(Now')
      /\ Expired /\ ~Answered(Now) => ~Answered(Now')
    BY <1>1, GrowsKeeps
<1>3. Settled => Settled'
    BY <1>2 DEF Settled, Answered
<1>4. Height' > 0 /\ Height > 0
    BY <1>1, HeightIsNat DEF Grows
<1>5. CASE UNCHANGED <<mine, pending, included>>
    BY <1>1, <1>2, <1>3, <1>4, <1>5 DEF Inv, ReceiptOK, PoolOK
<1>6. CASE ReclaimBlock
    <2>1. /\ pending > 0 /\ pending' = pending - 1 /\ mine' = mine
          /\ mine /\ Expired
        BY <1>6 DEF ReclaimBlock, Inv, ReceiptOK, PoolOK
    <2>2. (mine \in BOOLEAN)' /\ pending' \in Nat
        BY <2>1 DEF Inv, ReceiptOK, PoolOK
    <2>3. CASE Reclaimable
        <3>1. /\ included' = "ok"
              /\ blocks' = Append(blocks, [Now EXCEPT !.status = "Closed"])
            BY <1>6, <2>3 DEF ReclaimBlock, NewBlock
        <3>2. [Now EXCEPT !.status = "Closed"] \in Order /\ Now \in Order
            BY <1>1, <1>4, HeightIsNat, NowIs DEF Order, Statuses
        <3>3. blocks \in Seq(Order)
            BY <1>1 DEF ChainOK
        <3>4. Now' = [Now EXCEPT !.status = "Closed"]
            BY <3>1, <3>2, <3>3, AppendProperties DEF Now, Height
        <3>5. Now'.status = "Closed" /\ Now'.first = Now.first
            BY <3>2, <3>4 DEF Order
        <3>6. QED BY <1>1, <1>2, <1>4, <2>1, <2>2, <2>3, <3>1, <3>5 DEF PoolOK, Reclaimable, Answered
    <2>4. CASE ~Reclaimable
        <3>1. included' = "failed"
            BY <1>6, <2>4 DEF ReclaimBlock
        <3>2. Settled
            BY <2>1, <2>4 DEF Reclaimable, Settled
        <3>3. QED BY <1>1, <1>2, <1>3, <1>4, <2>1, <2>2, <3>1, <3>2 DEF PoolOK
    <2>5. QED BY <2>3, <2>4
<1>7. QED
    BY <1>1, <1>5, <1>6 DEF MempoolNext, EmptyBlock, AnswerBlock, ExpireBlock, CloseBlock

\* So does every step of the chain.
LEMMA ChainStep ==
    ASSUME Inv, OnChain
    PROVE  ChainOK' /\ ReceiptOK'
<1>1. PoolOK' /\ Grows /\ ChainOK
    BY PoolStep DEF Inv
<1>2. /\ OverAt(Height) => OverAt(Height)' /\ Expired
      /\ Now.status = "Closed" => Now'.status = "Closed" /\ Expired
      /\ Answered(Now) => Answered(Now')
      /\ Expired /\ ~Answered(Now) => ~Answered(Now')
    BY <1>1, GrowsKeeps
<1>3. Settled => Settled'
    BY <1>2 DEF Settled, Answered
<1>4. Height \in Nat /\ Height > 0 /\ Height' = Height + 1 /\ Height' > 0 /\ Height' \in Nat
    BY <1>1, HeightIsNat DEF Grows
<1>5. UNCHANGED <<finalSeen, flow, call, place, headView, orderView, lagged, said, refund, told>>
    BY DEF OnChain, receiptVars
<1>6. headView > 0 => blocks'[headView] = blocks[headView]
    BY <1>1, <1>4 DEF Grows, Inv, ReceiptOK, CallOK
<1>7. CallOK'
    BY <1>4, <1>5 DEF Inv, ReceiptOK, CallOK
<1>8. KnownFinal'
    BY <1>2, <1>4, <1>5 DEF Inv, ReceiptOK, KnownFinal
<1>9. KnownUnanswered'
    BY <1>2, <1>5 DEF Inv, ReceiptOK, KnownUnanswered, KnownFinal, Answered
<1>10. KnownReclaimable'
    <2>1. call = "reclaim" /\ place = "watch" /\ pending' = 0 => included' # "none"
        <3> HAVE call = "reclaim" /\ place = "watch" /\ pending' = 0
        <3>1. CASE UNCHANGED <<pending, included>>
            BY <3>1 DEF Inv, ReceiptOK, KnownReclaimable
        <3>2. CASE ReclaimBlock
            BY <3>2 DEF ReclaimBlock
        <3>3. QED
            BY <3>1, <3>2 DEF OnChain, MempoolNext, EmptyBlock, AnswerBlock, ExpireBlock, CloseBlock
    <2>2. QED
        BY <1>5, <1>6, <2>1 DEF Inv, ReceiptOK, KnownReclaimable, CallOK, Answered
<1>11. Outcomes'
    <2>1. mine' = mine
        BY DEF OnChain, MempoolNext, EmptyBlock, AnswerBlock, ExpireBlock, CloseBlock, ReclaimBlock
    <2>2. QED
        BY <1>2, <1>3, <1>4, <1>5, <1>6, <2>1 DEF Inv, ReceiptOK, Outcomes, Answered
<1>12. Said'
    BY <1>2, <1>4, <1>5 DEF Inv, ReceiptOK, Said, Answered
<1>13. NotPlaced'
    BY <1>4 DEF NotPlaced
<1>14. QED
    BY <1>1, <1>7, <1>8, <1>9, <1>10, <1>11, <1>12, <1>13 DEF Grows, ReceiptOK

-----------------------------------------------------------------------------
(* Before the order: the gates, the faucet and the proposal. *)

\* The quote is one that a gate can be asked about, or that needs a drip.
LEMMA QuoteIs ==
    ASSUME quoted \in Nat
    PROVE  /\ ~Hopeless <=> Worthwhile
           /\ Shortfall > 0 /\ Worthwhile => Needed
           /\ Shortfall > 0 <=> quoted < Total
<1>1. Total \in Nat /\ Drip \in Nat
    BY Constants
<1>2. CASE quoted < Total
    <2>1. Shortfall = Total - quoted /\ Shortfall > 0
        BY <1>1, <1>2 DEF Shortfall
    <2>2. Hopeless <=> ~settings.faucet \/ Total - quoted > Drip \/ quoted > Drip
        BY <2>1 DEF Hopeless
    <2>3. QED BY <1>1, <1>2, <2>1, <2>2 DEF Worthwhile, Needed
<1>3. CASE ~(quoted < Total)
    <2>1. Shortfall = 0
        BY <1>3 DEF Shortfall
    <2>2. QED BY <1>1, <1>3, <2>1 DEF Hopeless, Worthwhile
<1>4. QED BY <1>2, <1>3

\* The faucet pays at most one drip for a quote, into an account that was asked for.
LEMMA RequestStep ==
    ASSUME GatesOK, Request, UNCHANGED blocks
    PROVE  GatesOK'
<1>1. /\ balance \in Nat /\ unseen \in Nat /\ unseen <= balance /\ quoted \in Nat /\ Drip \in Nat
      /\ gate \in {"request", "retry"}
      /\ consents = {"autoconfirm", "autofund"} /\ drips = 0 /\ Needed /\ Height = 0
    BY Constants DEF GatesOK, Request, GateAt
<1>2. UNCHANGED <<settings, quoted, asked, consents>> /\ Height' = Height
    BY DEF Request, Height
<1>3. \/ /\ balance' = balance + Drip /\ unseen' = unseen + Drip /\ drips' = 1
         /\ gate' \in {"poll", "faucet_error"}
      \/ UNCHANGED <<balance, unseen, drips>> /\ gate' \in {"retry", "faucet_error"}
    BY <1>1 DEF Request, FaucetPays, FaucetPaysNothing, RateLimited, TransportFault, MoveGate, GateAt
<1>4. balance' \in Nat /\ unseen' \in Nat /\ unseen' <= balance'
    BY <1>1, <1>3
<1>5. Needed' /\ (Worthwhile => Worthwhile')
    BY <1>1, <1>2 DEF Needed, Worthwhile
<1>6. QED BY <1>1, <1>2, <1>3, <1>4, <1>5 DEF GatesOK

\* A gate that is passed.
LEMMA PassGateStep ==
    ASSUME GatesOK, Confirm \/ Autofund, UNCHANGED blocks
    PROVE  GatesOK'
<1>1. /\ balance \in Nat /\ unseen \in Nat /\ unseen <= balance /\ quoted \in Nat
      /\ gate \in {"autoconfirm", "autofund"} /\ drips = 0 /\ Height = 0
    BY DEF GatesOK, Confirm, Autofund, PassGate, GateAt
<1>2. UNCHANGED <<settings, balance, unseen, quoted, drips>> /\ Height' = Height
    BY DEF Confirm, Autofund, PassGate, Height
<1>3. (Worthwhile' <=> Worthwhile) /\ (Needed' <=> Needed)
    BY <1>2 DEF Worthwhile, Needed
<1>4. CASE Confirm
    <2>1. gate = "autoconfirm" /\ Worthwhile /\ consents = {}
        BY <1>4 DEF GatesOK, Confirm, PassGate, GateAt
    <2>2. \/ gate' = "autofund" /\ Shortfall > 0 /\ consents' = {"autoconfirm"}
          \/ gate' = "clear" /\ consents' = {"autoconfirm"}
          \/ gate' = "cancelled" /\ consents' = {}
        BY <1>4, <2>1 DEF Confirm, PassGate, MoveGate
    <2>3. gate' = "autofund" => Needed
        BY <1>1, <2>1, <2>2, QuoteIs
    <2>4. QED BY <1>1, <1>2, <1>3, <2>1, <2>2, <2>3 DEF GatesOK
<1>5. CASE Autofund
    <2>1. gate = "autofund" /\ Worthwhile /\ Needed /\ consents = {"autoconfirm"}
        BY <1>5 DEF GatesOK, Autofund, PassGate, GateAt
    <2>2. \/ gate' = "request" /\ consents' = {"autoconfirm", "autofund"}
          \/ gate' = "cancelled" /\ consents' = {"autoconfirm"}
        BY <1>5, <2>1 DEF Autofund, PassGate, MoveGate
    <2>3. QED BY <1>1, <1>2, <1>3, <2>1, <2>2 DEF GatesOK
<1>6. QED BY <1>4, <1>5

\* Every step of the gates keeps the account of quotes, consent and drips.
LEMMA GatesStep ==
    ASSUME GatesOK, GatesNext, gate # "off", UNCHANGED blocks
    PROVE  GatesOK'
<1>1. /\ balance \in Nat /\ unseen \in Nat /\ unseen <= balance /\ quoted \in Nat
      /\ Height = 0 /\ Height' = Height /\ Drip \in Nat /\ Total \in Nat
    BY Constants DEF GatesOK, Height
<1>2. CASE TakeQuote
    <2>1. FreeBalance \in Nat
        BY <1>1 DEF FreeBalance
    <2>2. QED BY <1>1, <1>2, <2>1 DEF TakeQuote, MoveGate, GatesOK
<1>3. CASE ShowQuote
    <2>1. /\ gate = "shown" /\ UNCHANGED <<settings, balance, unseen, quoted, asked, consents, drips>>
          /\ gate' \in {"insufficient", "autoconfirm"}
          /\ gate' = "autoconfirm" => Worthwhile
        BY <1>1, <1>3, QuoteIs DEF ShowQuote, GateAt, MoveGate
    <2>2. (Worthwhile' <=> Worthwhile) /\ (Needed' <=> Needed)
        BY <2>1 DEF Worthwhile, Needed
    <2>3. QED BY <1>1, <2>1, <2>2 DEF GatesOK
<1>4. CASE NodeCatchesUp \/ Poll \/ SpendElsewhere
    <2>1. /\ UNCHANGED <<settings, quoted, asked, consents, drips>>
          /\ \/ gate' = gate
             \/ gate = "poll" /\ gate' \in {"clear", "insufficient"}
        BY <1>4 DEF NodeCatchesUp, Poll, PollBalance, SpendElsewhere, GateAt, MoveGate
    <2>2. balance' \in Nat /\ unseen' \in Nat /\ unseen' <= balance'
        BY <1>1, <1>4 DEF NodeCatchesUp, Poll, SpendElsewhere, FreeBalance
    <2>3. (Worthwhile' <=> Worthwhile) /\ (Needed' <=> Needed)
        BY <2>1 DEF Worthwhile, Needed
    <2>4. QED BY <1>1, <2>1, <2>2, <2>3 DEF GatesOK
<1>5. QED
    BY <1>2, <1>3, <1>4, RequestStep, PassGateStep DEF GatesNext

\* Until the order is placed the receipt knows nothing.
LEMMA NothingKnown ==
    ASSUME Inv, Height = 0, UNCHANGED <<blocks, mine, pending, included>>,
           UNCHANGED <<finalSeen, call, headView, orderView, lagged, refund, told>>,
           said' \notin Unanswered
    PROVE  ReceiptOK'
<1>1. ChainOK /\ Still /\ call = "none"
    BY StandsStill DEF Inv, ReceiptOK, NotPlaced
<1>2. PoolOK' /\ CallOK' /\ NotPlaced'
    BY <1>1 DEF Still, Inv, ReceiptOK, PoolOK, CallOK, NotPlaced
<1>3. KnownFinal' /\ KnownUnanswered' /\ KnownReclaimable' /\ Said'
    BY <1>1 DEF Still, Inv, ReceiptOK, KnownFinal, KnownUnanswered, KnownReclaimable, Said
<1>4. Outcomes'
    BY <1>1 DEF Still, Inv, ReceiptOK, Outcomes
<1>5. QED BY <1>2, <1>3, <1>4 DEF ReceiptOK

\* Nothing was said of an order that is not there.
LEMMA NothingSaid ==
    ASSUME Inv, Height = 0
    PROVE  said \notin Unanswered
BY HeightIsNat DEF Inv, ReceiptOK, Said

\* A submission starts with nothing asked and nothing paid.
LEMMA SubmitStep ==
    ASSUME Inv, Submit \/ SubmitFails \/ ProposeFails
    PROVE  Inv'
<1>1. /\ Height = 0
      /\ UNCHANGED <<blocks, mine, pending, included>>
      /\ UNCHANGED <<finalSeen, call, headView, orderView, lagged, refund, told>>
      /\ UNCHANGED <<settings, balance, unseen, quoted, asked, consents, drips>>
      /\ gate' \in {"quote", "off"}
      /\ said' \notin Unanswered
    BY NothingSaid DEF Submit, SubmitFails, ProposeFails, mempoolVars, Inv, GatesOK, MoveGate, Unanswered
<1>2. ReceiptOK' /\ ChainOK' /\ Height' = 0
    BY <1>1, NothingKnown, StandsStill DEF Inv, Still
<1>3. (Worthwhile' <=> Worthwhile) /\ (Needed' <=> Needed)
    BY <1>1 DEF Worthwhile, Needed
<1>4. GatesOK'
    BY <1>1, <1>2, <1>3 DEF Inv, GatesOK
<1>5. QED BY <1>2, <1>4 DEF Inv

\* The order is placed: a chain of one block, and a receipt that knows nothing.
LEMMA ProposeStep ==
    ASSUME Inv, Propose
    PROVE  Inv'
<1>1. Height = 0 /\ said \notin Unanswered /\ call = "none" /\ ~finalSeen /\ told # "finalized"
    BY NothingSaid, HeightIsNat DEF Propose, Inv, GatesOK, ReceiptOK, NotPlaced
<1>2. /\ blocks' = <<Fresh>> /\ UNCHANGED <<mine, pending, included, finalSeen, headView, orderView, lagged, refund, told>>
      /\ call' \in {"wait", call} /\ (call' = "wait" => place' = "order")
      /\ said' \in {said, "nothing"}
      /\ gate' = "off" /\ settings' = Done
      /\ balance' = 0 /\ unseen' = 0 /\ quoted' = 0 /\ asked' = {} /\ consents' = {} /\ drips' = 0
    BY <1>1 DEF Propose, Enter, MoveGate
<1>3. Fresh \in Order
    BY DEF Fresh, Order, Statuses
<1>4. Height' = 1 /\ ChainOK'
    BY <1>2, <1>3, EvolvesIsReflexive DEF ChainOK, Height
<1>5. GatesOK'
    BY <1>2 DEF GatesOK
<1>6. pending = 0 /\ included = "none" /\ refund = "none"
    BY <1>1 DEF Inv, ReceiptOK, PoolOK, Outcomes
<1>7. PoolOK' /\ CallOK' /\ NotPlaced'
    BY <1>1, <1>2, <1>4, <1>6 DEF Inv, ReceiptOK, PoolOK, CallOK, NotPlaced
<1>8. KnownFinal' /\ KnownUnanswered' /\ KnownReclaimable'
    BY <1>1, <1>2 DEF KnownFinal, KnownUnanswered, KnownReclaimable
<1>9. Outcomes' /\ Said'
    BY <1>1, <1>2, <1>6 DEF Outcomes, Said, Unanswered
<1>10. QED BY <1>4, <1>5, <1>7, <1>8, <1>9 DEF Inv, ReceiptOK

-----------------------------------------------------------------------------
(* The session. *)

\* A fresh session is well-formed.
LEMMA InitInv == ASSUME Init PROVE Inv
<1>1. Fresh \in Order
    BY DEF Fresh, Order, Statuses
<1>2. ChainOK /\ Height \in {0, 1}
    <2>1. CASE blocks = <<>>
        BY <2>1 DEF ChainOK, Height
    <2>2. CASE blocks = <<Fresh>>
        BY <1>1, <2>2, EvolvesIsReflexive DEF ChainOK, Height
    <2>3. QED BY <2>1, <2>2 DEF Init
<1>3. mine \in BOOLEAN /\ finalSeen \in BOOLEAN /\ lagged \in BOOLEAN /\ ~finalSeen
    BY Zenon DEF Init
<1>4. PoolOK /\ NotPlaced /\ CallOK
    BY <1>2, <1>3 DEF Init, PoolOK, NotPlaced, CallOK
<1>5. KnownFinal /\ KnownUnanswered /\ KnownReclaimable /\ Outcomes /\ Said
    BY DEF Init, KnownFinal, KnownUnanswered, KnownReclaimable, Outcomes, Said, Unanswered
<1>6. balance \in Nat
    BY Constants DEF Init
<1>7. GatesOK
    BY <1>6 DEF Init, GatesOK
<1>8. QED BY <1>2, <1>4, <1>5, <1>7 DEF Inv, ReceiptOK

\* Every step of the session keeps it well-formed.
LEMMA NextInv == ASSUME Inv, [Next]_vars PROVE Inv'
<1>1. CASE Submit \/ SubmitFails \/ ProposeFails
    BY <1>1, SubmitStep
<1>2. CASE Propose
    BY <1>2, ProposeStep
<1>3. CASE Gating
    <2>1. Height = 0 /\ UNCHANGED <<blocks, mine, pending, included>> /\ UNCHANGED receiptVars
        BY <1>3 DEF Gating, mempoolVars, Inv, GatesOK
    <2>2. said' \notin Unanswered
        BY <2>1, NothingSaid DEF receiptVars
    <2>3. ReceiptOK' /\ ChainOK'
        BY <2>1, <2>2, NothingKnown, StandsStill DEF receiptVars, Inv, Still
    <2>4. GatesOK'
        BY <1>3, <2>1, GatesStep DEF Gating, Inv
    <2>5. QED BY <2>3, <2>4 DEF Inv
<1>4. CASE OnReceipt
    <2>1. ReceiptOK' /\ UNCHANGED blocks /\ UNCHANGED gatesVars
        BY <1>4, ReceiptStep DEF OnReceipt
    <2>2. ChainOK' /\ Height' = Height
        BY <2>1, StandsStill DEF Inv, Still
    <2>3. GatesOK'
        BY <2>1, <2>2 DEF Inv, GatesOK, gatesVars, Worthwhile, Needed
    <2>4. QED BY <2>1, <2>2, <2>3 DEF Inv
<1>5. CASE OnChain
    <2>1. ChainOK' /\ ReceiptOK' /\ Grows /\ UNCHANGED gatesVars
        BY <1>5, ChainStep, PoolStep DEF OnChain
    <2>2. gate = "off" /\ gate' = "off"
        BY <2>1, HeightIsNat DEF Inv, GatesOK, Grows, gatesVars
    <2>3. GatesOK'
        BY <2>1, <2>2 DEF Inv, GatesOK, gatesVars, Worthwhile, Needed
    <2>4. QED BY <2>1, <2>3 DEF Inv
<1>6. CASE UNCHANGED vars
    <2>1. ChainOK /\ Still /\ UNCHANGED <<mempoolVars, receiptVars, gatesVars>>
        BY <1>6, StandsStill DEF vars, mempoolVars, Inv
    <2>2. PoolOK' /\ CallOK' /\ NotPlaced'
        BY <2>1 DEF Still, Inv, ReceiptOK, mempoolVars, receiptVars, PoolOK, CallOK, NotPlaced
    <2>3. KnownFinal' /\ KnownUnanswered' /\ KnownReclaimable'
        BY <2>1 DEF Still, Inv, ReceiptOK, mempoolVars, receiptVars, KnownFinal, KnownUnanswered, KnownReclaimable, Answered
    <2>4. Outcomes' /\ Said'
        BY <2>1 DEF Still, Inv, ReceiptOK, mempoolVars, receiptVars, Outcomes, Said, Answered
    <2>5. GatesOK'
        BY <2>1 DEF Still, Inv, GatesOK, gatesVars, Worthwhile, Needed
    <2>6. QED BY <2>1, <2>2, <2>3, <2>4, <2>5 DEF Still, Inv, ReceiptOK
<1>7. QED BY <1>1, <1>2, <1>3, <1>4, <1>5, <1>6 DEF Next

\* The invariant of the session holds throughout, whatever the chain, the nodes that
\* answer, the faucet and the user's calls do.
THEOREM SessionInvariant == Spec => []Inv
<1>1. Init => Inv
    BY InitInv
<1>2. Inv /\ [Next]_vars => Inv'
    BY NextInv
<1>3. QED BY <1>1, <1>2, PTL DEF Spec

\* What a read has shown final stays final: no answer can change the order any more
\* (receipt.py status, wait).
THEOREM SeenFinalIsFinal == Spec => []FinalSeenIsFinal
<1>1. Inv => FinalSeenIsFinal
    BY DEF Inv, ReceiptOK, KnownFinal, FinalSeenIsFinal
<1>2. QED BY <1>1, SessionInvariant, PTL

\* status() never takes finalized back (receipt.py, _final_seen).
THEOREM FinalizedIsKept == Spec => StatusNeverReopens
<1>1. Inv /\ [Next]_vars => [told = "finalized" => told' # "submitted"]_vars
    <2> SUFFICES ASSUME Inv, Next, told = "finalized"
                 PROVE  told' # "submitted"
        OBVIOUS
    <2>1. finalSeen
        BY DEF Inv, ReceiptOK, KnownFinal
    <2>2. CASE StatusHead
        <3>1. PICK v \in Views : Tell(Lifecycle(blocks[orderView], v).final)
            BY <2>2 DEF StatusHead
        <3>2. finalSeen' = TRUE
            BY <2>1, <3>1 DEF Tell
        <3>3. QED BY <3>1, <3>2 DEF Tell
    <2>3. CASE \E method \in {"status", "wait", "summary", "query", "reclaim", "list"},
                  first \in {"order", "head", "answers"} : Start(method, first)
        BY <2>3 DEF Start
    <2>4. CASE UNCHANGED told
        BY <2>4
    <2>5. OnReceipt => UNCHANGED told \/ StatusHead
                       \/ \E method \in {"status", "wait", "summary", "query", "reclaim", "list"},
                             first \in {"order", "head", "answers"} : Start(method, first)
        BY DEF OnReceipt, ReceiptNext, CallStep, StatusOrder, WaitOrder, WaitHead, SummaryOrder, SummaryHead,
           ReclaimHead, ReclaimOrder, Refuse, Send, WatchEnds, WatchFails, EndReclaim, KeepLocals,
           CollectAnswers, CollectVectors, CollectRanking, ListIds, ListHead, ListOrder,
           Calls, StartReclaim, TimePasses
    <2>6. OnReceipt \/ UNCHANGED told
        BY DEF Next, Submit, SubmitFails, ProposeFails, Propose, Gating, OnChain, receiptVars
    <2>7. QED BY <2>2, <2>3, <2>4, <2>5, <2>6
<1>2. QED BY <1>1, SessionInvariant, PTL DEF Spec, StatusNeverReopens

\* What reclaim() reports is true of the chain, and stays true (receipt.py reclaim).
THEOREM ReclaimTellsTheTruth == Spec => []ReclaimIsHonest
<1>1. Inv => ReclaimIsHonest
    BY DEF Inv, ReceiptOK, Outcomes, ReclaimIsHonest, Refusals, Reclaimable, Settled
<1>2. QED BY <1>1, SessionInvariant, PTL

\* When the client says that nobody answered, nobody did and nobody will, unless a
\* node that is behind said so (client.py _collect_result, list_orders).
THEOREM SaidUnansweredIsTrue == Spec => []UnansweredIsTrue
<1>1. Inv => UnansweredIsTrue
    BY DEF Inv, ReceiptOK, Said, Unanswered, UnansweredIsTrue
<1>2. QED BY <1>1, SessionInvariant, PTL

\* Money moves on a consent to this quote only, whatever the prices, the drip and
\* the balance (client.py _clear_gates).
THEOREM ConsentComesFirst == Spec => []MoneyNeedsConsent
<1>1. Inv => MoneyNeedsConsent
    BY DEF Inv, GatesOK, Worthwhile, Needed, MoneyNeedsConsent
<1>2. QED BY <1>1, SessionInvariant, PTL
=============================================================================
