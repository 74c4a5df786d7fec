------------------------------- MODULE Receipt -------------------------------
(***************************************************************************)
(* A JobOrderReceipt (xqsa/quip/receipt.py) and the calls of a SolverQuip  *)
(* that end in it.  Every chain read of a call is a step of its own: blocks *)
(* are made between two reads, and each read may be answered by a node     *)
(* that is up to Lag blocks behind.                                        *)
(*                                                                         *)
(* call and place say which call runs and at which read it is; flow is the *)
(* call of the user it runs for.  The views are the heights its reads were *)
(* answered at.                                                            *)
(***************************************************************************)
EXTENDS Mempool

VARIABLES
    finalSeen,  \* JobOrderReceipt._final_seen
    flow,       \* the user's call: solve, query, or the receipt's method itself
    call,       \* the method that runs: status, wait, summary, collect, reclaim or list
    place,      \* where it is: order, head, answers, vectors, ranking, send or watch
    headView,   \* where current_block() was answered
    orderView,  \* where fetch_order() was answered
    answerView, \* where the solutions were read
    late,       \* the timeout of wait() has passed (time.monotonic)
    lagged,     \* a read of the user's call was answered by a node behind
    said,       \* what the user's last call returned or raised
    refund,     \* how the last reclaim() of it ended
    told        \* the state status() told last: submitted or finalized

receiptVars == <<finalSeen, flow, call, place, headView, orderView, answerView,
                 late, lagged, said, refund, told>>

\* What reclaim() ends in.  Refusals are QuipReclaimRefusedError; "not_taken"
\* and "unknown" are QuipSubmissionError.
Refusals == {"not_proposer", "closed", "open", "answered", "refused_on_chain"}
-----------------------------------------------------------------------------
(* Moving a call. *)

\* A read answered at v moves the call on.
ReadAt(v, next) ==
    /\ v \in Views
    /\ place' = next
    /\ lagged' = (lagged \/ v < Height)

Enter(method, first) == call' = method /\ place' = first

\* The user's call returns or raises; its locals are gone.  headView is kept
\* for the properties until the next call.
Return(what) ==
    /\ said' = what
    /\ call' = "none" /\ place' = "idle" /\ flow' = "none"
    /\ orderView' = 0 /\ answerView' = 0 /\ late' = FALSE

Life == Lifecycle(blocks[orderView], headView)

-----------------------------------------------------------------------------
(* The reads. *)

ReadOrder(next) ==
    /\ place = "order"
    /\ \E v \in Views : orderView' = v /\ ReadAt(v, next)

ReadHead(next) ==
    /\ place = "head"
    /\ \E v \in Views : headView' = v /\ ReadAt(v, next)

KeepLocals == UNCHANGED <<flow, call, late, said, refund, told>>

-----------------------------------------------------------------------------
(* status(): the order, then the head. *)

\* Mutant: a later read from a node behind reopens the order.
TellAsRead(final) ==
    /\ finalSeen' = final
    /\ told' = IF final THEN "finalized" ELSE "submitted"

\* Once seen final it stays final, whatever a later read says.
Tell(final) ==
    /\ finalSeen' = (finalSeen \/ final)
    /\ told' = IF finalSeen' THEN "finalized" ELSE "submitted"

StatusOrder ==
    /\ call = "status" /\ ReadOrder("head")
    /\ KeepLocals /\ UNCHANGED <<mempoolVars, finalSeen, headView, answerView>>

\* query() goes on with the result once the status is finalized.
StatusHead ==
    /\ call = "status" /\ place = "head"
    /\ \E v \in Views :
        /\ headView' = v
        /\ lagged' = (lagged \/ v < Height)
        /\ Tell(Lifecycle(blocks[orderView], v).final)
    /\ IF flow = "query" /\ finalSeen'
       THEN /\ Enter("collect", "answers")
            /\ orderView' = 0
            /\ UNCHANGED <<flow, answerView, late, said>>
       ELSE Return(IF flow = "query" THEN "not_final" ELSE "status")
    /\ UNCHANGED <<mempoolVars, refund>>

-----------------------------------------------------------------------------
(* wait(): polls until the order is final or the timeout has passed. *)

\* The order is final: solve() goes on with the result.
Waited ==
    /\ finalSeen' = TRUE
    /\ IF flow = "solve"
       THEN /\ Enter("collect", "answers")
            /\ orderView' = 0 /\ late' = FALSE
            /\ UNCHANGED <<flow, answerView, said>>
       ELSE Return("waited")

\* A terminal status needs no head, nor does an order seen final before.
WaitOrder ==
    /\ call = "wait" /\ place = "order"
    /\ \E v \in Views :
        /\ lagged' = (lagged \/ v < Height)
        /\ IF finalSeen \/ blocks[v].status # "Opened"
           THEN Waited
           ELSE /\ orderView' = v /\ place' = "head"
                /\ UNCHANGED <<finalSeen, flow, call, answerView, late, said>>
    /\ UNCHANGED <<mempoolVars, headView, refund, told>>

\* Mutant: a poll that finds the order open polls again, past the timeout.
PollAgain(final) ==
    IF final THEN Waited
    ELSE /\ place' = "order" /\ orderView' = 0
         /\ UNCHANGED <<finalSeen, flow, call, answerView, late, said>>

\* The end of a poll: final, out of time, or another poll.
PollEnds(final) ==
    CASE final -> Waited
      [] ~final /\ late -> Return("timeout") /\ UNCHANGED finalSeen
      [] OTHER -> /\ place' = "order" /\ orderView' = 0
                  /\ UNCHANGED <<finalSeen, flow, call, answerView, late, said>>

WaitHead ==
    /\ call = "wait" /\ place = "head"
    /\ \E v \in Views :
        /\ headView' = v
        /\ lagged' = (lagged \/ v < Height)
        /\ PollEnds(Lifecycle(blocks[orderView], v).final)
    /\ UNCHANGED <<mempoolVars, refund, told>>

\* The clock passes the deadline of wait().
TimePasses ==
    /\ call = "wait" /\ ~late
    /\ late' = TRUE
    /\ UNCHANGED <<mempoolVars, finalSeen, flow, call, place, headView, orderView,
                   answerView, lagged, said, refund, told>>

-----------------------------------------------------------------------------
(* summary(): _outcome reads the order, then the head. *)

SummaryOrder ==
    /\ call = "summary" /\ ReadOrder("head")
    /\ KeepLocals /\ UNCHANGED <<mempoolVars, finalSeen, headView, answerView>>

Outcome(o, life) ==
    CASE life.status = "Closed" -> "closed"
      [] life.status # "Closed" /\ ~life.final -> "open"
      [] OTHER -> IF Answered(o) THEN "final" ELSE "reclaimable"

SummaryHead ==
    /\ call = "summary" /\ place = "head"
    /\ \E v \in Views :
        /\ headView' = v
        /\ lagged' = (lagged \/ v < Height)
        /\ Return(Outcome(blocks[orderView], Lifecycle(blocks[orderView], v)))
    /\ UNCHANGED <<mempoolVars, finalSeen, refund, told>>

-----------------------------------------------------------------------------
(* reclaim(): the head, then the order, so that the order reflects every    *)
(* answer up to that head; then one extrinsic.                              *)

\* Mutant: the order is read first.
ReclaimOrderFirst ==
    /\ call = "reclaim"
    /\ \/ place = "head" /\ orderView = 0 /\ (\E v \in Views : orderView' = v /\ ReadAt(v, "head"))
          /\ UNCHANGED headView
       \/ place = "head" /\ orderView # 0 /\ (\E v \in Views : headView' = v /\ ReadAt(v, "send"))
          /\ UNCHANGED orderView
    /\ KeepLocals /\ UNCHANGED <<mempoolVars, finalSeen, answerView>>

ReclaimHead ==
    /\ call = "reclaim" /\ ReadHead("order")
    /\ KeepLocals /\ UNCHANGED <<mempoolVars, finalSeen, orderView, answerView>>

\* The conditions, in the order the chain checks them.  The extrinsic executes
\* in a later block than the head, so one block short of the expiry will do.
Refusal ==
    CASE ~mine -> "not_proposer"
      [] mine /\ Life.status = "Closed" -> "closed"
      [] mine /\ Life.status # "Closed" /\ ~(Life.final \/ finalSeen) /\ headView + 1 < Life.expiry -> "open"
      [] OTHER -> IF Answered(blocks[orderView]) THEN "answered" ELSE "none"

ReclaimOrder ==
    /\ call = "reclaim" /\ ReadOrder("send")
    /\ KeepLocals /\ UNCHANGED <<mempoolVars, finalSeen, headView, answerView>>

\* reclaim() ends; under solve() and query() _try_reclaim swallows the outcome
\* and QuipJobFailedError is raised.
EndReclaim(outcome) ==
    /\ refund' = outcome
    /\ Return(IF flow = "reclaim" THEN "reclaimed" ELSE "no_solutions")
    /\ UNCHANGED <<mine, blocks, finalSeen, headView, lagged, told>>

Refuse ==
    /\ call = "reclaim" /\ place = "send" /\ Refusal # "none"
    /\ EndReclaim(Refusal)
    /\ UNCHANGED <<pending, included>>

\* _send_extrinsic: the node takes it and is watched, rejects it outright, or
\* the connection fails and it may be in the pool or not.
Send ==
    /\ call = "reclaim" /\ place = "send" /\ Refusal = "none"
    /\ pending < MaxPending
    /\ \/ /\ pending' = pending + 1 /\ included' = "none"
          /\ place' = "watch"
          /\ UNCHANGED <<blocks, mine, finalSeen, flow, call, headView, orderView,
                         answerView, late, lagged, said, refund, told>>
       \/ EndReclaim("not_taken") /\ UNCHANGED <<pending, included>>
       \/ /\ EndReclaim("unknown")
          /\ \/ pending' = pending + 1 /\ included' = "none"
             \/ UNCHANGED <<pending, included>>

\* The receipt of the extrinsic: its dispatch succeeded or failed.
Verdict(end) == IF end = "ok" THEN "refunded" ELSE "refused_on_chain"

\* The watched reclaim, the last of the pool, is in a block; its events may be
\* unreadable.
WatchEnds ==
    /\ call = "reclaim" /\ place = "watch" /\ pending = 0
    /\ EndReclaim(Verdict(included)) \/ EndReclaim("unknown")
    /\ UNCHANGED <<pending, included>>

\* The pool drops it, or the connection fails while it is watched.
WatchFails ==
    /\ call = "reclaim" /\ place = "watch" /\ pending > 0
    /\ \/ EndReclaim("not_taken") /\ pending' = pending - 1
       \/ EndReclaim("unknown") /\ UNCHANGED pending
    /\ UNCHANGED included

-----------------------------------------------------------------------------
(* _collect_result: the answers, the vectors again, then the ranking. *)

\* With no answers the reward is reclaimed before the failure is raised.
CollectAnswers ==
    /\ call = "collect" /\ place = "answers"
    /\ \E v \in Views :
        /\ lagged' = (lagged \/ v < Height)
        /\ IF Answered(blocks[v]) THEN place' = "vectors" /\ UNCHANGED call
                                  ELSE Enter("reclaim", "head")
    /\ UNCHANGED <<mempoolVars, finalSeen, flow, headView, orderView, answerView,
                   late, said, refund, told>>

\* pick_best reads every stored vector; none at all is an error of its own.
CollectVectors ==
    /\ call = "collect" /\ place = "vectors"
    /\ \E v \in Views :
        /\ lagged' = (lagged \/ v < Height)
        /\ IF Answered(blocks[v])
           THEN /\ answerView' = v /\ place' = "ranking"
                /\ UNCHANGED <<flow, call, orderView, late, said>>
           ELSE Return("no_answers")
    /\ UNCHANGED <<mempoolVars, finalSeen, headView, refund, told>>

CollectRanking ==
    /\ call = "collect" /\ place = "ranking"
    /\ \E v \in Views : lagged' = (lagged \/ v < Height)
    /\ Return("result")
    /\ UNCHANGED <<mempoolVars, finalSeen, headView, refund, told>>

-----------------------------------------------------------------------------
(* list_orders("unanswered"): the account's list, the head, then the order. *)

ListIds ==
    /\ call = "list" /\ place = "answers"
    /\ \E v \in Views :
        /\ lagged' = (lagged \/ v < Height)
        /\ IF ListedAt(v) THEN place' = "head" /\ UNCHANGED <<flow, call, orderView, answerView, late, said>>
                          ELSE Return("unlisted")
    /\ UNCHANGED <<mempoolVars, finalSeen, headView, refund, told>>

ListHead ==
    /\ call = "list" /\ ReadHead("order")
    /\ KeepLocals /\ UNCHANGED <<mempoolVars, finalSeen, orderView, answerView>>

\* Mutant: an order that is only unanswered so far is listed.
InStateOpen(o, life) == life.status # "Closed" /\ ~Answered(o)

\* _order_in_state for "unanswered".
InState(o, life) == life.final /\ life.status # "Closed" /\ ~Answered(o)

ListOrder ==
    /\ call = "list" /\ place = "order"
    /\ \E v \in Views :
        /\ lagged' = (lagged \/ v < Height)
        /\ Return(IF InState(blocks[v], Lifecycle(blocks[v], headView)) THEN "listed" ELSE "unlisted")
    /\ UNCHANGED <<mempoolVars, finalSeen, headView, refund, told>>

-----------------------------------------------------------------------------
(* Calls of the user on a receipt. *)

\* A call of a method begins; query() makes a receipt of its own, which has seen
\* nothing yet (get_receipt).
Start(method, first) ==
    /\ Height > 0 /\ call = "none"
    /\ flow' = method
    /\ IF method = "query" THEN Enter("status", first) ELSE Enter(method, first)
    /\ headView' = 0 /\ lagged' = FALSE /\ said' = "nothing" /\ refund' = "none"
    /\ IF method = "query" THEN finalSeen' = FALSE /\ told' = "nothing"
                          ELSE UNCHANGED <<finalSeen, told>>
    /\ UNCHANGED <<mempoolVars, orderView, answerView, late>>

StartReclaim == Start("reclaim", "head")

Calls ==
    \/ \E method \in {"status", "wait", "summary", "query"} : Start(method, "order")
    \/ StartReclaim
    \/ Start("list", "answers")

\* A step of the running call.
CallStep ==
    \/ StatusOrder \/ StatusHead
    \/ WaitOrder \/ WaitHead
    \/ SummaryOrder \/ SummaryHead
    \/ ReclaimHead \/ ReclaimOrder \/ Refuse \/ Send \/ WatchEnds \/ WatchFails
    \/ CollectAnswers \/ CollectVectors \/ CollectRanking
    \/ ListIds \/ ListHead \/ ListOrder

ReceiptNext == Calls \/ CallStep \/ TimePasses
=============================================================================
