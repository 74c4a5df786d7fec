------------------------------- MODULE Session -------------------------------
(***************************************************************************)
(* A session of a SolverQuip with one order: solve() and submit() through  *)
(* the gates, then the order's receipt beside the chain that answers,      *)
(* expires, pays and refunds it.  The submission engine between the gates  *)
(* and the placed order is module JobOrder; here it places the order or    *)
(* fails.                                                                  *)
(***************************************************************************)
EXTENDS Receipt, Gates

CONSTANT MaxSubmits     \* bound: submits that are started

VARIABLE submits

vars == <<mempoolVars, receiptVars, gatesVars, submits>>

Fresh == [status |-> "Opened", first |-> 0]

\* A new order is still to be submitted, or an order of an earlier session, or of
\* another account, is looked up by its id.
Init ==
    /\ \/ blocks = <<>> /\ mine = TRUE /\ settings \in Settings /\ balance \in 0..MaxBalance
       \/ blocks = <<Fresh>> /\ mine \in BOOLEAN /\ settings = Done /\ balance = 0
    /\ pending = 0 /\ included = "none"
    /\ finalSeen = FALSE /\ flow = "none" /\ call = "none" /\ place = "idle"
    /\ headView = 0 /\ orderView = 0 /\ answerView = 0
    /\ late = FALSE /\ lagged = FALSE
    /\ said = "nothing" /\ refund = "none" /\ told = "nothing"
    /\ unseen = 0 /\ gate = "off" /\ quoted = 0 /\ asked = {} /\ consents = {} /\ drips = 0
    /\ submits = 0

\* solve() starts, or JobOrder.submit() (flow "none": nothing follows it).
Submit ==
    /\ Height = 0 /\ call = "none" /\ gate = "off" /\ submits < MaxSubmits
    /\ submits' = submits + 1
    /\ MoveGate("quote")
    /\ flow' \in {"solve", "none"}
    /\ UNCHANGED <<mempoolVars, finalSeen, call, place, headView, orderView, answerView,
                   late, lagged, said, refund, told,
                   settings, balance, unseen, quoted, asked, consents, drips>>

\* A gate, the faucet or the funds stopped it.
SubmitFails ==
    /\ gate \in {"cancelled", "insufficient", "faucet_error"}
    /\ MoveGate("off") /\ said' = gate /\ flow' = "none"
    /\ UNCHANGED <<mempoolVars, finalSeen, call, place, headView, orderView, answerView,
                   late, lagged, refund, told,
                   settings, balance, unseen, quoted, asked, consents, drips, submits>>

\* The proposal does not land.
ProposeFails ==
    /\ gate = "clear"
    /\ MoveGate("off") /\ said' = "not_sent" /\ flow' = "none"
    /\ UNCHANGED <<mempoolVars, finalSeen, call, place, headView, orderView, answerView,
                   late, lagged, refund, told,
                   settings, balance, unseen, quoted, asked, consents, drips, submits>>

\* The proposal lands and the order is placed; solve() waits for it.  Nothing
\* reads the gates' state after this, and it is forgotten.
Propose ==
    /\ gate = "clear" /\ balance >= Total
    /\ blocks' = <<Fresh>>
    /\ IF flow = "solve" THEN Enter("wait", "order") /\ UNCHANGED <<flow, said>>
       ELSE said' = "nothing" /\ UNCHANGED <<flow, call, place>>
    /\ MoveGate("off") /\ settings' = Done
    /\ balance' = 0 /\ unseen' = 0 /\ quoted' = 0 /\ asked' = {} /\ consents' = {} /\ drips' = 0
    /\ submits' = 0
    /\ UNCHANGED <<mine, pending, included, finalSeen, headView, orderView, answerView,
                   late, lagged, refund, told>>

Gating ==
    /\ gate # "off" /\ GatesNext
    /\ UNCHANGED <<mempoolVars, receiptVars, submits>>

OnReceipt == ReceiptNext /\ UNCHANGED <<gatesVars, submits>>

OnChain == MempoolNext /\ UNCHANGED <<receiptVars, gatesVars, submits>>

Next == Submit \/ SubmitFails \/ ProposeFails \/ Propose \/ Gating \/ OnReceipt \/ OnChain

\* The running call takes its steps (reads are answered or fail with an error
\* that ends the call, which is no worse), and the clock runs.  The chain may
\* stand still.
Fairness ==
    /\ WF_vars(CallStep /\ UNCHANGED <<gatesVars, submits>>)
    /\ WF_vars(TimePasses /\ UNCHANGED <<gatesVars, submits>>)

Spec == Init /\ [][Next]_vars /\ Fairness

-----------------------------------------------------------------------------

\* Once a read has shown the order final, no answer can change it any more: the
\* two reads behind that verdict are blocks apart and may come from nodes that
\* are behind (receipt.py status, wait).
FinalSeenIsFinal == finalSeen => OverAt(Height)

\* A status that was reported finalized is never reported submitted again, also
\* when a node that is behind answers later (receipt.py, _final_seen).
StatusNeverReopens == [][told = "finalized" => told' # "submitted"]_vars

\* A reclaim reported as paid closed the order unanswered.  One refused for any
\* other reason than that the order is still open could not be paid by sending
\* it again.  And a fee is lost on a reclaim only to a race: with every read
\* answered by a node that is up to date, the order was reclaimable at the head
\* that was read (receipt.py reclaim, QuipReclaimRefusedError; "a reclaim the
\* chain would refuse is caught here").
ReclaimIsHonest ==
    /\ refund = "refunded" => Now.status = "Closed" /\ ~Answered(Now)
    /\ refund \in Refusals \ {"open"} => ~Reclaimable
    /\ refund = "refused_on_chain" /\ ~lagged
         => blocks[headView].status # "Closed" /\ ~Answered(blocks[headView])

\* When the client says that nobody answered, because solve() or query() failed
\* for that reason or list_orders named the order as unanswered, nobody did and
\* nobody will, unless a node that is behind said so.
UnansweredIsTrue ==
    said \in {"no_solutions", "no_answers", "listed"} /\ ~lagged
        => ~Answered(Now) /\ OverAt(Height)

\* No drip is paid and no job is sent before the gates consented to this quote,
\* nobody is asked about a job that cannot go out, and the faucet pays one
\* submit at most one drip, which was needed and is enough (_clear_gates).
MoneyNeedsConsent ==
    /\ gate = "clear" => "autoconfirm" \in consents
    /\ asked # {} => \/ quoted >= Total
                     \/ settings.faucet /\ quoted <= Drip /\ quoted + Drip >= Total
    /\ drips > 0 => /\ consents = {"autoconfirm", "autofund"}
                    /\ drips = 1 /\ quoted < Total /\ quoted + Drip >= Total

\* wait() returns, also when the chain stands still.
WaitReturns == (call = "wait") ~> (call # "wait")
=============================================================================
