------------------------------- MODULE JobOrder -------------------------------
(***************************************************************************)
(* The lifecycle of Quip orders (xqsa/quip/order.py) over the submission   *)
(* engine of SolverQuip (xqsa/quip/client.py): quote, set, submit, status, *)
(* copy and pickle, with the signing, sending, settling and resuming that  *)
(* they run, interleaved with the chain, with other orders of the same     *)
(* account and with other clients of it.                                   *)
(*                                                                         *)
(* pc[o] is the place a call on order o has reached; between two places    *)
(* the chain and the other orders move.  A call ends at "idle".            *)
(***************************************************************************)
EXTENDS QuipChain

CONSTANTS
    None,               \* no signed bytes, no reading
    InterruptPoints     \* the places at which a KeyboardInterrupt may arrive

VARIABLES
    state,      \* JobOrder._state
    signed,     \* JobOrder._signed
    entry,      \* the ledger position _record noted (_order_id, _block_hash); 0 if none
    pc,         \* where the running call is
    call,       \* which call runs: submit, quote, set or status
    bytes,      \* the local `signed` of submit() and of the settle methods
    seen,       \* the account nonce the call read last
    late,       \* the settle deadline has passed (time.monotonic)
    lastFinal   \* _settle's last_final

orderVars == <<state, signed, entry, pc, call, bytes, seen, late, lastFinal>>
vars == <<chainVars, orderVars>>

States == {"absent", "draft", "sending", "submitted", "failed"}
Calls == {"submit", "quote", "set", "status"}

\* Before anything is sent: the reads, the signing and the consent gates.
Preparing == {"nonce", "head", "gates", "check", "resign", "recheck"}
Settling == {"settle", "once"}
Places == Preparing \cup Settling \cup {"idle", "send", "record"}

\* The places at which the call works on signed bytes.
WithBytes == (Places \ {"idle", "nonce", "head"})

ASSUME OrderAssumption ==
    /\ None \notin Tx \cup Nat
    /\ InterruptPoints \subseteq Places

TypeOK ==
    /\ ChainTypeOK
    /\ state \in [Orders -> States]
    /\ signed \in [Orders -> Tx \cup {None}]
    /\ entry \in [Orders -> Nat]
    /\ pc \in [Orders -> Places]
    /\ call \in [Orders -> Calls]
    /\ bytes \in [Orders -> Tx \cup {None}]
    /\ seen \in [Orders -> Nat]
    /\ late \in [Orders -> BOOLEAN]
    /\ lastFinal \in [Orders -> Nat \cup {None}]
    /\ \A o \in Orders : pc[o] \in WithBytes => bytes[o] # None

Init ==
    /\ ChainInit
    /\ state \in [Orders -> {"absent", "draft"}]
    /\ \E o \in Orders : state[o] = "draft"
    /\ signed = [o \in Orders |-> None]
    /\ entry = [o \in Orders |-> 0]
    /\ pc = [o \in Orders |-> "idle"]
    /\ call = [o \in Orders |-> "submit"]
    /\ bytes = [o \in Orders |-> None]
    /\ seen = [o \in Orders |-> 0]
    /\ late = [o \in Orders |-> FALSE]
    /\ lastFinal = [o \in Orders |-> None]

-----------------------------------------------------------------------------
(* Moving a call. *)

Goto(o, place) == pc' = [pc EXCEPT ![o] = place]

Keep(o, b) == bytes' = [bytes EXCEPT ![o] = b]

\* The call returns or raises; its locals are gone.
Finish(o) ==
    /\ Goto(o, "idle")
    /\ Keep(o, None)
    /\ call' = [call EXCEPT ![o] = "submit"]
    /\ seen' = [seen EXCEPT ![o] = 0]
    /\ late' = [late EXCEPT ![o] = FALSE]
    /\ lastFinal' = [lastFinal EXCEPT ![o] = None]

\* Mutant: settles the bytes the order cached, not the ones that were sent.
SettleCached(o, b) ==
    /\ Goto(o, "settle")
    /\ Keep(o, signed[o])
    /\ late' = [late EXCEPT ![o] = FALSE]
    /\ \E f \in FinalizedHeads \cup {None} : lastFinal' = [lastFinal EXCEPT ![o] = f]

\* _settle starts: a deadline ahead, and the finalized head as last_final,
\* or None when it cannot be read.
StartSettling(o, b) ==
    /\ Goto(o, "settle")
    /\ Keep(o, b)
    /\ late' = [late EXCEPT ![o] = FALSE]
    /\ \E f \in FinalizedHeads \cup {None} : lastFinal' = [lastFinal EXCEPT ![o] = f]

\* Mutant: the bytes of the interrupted call are forgotten.
LeaveBare(o) ==
    /\ state' = [state EXCEPT ![o] = "sending"]
    /\ Finish(o)
    /\ UNCHANGED <<signed, entry>>

\* The order stays or becomes "sending" with its bytes kept (JobOrder._sending).
LeaveSending(o) ==
    /\ state' = [state EXCEPT ![o] = "sending"]
    /\ signed' = [signed EXCEPT ![o] = bytes[o]]
    /\ Finish(o)
    /\ UNCHANGED entry

-----------------------------------------------------------------------------
(* The calls. *)

\* submit() on a draft drops the cached bytes and works on them, or signs; on
\* a "sending" order it resumes with the bytes kept.
Submit(o) ==
    /\ pc[o] = "idle"
    /\ call' = [call EXCEPT ![o] = "submit"]
    /\ \/ /\ state[o] = "draft" /\ signed[o] = None
          /\ Goto(o, "nonce")
          /\ UNCHANGED <<signed, bytes, late, lastFinal>>
       \/ /\ state[o] = "draft" /\ signed[o] # None
          /\ Goto(o, "gates")
          /\ Keep(o, signed[o])
          /\ signed' = [signed EXCEPT ![o] = None]
          /\ UNCHANGED <<late, lastFinal>>
       \/ /\ state[o] = "sending" /\ signed[o] # None
          /\ StartSettling(o, signed[o])
          /\ UNCHANGED signed
    /\ UNCHANGED <<chainVars, state, entry, seen>>

\* _settle_first: quote(), set(), status(), receipt() and wait() make one
\* attempt to settle a "sending" order before they act.
SettleFirst(o, c) ==
    /\ pc[o] = "idle" /\ state[o] = "sending" /\ signed[o] # None
    /\ call' = [call EXCEPT ![o] = c]
    /\ Goto(o, "once")
    /\ Keep(o, signed[o])
    /\ UNCHANGED <<chainVars, state, signed, entry, seen, late, lastFinal>>

\* quote() on a draft: the cached bytes are priced, or new ones are signed.
Quote(o) ==
    \/ SettleFirst(o, "quote")
    \/ /\ pc[o] = "idle" /\ state[o] = "draft" /\ signed[o] = None
       /\ call' = [call EXCEPT ![o] = "quote"]
       /\ Goto(o, "nonce")
       /\ UNCHANGED <<chainVars, state, signed, entry, bytes, seen, late, lastFinal>>

\* set() on a draft: the cached bytes price another configuration; drop them.
Set(o) ==
    \/ SettleFirst(o, "set")
    \/ /\ pc[o] = "idle" /\ state[o] = "draft"
       /\ signed' = [signed EXCEPT ![o] = None]
       /\ UNCHANGED <<chainVars, state, entry, pc, call, bytes, seen, late, lastFinal>>

Status(o) == SettleFirst(o, "status")

\* Mutant: an order can be copied while it is "sending".
CopyUnguarded(o, n) ==
    /\ pc[o] = "idle" /\ pc[n] = "idle"
    /\ state[n] = "absent" /\ state[o] # "absent"
    /\ state' = [state EXCEPT ![n] = state[o]]
    /\ entry' = [entry EXCEPT ![n] = entry[o]]
    /\ UNCHANGED <<chainVars, signed, pc, call, bytes, seen, late, lastFinal>>

\* copy() and deepcopy(): refused while "sending"; the copy holds no bytes.
Copy(o, n) ==
    /\ pc[o] = "idle" /\ pc[n] = "idle"
    /\ state[n] = "absent" /\ state[o] \notin {"absent", "sending"}
    /\ state' = [state EXCEPT ![n] = state[o]]
    /\ entry' = [entry EXCEPT ![n] = entry[o]]
    /\ UNCHANGED <<chainVars, signed, pc, call, bytes, seen, late, lastFinal>>

\* The process saves the order, ends, and another loads it: __getstate__ keeps
\* the bytes of a "sending" order only.
Reload(o) ==
    /\ pc[o] = "idle" /\ state[o] \notin {"absent", "sending"}
    /\ signed' = [signed EXCEPT ![o] = None]
    /\ UNCHANGED <<chainVars, state, entry, pc, call, bytes, seen, late, lastFinal>>

-----------------------------------------------------------------------------
(* Signing and the checks before the send. *)

\* SolverQuip._sign without a nonce reads the current one first.
ReadNonce(o) ==
    /\ pc[o] = "nonce"
    /\ \E n \in AccountNonces : seen' = [seen EXCEPT ![o] = n]
    /\ Goto(o, "head")
    /\ UNCHANGED <<chainVars, state, signed, entry, call, bytes, late, lastFinal>>

\* A call signed with the nonce read, at a finalized head the best block has
\* not left half a window behind.
Signatures(o) ==
    {[order |-> o, nonce |-> seen[o], checkpoint |-> f] :
        f \in {g \in FinalizedHeads : \E b \in BestBlocks(g) : b - g < Window \div 2}}

\* The rest of _sign.  quote() caches the bytes; submit() goes on to the gates.
Sign(o) ==
    /\ pc[o] = "head"
    /\ \E t \in Signatures(o) :
          \/ /\ call[o] = "submit"
             /\ Goto(o, "gates")
             /\ Keep(o, t)
             /\ seen' = [seen EXCEPT ![o] = 0]
             /\ UNCHANGED <<signed, call, late, lastFinal>>
          \/ /\ call[o] = "quote"
             /\ signed' = [signed EXCEPT ![o] = t]
             /\ Finish(o)
    /\ UNCHANGED <<chainVars, state, entry>>

\* _clear_gates consents, funding the account if it is short.
PassGates(o) ==
    /\ pc[o] = "gates"
    /\ Goto(o, "check")
    /\ UNCHANGED <<chainVars, state, signed, entry, call, bytes, seen, late, lastFinal>>

\* _window_lapsing: less than half of the window is left after the best block.
WindowLapsing(t, best) == WindowEnd(t) < best + Window \div 2

\* _send_ready, first half: bytes whose nonce moved or whose window lapses are
\* signed again, with the nonce just read.
CheckReady(o) ==
    /\ pc[o] = "check"
    /\ \E n \in AccountNonces, f \in FinalizedHeads : \E best \in BestBlocks(f) :
          \/ /\ n # bytes[o].nonce \/ WindowLapsing(bytes[o], best)
             /\ seen' = [seen EXCEPT ![o] = n]
             /\ Goto(o, "resign")
          \/ /\ n = bytes[o].nonce /\ ~WindowLapsing(bytes[o], best)
             /\ Goto(o, "send")
             /\ UNCHANGED seen
    /\ UNCHANGED <<chainVars, state, signed, entry, call, bytes, late, lastFinal>>

\* _send_ready, second half: sign afresh.
Resign(o) ==
    /\ pc[o] = "resign"
    /\ \E t \in Signatures(o) : Keep(o, t)
    /\ seen' = [seen EXCEPT ![o] = 0]
    /\ Goto(o, "recheck")
    /\ UNCHANGED <<chainVars, state, signed, entry, call, late, lastFinal>>

\* _send_ready: the nonce must still be the one signed (else Refuse).
Recheck(o) ==
    /\ pc[o] = "recheck"
    /\ bytes[o].nonce \in AccountNonces
    /\ Goto(o, "send")
    /\ UNCHANGED <<chainVars, state, signed, entry, call, bytes, seen, late, lastFinal>>

\* A read fails, finality lags, a gate declines, the faucet refuses, the nonce
\* moved twice, or a Ctrl-C arrives: the call raises with nothing sent.
Refuse(o) ==
    /\ pc[o] \in Preparing
    /\ Finish(o)
    /\ UNCHANGED <<chainVars, state, signed, entry>>

-----------------------------------------------------------------------------
(* Sending and settling. *)

\* The bytes reach some node's pool, or they do not.
MayReachPool(t) == pool' \in {pool, pool \cup {t}}

\* _propose_job: accepted, already known, or the connection failed on the way;
\* all three are settled.
Send(o) ==
    /\ pc[o] = "send"
    /\ MayReachPool(bytes[o])
    /\ StartSettling(o, bytes[o])
    /\ UNCHANGED <<final, ledger, state, signed, entry, call, seen>>

\* Mutant: a connection that failed on the way counts as a refusal.
RefuseUnknown(o) ==
    /\ pc[o] = "send"
    /\ MayReachPool(bytes[o])
    /\ Finish(o)
    /\ UNCHANGED <<final, ledger, state, signed, entry>>

\* _propose_job: the node's outright refusal; its pool never took the bytes.
SendRefused(o) ==
    /\ pc[o] = "send"
    /\ Finish(o)
    /\ UNCHANGED <<chainVars, state, signed, entry>>

Reads(o, outcome) == \E f \in FinalizedHeads : SettleProposal(bytes[o], f) = outcome

\* A settle round finds the proposal in a finalized block.  A resumed order
\* drops its bytes before it records the result.
FindLanded(o) ==
    /\ pc[o] \in Settling
    /\ Reads(o, "landed")
    /\ Goto(o, "record")
    /\ signed' = [signed EXCEPT ![o] = None]
    /\ late' = [late EXCEPT ![o] = FALSE]
    /\ lastFinal' = [lastFinal EXCEPT ![o] = None]
    /\ UNCHANGED <<chainVars, state, entry, call, bytes, seen>>

\* A settle round proves the proposal never landed.  submit() of a draft
\* raises; a resumed order is a draft again and the call goes on as on one.
FindNever(o) ==
    /\ pc[o] \in Settling
    /\ Reads(o, "never")
    /\ \/ /\ state[o] = "draft"
          /\ Finish(o)
          /\ UNCHANGED <<state, signed>>
       \/ /\ state[o] = "sending"
          /\ state' = [state EXCEPT ![o] = "draft"]
          /\ signed' = [signed EXCEPT ![o] = None]
          /\ \/ /\ call[o] \in {"submit", "quote"}
                /\ Goto(o, "nonce")
                /\ Keep(o, None)
                /\ late' = [late EXCEPT ![o] = FALSE]
                /\ lastFinal' = [lastFinal EXCEPT ![o] = None]
                /\ UNCHANGED <<call, seen>>
             \/ /\ call[o] \in {"set", "status"}
                /\ Finish(o)
    /\ UNCHANGED <<chainVars, entry>>

\* It may still land and the deadline is ahead: the same bytes are sent again.
Resend(o) ==
    /\ pc[o] = "settle" /\ ~late[o]
    /\ Reads(o, "pending")
    /\ MayReachPool(bytes[o])
    /\ UNCHANGED <<final, ledger, orderVars>>

\* Mutant: the deadline is extended whether or not finality moves.
ExtendAlways(o) ==
    /\ pc[o] = "settle" /\ late[o]
    /\ Reads(o, "pending")
    /\ \E f \in FinalizedHeads : lastFinal' = [lastFinal EXCEPT ![o] = f]
    /\ late' = [late EXCEPT ![o] = FALSE]
    /\ UNCHANGED <<chainVars, state, signed, entry, pc, call, bytes, seen>>

\* It may still land, the deadline has passed, and the finalized head moved
\* since the last estimate: another deadline.
ExtendDeadline(o) ==
    /\ pc[o] = "settle" /\ late[o]
    /\ Reads(o, "pending")
    /\ \E f \in FinalizedHeads :
          /\ lastFinal[o] # None => f > lastFinal[o]
          /\ lastFinal' = [lastFinal EXCEPT ![o] = f]
    /\ late' = [late EXCEPT ![o] = FALSE]
    /\ UNCHANGED <<chainVars, state, signed, entry, pc, call, bytes, seen>>

\* The deadline passes: wall-clock time is not block time.
DeadlinePasses(o) ==
    /\ pc[o] = "settle" /\ ~late[o]
    /\ late' = [late EXCEPT ![o] = TRUE]
    /\ UNCHANGED <<chainVars, state, signed, entry, pc, call, bytes, seen, lastFinal>>

\* It may still land and finality stalled; or reads failed until the deadline;
\* or a read failed for good (metadata, pruned state, another genesis).  The
\* order is left "sending".
Unsettled(o) ==
    /\ pc[o] = "settle"
    /\ LeaveSending(o)
    /\ UNCHANGED chainVars

\* _settle_once: it may still land or cannot be read; the order stays "sending".
StaySending(o) ==
    /\ pc[o] = "once"
    /\ LeaveSending(o)
    /\ UNCHANGED chainVars

\* _record: what the proposal placed, from its dispatch result.
Record(o) ==
    /\ pc[o] = "record"
    /\ LET i == bytes[o].nonce + 1
       IN  /\ entry' = [entry EXCEPT ![o] = i]
           /\ state' = [state EXCEPT ![o] = IF ledger[i].ok THEN "submitted" ELSE "failed"]
    /\ Finish(o)
    /\ UNCHANGED <<chainVars, signed>>

\* Mutant: an interrupted send leaves the order as it was.
InterruptAsDraft(o) ==
    /\ pc[o] \in InterruptPoints
    /\ IF pc[o] = "send" THEN MayReachPool(bytes[o]) ELSE UNCHANGED pool
    /\ Finish(o)
    /\ UNCHANGED <<final, ledger, state, signed, entry>>

\* A KeyboardInterrupt once the bytes may have reached the node: inside
\* _propose_job or a settle method the order is left "sending"; after it, in
\* or before _record, nothing catches it.
Interrupt(o) ==
    /\ pc[o] \in InterruptPoints
    /\ \/ /\ pc[o] = "send"
          /\ MayReachPool(bytes[o])
          /\ UNCHANGED <<final, ledger>>
          /\ LeaveSending(o)
       \/ /\ pc[o] \in Settling
          /\ UNCHANGED chainVars
          /\ LeaveSending(o)
       \/ /\ pc[o] = "record"
          /\ UNCHANGED <<chainVars, state, signed, entry>>
          /\ Finish(o)

-----------------------------------------------------------------------------
(* The specification. *)

\* What the user asks for.
UserStep(o) ==
    \/ Submit(o) \/ Quote(o) \/ Set(o) \/ Status(o) \/ Reload(o)
    \/ \E n \in Orders : Copy(o, n)
    \/ Interrupt(o)

\* What a running call does next.
CallStep(o) ==
    \/ ReadNonce(o) \/ Sign(o) \/ PassGates(o)
    \/ CheckReady(o) \/ Resign(o) \/ Recheck(o) \/ Refuse(o)
    \/ Send(o) \/ SendRefused(o)
    \/ FindLanded(o) \/ FindNever(o) \/ Resend(o) \/ ExtendDeadline(o)
    \/ Unsettled(o) \/ StaySending(o) \/ Record(o)

Next ==
    \/ ChainNext /\ UNCHANGED orderVars
    \/ \E o \in Orders : UserStep(o) \/ CallStep(o) \/ DeadlinePasses(o)

Spec == Init /\ [][Next]_vars

-----------------------------------------------------------------------------
(* Safety. *)

\* The places of a call whose bytes may be with the network.
Unresolved == Settling \cup {"record"}

\* submit() "never places a second order" (order.py): whatever is retried,
\* resumed, interrupted or signed again, the chain holds one transaction of an
\* order at most.
PlacesOnce ==
    \A i, j \in DOMAIN ledger :
        ledger[i].tx.order \in Orders /\ ledger[i].tx.order = ledger[j].tx.order => i = j

\* "Anything else that stops it once the bytes may have reached the node also
\* leaves the order sending" (submit): nothing an order that reads "draft"
\* ever sent is on chain or may still get there, so signing again is safe.
DraftIsDead ==
    \A o \in Orders : state[o] \in {"absent", "draft"} /\ pc[o] \notin Unresolved =>
        \A t \in pool : t.order = o => ~Live(t) /\ ~Landed(t)

\* "a sending order keeps its signed bytes" (the assertion of _settle_sending):
\* it can always be resumed, with the bytes the network may still include.
SendingKeepsBytes ==
    \A o \in Orders : state[o] = "sending" /\ pc[o] # "record" => signed[o] # None

\* The outcome "is read from finalized state alone" (submit): a verdict names a
\* finalized entry, and its dispatch result.
Verdict(o) ==
    state[o] \in {"submitted", "failed"} =>
        /\ entry[o] \in DOMAIN ledger
        /\ ledger[entry[o]].block <= final
        /\ ledger[entry[o]].ok <=> state[o] = "submitted"

VerdictIsFinal == \A o \in Orders : Verdict(o)

-----------------------------------------------------------------------------
(* Why it works: the inductive invariant.                                    *)

\* Nonces are used in order; what the chain holds of an order was sent and is
\* inside its window.
LedgerInv ==
    \A i \in DOMAIN ledger :
        /\ ledger[i].tx.nonce + 1 = i
        /\ ledger[i].block <= final + 1
        /\ ledger[i].tx.order \in Orders =>
              /\ ledger[i].tx \in pool
              /\ ledger[i].tx.checkpoint < ledger[i].block
              /\ ledger[i].block <= WindowEnd(ledger[i].tx)

\* The order holds t as the bytes that may be with the network.
Holds(o, t) ==
    \/ state[o] = "sending" /\ pc[o] # "record" /\ signed[o] = t
    \/ pc[o] \in Unresolved /\ bytes[o] = t

\* The order has recorded t's verdict.
Recorded(o, t) ==
    state[o] \in {"submitted", "failed"} /\ entry[o] = t.nonce + 1 /\ Landed(t)

\* Whatever of an order is on chain or may get there is held or recorded.
AccountedFor(o) ==
    \A t \in pool : t.order = o /\ (Live(t) \/ Landed(t)) => Holds(o, t) \/ Recorded(o, t)

\* How far a call can be in each state, and what it works on.
CallInv(o) ==
    /\ pc[o] \in WithBytes => bytes[o].order = o
    /\ signed[o] # None => signed[o].order = o
    /\ pc[o] \in Preparing \cup {"send"} => state[o] = "draft"
    /\ pc[o] = "once" => state[o] = "sending"
    /\ pc[o] \in Unresolved => state[o] \in {"draft", "sending"}
    /\ state[o] = "sending" /\ pc[o] # "record" => signed[o] # None
    /\ state[o] = "sending" /\ pc[o] \in Settling => signed[o] = bytes[o]
    /\ pc[o] = "record" => Landed(bytes[o]) /\ ledger[bytes[o].nonce + 1].block <= final
    /\ state[o] \in {"absent", "submitted", "failed"} => pc[o] = "idle"

OrderInv(o) == CallInv(o) /\ AccountedFor(o) /\ Verdict(o)

SafetyInv == LedgerInv /\ \A o \in Orders : OrderInv(o)

-----------------------------------------------------------------------------
(* What the orders promise: PlaceOnce.  An order is at risk while its bytes   *)
(* may be with the network; what the chain holds of it decides its life.      *)

LandedEntries(o) == {i \in DOMAIN ledger : ledger[i].tx.order = o}

Life(o) ==
    CASE state[o] = "absent" -> "absent"
      [] state[o] = "submitted" -> "placed"
      [] state[o] = "failed" -> "failed"
      [] OTHER ->
            IF LandedEntries(o) # {}
            THEN IF \E i \in LandedEntries(o) : ledger[i].ok THEN "placed" ELSE "failed"
            ELSE IF state[o] = "sending" \/ pc[o] \in Unresolved THEN "atrisk" ELSE "draft"

Promise == INSTANCE PlaceOnce WITH
    life <- [o \in Orders |-> Life(o)],
    told <- [o \in Orders |-> state[o] \in {"submitted", "failed"}]

\* Every behaviour of the orders is one of the promise.
PlacesOncePromise == Promise!Spec

-----------------------------------------------------------------------------
(* Liveness. *)

\* A running call takes its next step and wall-clock time passes; the chain, the
\* node's answers and the user owe nothing.
CallFairness ==
    \A o \in Orders : WF_vars(CallStep(o)) /\ WF_vars(DeadlinePasses(o))

FairSpec == Spec /\ CallFairness

\* Every call returns or raises, whether or not finality moves or the node
\* answers: _settle's deadline is extended only while the finalized head moves.
CallsReturn == \A o \in Orders : pc[o] # "idle" ~> pc[o] = "idle"

\* In addition finality moves, the user resumes, and a read that could settle
\* the proposal succeeds if it is possible again and again.
Resumed ==
    /\ WF_vars(Finalize /\ UNCHANGED orderVars)
    /\ \A o \in Orders :
          /\ WF_vars(Submit(o))
          /\ SF_vars(FindLanded(o))
          /\ SF_vars(FindNever(o))

\* No order is stuck in "sending": once its window is final, resuming it finds
\* what became of its bytes (MaxBlock ends the run, not the window).
SendingResolves ==
    Resumed => \A o \in Orders :
        (state[o] = "sending" /\ signed[o] # None /\ WindowEnd(signed[o]) + NodeLag <= MaxBlock)
            ~> state[o] # "sending"
=============================================================================
