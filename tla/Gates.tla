-------------------------------- MODULE Gates --------------------------------
(***************************************************************************)
(* What happens between the quote of an order and its proposal             *)
(* (SolverQuip._clear_gates, xqsa/quip/client.py): the refusals, the       *)
(* autoconfirm gate and, for an account that is short, the autofund gate,  *)
(* the request to the faucet (xqsa/quip/faucet.py) and the wait for its    *)
(* drip to show.  The faucet and the account's other users are external.   *)
(***************************************************************************)
EXTENDS Naturals, FiniteSets

CONSTANTS
    Reward, Fee,    \* of the order, in planck
    Drip,           \* DEFAULT_DRIP_PLANCK
    MaxBalance      \* bound: the account holds at most this at first

ASSUME GatesAssumption == {Reward, Fee, Drip, MaxBalance} \subseteq Nat

VARIABLES
    settings,   \* how the client was built: [autoconfirm, autofund, canAsk, faucet]
    balance,    \* the account's free balance on chain
    unseen,     \* the part of it that the node this client reads does not show yet
    gate,       \* where _clear_gates is
    quoted,     \* balance_planck of the quote
    asked,      \* the gates that were asked
    consents,   \* the gates that consented to this quote
    drips       \* what the faucet paid for this quote

gatesVars == <<settings, balance, unseen, gate, quoted, asked, consents, drips>>

-----------------------------------------------------------------------------
(* How a gate is set. *)

\* _env_flag: unset or empty, a spelling of true or of false, or an error.
EnvFlag(raw) ==
    CASE raw = "" -> "unset" [] raw = "1" -> "yes" [] raw = "0" -> "ask" [] OTHER -> "error"

\* _resolve_gate: the argument, then the variable, then True.  "yes" is True,
\* "ask" is False, "decide" a callable.
ResolveGate(argument, raw) ==
    IF argument # "None" THEN argument
    ELSE IF EnvFlag(raw) = "unset" THEN "yes" ELSE EnvFlag(raw)

\* The gates a client can have been built with.
ResolvedGates ==
    {ResolveGate(argument, raw) : argument \in {"None", "yes", "ask", "decide"},
                                  raw \in {"", "1", "0", "maybe"}} \ {"error"}

\* _pass_gate can ask only with a terminal on stdin and on stderr or stdout.
CanAsk(terminals) == "stdin" \in terminals /\ {"stderr", "stdout"} \cap terminals # {}

Settings ==
    [autoconfirm : ResolvedGates, autofund : ResolvedGates, faucet : BOOLEAN,
     canAsk : {CanAsk(t) : t \in SUBSET {"stdin", "stderr", "stdout"}}]

\* A client that is not submitting.
Done == [autoconfirm |-> "yes", autofund |-> "yes", faucet |-> FALSE, canAsk |-> FALSE]

-----------------------------------------------------------------------------
(* The quote (JobQuote). *)

Total == Reward + Fee

Shortfall == IF quoted < Total THEN Total - quoted ELSE 0

\* The node's view of the account (free_balance).
FreeBalance == balance - unseen

GateAt(g) == gate = g

MoveGate(g) == gate' = g

\* quote(): the price, against the balance read now.
TakeQuote ==
    /\ GateAt("quote") /\ MoveGate("shown")
    /\ quoted' = FreeBalance
    /\ asked' = {} /\ consents' = {} /\ drips' = 0
    /\ UNCHANGED <<settings, balance, unseen>>

\* What no gate could mend: no faucet, more than a drip, or an account the
\* faucet does not top up.
Hopeless ==
    \/ Shortfall > 0 /\ ~settings.faucet
    \/ Shortfall > Drip
    \/ Shortfall > 0 /\ quoted > Drip

\* Raised before anybody is asked.
ShowQuote ==
    /\ GateAt("shown")
    /\ MoveGate(IF Hopeless THEN "insufficient" ELSE "autoconfirm")
    /\ UNCHANGED <<settings, balance, unseen, quoted, asked, consents, drips>>

\* _pass_gate: True consents, a callable decides, False asks or, with no
\* terminal to ask on, cancels.
PassGate(name, next) ==
    LET setting == settings[name]
        mayPass == setting # "ask" \/ settings.canAsk
        mayFail == setting # "yes"
    IN  /\ GateAt(name)
        /\ asked' = asked \cup {name}
        /\ \/ mayPass /\ MoveGate(next) /\ consents' = consents \cup {name}
           \/ mayFail /\ MoveGate("cancelled") /\ UNCHANGED consents
        /\ UNCHANGED <<settings, balance, unseen, quoted, drips>>

\* Mutant: an account that is short is funded as soon as the price is accepted.
ConfirmAndFund == PassGate("autoconfirm", IF Shortfall > 0 THEN "request" ELSE "clear")

Confirm == PassGate("autoconfirm", IF Shortfall > 0 THEN "autofund" ELSE "clear")

Autofund == PassGate("autofund", "request")

-----------------------------------------------------------------------------
(* fund_from_faucet: one POST, and one more after a short 429. *)

\* The faucet pays a drip to an account at or below one drip.
FaucetPays ==
    /\ balance <= Drip
    /\ balance' = balance + Drip /\ unseen' = unseen + Drip /\ drips' = drips + 1

FaucetPaysNothing == UNCHANGED <<balance, unseen, drips>>

\* 429: the first is retried after the wait the faucet asks for, unless that is
\* longer than MAX_RETRY_AFTER_SECONDS; the second is an error.
RateLimited ==
    /\ FaucetPaysNothing
    /\ \/ GateAt("request") /\ MoveGate("retry")
       \/ MoveGate("faucet_error")

\* The connection fails; the drip may have been paid.  It is not sent again.
TransportFault ==
    /\ MoveGate("faucet_error")
    /\ FaucetPays \/ FaucetPaysNothing

Request ==
    /\ GateAt("request") \/ GateAt("retry")
    /\ \/ FaucetPays /\ MoveGate("poll")
       \/ RateLimited
       \/ MoveGate("faucet_error") /\ FaucetPaysNothing   \* 403, 400, anything else
       \/ TransportFault
    /\ UNCHANGED <<settings, quoted, asked, consents>>

\* The drip shows at the node.
NodeCatchesUp ==
    /\ unseen > 0
    /\ unseen' = 0
    /\ UNCHANGED <<settings, balance, gate, quoted, asked, consents, drips>>

\* _fund reads the balance until it covers the quote or FUND_WAIT_SECONDS pass.
PollBalance ==
    IF FreeBalance >= Total THEN MoveGate("clear")
    ELSE MoveGate("insufficient") \/ UNCHANGED gate

Poll ==
    /\ GateAt("poll")
    /\ PollBalance
    /\ UNCHANGED <<settings, balance, unseen, quoted, asked, consents, drips>>

\* The account spends elsewhere what the node shows of it.
SpendElsewhere ==
    /\ gate \notin {"off", "quote"} /\ FreeBalance > 0
    /\ balance' = balance - 1
    /\ UNCHANGED <<settings, unseen, gate, quoted, asked, consents, drips>>

GatesNext ==
    \/ TakeQuote \/ ShowQuote \/ Confirm \/ Autofund
    \/ Request \/ NodeCatchesUp \/ Poll \/ SpendElsewhere
=============================================================================
