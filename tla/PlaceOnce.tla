------------------------------ MODULE PlaceOnce ------------------------------
(***************************************************************************)
(* What a JobOrder promises its user, without nonces, windows, nodes or    *)
(* retries: an order is placed at most once, only after the user submitted *)
(* it and before it is called a draft again, and what the user is told is  *)
(* what the chain holds.                                                   *)
(***************************************************************************)
CONSTANTS Orders

VARIABLES
    life,   \* absent, draft, atrisk (it may be placed any moment), placed, failed
    told    \* whether the user has been told that it was placed or failed

vars == <<life, told>>

Lives == {"absent", "draft", "atrisk", "placed", "failed"}

TypeOK ==
    /\ life \in [Orders -> Lives]
    /\ told \in [Orders -> BOOLEAN]

Init ==
    /\ life \in [Orders -> {"absent", "draft"}]
    /\ told = [o \in Orders |-> FALSE]

Turn(o, from, to) ==
    /\ life[o] = from
    /\ life' = [life EXCEPT ![o] = to]
    /\ UNCHANGED told

\* The order's bytes go out; nothing is on chain yet.
Expose(o) == Turn(o, "draft", "atrisk")

\* The bytes can never land: the order is a draft again.
Withdraw(o) == Turn(o, "atrisk", "draft")

\* The chain includes the bytes, whose dispatch succeeds or fails.
Land(o) == Turn(o, "atrisk", "placed") \/ Turn(o, "atrisk", "failed")

\* The user learns what the chain holds.
Tell(o) ==
    /\ life[o] \in {"placed", "failed"} /\ ~told[o]
    /\ told' = [told EXCEPT ![o] = TRUE]
    /\ UNCHANGED life

\* A copy is an order of its own: of a draft, a draft; of a told order, another
\* handle on the same placement.
Copy(o, n) ==
    /\ life[n] = "absent"
    /\ life[o] = "draft" \/ told[o]
    /\ life' = [life EXCEPT ![n] = life[o]]
    /\ told' = [told EXCEPT ![n] = told[o]]

Next ==
    \E o \in Orders :
        \/ Expose(o) \/ Withdraw(o) \/ Land(o) \/ Tell(o)
        \/ \E n \in Orders : Copy(o, n)

Spec == Init /\ [][Next]_vars
=============================================================================
