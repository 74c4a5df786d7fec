---------------------------- MODULE JobOrderProof ----------------------------
(***************************************************************************)
(* Theorems about JobOrder for every number of orders, every window, every *)
(* lag of the node and every bound of the chain.                           *)
(***************************************************************************)
EXTENDS JobOrder, TLAPS

-----------------------------------------------------------------------------
(* Types. *)

\* What _sign may produce is a signed proposal.
LEMMA SignaturesAreTx ==
    ASSUME TypeOK, NEW o \in Orders
    PROVE  Signatures(o) \subseteq Tx
BY DEF Signatures, FinalizedHeads, Tx, TypeOK, ChainTypeOK

\* Typing of the calls' own variables, less the chain's.
CallTypeOK ==
    /\ state \in [Orders -> States]
    /\ signed \in [Orders -> Tx \cup {None}]
    /\ entry \in [Orders -> Nat]
    /\ pc \in [Orders -> Places]
    /\ call \in [Orders -> Calls]
    /\ bytes \in [Orders -> Tx \cup {None}]
    /\ seen \in [Orders -> Nat]
    /\ late \in [Orders -> BOOLEAN]
    /\ lastFinal \in [Orders -> Nat \cup {None}]
    /\ \A o \in Orders : pc[o] \in WithBytes => bytes[o] # None

\* The type invariant is the chain's and the calls'.
LEMMA TypeParts == TypeOK <=> ChainTypeOK /\ CallTypeOK
BY DEF TypeOK, CallTypeOK

\* A call that returns or raises keeps the types.
LEMMA FinishType ==
    ASSUME CallTypeOK, NEW o \in Orders, Finish(o),
           state' \in [Orders -> States], signed' \in [Orders -> Tx \cup {None}],
           entry' \in [Orders -> Nat]
    PROVE  CallTypeOK'
BY DEF CallTypeOK, Finish, Goto, Keep, Places, Calls, WithBytes

\* The start of _settle keeps the types.
LEMMA StartSettlingType ==
    ASSUME TypeOK, NEW o \in Orders, NEW b \in Tx, StartSettling(o, b),
           call' \in [Orders -> Calls], UNCHANGED <<state, entry, seen, signed>>
    PROVE  CallTypeOK'
<1>1. PICK f \in FinalizedHeads \cup {None} : lastFinal' = [lastFinal EXCEPT ![o] = f]
    BY DEF StartSettling
<1>2. f \in Nat \cup {None}
    BY DEF FinalizedHeads, TypeOK, ChainTypeOK
<1>3. lastFinal' \in [Orders -> Nat \cup {None}]
    BY <1>1, <1>2 DEF TypeOK
<1>4. b # None
    BY OrderAssumption
<1>5. QED
    BY <1>3, <1>4
       DEF TypeOK, CallTypeOK, StartSettling, Goto, Keep, Places, Settling, WithBytes

\* So does leaving the order "sending".
LEMMA LeaveSendingType ==
    ASSUME CallTypeOK, NEW o \in Orders, LeaveSending(o)
    PROVE  CallTypeOK'
<1>1. /\ state' \in [Orders -> States]
      /\ signed' \in [Orders -> Tx \cup {None}]
      /\ entry' \in [Orders -> Nat]
    BY DEF CallTypeOK, LeaveSending, States
<1>2. QED BY <1>1, FinishType DEF LeaveSending

\* Bytes that may reach a pool keep the chain's types.
LEMMA MayReachPoolType ==
    ASSUME ChainTypeOK, NEW t \in Tx, MayReachPool(t), UNCHANGED <<final, ledger>>
    PROVE  ChainTypeOK'
BY DEF ChainTypeOK, MayReachPool

\* The chain's own steps keep its types.
LEMMA ChainStepType ==
    ASSUME ChainTypeOK, ChainNext
    PROVE  ChainTypeOK'
<1> USE ChainAssumption DEF ChainTypeOK
<1>1. ASSUME NEW t \in pool, Include(t) PROVE ChainTypeOK'
    BY <1>1 DEF Include, Append1, Entry
<1>2. ASSUME IncludeForeign PROVE ChainTypeOK'
    <2>1. [order |-> Foreign, nonce |-> Len(ledger), checkpoint |-> final] \in Tx
        BY DEF Tx
    <2>2. QED BY <1>2, <2>1 DEF IncludeForeign, Append1, Entry
<1>3. ASSUME Finalize PROVE ChainTypeOK'
    BY <1>3 DEF Finalize
<1>4. QED BY <1>1, <1>2, <1>3 DEF ChainNext

\* What the user asks for keeps the types.
LEMMA UserStepType ==
    ASSUME TypeOK, NEW o \in Orders, UserStep(o)
    PROVE  TypeOK'
<1> USE TypeParts, OrderAssumption
<1> SUFFICES ChainTypeOK' /\ CallTypeOK'
    BY DEF TypeOK, CallTypeOK
<1>1. CASE Submit(o)
    <2>1. ChainTypeOK' BY <1>1 DEF Submit, chainVars, ChainTypeOK
    <2>2. CASE state[o] = "sending" /\ signed[o] # None /\ StartSettling(o, signed[o]) /\ UNCHANGED signed
        BY <1>1, <2>1, <2>2, StartSettlingType DEF Submit, CallTypeOK, Calls
    <2>3. CASE ~(state[o] = "sending" /\ signed[o] # None /\ StartSettling(o, signed[o]) /\ UNCHANGED signed)
        BY <1>1, <2>1, <2>3
           DEF Submit, Goto, Keep, CallTypeOK, Calls, Places, Preparing, WithBytes
    <2>4. QED BY <2>2, <2>3
<1>2. CASE Quote(o)
    BY ZenonT(60), <1>2 DEF Quote, SettleFirst, Goto, Keep, chainVars, ChainTypeOK, CallTypeOK, Calls,
                Places, Preparing, Settling, WithBytes
<1>3. CASE Set(o)
    BY ZenonT(60), <1>3 DEF Set, SettleFirst, Goto, Keep, chainVars, ChainTypeOK, CallTypeOK, Calls,
                Places, Settling, WithBytes
<1>4. CASE Status(o)
    BY <1>4 DEF Status, SettleFirst, Goto, Keep, chainVars, ChainTypeOK, CallTypeOK, Calls,
                Places, Settling, WithBytes
<1>5. CASE Reload(o)
    BY <1>5 DEF Reload, chainVars, ChainTypeOK, CallTypeOK
<1>6. ASSUME NEW n \in Orders, Copy(o, n) PROVE ChainTypeOK' /\ CallTypeOK'
    BY <1>6 DEF Copy, chainVars, ChainTypeOK, CallTypeOK
<1>7. CASE Interrupt(o)
    <2>1. ASSUME pc[o] = "send", MayReachPool(bytes[o]), UNCHANGED <<final, ledger>>, LeaveSending(o)
          PROVE  ChainTypeOK' /\ CallTypeOK'
        <3>1. bytes[o] \in Tx
            BY <2>1 DEF CallTypeOK, WithBytes, Places
        <3>2. QED BY <2>1, <3>1, MayReachPoolType, LeaveSendingType
    <2>2. ASSUME UNCHANGED chainVars, LeaveSending(o) PROVE ChainTypeOK' /\ CallTypeOK'
        BY <2>2, LeaveSendingType DEF chainVars, ChainTypeOK
    <2>3. ASSUME UNCHANGED <<chainVars, state, signed, entry>>, Finish(o)
          PROVE  ChainTypeOK' /\ CallTypeOK'
        BY <2>3, FinishType DEF chainVars, ChainTypeOK, CallTypeOK
    <2>4. QED BY <1>7, <2>1, <2>2, <2>3 DEF Interrupt
<1>8. QED BY <1>1, <1>2, <1>3, <1>4, <1>5, <1>6, <1>7 DEF UserStep

\* So does every step of a running call.
LEMMA CallStepType ==
    ASSUME TypeOK, NEW o \in Orders, CallStep(o)
    PROVE  TypeOK'
<1> USE TypeParts, OrderAssumption
<1> SUFFICES ChainTypeOK' /\ CallTypeOK'
    BY DEF TypeOK, CallTypeOK
<1>1. CASE ReadNonce(o)
    BY <1>1 DEF ReadNonce, AccountNonces, Goto, chainVars, ChainTypeOK, CallTypeOK,
                Places, Preparing, WithBytes
<1>2. CASE Sign(o)
    <2>1. PICK t \in Signatures(o) :
              \/ /\ call[o] = "submit"
                 /\ Goto(o, "gates")
                 /\ Keep(o, t)
                 /\ seen' = [seen EXCEPT ![o] = 0]
                 /\ UNCHANGED <<signed, call, late, lastFinal>>
              \/ /\ call[o] = "quote"
                 /\ signed' = [signed EXCEPT ![o] = t]
                 /\ Finish(o)
        BY <1>2 DEF Sign
    <2>2. t \in Tx BY SignaturesAreTx
    <2>3. ChainTypeOK' /\ UNCHANGED <<state, entry>>
        BY <1>2 DEF Sign, chainVars, ChainTypeOK
    <2>4. CASE call[o] = "quote" /\ signed' = [signed EXCEPT ![o] = t] /\ Finish(o)
        BY <2>2, <2>3, <2>4, FinishType DEF CallTypeOK
    <2>5. CASE ~(call[o] = "quote" /\ signed' = [signed EXCEPT ![o] = t] /\ Finish(o))
        BY <2>1, <2>2, <2>3, <2>5
           DEF Goto, Keep, CallTypeOK, Places, Preparing, WithBytes
    <2>6. QED BY <2>4, <2>5
<1>3. CASE PassGates(o)
    BY <1>3 DEF PassGates, Goto, chainVars, ChainTypeOK, CallTypeOK, Places, Preparing, WithBytes
<1>4. CASE CheckReady(o)
    <2>1. PICK place \in {"resign", "send"} : Goto(o, place)
        BY <1>4 DEF CheckReady
    <2>2. seen' \in [Orders -> Nat]
        BY <1>4 DEF CheckReady, AccountNonces, CallTypeOK
    <2>3. ChainTypeOK' /\ UNCHANGED <<state, signed, entry, call, bytes, late, lastFinal>>
        BY <1>4 DEF CheckReady, chainVars, ChainTypeOK
    <2>4. bytes[o] # None
        BY <1>4 DEF CheckReady, CallTypeOK, WithBytes, Places, Preparing
    <2>5. QED BY <2>1, <2>2, <2>3, <2>4 DEF Goto, CallTypeOK, Places, Preparing, WithBytes
<1>5. CASE Resign(o)
    BY <1>5, SignaturesAreTx
       DEF Resign, Goto, Keep, chainVars, ChainTypeOK, CallTypeOK, Places, Preparing, WithBytes
<1>6. CASE Recheck(o)
    BY <1>6 DEF Recheck, Goto, chainVars, ChainTypeOK, CallTypeOK, Places, Preparing, WithBytes
<1>7. CASE Refuse(o) \/ SendRefused(o)
    BY <1>7, FinishType DEF Refuse, SendRefused, chainVars, ChainTypeOK, CallTypeOK
<1>8. CASE Send(o)
    <2>1. bytes[o] \in Tx
        BY <1>8 DEF Send, CallTypeOK, WithBytes, Places
    <2>2. QED BY <1>8, <2>1, MayReachPoolType, StartSettlingType DEF Send, CallTypeOK
<1>9. CASE FindLanded(o)
    BY <1>9 DEF FindLanded, Goto, chainVars, ChainTypeOK, CallTypeOK, Places, Settling, WithBytes
<1>10. CASE FindNever(o)
    <2>1. CASE Finish(o)
        BY ZenonT(60), <1>10, <2>1, FinishType DEF FindNever, chainVars, ChainTypeOK, CallTypeOK, States
    <2>2. CASE ~Finish(o)
        BY ZenonT(60), <1>10, <2>2
           DEF FindNever, Goto, Keep, chainVars, ChainTypeOK, CallTypeOK, States, Places,
               Preparing, WithBytes
    <2>3. QED BY <2>1, <2>2
<1>11. CASE Resend(o)
    <2>1. bytes[o] \in Tx
        BY <1>11 DEF Resend, CallTypeOK, WithBytes, Places, Settling
    <2>2. QED BY <1>11, <2>1, MayReachPoolType DEF Resend, orderVars, CallTypeOK
<1>12. CASE ExtendDeadline(o)
    BY <1>12 DEF ExtendDeadline, FinalizedHeads, chainVars, ChainTypeOK, CallTypeOK
<1>13. CASE Unsettled(o) \/ StaySending(o)
    BY <1>13, LeaveSendingType DEF Unsettled, StaySending, chainVars, ChainTypeOK
<1>14. CASE Record(o)
    <2>1. bytes[o] \in Tx
        BY <1>14 DEF Record, CallTypeOK, WithBytes, Places
    <2>2. /\ state' \in [Orders -> States]
          /\ entry' \in [Orders -> Nat]
        BY <1>14, <2>1 DEF Record, CallTypeOK, States, Tx
    <2>3. QED BY <1>14, <2>2, FinishType DEF Record, chainVars, ChainTypeOK, CallTypeOK
<1>15. QED
    BY <1>1, <1>2, <1>3, <1>4, <1>5, <1>6, <1>7, <1>8, <1>9, <1>10, <1>11, <1>12, <1>13, <1>14
       DEF CallStep

\* Every variable keeps its type, and a call that works on bytes has them.
THEOREM TypeCorrect == Spec => []TypeOK
<1>1. Init => TypeOK
    BY OrderAssumption
       DEF Init, ChainInit, TypeOK, ChainTypeOK, States, Places, Calls, WithBytes
<1>2. TypeOK /\ [Next]_vars => TypeOK'
    <2> SUFFICES ASSUME TypeOK, [Next]_vars PROVE TypeOK'
        OBVIOUS
    <2>1. CASE ChainNext /\ UNCHANGED orderVars
        BY <2>1, ChainStepType, TypeParts DEF orderVars, TypeOK, ChainTypeOK
    <2>2. ASSUME NEW o \in Orders, DeadlinePasses(o) PROVE TypeOK'
        BY <2>2 DEF DeadlinePasses, chainVars, TypeOK, ChainTypeOK
    <2>3. CASE UNCHANGED vars
        BY <2>3 DEF vars, chainVars, orderVars, TypeOK, ChainTypeOK
    <2>4. QED BY <2>1, <2>2, <2>3, UserStepType, CallStepType DEF Next
<1>3. QED BY <1>1, <1>2, PTL DEF Spec

-----------------------------------------------------------------------------
(* Safety: the chain's part. *)

\* An order that a step does not touch keeps its invariant while the chain
\* stands and its own bytes in the pools stay the same.
LEMMA Undisturbed ==
    ASSUME NEW p \in Orders, OrderInv(p),
           state'[p] = state[p], signed'[p] = signed[p], entry'[p] = entry[p],
           pc'[p] = pc[p], bytes'[p] = bytes[p],
           UNCHANGED <<final, ledger>>,
           \A t \in pool' : t.order = p => t \in pool
    PROVE  OrderInv(p)'
<1>1. CallInv(p)'
    BY DEF OrderInv, CallInv, Landed
<1>2. Verdict(p)'
    BY DEF OrderInv, Verdict
<1>3. AccountedFor(p)'
    <2>1. ASSUME NEW t \in pool', t.order = p, Live(t)' \/ Landed(t)'
          PROVE  Holds(p, t)' \/ Recorded(p, t)'
        <3>1. Live(t) \/ Landed(t)
            BY <2>1 DEF Live, Landed, WindowEnd
        <3>2. Holds(p, t) \/ Recorded(p, t)
            BY <2>1, <3>1 DEF OrderInv, AccountedFor
        <3>3. QED BY <3>2 DEF Holds, Recorded, Landed
    <2>2. QED BY <2>1 DEF AccountedFor
<1>4. QED BY <1>1, <1>2, <1>3 DEF OrderInv

\* The pools grow by signed bytes; the ledger does not notice.
LEMMA LedgerStands ==
    ASSUME LedgerInv, UNCHANGED <<final, ledger>>, pool \subseteq pool'
    PROVE  LedgerInv'
BY DEF LedgerInv, WindowEnd

\* The ledger keeps what it holds and appends at the next nonce.
LEMMA LedgerGrows ==
    ASSUME ChainTypeOK, NEW t \in Tx, NEW ok \in BOOLEAN, Append1(t, ok)
    PROVE  /\ Len(ledger') = Len(ledger) + 1
           /\ DOMAIN ledger' = 1..(Len(ledger) + 1)
           /\ \A i \in DOMAIN ledger : ledger'[i] = ledger[i]
           /\ ledger'[Len(ledger) + 1] = [tx |-> t, block |-> final + 1, ok |-> ok]
BY DEF ChainTypeOK, Append1, Entry

\* What an entry of the ledger is.
LEMMA EntryType ==
    ASSUME ChainTypeOK, NEW i \in DOMAIN ledger
    PROVE  /\ ledger[i] \in Entry
           /\ ledger[i].block \in Nat
           /\ ledger[i].tx \in Tx
<1>1. ledger[i] \in Entry
    BY DEF ChainTypeOK
<1>2. QED BY <1>1 DEF Entry

\* A window ends at a block.
LEMMA WindowEndType ==
    ASSUME NEW t \in Tx
    PROVE  WindowEnd(t) \in Nat
BY ChainAssumption DEF WindowEnd, Tx

\* A step of the chain that includes t keeps every order's invariant if t, when
\* it is an order's, was held by it.
LEMMA InclusionKeeps ==
    ASSUME TypeOK, SafetyInv, UNCHANGED <<final, pool, orderVars>>,
           NEW t \in Tx, NEW ok \in BOOLEAN, Append1(t, ok),
           t.nonce = Len(ledger),
           t.order \in Orders => /\ t \in pool
                                 /\ t.checkpoint < final + 1
                                 /\ final + 1 <= WindowEnd(t)
    PROVE  SafetyInv'
<1> USE DEF orderVars
<1>1. /\ Len(ledger') = Len(ledger) + 1
      /\ DOMAIN ledger = 1..Len(ledger)
      /\ DOMAIN ledger' = 1..(Len(ledger) + 1)
      /\ \A i \in DOMAIN ledger : ledger'[i] = ledger[i]
      /\ ledger'[Len(ledger) + 1] = [tx |-> t, block |-> final + 1, ok |-> ok]
      /\ Len(ledger) \in Nat /\ final \in Nat
    BY LedgerGrows DEF TypeOK, ChainTypeOK
<1>2. LedgerInv'
    <2>1. ASSUME NEW i \in DOMAIN ledger' PROVE
              /\ ledger'[i].tx.nonce + 1 = i
              /\ ledger'[i].block <= final' + 1
              /\ ledger'[i].tx.order \in Orders =>
                    /\ ledger'[i].tx \in pool'
                    /\ ledger'[i].tx.checkpoint < ledger'[i].block
                    /\ ledger'[i].block <= WindowEnd(ledger'[i].tx)
        <3>1. CASE i \in DOMAIN ledger
            BY <1>1, <3>1 DEF SafetyInv, LedgerInv
        <3>2. CASE i = Len(ledger) + 1
            BY <1>1, <3>2
        <3>3. QED BY <1>1, <3>1, <3>2
    <2>2. QED BY <2>1 DEF LedgerInv, WindowEnd
<1>3. ASSUME NEW u \in Tx PROVE /\ Landed(u) => Landed(u)'
                                /\ Landed(u)' => Landed(u) \/ (u = t /\ Len(ledger) = u.nonce)
                                /\ Live(u)' => Live(u)
    <2>1. u.nonce \in Nat
        BY DEF Tx
    <2>2. QED BY <1>1, <2>1 DEF Landed, Live, WindowEnd
<1>4. ASSUME NEW o \in Orders PROVE OrderInv(o)'
    <2>1. AccountedFor(o)'
        <3>1. ASSUME NEW u \in pool, u.order = o, Live(u)' \/ Landed(u)'
              PROVE  Holds(o, u)' \/ Recorded(o, u)'
            <4>1. u \in Tx
                BY DEF TypeOK, ChainTypeOK
            <4>2. Live(u) \/ Landed(u)
                <5>1. CASE u = t /\ Len(ledger) = u.nonce
                    BY <1>1, <3>1, <4>1, <5>1, WindowEndType DEF Live
                <5>2. QED BY <1>3, <3>1, <4>1, <5>1
            <4>3. Holds(o, u) \/ Recorded(o, u)
                BY <3>1, <4>2 DEF SafetyInv, OrderInv, AccountedFor
            <4>4. QED BY <1>3, <4>1, <4>3 DEF Holds, Recorded
        <3>2. QED BY <3>1 DEF AccountedFor
    <2>2. CallInv(o)'
        <3>1. ASSUME pc[o] = "record"
              PROVE  Landed(bytes[o])' /\ ledger'[bytes[o].nonce + 1].block <= final
            <4>1. bytes[o] \in Tx
                BY <3>1 DEF TypeOK, WithBytes, Places
            <4>2. Landed(bytes[o]) /\ ledger[bytes[o].nonce + 1].block <= final
                BY <3>1 DEF SafetyInv, OrderInv, CallInv
            <4>3. bytes[o].nonce + 1 \in DOMAIN ledger
                BY <1>1, <4>1, <4>2 DEF Landed, Tx
            <4>4. QED BY <1>1, <1>3, <4>1, <4>2, <4>3
        <3>2. QED BY <3>1 DEF SafetyInv, OrderInv, CallInv, Landed
    <2>3. Verdict(o)'
        BY <1>1 DEF SafetyInv, OrderInv, Verdict
    <2>4. QED BY <2>1, <2>2, <2>3 DEF OrderInv
<1>5. QED BY <1>2, <1>4 DEF SafetyInv

\* Every step of the chain keeps the inductive invariant.
LEMMA ChainStepSafe ==
    ASSUME TypeOK, SafetyInv, ChainNext, UNCHANGED orderVars
    PROVE  SafetyInv'
<1>1. ASSUME NEW t \in pool, Include(t) PROVE SafetyInv'
    <2>1. t \in Tx
        BY DEF TypeOK, ChainTypeOK
    <2>2. PICK ok \in BOOLEAN : Append1(t, ok)
        BY <1>1 DEF Include
    <2>3. QED BY <1>1, <2>1, <2>2, InclusionKeeps DEF Include
<1>2. CASE IncludeForeign
    <2> DEFINE t == [order |-> Foreign, nonce |-> Len(ledger), checkpoint |-> final]
    <2>1. t \in Tx /\ t.order \notin Orders /\ t.nonce = Len(ledger)
        BY ChainAssumption DEF Tx, TypeOK, ChainTypeOK
    <2>2. Append1(t, TRUE) /\ UNCHANGED <<final, pool>>
        BY <1>2 DEF IncludeForeign
    <2> HIDE DEF t
    <2>3. QED BY <2>1, <2>2, InclusionKeeps
<1>3. CASE Finalize
    <2>1. final' = final + 1 /\ UNCHANGED <<ledger, pool>> /\ final \in Nat
        BY <1>3 DEF Finalize, TypeOK, ChainTypeOK
    <2>2. LedgerInv'
        <3>1. ASSUME NEW i \in DOMAIN ledger PROVE ledger[i].block \in Nat
            BY EntryType DEF TypeOK
        <3>2. QED BY <2>1, <3>1 DEF SafetyInv, LedgerInv, WindowEnd
    <2>3. ASSUME NEW o \in Orders PROVE OrderInv(o)'
        <3>1. AccountedFor(o)'
            <4>1. ASSUME NEW t \in pool, Live(t)' \/ Landed(t)' PROVE Live(t) \/ Landed(t)
                <5>1. WindowEnd(t) \in Nat
                    BY WindowEndType DEF TypeOK, ChainTypeOK
                <5>2. WindowEnd(t)' = WindowEnd(t)
                    BY DEF WindowEnd
                <5>3. QED BY <2>1, <4>1, <5>1, <5>2 DEF Live, Landed
            <4>2. QED BY <2>1, <4>1 DEF SafetyInv, OrderInv, AccountedFor, Holds, Recorded, Landed, orderVars
        <3>2. CallInv(o)'
            <4>1. ASSUME pc[o] = "record" PROVE ledger[bytes[o].nonce + 1].block <= final + 1
                <5>1. bytes[o] \in Tx
                    BY <4>1 DEF TypeOK, WithBytes, Places
                <5>2. ledger[bytes[o].nonce + 1].block \in Nat
                    <6>1. bytes[o].nonce + 1 \in DOMAIN ledger
                        BY <4>1, <5>1 DEF SafetyInv, OrderInv, CallInv, Landed, TypeOK, ChainTypeOK, Tx
                    <6>2. QED BY <6>1, EntryType DEF TypeOK
                <5>3. QED BY <2>1, <4>1, <5>2 DEF SafetyInv, OrderInv, CallInv
            <4>2. QED BY <2>1, <4>1 DEF SafetyInv, OrderInv, CallInv, Landed, orderVars
        <3>3. Verdict(o)'
            <4>1. ASSUME entry[o] \in DOMAIN ledger PROVE ledger[entry[o]].block \in Nat
                BY <4>1, EntryType DEF TypeOK
            <4>2. QED BY <2>1, <4>1 DEF SafetyInv, OrderInv, Verdict, orderVars
        <3>4. QED BY <3>1, <3>2, <3>3 DEF OrderInv
    <2>4. QED BY <2>2, <2>3 DEF SafetyInv
<1>4. QED BY <1>1, <1>2, <1>3 DEF ChainNext

-----------------------------------------------------------------------------
(* Safety: what a settle round reads.                                        *)

\* "landed" is read of a proposal that a finalized block holds.
LEMMA LandedRead ==
    ASSUME ChainTypeOK, LedgerInv, NEW t \in Tx, NEW f \in FinalizedHeads,
           SettleProposal(t, f) = "landed"
    PROVE  Landed(t) /\ ledger[t.nonce + 1].block <= final
<1>1. SpentAt(t.nonce, f)
    BY DEF SettleProposal
<1>2. PICK i \in DOMAIN ledger : ledger[i].tx = t
    BY <1>1 DEF SettleProposal
<1>3. i = t.nonce + 1
    BY <1>2 DEF LedgerInv
<1>4. ledger[i].block \in Nat
    BY EntryType
<1>5. QED BY <1>1, <1>2, <1>3, <1>4 DEF SpentAt, Landed, FinalizedHeads, ChainTypeOK, Tx

\* "never" is read of a proposal that is not on chain and cannot get there:
\* its window is over in finalized blocks, or another transaction has its nonce.
LEMMA NeverRead ==
    ASSUME ChainTypeOK, LedgerInv, NEW t \in Tx, t.order \in Orders,
           NEW f \in FinalizedHeads, SettleProposal(t, f) = "never"
    PROVE  ~Live(t) /\ ~Landed(t)
<1> DEFINE n == t.nonce
<1>1. n \in Nat /\ WindowEnd(t) \in Nat /\ f \in Nat /\ f <= final /\ final \in Nat /\ t.checkpoint \in Nat
    BY WindowEndType DEF Tx, FinalizedHeads, ChainTypeOK
<1>2. ASSUME Landed(t)
      PROVE  /\ n + 1 \in DOMAIN ledger /\ ledger[n + 1].tx = t
             /\ ledger[n + 1].block \in Nat
             /\ t.checkpoint < ledger[n + 1].block
             /\ ledger[n + 1].block <= WindowEnd(t)
    <2>1. n + 1 \in DOMAIN ledger /\ ledger[n + 1].tx = t
        BY <1>1, <1>2 DEF Landed, ChainTypeOK
    <2>2. QED BY <2>1, EntryType DEF LedgerInv
<1>3. CASE SpentAt(n, f)
    <2>1. ~Live(t)
        BY <1>1, <1>3 DEF SpentAt, Live, ChainTypeOK
    <2>2. ~\E i \in DOMAIN ledger : ledger[i].tx = t /\ ledger[i].block = FirstBlockPast(n, t.checkpoint)
        BY <1>3 DEF SettleProposal
    <2>3. ~Landed(t)
        <3>1. SUFFICES ASSUME Landed(t) PROVE FALSE
            OBVIOUS
        <3>2. FirstBlockPast(n, t.checkpoint) = ledger[n + 1].block
            BY <1>1, <1>2, <3>1 DEF FirstBlockPast
        <3>3. QED BY <1>2, <2>2, <3>1, <3>2
    <2>4. QED BY <2>1, <2>3
<1>4. CASE ~SpentAt(n, f)
    <2>1. f >= WindowEnd(t)
        BY <1>4 DEF SettleProposal
    <2>2. ~Live(t)
        BY <1>1, <2>1 DEF Live
    <2>3. ~Landed(t)
        BY <1>1, <1>2, <1>4, <2>1 DEF SpentAt, Landed
    <2>4. QED BY <2>2, <2>3
<1>5. QED BY <1>3, <1>4

-----------------------------------------------------------------------------
(* Safety: the calls.  A step of one order leaves the others as they are.    *)

OnlyMoves(o) ==
    \A p \in Orders : p # o =>
        /\ state'[p] = state[p] /\ signed'[p] = signed[p] /\ entry'[p] = entry[p]
        /\ pc'[p] = pc[p] /\ bytes'[p] = bytes[p]

\* A step of one order keeps the invariant when the order's own part holds.
LEMMA OneOrderMoves ==
    ASSUME SafetyInv, NEW o \in Orders, OnlyMoves(o), OrderInv(o)',
           UNCHANGED <<final, ledger>>, pool \subseteq pool',
           \A t \in pool' : t \in pool \/ t.order = o
    PROVE  SafetyInv'
<1>1. LedgerInv'
    BY LedgerStands DEF SafetyInv
<1>2. ASSUME NEW p \in Orders, p # o PROVE OrderInv(p)'
    BY <1>2, Undisturbed DEF SafetyInv, OnlyMoves
<1>3. QED BY <1>1, <1>2 DEF SafetyInv

\* A step that changes neither what the order holds nor what it has recorded.
LEMMA HoldsStand ==
    ASSUME NEW o \in Orders, OrderInv(o), UNCHANGED <<final, ledger>>,
           state'[o] = state[o], entry'[o] = entry[o],
           \A t \in pool' : t.order = o /\ t \notin pool => Holds(o, t)',
           \A t \in pool : t.order = o /\ (Live(t) \/ Landed(t)) /\ Holds(o, t) => Holds(o, t)'
    PROVE  AccountedFor(o)' /\ Verdict(o)'
<1>1. Verdict(o)'
    BY DEF OrderInv, Verdict
<1>2. ASSUME NEW t \in pool', t.order = o, Live(t)' \/ Landed(t)'
      PROVE  Holds(o, t)' \/ Recorded(o, t)'
    <2>1. Live(t) \/ Landed(t)
        BY <1>2 DEF Live, Landed, WindowEnd
    <2>2. CASE t \notin pool
        BY <1>2, <2>2
    <2>3. CASE t \in pool
        BY <1>2, <2>1, <2>3 DEF OrderInv, AccountedFor, Recorded, Landed
    <2>4. QED BY <2>2, <2>3
<1>3. QED BY <1>1, <1>2 DEF AccountedFor

\* A call at rest, or preparing, on a draft holds nothing of what it sent.
LEMMA QuietHolds ==
    ASSUME NEW o \in Orders, NEW t, state[o] # "sending", pc[o] \notin Unresolved
    PROVE  ~Holds(o, t)
BY DEF Holds

\* A call past its signing has bytes.
LEMMA BytesHeld ==
    ASSUME TypeOK, NEW o \in Orders, pc[o] \in WithBytes
    PROVE  bytes[o] \in Tx
BY DEF TypeOK

\* Leaving the order "sending" with its bytes kept.
LEMMA LeaveSendingSafe ==
    ASSUME TypeOK, SafetyInv, NEW o \in Orders, pc[o] \in Settling \cup {"send"},
           LeaveSending(o), MayReachPool(bytes[o]), UNCHANGED <<final, ledger>>
    PROVE  SafetyInv'
<1> USE DEF Settling
<1>1. bytes[o] \in Tx /\ bytes[o].order = o /\ bytes[o] # None
    BY BytesHeld, OrderAssumption DEF SafetyInv, OrderInv, CallInv, WithBytes, Places
<1>2. /\ state'[o] = "sending" /\ signed'[o] = bytes[o] /\ entry' = entry
      /\ pc'[o] = "idle"
    BY DEF LeaveSending, Finish, Goto, TypeOK
<1>3. OnlyMoves(o)
    BY DEF OnlyMoves, LeaveSending, Finish, Goto, Keep, TypeOK
<1>4. OrderInv(o)'
    <2>1. CallInv(o)'
        BY <1>1, <1>2 DEF CallInv, WithBytes, Preparing, Unresolved
    <2>2. Verdict(o)'
        BY <1>2 DEF Verdict
    <2>3. ASSUME NEW t \in pool', t.order = o, Live(t)' \/ Landed(t)'
          PROVE  Holds(o, t)'
        <3>1. Live(t) \/ Landed(t)
            BY <2>3 DEF Live, Landed, WindowEnd
        <3>2. CASE t \in pool
            <4>1. Holds(o, t)
                BY <2>3, <3>1, <3>2
                   DEF SafetyInv, OrderInv, AccountedFor, Recorded, CallInv, Preparing
            <4>2. t = bytes[o]
                BY <4>1 DEF Holds, SafetyInv, OrderInv, CallInv, Unresolved
            <4>3. QED BY <1>2, <4>2 DEF Holds
        <3>3. CASE t \notin pool
            BY <1>2, <2>3, <3>3 DEF Holds, MayReachPool
        <3>4. QED BY <3>2, <3>3
    <2>4. QED BY <2>1, <2>2, <2>3 DEF OrderInv, AccountedFor
<1>5. QED BY <1>1, <1>3, <1>4, OneOrderMoves DEF MayReachPool

\* A call on a draft that returns, raises or goes on before anything is sent.
LEMMA DraftMoveSafe ==
    ASSUME TypeOK, SafetyInv, NEW o \in Orders, OnlyMoves(o), UNCHANGED <<chainVars, entry>>,
           state[o] = "draft" /\ pc[o] \notin Unresolved,
           state'[o] = "draft" /\ pc'[o] \in Preparing \cup {"idle", "send"},
           signed'[o] # None => signed'[o].order = o,
           pc'[o] \in WithBytes => bytes'[o].order = o
    PROVE  SafetyInv'
<1>1. CallInv(o)'
    BY DEF CallInv, Preparing, Unresolved, Settling
<1>2. AccountedFor(o)' /\ Verdict(o)'
    BY HoldsStand, QuietHolds DEF SafetyInv, chainVars
<1>3. QED BY <1>1, <1>2, OneOrderMoves DEF OrderInv, chainVars

\* What the user asks for keeps the inductive invariant.
LEMMA UserStepSafe ==
    ASSUME TypeOK, SafetyInv, NEW o \in Orders, UserStep(o), "record" \notin InterruptPoints
    PROVE  SafetyInv'
<1> USE DEF TypeOK
<1>1. ASSUME pc[o] = "idle", state[o] = "sending", signed[o] # None,
             NEW place \in Settling, Goto(o, place), Keep(o, signed[o]),
             UNCHANGED <<chainVars, state, signed, entry>>
      PROVE  SafetyInv'
    <2>1. OnlyMoves(o)
        BY <1>1 DEF OnlyMoves, Goto, Keep
    <2>2. pc'[o] = place /\ bytes'[o] = signed[o]
        BY <1>1 DEF Goto, Keep
    <2>3. CallInv(o)'
        BY <1>1, <2>2 DEF SafetyInv, OrderInv, CallInv, Preparing, Settling, Unresolved
    <2>4. AccountedFor(o)' /\ Verdict(o)'
        BY <1>1, <2>2, HoldsStand DEF SafetyInv, Holds, Settling, Unresolved, chainVars
    <2>5. QED BY <1>1, <2>1, <2>3, <2>4, OneOrderMoves DEF OrderInv, chainVars
<1>2. ASSUME NEW c \in Calls, SettleFirst(o, c) PROVE SafetyInv'
    BY <1>1, <1>2 DEF SettleFirst, Settling
<1>3. CASE Submit(o)
    <2>1. CASE state[o] = "draft"
        <3>1. OnlyMoves(o)
            BY <1>3, <2>1 DEF Submit, OnlyMoves, Goto, Keep
        <3>2. /\ state'[o] = "draft" /\ pc'[o] \in {"nonce", "gates"}
              /\ signed'[o] = None
              /\ pc'[o] = "gates" => bytes'[o] = signed[o] /\ signed[o] # None
            BY <1>3, <2>1 DEF Submit, Goto, Keep
        <3>3. signed[o] # None => signed[o].order = o
            BY DEF SafetyInv, OrderInv, CallInv
        <3>4. QED
            BY <1>3, <2>1, <3>1, <3>2, <3>3, DraftMoveSafe
               DEF Submit, Preparing, WithBytes, Unresolved, Settling
    <2>2. CASE state[o] = "sending"
        BY <1>1, <1>3, <2>2 DEF Submit, StartSettling, Settling
    <2>3. QED BY <1>3, <2>1, <2>2 DEF Submit
<1>4. CASE Quote(o) /\ ~SettleFirst(o, "quote")
    <2>1. OnlyMoves(o)
        BY <1>4 DEF Quote, OnlyMoves, Goto
    <2>2. QED
        BY <1>4, <2>1, DraftMoveSafe
           DEF Quote, Goto, Preparing, WithBytes, Unresolved, Settling, SafetyInv, OrderInv, CallInv
<1>5. CASE Set(o) /\ ~SettleFirst(o, "set")
    <2>1. OnlyMoves(o)
        BY <1>5 DEF Set, OnlyMoves
    <2>2. QED
        BY <1>5, <2>1, DraftMoveSafe DEF Set, WithBytes, Unresolved, Settling
<1>6. CASE Reload(o)
    <2>1. OnlyMoves(o)
        BY <1>6 DEF Reload, OnlyMoves
    <2>2. CallInv(o)'
        BY <1>6 DEF Reload, SafetyInv, OrderInv, CallInv, Landed
    <2>3. AccountedFor(o)' /\ Verdict(o)'
        BY <1>6, HoldsStand, QuietHolds DEF Reload, SafetyInv, Unresolved, Settling, chainVars
    <2>4. QED BY <1>6, <2>1, <2>2, <2>3, OneOrderMoves DEF Reload, OrderInv, chainVars
<1>7. ASSUME NEW n \in Orders, Copy(o, n) PROVE SafetyInv'
    <2>1. OnlyMoves(n)
        BY <1>7 DEF Copy, OnlyMoves
    <2>2. /\ state'[n] = state[o] /\ entry'[n] = entry[o]
          /\ state[n] = "absent" /\ pc[n] = "idle" /\ state[o] # "sending"
        BY <1>7 DEF Copy
    <2>3. CallInv(n)'
        BY <1>7, <2>2 DEF Copy, SafetyInv, OrderInv, CallInv, Landed, Preparing, Unresolved, Settling, WithBytes
    <2>4. Verdict(n)'
        BY <1>7, <2>2 DEF Copy, SafetyInv, OrderInv, Verdict, chainVars
    <2>5. \A t \in pool : t.order = n => ~Live(t) /\ ~Landed(t)
        BY <2>2, QuietHolds DEF SafetyInv, OrderInv, AccountedFor, Recorded, Unresolved, Settling
    <2>6. AccountedFor(n)'
        BY <1>7, <2>5 DEF Copy, AccountedFor, Live, Landed, WindowEnd, chainVars
    <2>7. QED BY <1>7, <2>1, <2>3, <2>4, <2>6, OneOrderMoves DEF Copy, OrderInv, chainVars
<1>8. CASE Interrupt(o)
    <2>1. pc[o] \in Settling \cup {"send"} /\ LeaveSending(o)
        BY <1>8 DEF Interrupt
    <2>2. MayReachPool(bytes[o]) /\ UNCHANGED <<final, ledger>>
        BY <1>8 DEF Interrupt, MayReachPool, chainVars
    <2>3. QED BY <2>1, <2>2, LeaveSendingSafe
<1>9. QED
    BY <1>2, <1>3, <1>4, <1>5, <1>6, <1>7, <1>8 DEF UserStep, Quote, Set, Status, Calls

\* So does every step of a running call.
LEMMA CallStepSafe ==
    ASSUME TypeOK, SafetyInv, NEW o \in Orders, CallStep(o)
    PROVE  SafetyInv'
<1> USE DEF TypeOK
<1> DEFINE Prepared == pc[o] \in Preparing \cup {"send"}
<1>1. Prepared => /\ state[o] = "draft" /\ pc[o] \notin Unresolved
                  /\ signed[o] # None => signed[o].order = o
                  /\ pc[o] \in WithBytes => bytes[o].order = o
    BY DEF SafetyInv, OrderInv, CallInv, Preparing, Unresolved, Settling
<1>2. CASE ReadNonce(o) \/ PassGates(o) \/ CheckReady(o) \/ Recheck(o)
    <2>1. OnlyMoves(o)
        BY <1>2 DEF ReadNonce, PassGates, CheckReady, Recheck, OnlyMoves, Goto
    <2>2. /\ pc[o] \in Preparing /\ UNCHANGED <<chainVars, state, signed, entry, bytes>>
          /\ pc[o] \notin {"nonce"} => pc[o] \in WithBytes
          /\ pc'[o] \in Preparing \cup {"send"}
          /\ pc[o] = "nonce" => pc'[o] = "head"
        BY <1>2
           DEF ReadNonce, PassGates, CheckReady, Recheck, Goto, Preparing, WithBytes, Places
    <2>3. QED BY <1>1, <2>1, <2>2, DraftMoveSafe DEF WithBytes
<1>3. CASE Sign(o) \/ Resign(o)
    <2>1. OnlyMoves(o)
        BY <1>3 DEF Sign, Resign, OnlyMoves, Goto, Keep, Finish
    <2>2. PICK t \in Signatures(o) :
             /\ pc'[o] \in {"gates", "recheck", "idle"}
             /\ pc'[o] \in WithBytes => bytes'[o] = t
             /\ signed'[o] \in {signed[o], t}
        BY <1>3 DEF Sign, Resign, Goto, Keep, Finish, WithBytes
    <2>3. t.order = o
        BY DEF Signatures
    <2>4. Prepared /\ UNCHANGED <<chainVars, state, entry>>
        BY <1>3 DEF Sign, Resign, Preparing
    <2>5. QED BY <1>1, <2>1, <2>2, <2>3, <2>4, DraftMoveSafe DEF Preparing
<1>4. CASE Refuse(o) \/ SendRefused(o)
    <2>1. OnlyMoves(o)
        BY <1>4 DEF Refuse, SendRefused, OnlyMoves, Finish, Goto, Keep
    <2>2. Prepared /\ UNCHANGED <<chainVars, state, signed, entry>> /\ pc'[o] = "idle"
        BY <1>4 DEF Refuse, SendRefused, Finish, Goto
    <2>3. QED BY <1>1, <2>1, <2>2, DraftMoveSafe DEF WithBytes
<1>5. CASE Send(o)
    <2>1. OnlyMoves(o)
        BY <1>5 DEF Send, StartSettling, OnlyMoves, Goto, Keep
    <2>2. /\ pc'[o] = "settle" /\ bytes'[o] = bytes[o] /\ state[o] = "draft"
          /\ UNCHANGED <<final, ledger, state, signed, entry>> /\ MayReachPool(bytes[o])
          /\ bytes[o].order = o
        BY <1>1, <1>5 DEF Send, StartSettling, Goto, Keep, WithBytes, Places
    <2>3. CallInv(o)'
        BY <1>1, <1>5, <2>2 DEF Send, CallInv, Preparing, Unresolved, Settling, WithBytes
    <2>4. ASSUME NEW t \in pool' PROVE t \in pool \/ t = bytes[o]
        BY <2>2, <2>4 DEF MayReachPool
    <2>5. AccountedFor(o)' /\ Verdict(o)'
        BY <1>1, <1>5, <2>2, <2>4, HoldsStand, QuietHolds
           DEF SafetyInv, Holds, Unresolved, Settling, Send
    <2>6. QED BY <2>1, <2>2, <2>3, <2>4, <2>5, OneOrderMoves DEF OrderInv, MayReachPool
<1>6. CASE FindLanded(o)
    <2>1. OnlyMoves(o)
        BY <1>6 DEF FindLanded, OnlyMoves, Goto
    <2>2. bytes[o] \in Tx /\ bytes[o].order = o
        BY <1>6, BytesHeld DEF FindLanded, WithBytes, Places, Settling, SafetyInv, OrderInv, CallInv
    <2>3. Landed(bytes[o]) /\ ledger[bytes[o].nonce + 1].block <= final
        BY <1>6, <2>2, LandedRead DEF FindLanded, Reads, SafetyInv
    <2>4. /\ pc'[o] = "record" /\ signed'[o] = None
          /\ UNCHANGED <<chainVars, state, entry, bytes>>
        BY <1>6 DEF FindLanded, Goto
    <2>5. CallInv(o)'
        BY <1>6, <2>2, <2>3, <2>4
           DEF FindLanded, SafetyInv, OrderInv, CallInv, Landed, Preparing, Unresolved, Settling,
               chainVars
    <2>6. AccountedFor(o)' /\ Verdict(o)'
        BY <1>6, <2>4, HoldsStand
           DEF FindLanded, SafetyInv, OrderInv, CallInv, Holds, Unresolved, Settling, chainVars
    <2>7. QED BY <2>1, <2>4, <2>5, <2>6, OneOrderMoves DEF OrderInv, chainVars
<1>7. CASE FindNever(o)
    <2>1. OnlyMoves(o)
        BY <1>7 DEF FindNever, OnlyMoves, Goto, Keep, Finish
    <2>2. bytes[o] \in Tx /\ bytes[o].order = o
        BY <1>7, BytesHeld DEF FindNever, WithBytes, Places, Settling, SafetyInv, OrderInv, CallInv
    <2>3. ~Live(bytes[o]) /\ ~Landed(bytes[o])
        BY <1>7, <2>2, NeverRead DEF FindNever, Reads, SafetyInv
    <2>4. /\ state'[o] = "draft" /\ pc'[o] \in {"idle", "nonce"}
          /\ signed'[o] \in {signed[o], None}
          /\ UNCHANGED <<chainVars, entry>>
        BY <1>7 DEF FindNever, Finish, Goto
    <2>5. CallInv(o)'
        BY <2>4 DEF SafetyInv, OrderInv, CallInv, Preparing, Unresolved, Settling, WithBytes
    <2>6. ASSUME NEW t \in pool, t.order = o PROVE ~Live(t) /\ ~Landed(t)
        <3>1. Holds(o, t) => t = bytes[o]
            BY <1>7 DEF FindNever, Holds, SafetyInv, OrderInv, CallInv, Unresolved, Settling
        <3>2. state[o] \notin {"submitted", "failed"}
            BY <1>7 DEF FindNever
        <3>3. QED
            BY <2>3, <2>6, <3>1, <3>2 DEF SafetyInv, OrderInv, AccountedFor, Recorded
    <2>7. AccountedFor(o)'
        BY <2>4, <2>6 DEF AccountedFor, Live, Landed, WindowEnd, chainVars
    <2>8. Verdict(o)'
        BY <2>4 DEF Verdict
    <2>9. QED BY <2>1, <2>4, <2>5, <2>7, <2>8, OneOrderMoves DEF OrderInv, chainVars
<1>8. CASE Resend(o)
    <2>1. OnlyMoves(o) /\ UNCHANGED <<final, ledger, orderVars>> /\ MayReachPool(bytes[o])
        BY <1>8 DEF Resend, OnlyMoves, orderVars
    <2>2. bytes[o].order = o /\ pc[o] = "settle"
        BY <1>8 DEF Resend, WithBytes, Places, Settling, SafetyInv, OrderInv, CallInv
    <2>3. CallInv(o)'
        BY <2>1 DEF SafetyInv, OrderInv, CallInv, Landed, orderVars
    <2>4. AccountedFor(o)' /\ Verdict(o)'
        BY <2>1, <2>2, HoldsStand
           DEF SafetyInv, Holds, Unresolved, Settling, MayReachPool, orderVars
    <2>5. QED BY <2>1, <2>2, <2>3, <2>4, OneOrderMoves DEF OrderInv, MayReachPool
<1>9. CASE ExtendDeadline(o)
    <2>1. UNCHANGED <<chainVars, state, signed, entry, pc, bytes>>
        BY <1>9 DEF ExtendDeadline
    <2>2. QED
        BY <2>1, Undisturbed, LedgerStands DEF SafetyInv, chainVars
<1>10. CASE Unsettled(o) \/ StaySending(o)
    BY <1>10, LeaveSendingSafe
       DEF Unsettled, StaySending, Settling, MayReachPool, chainVars
<1>11. CASE Record(o)
    <2> DEFINE i == bytes[o].nonce + 1
    <2>1. OnlyMoves(o)
        BY <1>11 DEF Record, OnlyMoves, Finish, Goto, Keep
    <2>2. bytes[o] \in Tx /\ Landed(bytes[o]) /\ ledger[i].block <= final
        BY <1>11, BytesHeld DEF Record, WithBytes, Places, Settling, SafetyInv, OrderInv, CallInv
    <2>3. i \in DOMAIN ledger
        BY <2>2 DEF Landed, Tx, ChainTypeOK
    <2>4. /\ state'[o] = IF ledger[i].ok THEN "submitted" ELSE "failed"
          /\ entry'[o] = i /\ pc'[o] = "idle"
          /\ UNCHANGED <<chainVars, signed>>
        BY <1>11 DEF Record, Finish, Goto
    <2>5. CallInv(o)'
        BY <2>4 DEF SafetyInv, OrderInv, CallInv, Preparing, Unresolved, Settling, WithBytes
    <2>6. Verdict(o)'
        BY <2>2, <2>3, <2>4 DEF Verdict, chainVars
    <2>7. ASSUME NEW t \in pool, t.order = o, Live(t) \/ Landed(t) PROVE Recorded(o, t)'
        <3>1. Holds(o, t)
            BY <1>11, <2>7 DEF Record, SafetyInv, OrderInv, AccountedFor, Recorded, CallInv
        <3>2. t = bytes[o]
            BY <1>11, <3>1 DEF Record, Holds
        <3>3. QED BY <2>2, <2>4, <3>2 DEF Recorded, Landed, chainVars
    <2>8. AccountedFor(o)'
        BY <2>4, <2>7 DEF AccountedFor, Live, Landed, WindowEnd, chainVars
    <2>9. QED BY <2>1, <2>4, <2>5, <2>6, <2>8, OneOrderMoves DEF OrderInv, chainVars
<1>12. QED
    BY <1>2, <1>3, <1>4, <1>5, <1>6, <1>7, <1>8, <1>9, <1>10, <1>11 DEF CallStep

\* An entry of an order on chain is held by the order's call or recorded.
LEMMA EntryHeld ==
    ASSUME TypeOK, SafetyInv, NEW o \in Orders, NEW k \in LandedEntries(o)
    PROVE  /\ ledger[k].tx \in Tx /\ ledger[k].tx.nonce + 1 = k
           /\ k \in DOMAIN ledger /\ k \in 1..Len(ledger)
           /\ Holds(o, ledger[k].tx) \/ Recorded(o, ledger[k].tx)
<1>1. k \in DOMAIN ledger /\ ledger[k].tx.order = o
    BY DEF LandedEntries
<1>2. ledger[k].tx \in Tx /\ k \in 1..Len(ledger) /\ Len(ledger) \in Nat
    BY <1>1, EntryType DEF TypeOK, ChainTypeOK
<1>3. ledger[k].tx.nonce + 1 = k /\ ledger[k].tx \in pool
    BY <1>1 DEF SafetyInv, LedgerInv
<1>4. Landed(ledger[k].tx)
    BY <1>2, <1>3 DEF Landed, Tx
<1>5. QED BY <1>1, <1>2, <1>3, <1>4 DEF SafetyInv, OrderInv, AccountedFor

-----------------------------------------------------------------------------
(* The theorems.  A KeyboardInterrupt between _propose_job and the end of    *)
(* _record is excluded: the runs show what it breaks.                        *)

\* The inductive invariant holds.
THEOREM Safety ==
    ASSUME "record" \notin InterruptPoints
    PROVE  Spec => []SafetyInv
<1>1. Init => SafetyInv
    BY DEF Init, ChainInit, SafetyInv, LedgerInv, OrderInv, CallInv, AccountedFor, Verdict,
           WithBytes, Places, Preparing, Settling, Unresolved
<1>2. TypeOK /\ SafetyInv /\ [Next]_vars => SafetyInv'
    <2> SUFFICES ASSUME TypeOK, SafetyInv, [Next]_vars PROVE SafetyInv'
        OBVIOUS
    <2>1. ASSUME UNCHANGED <<chainVars, state, signed, entry, pc, bytes>> PROVE SafetyInv'
        BY <2>1, Undisturbed, LedgerStands DEF SafetyInv, chainVars
    <2>2. CASE ChainNext /\ UNCHANGED orderVars
        BY <2>2, ChainStepSafe
    <2>3. ASSUME NEW o \in Orders, DeadlinePasses(o) PROVE SafetyInv'
        BY <2>1, <2>3 DEF DeadlinePasses
    <2>4. CASE UNCHANGED vars
        BY <2>1, <2>4 DEF vars, orderVars
    <2>5. QED BY <2>2, <2>3, <2>4, UserStepSafe, CallStepSafe DEF Next
<1>3. QED BY <1>1, <1>2, TypeCorrect, PTL DEF Spec

\* An order is never placed twice.
THEOREM NeverTwice ==
    ASSUME "record" \notin InterruptPoints
    PROVE  Spec => []PlacesOnce
<1>1. TypeOK /\ SafetyInv => PlacesOnce
    <2> SUFFICES ASSUME TypeOK, SafetyInv, NEW i \in DOMAIN ledger, NEW j \in DOMAIN ledger,
                        ledger[i].tx.order \in Orders, ledger[i].tx.order = ledger[j].tx.order
                 PROVE  i = j
        BY DEF PlacesOnce
    <2> DEFINE o == ledger[i].tx.order
    <2>1. ASSUME NEW k \in DOMAIN ledger, ledger[k].tx.order = o
          PROVE  /\ ledger[k].tx.nonce + 1 = k
                 /\ Holds(o, ledger[k].tx) \/ Recorded(o, ledger[k].tx)
        BY <2>1, EntryHeld DEF LandedEntries
    <2>2. ASSUME NEW t, NEW u, Holds(o, t), Holds(o, u) PROVE t = u
        BY <2>2 DEF SafetyInv, OrderInv, CallInv, Holds, Unresolved
    <2>3. ASSUME NEW t, NEW u, Holds(o, t) PROVE ~Recorded(o, u)
        BY <2>3 DEF SafetyInv, OrderInv, CallInv, Holds, Recorded, Unresolved, Settling
    <2>4. QED BY <2>1, <2>2, <2>3 DEF Recorded
<1>2. QED BY <1>1, Safety, TypeCorrect, PTL

\* Nothing a draft ever sent can be placed any more.
THEOREM DraftsAreDead ==
    ASSUME "record" \notin InterruptPoints
    PROVE  Spec => []DraftIsDead
<1>1. SafetyInv => DraftIsDead
    BY DEF SafetyInv, OrderInv, AccountedFor, DraftIsDead, Holds, Recorded
<1>2. QED BY <1>1, Safety, PTL

\* A "sending" order can be resumed: it keeps its bytes.
THEOREM SendingResumable ==
    ASSUME "record" \notin InterruptPoints
    PROVE  Spec => []SendingKeepsBytes
<1>1. SafetyInv => SendingKeepsBytes
    BY DEF SafetyInv, OrderInv, CallInv, SendingKeepsBytes
<1>2. QED BY <1>1, Safety, PTL

\* What an order reports is in a finalized block, with that dispatch result.
THEOREM VerdictsAreFinal ==
    ASSUME "record" \notin InterruptPoints
    PROVE  Spec => []VerdictIsFinal
<1>1. SafetyInv => VerdictIsFinal
    BY DEF SafetyInv, OrderInv, VerdictIsFinal
<1>2. QED BY <1>1, Safety, PTL

-----------------------------------------------------------------------------
(* The promise: every step of the orders is one of PlaceOnce or a stutter.   *)

\* What the user has been told, as the promise reads it.
Told(o) == state[o] \in {"submitted", "failed"}

\* The order's bytes may be with the network.
AtRisk(o) == state[o] = "sending" \/ pc[o] \in Unresolved

\* Nothing of an order that is absent, or a draft that no call has sent, is on
\* chain.
LEMMA QuietHasNoEntries ==
    ASSUME TypeOK, SafetyInv, NEW o \in Orders, ~AtRisk(o), ~Told(o)
    PROVE  LandedEntries(o) = {}
BY EntryHeld, QuietHolds DEF AtRisk, Told, Recorded

\* A call that may still be included has not been before.
LEMMA HeldOnce ==
    ASSUME TypeOK, SafetyInv, NEW o \in Orders, NEW t \in Tx, Holds(o, t), ~Landed(t)
    PROVE  LandedEntries(o) = {}
<1> SUFFICES ASSUME NEW k \in LandedEntries(o) PROVE FALSE
    OBVIOUS
<1>1. /\ ledger[k].tx \in Tx /\ ledger[k].tx.nonce + 1 = k /\ k \in 1..Len(ledger)
      /\ Holds(o, ledger[k].tx) \/ Recorded(o, ledger[k].tx)
    BY EntryHeld
<1>2. Holds(o, ledger[k].tx)
    BY <1>1 DEF SafetyInv, OrderInv, CallInv, Holds, Recorded, Unresolved, Settling
<1>3. ledger[k].tx = t
    BY <1>2 DEF SafetyInv, OrderInv, CallInv, Holds, Unresolved
<1>4. t.nonce \in Nat
    BY DEF Tx
<1>5. Len(ledger) \in Nat
    BY DEF TypeOK, ChainTypeOK
<1>6. Landed(t)
    BY <1>1, <1>3, <1>4, <1>5 DEF Landed
<1>7. QED BY <1>6

\* What the life of an order depends on.
LEMMA LifeStands ==
    ASSUME NEW o \in Orders, state'[o] = state[o], AtRisk(o)' = AtRisk(o),
           LandedEntries(o)' = LandedEntries(o),
           \A i \in LandedEntries(o) : ledger'[i] = ledger[i]
    PROVE  Life(o)' = Life(o) /\ Told(o)' = Told(o)
BY DEF Life, Told, AtRisk

\* What the chain holds of an order while the ledger stands.
LEMMA EntriesStand ==
    ASSUME NEW o \in Orders, UNCHANGED ledger
    PROVE  LandedEntries(o)' = LandedEntries(o)
BY DEF LandedEntries

\* One order turns, and the promise with it.
LEMMA OneTurns ==
    ASSUME NEW o \in Orders, NEW from, NEW to, Life(o) = from, Life(o)' = to,
           \A p \in Orders : p # o => Life(p)' = Life(p),
           \A p \in Orders : Told(p)' = Told(p)
    PROVE  Promise!Turn(o, from, to)
BY DEF Promise!Turn, Told

\* No order turns: the promise stutters.
LEMMA AllStand ==
    ASSUME \A p \in Orders : Life(p)' = Life(p) /\ Told(p)' = Told(p)
    PROVE  UNCHANGED Promise!vars
BY DEF Promise!vars, Told

\* A step of one order on a chain that stands leaves the others' lives alone.
LEMMA OthersStand ==
    ASSUME NEW o \in Orders, OnlyMoves(o), UNCHANGED ledger
    PROVE  \A p \in Orders : p # o => Life(p)' = Life(p) /\ Told(p)' = Told(p)
<1> SUFFICES ASSUME NEW p \in Orders, p # o PROVE Life(p)' = Life(p) /\ Told(p)' = Told(p)
    OBVIOUS
<1>1. state'[p] = state[p] /\ AtRisk(p)' = AtRisk(p)
    BY DEF OnlyMoves, AtRisk
<1>2. QED BY <1>1, EntriesStand, LifeStands

\* Neither the state nor the risk of the order changes: the promise stutters.
LEMMA Stutters ==
    ASSUME NEW o \in Orders, OnlyMoves(o), UNCHANGED ledger,
           state'[o] = state[o], AtRisk(o)' = AtRisk(o)
    PROVE  UNCHANGED Promise!vars
BY EntriesStand, LifeStands, OthersStand, AllStand

\* A life that the state does not decide.
LEMMA LifeOf ==
    ASSUME NEW o \in Orders, state[o] \in {"draft", "sending"}
    PROVE  Life(o) = IF LandedEntries(o) # {}
                     THEN IF \E i \in LandedEntries(o) : ledger[i].ok THEN "placed" ELSE "failed"
                     ELSE IF AtRisk(o) THEN "atrisk" ELSE "draft"
BY DEF Life, AtRisk

\* The same of the next state.
LEMMA LifeOfNext ==
    ASSUME NEW o \in Orders, state'[o] \in {"draft", "sending"}
    PROVE  Life(o)' = IF LandedEntries(o)' # {}
                      THEN IF \E i \in LandedEntries(o)' : ledger'[i].ok THEN "placed" ELSE "failed"
                      ELSE IF AtRisk(o)' THEN "atrisk" ELSE "draft"
BY DEF Life, AtRisk

\* The bytes go out.
LEMMA Exposes ==
    ASSUME TypeOK, SafetyInv, NEW o \in Orders, OnlyMoves(o), UNCHANGED ledger,
           state[o] = "draft", ~AtRisk(o), state'[o] \in {"draft", "sending"}, AtRisk(o)'
    PROVE  Promise!Next
<1>1. LandedEntries(o) = {} /\ LandedEntries(o)' = {}
    BY QuietHasNoEntries, EntriesStand DEF Told
<1>2. Life(o) = "draft" /\ Life(o)' = "atrisk"
    BY <1>1, LifeOf, LifeOfNext
<1>3. Told(o)' = Told(o)
    BY DEF Told
<1>4. Promise!Turn(o, "draft", "atrisk")
    BY <1>2, <1>3, OthersStand, OneTurns
<1>5. QED BY <1>4 DEF Promise!Next, Promise!Expose

\* The bytes are found dead.
LEMMA Withdraws ==
    ASSUME TypeOK, SafetyInv, NEW o \in Orders, OnlyMoves(o), UNCHANGED ledger,
           NEW t \in Tx, Holds(o, t), ~Landed(t), state'[o] = "draft", ~AtRisk(o)'
    PROVE  Promise!Next
<1>1. LandedEntries(o) = {} /\ LandedEntries(o)' = {}
    BY HeldOnce, EntriesStand
<1>2. state[o] \in {"draft", "sending"} /\ AtRisk(o)
    BY DEF Holds, AtRisk, SafetyInv, OrderInv, CallInv
<1>3. Life(o) = "atrisk" /\ Life(o)' = "draft"
    BY <1>1, <1>2, LifeOf, LifeOfNext
<1>4. Told(o)' = Told(o)
    BY <1>2 DEF Told
<1>5. Promise!Turn(o, "atrisk", "draft")
    BY <1>3, <1>4, OthersStand, OneTurns
<1>6. QED BY <1>5 DEF Promise!Next, Promise!Withdraw

\* _record tells what the chain holds.
LEMMA RecordTells ==
    ASSUME TypeOK, SafetyInv, PlacesOnce, NEW o \in Orders, Record(o)
    PROVE  Promise!Next
<1> DEFINE i == bytes[o].nonce + 1
<1>1. OnlyMoves(o) /\ UNCHANGED ledger
    BY DEF Record, OnlyMoves, Finish, Goto, Keep, chainVars
<1>2. /\ bytes[o] \in Tx /\ bytes[o].order = o /\ Landed(bytes[o])
      /\ state[o] \in {"draft", "sending"}
    BY BytesHeld
       DEF Record, WithBytes, Places, SafetyInv, OrderInv, CallInv, Unresolved
<1>3. i \in LandedEntries(o)
    BY <1>2 DEF Landed, Tx, TypeOK, ChainTypeOK, LandedEntries
<1>4. ASSUME NEW j \in LandedEntries(o) PROVE j = i
    BY <1>3 DEF PlacesOnce, LandedEntries
<1>5. Life(o) = IF ledger[i].ok THEN "placed" ELSE "failed"
    BY <1>2, <1>3, <1>4, LifeOf
<1>6. state'[o] = IF ledger[i].ok THEN "submitted" ELSE "failed"
    BY DEF Record, TypeOK
<1>7. Life(o)' = Life(o)
    BY <1>5, <1>6 DEF Life
<1>8. ~Told(o) /\ Told(o)'
    BY <1>2, <1>6 DEF Told
<1>9. \A p \in Orders : Life(p)' = Life(p)
    BY <1>1, <1>7, OthersStand
<1>10. Promise!Tell(o)
    BY <1>1, <1>5, <1>8, <1>9, OthersStand DEF Promise!Tell, Told
<1>11. QED BY <1>10 DEF Promise!Next

\* A copy of an order is one of the promise.
LEMMA CopyCopies ==
    ASSUME TypeOK, SafetyInv, NEW o \in Orders, NEW n \in Orders, Copy(o, n)
    PROVE  Promise!Next
<1>1. OnlyMoves(n) /\ UNCHANGED ledger /\ o # n
    BY DEF Copy, OnlyMoves, chainVars
<1>2. /\ state[n] = "absent" /\ state'[n] = state[o] /\ pc'[n] = "idle"
      /\ state[o] \in {"draft", "submitted", "failed"} /\ pc[o] = "idle" /\ pc[n] = "idle"
    BY DEF Copy, TypeOK, States
<1>3. LandedEntries(n)' = {}
    BY <1>1, <1>2, QuietHasNoEntries, EntriesStand DEF AtRisk, Told, Unresolved, Settling
<1>4. state[o] = "draft" => LandedEntries(o) = {}
    BY <1>2, QuietHasNoEntries DEF AtRisk, Told, Unresolved, Settling
<1>5. ~AtRisk(o) /\ ~AtRisk(n)'
    BY <1>2 DEF AtRisk, Unresolved, Settling
<1>6. Life(n)' = Life(o)
    <2>1. CASE state[o] = "draft"
        BY <1>2, <1>3, <1>4, <1>5, <2>1, LifeOf, LifeOfNext
    <2>2. CASE state[o] \in {"submitted", "failed"}
        BY <1>2, <2>2 DEF Life
    <2>3. QED BY <1>2, <2>1, <2>2
<1>7. Life(n) = "absent"
    BY <1>2 DEF Life
<1>8. Life(o) = "draft" \/ Told(o)
    BY <1>2, <1>4, <1>5, LifeOf DEF Told
<1>9. Told(n)' = Told(o)
    BY <1>2 DEF Told
<1>10. Promise!Copy(o, n)
    BY <1>1, <1>6, <1>7, <1>8, <1>9, OthersStand DEF Promise!Copy, Told
<1>11. QED BY <1>10 DEF Promise!Next

\* The chain lands what an order has at risk, or moves without the orders.
LEMMA ChainStepPromised ==
    ASSUME TypeOK, SafetyInv, ChainNext, UNCHANGED orderVars
    PROVE  Promise!Next \/ UNCHANGED Promise!vars
<1>1. \A p \in Orders : AtRisk(p)' = AtRisk(p) /\ Told(p)' = Told(p) /\ state'[p] = state[p]
    BY DEF orderVars, AtRisk, Told
<1>2. ASSUME NEW t \in Tx, NEW ok \in BOOLEAN, Append1(t, ok), NEW p \in Orders
      PROVE  /\ LandedEntries(p)' =
                    LandedEntries(p) \cup (IF t.order = p THEN {Len(ledger) + 1} ELSE {})
             /\ \A i \in LandedEntries(p) : ledger'[i] = ledger[i]
             /\ ledger'[Len(ledger) + 1].ok = ok
    <2>1. /\ DOMAIN ledger = 1..Len(ledger) /\ Len(ledger) \in Nat
          /\ DOMAIN ledger' = 1..(Len(ledger) + 1)
          /\ \A i \in DOMAIN ledger : ledger'[i] = ledger[i]
          /\ ledger'[Len(ledger) + 1] = [tx |-> t, block |-> final + 1, ok |-> ok]
        BY <1>2, LedgerGrows DEF TypeOK, ChainTypeOK
    <2>2. DOMAIN ledger' = DOMAIN ledger \cup {Len(ledger) + 1}
        BY <2>1
    <2>3. QED BY <2>1, <2>2 DEF LandedEntries
<1>3. ASSUME NEW t \in Tx, NEW ok \in BOOLEAN, Append1(t, ok), NEW p \in Orders, t.order # p
      PROVE  Life(p)' = Life(p)
    BY ZenonT(60), <1>1, <1>2, <1>3, LifeStands
<1>4. ASSUME NEW t \in pool, Include(t) PROVE Promise!Next \/ UNCHANGED Promise!vars
    <2>1. t \in Tx /\ t.nonce = Len(ledger)
        BY <1>4 DEF Include, TypeOK, ChainTypeOK
    <2>2. PICK ok \in BOOLEAN : Append1(t, ok)
        BY <1>4 DEF Include
    <2>3. CASE t.order \notin Orders
        BY <1>1, <1>3, <2>1, <2>2, <2>3, AllStand
    <2>4. CASE t.order \in Orders
        <3> DEFINE o == t.order
                   to == IF ok THEN "placed" ELSE "failed"
        <3>1. ~Landed(t) /\ Live(t)
            <4>1. WindowEnd(t) \in Nat /\ Len(ledger) \in Nat /\ final \in Nat
                BY <2>1, WindowEndType DEF TypeOK, ChainTypeOK
            <4>2. QED BY <1>4, <2>1, <4>1 DEF Include, Landed, Live
        <3>2. Holds(o, t)
            BY <2>4, <3>1 DEF SafetyInv, OrderInv, AccountedFor, Recorded
        <3>3. LandedEntries(o) = {} /\ LandedEntries(o)' = {Len(ledger) + 1}
            BY <1>2, <2>1, <2>2, <2>4, <3>1, <3>2, HeldOnce
        <3>4. state[o] \in {"draft", "sending"} /\ AtRisk(o)
            BY <2>4, <3>2 DEF Holds, AtRisk, SafetyInv, OrderInv, CallInv
        <3>5. Life(o) = "atrisk"
            BY <2>4, <3>3, <3>4, LifeOf
        <3>6. Life(o)' = to
            BY <1>1, <1>2, <2>1, <2>2, <2>4, <3>3, <3>4, LifeOfNext
        <3>7. \A p \in Orders : p # o => Life(p)' = Life(p)
            BY <1>3, <2>1, <2>2
        <3> HIDE DEF to
        <3>8. Promise!Turn(o, "atrisk", to)
            BY <1>1, <2>4, <3>5, <3>6, <3>7, OneTurns
        <3>9. QED BY <2>4, <3>8 DEF to, Promise!Next, Promise!Land
    <2>5. QED BY <2>3, <2>4
<1>5. CASE IncludeForeign
    <2> DEFINE t == [order |-> Foreign, nonce |-> Len(ledger), checkpoint |-> final]
    <2>1. t \in Tx /\ t.order \notin Orders
        BY ChainAssumption DEF Tx, TypeOK, ChainTypeOK
    <2>2. Append1(t, TRUE)
        BY <1>5 DEF IncludeForeign
    <2> HIDE DEF t
    <2>3. QED BY <1>1, <1>3, <2>1, <2>2, AllStand
<1>6. CASE Finalize
    <2>1. UNCHANGED ledger
        BY <1>6 DEF Finalize
    <2>2. QED BY <1>1, <2>1, EntriesStand, LifeStands, AllStand
<1>7. QED BY <1>4, <1>5, <1>6 DEF ChainNext

\* Leaving an order "sending" keeps it at risk, or puts it there at the send.
LEMMA LeaveSendingPromised ==
    ASSUME TypeOK, SafetyInv, NEW o \in Orders, pc[o] \in Settling \cup {"send"},
           LeaveSending(o), UNCHANGED ledger
    PROVE  Promise!Next \/ UNCHANGED Promise!vars
<1>1. OnlyMoves(o)
    BY DEF OnlyMoves, LeaveSending, Finish, Goto, Keep, TypeOK
<1>2. state'[o] = "sending" /\ AtRisk(o)'
    BY DEF LeaveSending, TypeOK, AtRisk
<1>3. CASE pc[o] = "send"
    <2>1. state[o] = "draft" /\ ~AtRisk(o)
        BY <1>3 DEF SafetyInv, OrderInv, CallInv, AtRisk, Unresolved, Settling
    <2>2. QED BY <1>1, <1>2, <2>1, Exposes
<1>4. CASE pc[o] \in Settling
    <2>1. state[o] \in {"draft", "sending"} /\ AtRisk(o)
        BY <1>4 DEF SafetyInv, OrderInv, CallInv, AtRisk, Unresolved
    <2>2. Life(o)' = Life(o)
        BY <1>2, <2>1, LifeOf, LifeOfNext, EntriesStand
    <2>3. Told(o)' = Told(o)
        BY <1>2, <2>1 DEF Told
    <2>4. QED BY <1>1, <2>2, <2>3, OthersStand, AllStand
<1>5. QED BY <1>3, <1>4

\* What the user asks for: the promise stutters, copies or exposes.
LEMMA UserStepPromised ==
    ASSUME TypeOK, SafetyInv, NEW o \in Orders, UserStep(o), "record" \notin InterruptPoints
    PROVE  Promise!Next \/ UNCHANGED Promise!vars
<1>1. CASE Submit(o) \/ Quote(o) \/ Set(o) \/ Status(o) \/ Reload(o)
    <2>1. OnlyMoves(o) /\ UNCHANGED ledger /\ state' = state
        BY <1>1
           DEF Submit, StartSettling, Quote, Set, Status, SettleFirst, Reload, OnlyMoves,
               Goto, Keep, chainVars, TypeOK
    <2>2. CASE state[o] = "sending"
        BY <2>1, <2>2, Stutters DEF AtRisk
    <2>3. CASE state[o] # "sending"
        <3>1. pc[o] \notin Unresolved /\ pc'[o] \notin Unresolved
            BY <1>1, <2>3
               DEF Submit, Quote, Set, Status, SettleFirst, Reload, Goto, Unresolved, Settling,
                   TypeOK
        <3>2. QED BY <2>1, <3>1, Stutters DEF AtRisk
    <2>4. QED BY <2>2, <2>3
<1>2. CASE Interrupt(o)
    <2>1. pc[o] \in Settling \cup {"send"} /\ LeaveSending(o) /\ UNCHANGED ledger
        BY <1>2 DEF Interrupt, chainVars
    <2>2. QED BY <2>1, LeaveSendingPromised
<1>3. QED BY <1>1, <1>2, CopyCopies DEF UserStep

\* What a running call does: only the send, the verdicts and _record are steps of
\* the promise.
LEMMA CallStepPromised ==
    ASSUME TypeOK, SafetyInv, PlacesOnce, NEW o \in Orders, CallStep(o)
    PROVE  Promise!Next \/ UNCHANGED Promise!vars
<1>1. CASE \/ ReadNonce(o) \/ Sign(o) \/ PassGates(o) \/ CheckReady(o)
           \/ Resign(o) \/ Recheck(o) \/ Refuse(o) \/ SendRefused(o)
    <2>1. OnlyMoves(o) /\ UNCHANGED ledger /\ state' = state
        BY <1>1
           DEF ReadNonce, Sign, PassGates, CheckReady, Resign, Recheck, Refuse, SendRefused,
               OnlyMoves, Finish, Goto, Keep, chainVars, TypeOK
    <2>2. pc[o] \notin Unresolved /\ pc'[o] \notin Unresolved
        BY <1>1
           DEF ReadNonce, Sign, PassGates, CheckReady, Resign, Recheck, Refuse, SendRefused,
               Finish, Goto, Preparing, Unresolved, Settling, TypeOK
    <2>3. QED BY <2>1, <2>2, Stutters DEF AtRisk
<1>2. CASE Send(o)
    <2>1. OnlyMoves(o) /\ UNCHANGED ledger
        BY <1>2 DEF Send, StartSettling, OnlyMoves, Goto, Keep
    <2>2. /\ state[o] = "draft" /\ ~AtRisk(o)
          /\ state'[o] = "draft" /\ AtRisk(o)'
        BY <1>2
           DEF Send, StartSettling, Goto, TypeOK, AtRisk, Unresolved, Settling,
               SafetyInv, OrderInv, CallInv
    <2>3. QED BY <2>1, <2>2, Exposes
<1>3. CASE FindLanded(o) \/ Resend(o) \/ ExtendDeadline(o)
    <2>1. OnlyMoves(o) /\ UNCHANGED ledger /\ state' = state
        BY <1>3
           DEF FindLanded, Resend, ExtendDeadline, OnlyMoves, Goto, orderVars, chainVars, TypeOK
    <2>2. pc[o] \in Unresolved /\ pc'[o] \in Unresolved
        BY <1>3
           DEF FindLanded, Resend, ExtendDeadline, Goto, orderVars, Unresolved, Settling, TypeOK
    <2>3. QED BY <2>1, <2>2, Stutters DEF AtRisk
<1>4. CASE FindNever(o)
    <2>1. OnlyMoves(o) /\ UNCHANGED ledger
        BY <1>4 DEF FindNever, OnlyMoves, Goto, Keep, Finish, chainVars, TypeOK
    <2>2. bytes[o] \in Tx /\ bytes[o].order = o /\ Holds(o, bytes[o])
        BY <1>4, BytesHeld
           DEF FindNever, WithBytes, Places, Settling, Unresolved, Holds,
               SafetyInv, OrderInv, CallInv
    <2>3. ~Landed(bytes[o])
        BY <1>4, <2>2, NeverRead DEF FindNever, Reads, SafetyInv, TypeOK
    <2>4. state'[o] = "draft" /\ pc'[o] \in {"idle", "nonce"}
        BY <1>4 DEF FindNever, Finish, Goto, TypeOK
    <2>5. ~AtRisk(o)'
        BY <2>4 DEF AtRisk, Unresolved, Settling
    <2>6. QED BY <2>1, <2>2, <2>3, <2>4, <2>5, Withdraws
<1>5. CASE Unsettled(o) \/ StaySending(o)
    BY <1>5, LeaveSendingPromised DEF Unsettled, StaySending, Settling, chainVars
<1>6. QED
    BY <1>1, <1>2, <1>3, <1>4, <1>5, RecordTells DEF CallStep

\* The order lifecycle, with its nonces, windows, lagging nodes, retries,
\* interrupts and reloads, implements PlaceOnce: whatever it does, an order goes
\* from draft through "at risk" to one placement, and what the user is told is
\* what the chain holds.
THEOREM PlacesOnceImplemented ==
    ASSUME "record" \notin InterruptPoints
    PROVE  Spec => PlacesOncePromise
<1>1. Init => Promise!Init
    <2> SUFFICES ASSUME Init PROVE Promise!Init
        OBVIOUS
    <2>1. ASSUME NEW o \in Orders PROVE Life(o) \in {"absent", "draft"} /\ ~Told(o)
        <3>1. LandedEntries(o) = {} /\ ~AtRisk(o) /\ state[o] \in {"absent", "draft"}
            BY DEF Init, ChainInit, LandedEntries, AtRisk, Unresolved, Settling
        <3>2. QED BY <3>1, LifeOf DEF Life, Told
    <2>2. [o \in Orders |-> Life(o)] \in [Orders -> {"absent", "draft"}]
        BY <2>1
    <2>3. [o \in Orders |-> Told(o)] = [o \in Orders |-> FALSE]
        <3>1. ASSUME NEW o \in Orders PROVE Told(o) = FALSE
            <4>1. ~Told(o)
                BY <2>1
            <4>2. QED BY <4>1 DEF Told
        <3>2. QED BY <3>1, Zenon
    <2>4. QED BY <2>2, <2>3 DEF Promise!Init, Told
<1>2. TypeOK /\ SafetyInv /\ PlacesOnce /\ [Next]_vars => [Promise!Next]_(Promise!vars)
    <2> SUFFICES ASSUME TypeOK, SafetyInv, PlacesOnce, [Next]_vars
                 PROVE  Promise!Next \/ UNCHANGED Promise!vars
        OBVIOUS
    <2>1. ASSUME UNCHANGED <<ledger, state, pc>> PROVE UNCHANGED Promise!vars
        <3>1. ASSUME NEW p \in Orders PROVE Life(p)' = Life(p) /\ Told(p)' = Told(p)
            BY <2>1, EntriesStand, LifeStands DEF AtRisk
        <3>2. QED BY <3>1, AllStand
    <2>2. CASE ChainNext /\ UNCHANGED orderVars
        BY <2>2, ChainStepPromised
    <2>3. ASSUME NEW o \in Orders, DeadlinePasses(o) PROVE UNCHANGED Promise!vars
        BY <2>1, <2>3 DEF DeadlinePasses, chainVars
    <2>4. CASE UNCHANGED vars
        BY <2>1, <2>4 DEF vars, chainVars, orderVars
    <2>5. QED BY <2>2, <2>3, <2>4, UserStepPromised, CallStepPromised DEF Next
<1>3. QED
    BY <1>1, <1>2, TypeCorrect, Safety, NeverTwice, PTL DEF Spec, PlacesOncePromise, Promise!Spec
=============================================================================
