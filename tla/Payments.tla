------------------------------- MODULE Payments -------------------------------
(***************************************************************************)
(* Secure Processor payments: the checkout of a token, the webhooks and    *)
(* browser returns that report its status, and the fulfilment of a         *)
(* successful payment (SecureProcessorPaymentService, payment_tokens,      *)
(* promo_codes).  The gateway is external.                                 *)
(*                                                                         *)
(* A handler of a token reads its row once and decides from that copy      *)
(* after its awaits; call[t][h] is the frame of one such handler.  Tokens  *)
(* meet only in the promo code's counter, kept here as what each adds.     *)
(***************************************************************************)
EXTENDS Naturals, FiniteSets

CONSTANTS
    Tokens,     \* the checkouts
    Handlers,   \* bound: the handlers that may be running for one token
    MaxGrants,  \* bound: a token fulfilled this often gets no more reports
    Scenarios   \* the sets of adverse events explored

(* "overlap"    two handlers of a token run at the same time               *)
(* "late"       a report says what the gateway said some time ago          *)
(* "claims"     a return carries a status that the gateway has not given   *)
(* "mismatch"   a report disagrees with the row on amount, currency, test  *)
(* "grantFails" applyAddonPurchase throws                                  *)
(* "promoFails" recordUsage throws                                         *)
(* "crash"      the process dies, once                                     *)
FaultKinds ==
    {"overlap", "late", "claims", "mismatch", "grantFails", "promoFails", "crash"}

ASSUME PaymentsAssumption ==
    /\ IsFiniteSet(Handlers)
    /\ MaxGrants \in Nat \ {0}
    /\ Scenarios \subseteq SUBSET FaultKinds

VARIABLES
    faults,    \* the scenario; never changes
    item,      \* what each checkout buys: "addon" or "plan"
    promo,     \* the checkouts made with a promo code
    checkout,  \* how far createCheckoutToken has come
    gateway,   \* the status of the checkout at the gateway
    told,      \* the statuses it has had there
    row,       \* payment_tokens.status
    call,      \* the handlers' frames
    acked,     \* the tokens whose success a webhook has answered with 200
    crashed,   \* bound: whether the process has died
    granted,   \* how often incrementUsageLimits has run for the token
    uses,      \* what the token has added to the promo code's current_uses
    lost,      \* history: the tokens whose fulfilment failed or died
    claimed    \* history: the tokens a return called successful too soon

vars == <<faults, item, promo, checkout, gateway, told, row, call, acked,
          crashed, granted, uses, lost, claimed>>

\* What no step of a purchase changes.
order == <<faults, item, promo>>

-----------------------------------------------------------------------------
\* What the gateway says, after normalizeStatus: declined, failed and expired,
\* which the service treats alike, are "unpaid"; null becomes "pending".
Reports == {"pending", "unpaid", "successful"}

RowStatus == {"none", "created", "error"} \cup Reports

Frame ==
    [pc : {"idle", "query", "update", "grant", "promo", "markError"},
     kind : {"webhook", "return"}, says : Reports, seen : RowStatus]

IdleFrame == [pc |-> "idle", kind |-> "return", says |-> "pending", seen |-> "none"]

Init ==
    /\ faults \in Scenarios
    /\ item \in [Tokens -> {"addon", "plan"}]
    /\ promo \in SUBSET {t \in Tokens : item[t] = "addon"}
    /\ checkout = [t \in Tokens |-> "start"]
    /\ gateway = [t \in Tokens |-> "none"]
    /\ told = [t \in Tokens |-> {}]
    /\ row = [t \in Tokens |-> "none"]
    /\ call = [t \in Tokens |-> [h \in Handlers |-> IdleFrame]]
    /\ acked = {}
    /\ crashed = FALSE
    /\ granted = [t \in Tokens |-> 0]
    /\ uses = [t \in Tokens |-> 0]
    /\ lost = {}
    /\ claimed = {}

-----------------------------------------------------------------------------
(* createCheckoutToken, for a plan, an add-on or a flexible top-up *)

\* A promo code is validated first; being used up or expired ends the request.
StartCheckout(t) ==
    /\ checkout[t] = "start"
    /\ \/ checkout' = [checkout EXCEPT ![t] = "ask"]
       \/ t \in promo /\ checkout' = [checkout EXCEPT ![t] = "failed"]
    /\ UNCHANGED <<order, gateway, told, row, call, acked, crashed, granted, uses, lost, claimed>>

\* POST /ctp/api/checkouts.
AskGateway(t) ==
    /\ checkout[t] = "ask"
    /\ gateway' = [gateway EXCEPT ![t] = "pending"]
    /\ told' = [told EXCEPT ![t] = {"pending"}]
    /\ checkout' = [checkout EXCEPT ![t] = "store"]
    /\ UNCHANGED <<order, row, call, acked, crashed, granted, uses, lost, claimed>>

\* repository.create; the customer gets the token.
StoreToken(t) ==
    /\ checkout[t] = "store"
    /\ row' = [row EXCEPT ![t] = "created"]
    /\ checkout' = [checkout EXCEPT ![t] = "stored"]
    /\ UNCHANGED <<order, gateway, told, call, acked, crashed, granted, uses, lost, claimed>>

\* The gateway or the repository throws; what the gateway opened stays open.
CheckoutFails(t) ==
    /\ checkout[t] \in {"ask", "store"}
    /\ checkout' = [checkout EXCEPT ![t] = "failed"]
    /\ UNCHANGED <<order, gateway, told, row, call, acked, crashed, granted, uses, lost, claimed>>

-----------------------------------------------------------------------------
(* The gateway: attempts to pay fail or succeed until one succeeds; only a *)
(* customer who got the token can pay.                                     *)
GatewayMoves(t) ==
    /\ gateway[t] \in {"pending", "unpaid"}
    /\ \E s \in Reports \ {gateway[t]} :
          /\ s = "successful" => checkout[t] = "stored"
          /\ gateway' = [gateway EXCEPT ![t] = s]
          /\ told' = [told EXCEPT ![t] = @ \cup {s}]
    /\ UNCHANGED <<order, checkout, row, call, acked, crashed, granted, uses, lost, claimed>>

-----------------------------------------------------------------------------
(* processWebhook and handleReturn *)

Running(t) == {h \in Handlers : call[t][h].pc # "idle"}

\* A handler starts for a token whose row it finds; an unknown token is a 404
\* that changes nothing.
CanStart(t, h) ==
    /\ row[t] # "none"
    /\ \E k \in Handlers : call[t][k].pc = "idle"
    /\ h = CHOOSE k \in Handlers : call[t][k].pc = "idle"
    /\ Running(t) = {} \/ "overlap" \in faults
    /\ granted[t] < MaxGrants

\* What a report may say of t.
Says(t) ==
    {gateway[t]} \cup (IF "late" \in faults THEN told[t] ELSE {})

\* The handler goes on to pc with what it was told and what it read.
Enter(t, h, pc, kind, says) ==
    call' = [call EXCEPT ![t][h] =
               [pc |-> pc, kind |-> kind, says |-> says, seen |-> row[t]]]

\* ensurePayloadConsistency: a mismatch throws and leaves an un-awaited update
\* behind; otherwise the handler updates the row.
AfterCheck(pc) == pc = "update" \/ (pc = "markError" /\ "mismatch" \in faults)

Webhook(t, h, s) ==
    /\ CanStart(t, h)
    /\ s \in Says(t)
    /\ \E pc \in {"update", "markError"} :
          AfterCheck(pc) /\ Enter(t, h, pc, "webhook", s)
    /\ UNCHANGED <<order, checkout, gateway, told, row, acked, crashed, granted, uses, lost, claimed>>

\* A return that says nothing, or pending, has the gateway asked; any other
\* status in its query string is taken as it is.
Return(t, h, s) ==
    /\ CanStart(t, h)
    /\ IF s = "pending" THEN Enter(t, h, "query", "return", s)
       ELSE /\ s \in Says(t) \/ "claims" \in faults
            /\ Enter(t, h, "update", "return", s)
    /\ claimed' = IF s = "successful" /\ gateway[t] # "successful"
                  THEN claimed \cup {t} ELSE claimed
    /\ UNCHANGED <<order, checkout, gateway, told, row, acked, crashed, granted, uses, lost>>

Finish(t, h) == call' = [call EXCEPT ![t][h] = IdleFrame]

\* queryCheckoutStatus; when it fails the return ends with an error.
Query(t, h) ==
    /\ call[t][h].pc = "query"
    /\ \/ Finish(t, h)
       \/ \E pc \in {"update", "markError"} :
             /\ AfterCheck(pc)
             /\ call' = [call EXCEPT ![t][h] = [@ EXCEPT !.pc = pc, !.says = gateway[t]]]
    /\ UNCHANGED <<order, checkout, gateway, told, row, acked, crashed, granted, uses, lost, claimed>>

\* A webhook whose success has been dealt with is answered 200.
Acked(t, h) ==
    IF call[t][h].kind = "webhook" /\ call[t][h].says = "successful"
    THEN acked \cup {t} ELSE acked

\* updateByToken writes whatever status was reported, then the copy of the
\* row read at the start decides; a plan's fulfilment is only a warning.
UpdateWhen(t, h, activates) ==
    /\ call[t][h].pc = "update"
    /\ row' = [row EXCEPT ![t] = call[t][h].says]
    /\ IF activates /\ item[t] = "addon"
       THEN call' = [call EXCEPT ![t][h].pc = "grant"] /\ UNCHANGED acked
       ELSE Finish(t, h) /\ acked' = Acked(t, h)
    /\ UNCHANGED <<order, checkout, gateway, told, crashed, granted, uses, lost, claimed>>

ShouldActivate(f) == f.says = "successful" /\ f.seen # "successful"

\* Mutants: the reported status is not asked for, the stored one is not, a
\* payment is activated only from pending, or only by a return.
UpdateAlways(t, h) == UpdateWhen(t, h, call[t][h].seen # "successful")
UpdateAgain(t, h) == UpdateWhen(t, h, call[t][h].says = "successful")
UpdateFromPending(t, h) ==
    UpdateWhen(t, h, call[t][h].says = "successful" /\ call[t][h].seen = "pending")
UpdateOnReturn(t, h) ==
    UpdateWhen(t, h, ShouldActivate(call[t][h]) /\ call[t][h].kind = "return")

Update(t, h) == UpdateWhen(t, h, ShouldActivate(call[t][h]))

\* Mutant: the promo code is never counted.
GrantOnly(t, h) ==
    /\ call[t][h].pc = "grant"
    /\ granted' = [granted EXCEPT ![t] = @ + 1]
    /\ Finish(t, h) /\ acked' = Acked(t, h)
    /\ UNCHANGED <<order, checkout, gateway, told, row, crashed, uses, lost, claimed>>

\* applyAddonPurchase: one transaction that raises the limits.
Grant(t, h) ==
    /\ call[t][h].pc = "grant"
    /\ granted' = [granted EXCEPT ![t] = @ + 1]
    /\ IF t \in promo
       THEN call' = [call EXCEPT ![t][h].pc = "promo"] /\ UNCHANGED acked
       ELSE Finish(t, h) /\ acked' = Acked(t, h)
    /\ UNCHANGED <<order, checkout, gateway, told, row, crashed, uses, lost, claimed>>

\* ... or throws: the handler fails, the row stays as updated.
GrantFails(t, h) ==
    /\ "grantFails" \in faults
    /\ call[t][h].pc = "grant"
    /\ lost' = lost \cup {t}
    /\ Finish(t, h)
    /\ UNCHANGED <<order, checkout, gateway, told, row, acked, crashed, granted, uses, claimed>>

\* recordUsage; its error is logged and swallowed.
RecordPromo(t, h) ==
    /\ call[t][h].pc = "promo"
    /\ \/ uses' = [uses EXCEPT ![t] = @ + 1]
       \/ "promoFails" \in faults /\ UNCHANGED uses
    /\ Finish(t, h) /\ acked' = Acked(t, h)
    /\ UNCHANGED <<order, checkout, gateway, told, row, crashed, granted, lost, claimed>>

\* The un-awaited update of a mismatch.
MarkError(t, h) ==
    /\ call[t][h].pc = "markError"
    /\ row' = [row EXCEPT ![t] = "error"]
    /\ Finish(t, h)
    /\ UNCHANGED <<order, checkout, gateway, told, acked, crashed, granted, uses, lost, claimed>>

\* Every handler dies where it is.
Crash ==
    /\ "crash" \in faults /\ ~crashed
    /\ crashed' = TRUE
    /\ checkout' = [t \in Tokens |-> IF checkout[t] \in {"start", "stored"}
                                     THEN checkout[t] ELSE "failed"]
    /\ call' = [t \in Tokens |-> [h \in Handlers |-> IdleFrame]]
    /\ lost' = lost \cup {t \in Tokens : \E h \in Handlers : call[t][h].pc = "grant"}
    /\ UNCHANGED <<order, gateway, told, row, acked, granted, uses, claimed>>

-----------------------------------------------------------------------------
CheckoutStep(t) ==
    StartCheckout(t) \/ AskGateway(t) \/ StoreToken(t) \/ CheckoutFails(t)

HandlerStep(t, h) ==
    Query(t, h) \/ Update(t, h) \/ Grant(t, h) \/ RecordPromo(t, h) \/ MarkError(t, h)

Report(t, h) == \E s \in Reports : Webhook(t, h, s) \/ Return(t, h, s)

Next ==
    \/ \E t \in Tokens : CheckoutStep(t) \/ GatewayMoves(t)
    \/ \E t \in Tokens, h \in Handlers :
          Report(t, h) \/ HandlerStep(t, h) \/ GrantFails(t, h)
    \/ Crash

Spec == Init /\ [][Next]_vars

\* The gateway reports a success until a webhook is answered with 200.
NotifyPaid(t) ==
    t \notin acked /\ \E h \in Handlers : Webhook(t, h, "successful")

FairSpec ==
    /\ Spec
    /\ \A t \in Tokens, h \in Handlers : WF_vars(HandlerStep(t, h))
    /\ \A t \in Tokens : SF_vars(NotifyPaid(t))

-----------------------------------------------------------------------------
(* Type invariant *)
TypeOK ==
    /\ faults \in Scenarios
    /\ item \in [Tokens -> {"addon", "plan"}]
    /\ promo \subseteq Tokens
    /\ checkout \in [Tokens -> {"start", "ask", "store", "stored", "failed"}]
    /\ gateway \in [Tokens -> {"none"} \cup Reports]
    /\ told \in [Tokens -> SUBSET Reports]
    /\ row \in [Tokens -> RowStatus]
    /\ call \in [Tokens -> [Handlers -> Frame]]
    /\ acked \subseteq Tokens
    /\ crashed \in BOOLEAN
    /\ granted \in [Tokens -> Nat]
    /\ uses \in [Tokens -> Nat]
    /\ lost \subseteq Tokens
    /\ claimed \subseteq Tokens

(* Limits are raised only for an add-on whose payment succeeded at the     *)
(* gateway, or that a return called successful before it did: whichever    *)
(* reports cross each other or come late, nothing but the word of a return *)
(* stands in for a payment (handleReturn, applyStatusUpdate).              *)
GrantedWasReported ==
    \A t \in Tokens :
        granted[t] > 0 =>
            item[t] = "addon" /\ (gateway[t] = "successful" \/ t \in claimed)

(* A row says successful only when the add-on has been granted, is being   *)
(* granted, or its fulfilment failed under way: no order of reports skips  *)
(* the fulfilment (shouldActivate decides from a stale copy).              *)
SuccessIsGranted ==
    \A t \in Tokens :
        row[t] = "successful" /\ item[t] = "addon" =>
            \/ granted[t] > 0 \/ t \in lost
            \/ \E h \in Handlers : call[t][h].pc = "grant"

\* Reports of a token come one at a time, up to date and consistent.
Calm == faults \cap {"overlap", "late", "claims", "mismatch"} = {}

(* An add-on raises the limits once per payment (applyFulfillment).        *)
GrantedOnce == \A t \in Tokens : granted[t] <= 1

(* However often they are repeated, reports that come one at a time and up *)
(* to date fulfil a payment once, crashes and failures included.           *)
CalmGrantsOnce == Calm => GrantedOnce

(* Under the same conditions no report takes a success back.               *)
SuccessIsFinal ==
    [][\A t \in Tokens :
          Calm /\ row[t] = "successful" => row'[t] = "successful"]_vars

(* Unless recordUsage fails or the process dies, the promo code's counter  *)
(* and the calls about to raise it match the fulfilments, one for one.     *)
PromoCounted ==
    faults \cap {"promoFails", "crash"} = {} =>
        \A t \in Tokens :
            uses[t] + Cardinality({h \in Handlers : call[t][h].pc = "promo"})
                = IF t \in promo THEN granted[t] ELSE 0

(* A paid add-on is granted in the end, or its fulfilment failed.          *)
EventuallyGranted ==
    \A t \in Tokens :
        (gateway[t] = "successful" /\ item[t] = "addon" /\ "mismatch" \notin faults)
            ~> (granted[t] > 0 \/ t \in lost)
=============================================================================
