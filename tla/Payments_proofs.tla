--------------------------- MODULE Payments_proofs ---------------------------
(***************************************************************************)
(* Proofs about Payments for any number of tokens, handlers and fulfilment *)
(* and any scenarios.  IInv is inductive: it says what the frames of the   *)
(* handlers owe to the gateway (PaidInv), to the fulfilment (SuccessInv)   *)
(* and, when reports come one at a time, to the row (CalmInv).             *)
(***************************************************************************)
EXTENDS Payments, SignUp, FiniteSetTheorems, TLAPS

\* The token was paid, or a return said so.
Reported(t) == gateway[t] = "successful" \/ t \in claimed

\* A checkout the gateway has not opened has no status there, a success is
\* reported only when it happened or a return claims it, and only an add-on is
\* being granted.
PaidAt(t) ==
    /\ checkout[t] \in {"start", "ask"} => gateway[t] = "none"
    /\ checkout[t] \in {"store", "stored"} => gateway[t] # "none"
    /\ checkout[t] # "stored" => row[t] = "none"
    /\ "successful" \in told[t] => gateway[t] = "successful"
    /\ granted[t] > 0 => item[t] = "addon" /\ Reported(t)
    /\ \A h \in Handlers :
          /\ call[t][h].says = "successful" => Reported(t)
          /\ call[t][h].pc # "idle" => row[t] # "none"
          /\ call[t][h].pc = "grant" =>
                call[t][h].says = "successful" /\ item[t] = "addon"

PaidInv == \A t \in Tokens : PaidAt(t)

\* The fulfilment of t has happened, is happening or has failed.
Served(t) ==
    \/ granted[t] > 0
    \/ t \in lost
    \/ \E h \in Handlers : call[t][h].pc = "grant"

\* A success in the row, or in a handler's copy of it, was served.
SuccessAt(t) ==
    item[t] = "addon" =>
        /\ row[t] = "successful" => Served(t)
        /\ \A h \in Handlers : call[t][h].seen = "successful" => Served(t)

SuccessInv == \A t \in Tokens : SuccessAt(t)

\* A handler that runs alone has an up-to-date copy of the row.
CalmFrame(t, h) ==
    /\ call[t][h].pc # "markError"
    /\ call[t][h].pc \in {"query", "update"} => call[t][h].seen = row[t]
    /\ call[t][h].pc = "update" /\ row[t] = "successful" =>
          call[t][h].says = "successful"
    /\ call[t][h].pc = "grant" => granted[t] = 0 /\ row[t] = "successful"

CalmAt(t) ==
    /\ \A h, k \in Handlers :
          call[t][h].pc # "idle" /\ call[t][k].pc # "idle" => h = k
    /\ \A h \in Handlers : CalmFrame(t, h)
    /\ t \notin claimed
    /\ row[t] = "successful" => gateway[t] = "successful"
    /\ granted[t] > 0 => row[t] = "successful" /\ granted[t] = 1

CalmInv == Calm => \A t \in Tokens : CalmAt(t)

IInv == TypeOK /\ PaidInv /\ SuccessInv /\ CalmInv

-----------------------------------------------------------------------------
LEMMA InitIInv == Init => IInv
<1>. SUFFICES ASSUME Init PROVE IInv
  OBVIOUS
<1>1. \A t \in Tokens : \A h \in Handlers : call[t][h] = IdleFrame
  BY DEF Init
<1>2. IdleFrame \in Frame
  BY DEF IdleFrame, Frame, RowStatus, Reports
<1>3. TypeOK
  BY <1>2 DEF Init, TypeOK, RowStatus, Reports
<1>4. PaidInv
  BY <1>1 DEF Init, PaidInv, PaidAt, Reported, IdleFrame
<1>5. SuccessInv
  BY <1>1 DEF Init, SuccessInv, SuccessAt, IdleFrame
<1>6. CalmInv
  BY <1>1 DEF Init, CalmInv, CalmAt, CalmFrame, IdleFrame
<1>. QED
  BY <1>3, <1>4, <1>5, <1>6 DEF IInv

-----------------------------------------------------------------------------
(* What a step does to the frames *)

OnlyFrame(t, h) ==
    /\ call' \in [Tokens -> [Handlers -> Frame]]
    /\ \A u \in Tokens, k \in Handlers :
          u # t \/ k # h => call'[u][k] = call[u][k]

\* The frame of h goes on to pc, and keeps or forgets its data.
Moved(t, h, pc) ==
    OnlyFrame(t, h) /\ call'[t][h] = [call[t][h] EXCEPT !.pc = pc]

Finished(t, h) == OnlyFrame(t, h) /\ call'[t][h] = IdleFrame

LEMMA FrameType ==
  ASSUME TypeOK, NEW t \in Tokens, NEW h \in Handlers
  PROVE  call[t][h] \in Frame
  BY DEF TypeOK

LEMMA IdleType == IdleFrame \in Frame
  BY DEF IdleFrame, Frame, RowStatus, Reports

LEMMA SetFrame ==
  ASSUME TypeOK, NEW t \in Tokens, NEW h \in Handlers, NEW f \in Frame,
         call' = [call EXCEPT ![t][h] = f]
  PROVE  OnlyFrame(t, h) /\ call'[t][h] = f
  BY DEF TypeOK, OnlyFrame

LEMMA FinishEffect ==
  ASSUME TypeOK, NEW t \in Tokens, NEW h \in Handlers, Finish(t, h)
  PROVE  Finished(t, h)
  BY SetFrame, IdleType DEF Finish, Finished

LEMMA MoveEffect ==
  ASSUME TypeOK, NEW t \in Tokens, NEW h \in Handlers,
         NEW pc \in {"grant", "promo"}, call' = [call EXCEPT ![t][h].pc = pc]
  PROVE  Moved(t, h, pc)
<1>. DEFINE f == [call[t][h] EXCEPT !.pc = pc]
<1>1. f \in Frame
  BY FrameType DEF Frame
<1>2. call' = [call EXCEPT ![t][h] = f]
  BY DEF TypeOK
<1>3. call' \in [Tokens -> [Handlers -> Frame]]
  BY <1>1, <1>2 DEF TypeOK
<1>. QED
  BY <1>2, <1>3 DEF TypeOK, OnlyFrame, Moved

-----------------------------------------------------------------------------
(* The parts of the invariant that a handler's step does not disturb: those *)
(* of other tokens.                                                         *)

\* Everything about u is as it was.
Kept(u) ==
    /\ checkout'[u] = checkout[u] /\ gateway'[u] = gateway[u]
    /\ told'[u] = told[u] /\ row'[u] = row[u] /\ call'[u] = call[u]
    /\ granted'[u] = granted[u] /\ (u \in lost => u \in lost')
    /\ (u \in claimed <=> u \in claimed')

LEMMA KeptAt ==
  ASSUME IInv, NEW u \in Tokens, UNCHANGED order, Kept(u)
  PROVE  PaidAt(u)' /\ SuccessAt(u)' /\ (Calm' => CalmAt(u)')
<1>1. PaidAt(u) /\ SuccessAt(u) /\ (Calm => CalmAt(u))
  BY DEF IInv, PaidInv, SuccessInv, CalmInv
<1>2. PaidAt(u)'
  BY <1>1 DEF order, Kept, PaidAt, Reported
<1>3. SuccessAt(u)'
  BY <1>1 DEF order, Kept, SuccessAt, Served
<1>4. Calm' => CalmAt(u)'
  BY <1>1 DEF order, Kept, Calm, CalmAt, CalmFrame
<1>. QED
  BY <1>2, <1>3, <1>4

LEMMA StepAt ==
  ASSUME IInv, NEW t \in Tokens, UNCHANGED order, TypeOK',
         \A u \in Tokens \ {t} : Kept(u),
         PaidAt(t)', SuccessAt(t)', Calm' => CalmAt(t)'
  PROVE  IInv'
<1>1. \A u \in Tokens : PaidAt(u)' /\ SuccessAt(u)' /\ (Calm' => CalmAt(u)')
  BY KeptAt
<1>. QED
  BY <1>1 DEF IInv, PaidInv, SuccessInv, CalmInv

-----------------------------------------------------------------------------
(* createCheckoutToken and the gateway *)

LEMMA CheckoutPreserves ==
  ASSUME IInv, NEW t \in Tokens, CheckoutStep(t) \/ GatewayMoves(t)
  PROVE  IInv'
<1>. USE DEF IInv
<1>1. PaidAt(t) /\ SuccessAt(t) /\ (Calm => CalmAt(t))
  BY DEF PaidInv, SuccessInv, CalmInv
<1>2. \A u \in Tokens \ {t} : Kept(u)
  BY DEF TypeOK, CheckoutStep, StartCheckout, AskGateway, StoreToken, CheckoutFails,
     GatewayMoves, Kept
<1>3. UNCHANGED <<order, claimed>> /\ call' = call /\ granted' = granted /\ lost' = lost
  BY DEF CheckoutStep, StartCheckout, AskGateway, StoreToken, CheckoutFails, GatewayMoves
<1>4. CASE StartCheckout(t) \/ CheckoutFails(t)
  <2>1. TypeOK'
    BY <1>4 DEF TypeOK, StartCheckout, CheckoutFails, order
  <2>2. PaidAt(t)'
    BY <1>1, <1>4 DEF TypeOK, StartCheckout, CheckoutFails, order, PaidAt, Reported
  <2>3. SuccessAt(t)' /\ (Calm' => CalmAt(t)')
    BY <1>1, <1>4 DEF StartCheckout, CheckoutFails, order, SuccessAt, Served, Calm,
       CalmAt, CalmFrame
  <2>. QED
    BY <1>2, <1>3, <2>1, <2>2, <2>3, StepAt
<1>5. CASE AskGateway(t)
  <2>1. TypeOK'
    BY <1>5 DEF TypeOK, AskGateway, order, Reports
  <2>2. PaidAt(t)'
    BY <1>1, <1>5 DEF TypeOK, AskGateway, order, PaidAt, Reported
  <2>3. SuccessAt(t)' /\ (Calm' => CalmAt(t)')
    BY <1>1, <1>5 DEF TypeOK, AskGateway, order, PaidAt, Reported, SuccessAt, Served, Calm,
       CalmAt, CalmFrame
  <2>. QED
    BY <1>2, <1>3, <2>1, <2>2, <2>3, StepAt
<1>6. CASE StoreToken(t)
  <2>1. TypeOK'
    BY <1>6 DEF TypeOK, StoreToken, order, RowStatus
  <2>2. PaidAt(t)'
    BY <1>1, <1>6 DEF TypeOK, StoreToken, order, PaidAt, Reported
  <2>3. \A h \in Handlers : call[t][h].pc = "idle"
    BY <1>1, <1>6 DEF TypeOK, StoreToken, PaidAt, Reported
  <2>4. SuccessAt(t)'
    BY <1>1, <1>6 DEF TypeOK, StoreToken, order, SuccessAt, Served
  <2>5. Calm' => CalmAt(t)'
    BY <1>1, <1>6, <2>3 DEF TypeOK, StoreToken, order, PaidAt, Reported, Calm, CalmAt, CalmFrame
  <2>. QED
    BY <1>2, <1>3, <2>1, <2>2, <2>4, <2>5, StepAt
<1>7. CASE GatewayMoves(t)
  <2>1. TypeOK'
    BY <1>7 DEF TypeOK, GatewayMoves, order
  <2>2. PaidAt(t)'
    BY <1>1, <1>7 DEF TypeOK, GatewayMoves, order, PaidAt, Reported, Reports
  <2>3. SuccessAt(t)' /\ (Calm' => CalmAt(t)')
    BY <1>1, <1>7 DEF TypeOK, GatewayMoves, order, PaidAt, Reported, SuccessAt, Served, Calm,
       CalmAt, CalmFrame
  <2>. QED
    BY <1>2, <1>3, <2>1, <2>2, <2>3, StepAt
<1>. QED
  BY <1>4, <1>5, <1>6, <1>7 DEF CheckoutStep

-----------------------------------------------------------------------------
(* processWebhook and handleReturn *)

LEMMA OthersKept ==
  ASSUME TypeOK, NEW t \in Tokens, NEW h \in Handlers, OnlyFrame(t, h),
         UNCHANGED <<checkout, gateway, told>>,
         \A u \in Tokens \ {t} :
             /\ row'[u] = row[u] /\ granted'[u] = granted[u]
             /\ u \in lost => u \in lost'
             /\ u \in claimed <=> u \in claimed'
  PROVE  \A u \in Tokens \ {t} : Kept(u)
<1>1. ASSUME NEW u \in Tokens \ {t} PROVE call'[u] = call[u]
  BY <1>1 DEF TypeOK, OnlyFrame
<1>. QED
  BY <1>1 DEF Kept

\* A handler starts: reads its row and goes to update, query or markError.
LEMMA EnterPreserves ==
  ASSUME IInv, NEW t \in Tokens, NEW h \in Handlers, CanStart(t, h),
         NEW pc \in {"update", "query", "markError"},
         NEW kind \in {"webhook", "return"}, NEW s \in Reports,
         Enter(t, h, pc, kind, s),
         pc # "query" => s \in Says(t) \/ "claims" \in faults,
         pc = "markError" => "mismatch" \in faults,
         claimed' \in {claimed, claimed \cup {t}},
         claimed' # claimed => "claims" \in faults,
         s = "successful" => gateway[t] = "successful" \/ t \in claimed',
         UNCHANGED <<order, checkout, gateway, told, row, acked, crashed, granted, uses, lost>>
  PROVE  IInv'
<1>. DEFINE f == [pc |-> pc, kind |-> kind, says |-> s, seen |-> row[t]]
<1>1. TypeOK /\ PaidAt(t) /\ SuccessAt(t) /\ (Calm => CalmAt(t))
  BY DEF IInv, PaidInv, SuccessInv, CalmInv
<1>2. f \in Frame
  BY <1>1 DEF TypeOK, Frame
<1>e. call' = [call EXCEPT ![t][h] = f]
  BY DEF Enter
<1>f. f.pc = pc /\ f.says = s /\ f.seen = row[t]
  OBVIOUS
<1>. HIDE DEF f
<1>3. OnlyFrame(t, h) /\ call'[t][h] = f
  BY <1>1, <1>2, <1>e, SetFrame
<1>4. TypeOK'
  BY <1>1, <1>3 DEF TypeOK, OnlyFrame, order
<1>5. \A u \in Tokens \ {t} : Kept(u)
  BY <1>1, <1>3, OthersKept
<1>6. \A k \in Handlers \ {h} : call'[t][k] = call[t][k]
  BY <1>3 DEF OnlyFrame
<1>7. s = "successful" => gateway[t] = "successful" \/ t \in claimed'
  OBVIOUS
<1>8. PaidAt(t)'
  <2>1. Reported(t) => Reported(t)'
    BY DEF Reported
  <2>2. \A k \in Handlers : call'[t][k].says = "successful" => Reported(t)'
    BY <1>1, <1>3, <1>6, <1>7, <1>f, <2>1 DEF PaidAt, Reported
  <2>. QED
    BY <1>1, <1>3, <1>6, <1>f, <2>1, <2>2 DEF order, PaidAt, CanStart
<1>9. SuccessAt(t)'
  <2>1. Served(t) => Served(t)'
    BY <1>6 DEF Served, CanStart
  <2>. QED
    BY <1>1, <1>3, <1>6, <1>f, <2>1 DEF order, SuccessAt
<1>10. ASSUME Calm' PROVE CalmAt(t)'
  <2>1. Calm /\ CalmAt(t)
    BY <1>1, <1>10 DEF order, Calm
  <2>2. pc # "markError" /\ (pc = "update" => s = gateway[t]) /\ claimed' = claimed
    BY <2>1 DEF Calm, Says
  <2>3. \A k \in Handlers : call[t][k].pc = "idle"
    BY <2>1 DEF Calm, CanStart, Running
  <2>4. \A k \in Handlers \ {h} : call'[t][k].pc = "idle"
    BY <2>3, <1>6
  <2>5. \A k \in Handlers : CalmFrame(t, k)'
    BY <2>1, <2>2, <2>4, <1>3, <1>f DEF CalmAt, CalmFrame
  <2>. QED
    BY <2>1, <2>2, <2>4, <2>5, <1>3 DEF CalmAt
<1>. QED
  BY <1>4, <1>5, <1>8, <1>9, <1>10, StepAt

LEMMA ReportPreserves ==
  ASSUME IInv, NEW t \in Tokens, NEW h \in Handlers, Report(t, h)
  PROVE  IInv'
<1>1. PICK s \in Reports : Webhook(t, h, s) \/ Return(t, h, s)
  BY DEF Report
<1>2. s \in Says(t) /\ s = "successful" => gateway[t] = "successful"
  BY DEF IInv, PaidInv, PaidAt, Says
<1>3. CASE Webhook(t, h, s)
  <2>1. PICK pc \in {"update", "markError"} : AfterCheck(pc) /\ Enter(t, h, pc, "webhook", s)
    BY <1>3 DEF Webhook
  <2>. QED
    BY <1>2, <1>3, <2>1, EnterPreserves DEF Webhook, AfterCheck
<1>4. CASE Return(t, h, s)
  <2>1. CASE s = "pending"
    BY <1>4, <2>1, EnterPreserves DEF Return
  <2>2. CASE s # "pending"
    <3>1. /\ claimed' \in {claimed, claimed \cup {t}}
          /\ claimed' # claimed => "claims" \in faults
          /\ s = "successful" => gateway[t] = "successful" \/ t \in claimed'
      BY <1>2, <1>4, <2>2 DEF Return
    <3>. QED
      BY <1>4, <2>2, <3>1, EnterPreserves DEF Return
  <2>. QED
    BY <2>1, <2>2
<1>. QED
  BY <1>1, <1>3, <1>4

-----------------------------------------------------------------------------
(* The steps of a running handler *)

\* A handler that goes idle takes nothing with it.
LEMMA FinishAt ==
  ASSUME IInv, NEW t \in Tokens, NEW h \in Handlers, Finished(t, h),
         UNCHANGED <<order, checkout, gateway, told, row, claimed>>,
         granted'[t] = granted[t], t \in lost => t \in lost',
         call[t][h].pc = "grant" => t \in lost'
  PROVE  PaidAt(t)' /\ SuccessAt(t)' /\ (Calm' => CalmAt(t)')
<1>1. TypeOK /\ PaidAt(t) /\ SuccessAt(t) /\ (Calm => CalmAt(t))
  BY DEF IInv, PaidInv, SuccessInv, CalmInv
<1>2. /\ call'[t][h] = IdleFrame
      /\ \A k \in Handlers \ {h} : call'[t][k] = call[t][k]
  BY DEF Finished, OnlyFrame
<1>3. PaidAt(t)'
  BY <1>1, <1>2 DEF order, PaidAt, Reported, IdleFrame
<1>4. SuccessAt(t)'
  <2>1. Served(t) => Served(t)'
    BY <1>2 DEF Served
  <2>. QED
    BY <1>1, <1>2, <2>1 DEF order, SuccessAt, IdleFrame
<1>5. ASSUME Calm' PROVE CalmAt(t)'
  <2>1. CalmAt(t)
    BY <1>1, <1>5 DEF order, Calm
  <2>2. \A k \in Handlers : CalmFrame(t, k)'
    BY <2>1, <1>2 DEF CalmAt, CalmFrame, IdleFrame
  <2>. QED
    BY <2>1, <2>2, <1>2 DEF CalmAt, IdleFrame
<1>. QED
  BY <1>3, <1>4, <1>5

LEMMA QueryPreserves ==
  ASSUME IInv, NEW t \in Tokens, NEW h \in Handlers, Query(t, h)
  PROVE  IInv'
<1>1. TypeOK /\ PaidAt(t) /\ SuccessAt(t) /\ (Calm => CalmAt(t))
  BY DEF IInv, PaidInv, SuccessInv, CalmInv
<1>2. CASE Finish(t, h)
  <2>1. Finished(t, h)
    BY <1>1, <1>2, FinishEffect
  <2>2. TypeOK'
    BY <1>1, <2>1 DEF Query, TypeOK, Finished, OnlyFrame, order
  <2>3. \A u \in Tokens \ {t} : Kept(u)
    BY <1>1, <2>1, OthersKept DEF Query, Finished
  <2>. QED
    BY <2>1, <2>2, <2>3, FinishAt, StepAt DEF Query
<1>3. CASE \E pc \in {"update", "markError"} :
             /\ AfterCheck(pc)
             /\ call' = [call EXCEPT ![t][h] = [@ EXCEPT !.pc = pc, !.says = gateway[t]]]
  <2>1. PICK pc \in {"update", "markError"} :
             /\ AfterCheck(pc)
             /\ call' = [call EXCEPT ![t][h] = [@ EXCEPT !.pc = pc, !.says = gateway[t]]]
    BY <1>3
  <2>. DEFINE f == [call[t][h] EXCEPT !.pc = pc, !.says = gateway[t]]
  <2>2. gateway[t] \in Reports
    BY <1>1 DEF Query, PaidAt, Reported, TypeOK
  <2>3. f \in Frame
    BY <1>1, <2>2, FrameType DEF Frame
  <2>4. call' = [call EXCEPT ![t][h] = f]
    BY <1>1, <2>1 DEF TypeOK
  <2>5. call' \in [Tokens -> [Handlers -> Frame]]
    BY <1>1, <2>3, <2>4 DEF TypeOK
  <2>6. OnlyFrame(t, h) /\ call'[t][h] = f
    BY <1>1, <2>4, <2>5 DEF TypeOK, OnlyFrame
  <2>7. /\ call'[t][h].pc = pc /\ call'[t][h].says = gateway[t]
        /\ call'[t][h].seen = call[t][h].seen
    BY <1>1, <2>6, FrameType DEF Frame
  <2>. HIDE DEF f
  <2>8. \A k \in Handlers \ {h} : call'[t][k] = call[t][k]
    BY <2>6 DEF OnlyFrame
  <2>9. TypeOK'
    BY <1>1, <2>5 DEF Query, TypeOK, order
  <2>10. \A u \in Tokens \ {t} : Kept(u)
    BY <1>1, <2>6, OthersKept DEF Query
  <2>11. PaidAt(t)'
    BY <1>1, <2>7, <2>8 DEF Query, order, PaidAt, Reported
  <2>12. SuccessAt(t)'
    BY <1>1, <2>7, <2>8 DEF Query, order, SuccessAt, Served
  <2>13. ASSUME Calm' PROVE CalmAt(t)'
    <3>1. Calm /\ CalmAt(t)
      BY <1>1, <2>13 DEF Query, order, Calm
    <3>2. pc = "update"
      BY <2>1, <3>1 DEF Calm, AfterCheck
    <3>3. \A k \in Handlers : CalmFrame(t, k)'
      BY <2>7, <2>8, <3>1, <3>2 DEF Query, CalmAt, CalmFrame
    <3>. QED
      BY <2>7, <2>8, <3>1, <3>3 DEF Query, CalmAt
  <2>. QED
    BY <2>9, <2>10, <2>11, <2>12, <2>13, StepAt DEF Query
<1>. QED
  BY <1>2, <1>3 DEF Query

LEMMA UpdatePreserves ==
  ASSUME IInv, NEW t \in Tokens, NEW h \in Handlers, Update(t, h)
  PROVE  IInv'
<1>. DEFINE f == call[t][h]
<1>1. TypeOK /\ PaidAt(t) /\ SuccessAt(t) /\ (Calm => CalmAt(t))
  BY DEF IInv, PaidInv, SuccessInv, CalmInv
<1>2. f \in Frame /\ f.pc = "update"
  BY <1>1, FrameType DEF Update, UpdateWhen
<1>3. CASE ShouldActivate(f) /\ item[t] = "addon"
  <2>1. Moved(t, h, "grant")
    BY <1>1, <1>3, MoveEffect DEF Update, UpdateWhen
  <2>2. /\ call'[t][h].pc = "grant" /\ call'[t][h].says = f.says
        /\ call'[t][h].seen = f.seen
    BY <2>1, <1>2 DEF Moved, Frame
  <2>3. \A k \in Handlers \ {h} : call'[t][k] = call[t][k]
    BY <2>1 DEF Moved, OnlyFrame
  <2>4. TypeOK'
    BY <1>1, <1>2, <1>3, <2>1 DEF Update, UpdateWhen, TypeOK, Moved, OnlyFrame, order,
       Frame, RowStatus, Acked
  <2>5. \A u \in Tokens \ {t} : Kept(u)
    BY <1>1, <2>1, OthersKept DEF Update, UpdateWhen, Moved, TypeOK
  <2>6. row'[t] = "successful" /\ f.says = "successful" /\ f.seen # "successful"
    BY <1>1, <1>3 DEF Update, UpdateWhen, ShouldActivate, TypeOK
  <2>7. PaidAt(t)'
    BY <1>1, <1>2, <1>3, <2>2, <2>3, <2>6 DEF Update, UpdateWhen, order, PaidAt, Reported
  <2>8. SuccessAt(t)'
    BY <2>2 DEF SuccessAt, Served
  <2>9. ASSUME Calm' PROVE CalmAt(t)'
    <3>1. CalmAt(t)
      BY <1>1, <2>9 DEF Update, UpdateWhen, order, Calm
    <3>2. granted[t] = 0
      BY <1>1, <1>2, <2>6, <3>1 DEF TypeOK, CalmAt, CalmFrame
    <3>3. \A k \in Handlers \ {h} : call'[t][k].pc = "idle"
      BY <1>2, <2>3, <3>1 DEF CalmAt
    <3>4. \A k \in Handlers : CalmFrame(t, k)'
      BY <2>2, <2>6, <3>2, <3>3 DEF Update, UpdateWhen, CalmFrame
    <3>5. gateway[t] = "successful"
      BY <1>1, <2>6, <3>1 DEF CalmAt, PaidAt, Reported
    <3>. QED
      BY <2>6, <3>1, <3>2, <3>3, <3>4, <3>5 DEF Update, UpdateWhen, CalmAt
  <2>. QED
    BY <2>4, <2>5, <2>7, <2>8, <2>9, StepAt DEF Update, UpdateWhen
<1>4. CASE ~(ShouldActivate(f) /\ item[t] = "addon")
  <2>1. Finished(t, h)
    BY <1>1, <1>4, FinishEffect DEF Update, UpdateWhen
  <2>2. call'[t][h] = IdleFrame /\ \A k \in Handlers \ {h} : call'[t][k] = call[t][k]
    BY <2>1 DEF Finished, OnlyFrame
  <2>3. TypeOK'
    BY <1>1, <1>2, <1>4, <2>1 DEF Update, UpdateWhen, TypeOK, Finished, OnlyFrame, order,
       Frame, RowStatus, Acked
  <2>4. \A u \in Tokens \ {t} : Kept(u)
    BY <1>1, <2>1, OthersKept DEF Update, UpdateWhen, Finished, TypeOK
  <2>5. row'[t] = f.says
    BY <1>1 DEF Update, UpdateWhen, TypeOK
  <2>6. PaidAt(t)'
    BY <1>1, <1>2, <2>2, <2>5 DEF Update, UpdateWhen, order, PaidAt, Reported, IdleFrame, Frame, Reports
  <2>7. SuccessAt(t)'
    <3>1. Served(t) => Served(t)'
      BY <1>2, <2>2 DEF Update, UpdateWhen, Served
    <3>. QED
      BY <1>1, <1>4, <2>2, <2>5, <3>1 DEF Update, UpdateWhen, order, SuccessAt,
         ShouldActivate, IdleFrame
  <2>8. ASSUME Calm' PROVE CalmAt(t)'
    <3>1. CalmAt(t)
      BY <1>1, <2>8 DEF Update, UpdateWhen, order, Calm
    <3>2. \A k \in Handlers : call'[t][k].pc = "idle"
      BY <1>2, <2>2, <3>1 DEF CalmAt, IdleFrame
    <3>3. \A k \in Handlers : CalmFrame(t, k)'
      BY <3>2 DEF CalmFrame
    <3>4. granted[t] > 0 => row'[t] = "successful"
      BY <1>2, <2>5, <3>1 DEF CalmAt, CalmFrame
    <3>5. row'[t] = "successful" => gateway[t] = "successful"
      BY <1>1, <2>5, <3>1 DEF CalmAt, PaidAt, Reported
    <3>. QED
      BY <3>1, <3>2, <3>3, <3>4, <3>5 DEF Update, UpdateWhen, CalmAt
  <2>. QED
    BY <2>3, <2>4, <2>6, <2>7, <2>8, StepAt DEF Update, UpdateWhen
<1>. QED
  BY <1>3, <1>4

LEMMA GrantPreserves ==
  ASSUME IInv, NEW t \in Tokens, NEW h \in Handlers, Grant(t, h)
  PROVE  IInv'
<1>1. TypeOK /\ PaidAt(t) /\ SuccessAt(t) /\ (Calm => CalmAt(t))
  BY DEF IInv, PaidInv, SuccessInv, CalmInv
<1>2. call[t][h] \in Frame /\ call[t][h].pc = "grant"
  BY <1>1, FrameType DEF Grant
<1>3. OnlyFrame(t, h) /\ (call'[t][h] = IdleFrame \/ Moved(t, h, "promo"))
  BY <1>1, FinishEffect, MoveEffect DEF Grant, Finished, Moved
<1>4. /\ call'[t][h].pc \in {"idle", "promo"}
      /\ call'[t][h].says = "successful" => Reported(t)
      /\ call'[t][h].seen = "successful" => call[t][h].seen = "successful"
  BY <1>1, <1>2, <1>3 DEF Moved, IdleFrame, Frame, PaidAt
<1>5. \A k \in Handlers \ {h} : call'[t][k] = call[t][k]
  BY <1>3 DEF OnlyFrame
<1>6. granted' = [granted EXCEPT ![t] = @ + 1] /\ granted'[t] = granted[t] + 1
  BY <1>1 DEF Grant, TypeOK
<1>7. TypeOK'
  BY <1>1, <1>3, <1>6 DEF Grant, TypeOK, OnlyFrame, order, Acked
<1>8. \A u \in Tokens \ {t} : Kept(u)
  BY <1>1, <1>3, <1>6, OthersKept DEF Grant, TypeOK
<1>9. PaidAt(t)'
  BY <1>1, <1>2, <1>4, <1>5 DEF Grant, order, PaidAt, Reported
<1>10. SuccessAt(t)'
  BY <1>1, <1>6 DEF TypeOK, SuccessAt, Served
<1>11. ASSUME Calm' PROVE CalmAt(t)'
  <2>1. CalmAt(t)
    BY <1>1, <1>11 DEF Grant, order, Calm
  <2>2. row[t] = "successful" /\ granted[t] = 0
    BY <1>2, <2>1 DEF CalmAt, CalmFrame
  <2>3. \A k \in Handlers \ {h} : call'[t][k].pc = "idle"
    BY <1>2, <1>5, <2>1 DEF CalmAt
  <2>4. \A k \in Handlers : CalmFrame(t, k)'
    BY <1>4, <2>3 DEF CalmFrame
  <2>. QED
    BY <1>6, <2>1, <2>2, <2>3, <2>4 DEF Grant, CalmAt
<1>. QED
  BY <1>7, <1>8, <1>9, <1>10, <1>11, StepAt DEF Grant

LEMMA GrantFailsPreserves ==
  ASSUME IInv, NEW t \in Tokens, NEW h \in Handlers, GrantFails(t, h)
  PROVE  IInv'
<1>1. TypeOK /\ Finished(t, h)
  BY FinishEffect DEF IInv, GrantFails
<1>2. TypeOK'
  BY <1>1 DEF GrantFails, TypeOK, Finished, OnlyFrame, order
<1>3. \A u \in Tokens \ {t} : Kept(u)
  BY <1>1, OthersKept DEF GrantFails, Finished
<1>. QED
  BY <1>1, <1>2, <1>3, FinishAt, StepAt DEF GrantFails

LEMMA RecordPromoPreserves ==
  ASSUME IInv, NEW t \in Tokens, NEW h \in Handlers, RecordPromo(t, h)
  PROVE  IInv'
<1>1. TypeOK /\ Finished(t, h)
  BY FinishEffect DEF IInv, RecordPromo
<1>2. TypeOK'
  BY <1>1 DEF RecordPromo, TypeOK, Finished, OnlyFrame, order, Acked
<1>3. \A u \in Tokens \ {t} : Kept(u)
  BY <1>1, OthersKept DEF RecordPromo, Finished
<1>. QED
  BY <1>1, <1>2, <1>3, FinishAt, StepAt DEF RecordPromo

LEMMA MarkErrorPreserves ==
  ASSUME IInv, NEW t \in Tokens, NEW h \in Handlers, MarkError(t, h)
  PROVE  IInv'
<1>1. TypeOK /\ PaidAt(t) /\ SuccessAt(t) /\ (Calm => CalmAt(t))
  BY DEF IInv, PaidInv, SuccessInv, CalmInv
<1>2. Finished(t, h)
  BY <1>1, FinishEffect DEF MarkError
<1>3. call'[t][h] = IdleFrame /\ \A k \in Handlers \ {h} : call'[t][k] = call[t][k]
  BY <1>2 DEF Finished, OnlyFrame
<1>4. TypeOK'
  BY <1>1, <1>2 DEF MarkError, TypeOK, Finished, OnlyFrame, order, RowStatus
<1>5. \A u \in Tokens \ {t} : Kept(u)
  BY <1>1, <1>2, OthersKept DEF MarkError, Finished, TypeOK
<1>6. PaidAt(t)'
  <2>1. checkout[t] = "stored" /\ row'[t] = "error"
    BY <1>1 DEF MarkError, TypeOK, PaidAt, Reported
  <2>. QED
    BY <1>1, <1>3, <2>1 DEF MarkError, order, PaidAt, Reported, IdleFrame
<1>7. SuccessAt(t)'
  <2>1. Served(t) => Served(t)'
    BY <1>3 DEF MarkError, Served
  <2>. QED
    BY <1>1, <1>3, <2>1 DEF MarkError, TypeOK, order, SuccessAt, IdleFrame
<1>8. ~Calm'
  BY <1>1 DEF MarkError, order, Calm, CalmAt, CalmFrame
<1>. QED
  BY <1>4, <1>5, <1>6, <1>7, <1>8, StepAt DEF MarkError

LEMMA CrashPreserves ==
  ASSUME IInv, Crash
  PROVE  IInv'
<1>1. \A t \in Tokens : PaidAt(t) /\ SuccessAt(t) /\ (Calm => CalmAt(t))
  BY DEF IInv, PaidInv, SuccessInv, CalmInv
<1>2. \A t \in Tokens, h \in Handlers : call'[t][h] = IdleFrame
  BY DEF Crash
<1>3. TypeOK'
  BY IdleType DEF IInv, Crash, TypeOK, order
<1>4. PaidInv'
  BY <1>1, <1>2 DEF IInv, TypeOK, Crash, order, PaidInv, PaidAt, Reported, IdleFrame
<1>5. \A t \in Tokens : Served(t) => Served(t)'
  BY DEF Crash, Served
<1>6. SuccessInv'
  BY <1>1, <1>2, <1>5 DEF Crash, order, SuccessInv, SuccessAt, IdleFrame
<1>7. CalmInv'
  BY <1>1, <1>2 DEF Crash, order, Calm, CalmInv, CalmAt, CalmFrame, IdleFrame
<1>. QED
  BY <1>3, <1>4, <1>6, <1>7 DEF IInv

LEMMA IInvStep == IInv /\ [Next]_vars => IInv'
<1>. SUFFICES ASSUME IInv, [Next]_vars PROVE IInv'
  OBVIOUS
<1>1. CASE \E t \in Tokens : CheckoutStep(t) \/ GatewayMoves(t)
  BY <1>1, CheckoutPreserves
<1>2. CASE \E t \in Tokens, h \in Handlers : Report(t, h)
  BY <1>2, ReportPreserves
<1>3. CASE \E t \in Tokens, h \in Handlers : HandlerStep(t, h) \/ GrantFails(t, h)
  BY <1>3, QueryPreserves, UpdatePreserves, GrantPreserves, RecordPromoPreserves,
     MarkErrorPreserves, GrantFailsPreserves DEF HandlerStep
<1>4. CASE Crash
  BY <1>4, CrashPreserves
<1>5. CASE UNCHANGED vars
  BY <1>5 DEF vars, IInv, TypeOK, PaidInv, PaidAt, Reported, SuccessInv, SuccessAt, Served,
     CalmInv, Calm, CalmAt, CalmFrame
<1>. QED
  BY <1>1, <1>2, <1>3, <1>4, <1>5 DEF Next

LEMMA Invariance == Spec => []IInv
  BY InitIInv, IInvStep, PTL DEF Spec

-----------------------------------------------------------------------------
(* The type invariant, for any tokens, handlers and scenarios (the states  *)
(* of SecureProcessorPaymentService and payment_tokens).                   *)
THEOREM TypeCorrect == Spec => []TypeOK
<1>1. IInv => TypeOK
  BY DEF IInv
<1>. QED
  BY <1>1, Invariance, PTL

(* Only add-ons are granted that the gateway knows as paid or that a       *)
(* return called successful, in every scenario, for any reports            *)
(* (applyStatusUpdate, handleReturn, applyFulfillment).                    *)
THEOREM OnlyReportedGranted == Spec => []GrantedWasReported
<1>1. IInv => GrantedWasReported
  BY DEF IInv, PaidInv, PaidAt, Reported, GrantedWasReported
<1>. QED
  BY <1>1, Invariance, PTL

(* No order of webhooks and returns stores a success whose fulfilment      *)
(* nobody has started (shouldActivate).                                    *)
THEOREM SuccessServed == Spec => []SuccessIsGranted
<1>1. IInv => SuccessIsGranted
  BY DEF IInv, SuccessInv, SuccessAt, Served, SuccessIsGranted
<1>. QED
  BY <1>1, Invariance, PTL

(* Repeated reports that come one at a time and up to date fulfil a        *)
(* payment once (applyStatusUpdate's comparison with record.status).       *)
THEOREM CalmFulfilsOnce == Spec => []CalmGrantsOnce
<1>1. IInv => CalmGrantsOnce
  BY DEF IInv, TypeOK, CalmInv, CalmAt, CalmGrantsOnce, GrantedOnce
<1>. QED
  BY <1>1, Invariance, PTL

(* ... and none of them takes a success back (updateByToken).              *)
THEOREM CalmSuccessFinal == Spec => SuccessIsFinal
<1>. DEFINE Final ==
       \A t \in Tokens : Calm /\ row[t] = "successful" => row'[t] = "successful"
<1>1. ASSUME IInv, [Next]_vars PROVE Final
  <2>. SUFFICES ASSUME NEW t \in Tokens, Calm, row[t] = "successful"
                PROVE  row'[t] = "successful"
    OBVIOUS
  <2>1. TypeOK /\ CalmAt(t)
    BY <1>1 DEF IInv, CalmInv
  <2>2. checkout[t] = "stored"
    BY <1>1 DEF IInv, PaidInv, PaidAt, Reported
  <2>3. ASSUME NEW h \in Handlers, Update(t, h) PROVE row'[t] = "successful"
    BY <2>1, <2>3 DEF TypeOK, Update, UpdateWhen, CalmAt, CalmFrame
  <2>4. ASSUME NEW h \in Handlers, MarkError(t, h) PROVE FALSE
    BY <2>1, <2>4 DEF MarkError, CalmAt, CalmFrame
  <2>5. ASSUME NEW u \in Tokens, CheckoutStep(u) \/ GatewayMoves(u) PROVE row'[t] = row[t]
    BY <2>1, <2>2, <2>5 DEF TypeOK, CheckoutStep, StartCheckout, AskGateway, StoreToken,
       CheckoutFails, GatewayMoves
  <2>6. ASSUME NEW u \in Tokens, NEW h \in Handlers,
               Report(u, h) \/ HandlerStep(u, h) \/ GrantFails(u, h)
        PROVE  row'[t] = "successful"
    <3>1. CASE u = t
      BY <2>3, <2>4, <2>6, <3>1 DEF Report, Webhook, Return, HandlerStep, Query, Grant,
         RecordPromo, GrantFails
    <3>2. CASE u # t
      BY <2>1, <2>6, <3>2 DEF TypeOK, Report, Webhook, Return, HandlerStep, Query,
         Update, UpdateWhen, Grant, RecordPromo, MarkError, GrantFails
    <3>. QED
      BY <3>1, <3>2
  <2>. QED
    BY <1>1, <2>5, <2>6 DEF Next, Crash, vars
<1>. QED
  BY <1>1, Invariance, PTL DEF Spec, SuccessIsFinal

-----------------------------------------------------------------------------
(* The promo code's counter *)

AtPromo(t) == {h \in Handlers : call[t][h].pc = "promo"}

PromoAt(t) ==
    /\ \A h \in Handlers : call[t][h].pc = "promo" => t \in promo
    /\ faults \cap {"promoFails", "crash"} = {} =>
          uses[t] + Cardinality(AtPromo(t)) = IF t \in promo THEN granted[t] ELSE 0

PromoInv == \A t \in Tokens : PromoAt(t)

LEMMA AtPromoFinite ==
  ASSUME NEW t \in Tokens
  PROVE  IsFiniteSet(AtPromo(t)) /\ Cardinality(AtPromo(t)) \in Nat
  BY PaymentsAssumption, FS_Subset, FS_CardinalityType DEF AtPromo

LEMMA PromoKept ==
  ASSUME NEW t \in Tokens, PromoAt(t), UNCHANGED <<faults, promo>>,
         uses'[t] = uses[t], granted'[t] = granted[t], AtPromo(t)' = AtPromo(t)
  PROVE  PromoAt(t)'
  BY DEF PromoAt, AtPromo

\* A frame that is at promo neither before nor after leaves the set alone.
LEMMA AtPromoKept ==
  ASSUME NEW t \in Tokens, NEW h \in Handlers, OnlyFrame(t, h),
         call[t][h].pc # "promo", call'[t][h].pc # "promo"
  PROVE  AtPromo(t)' = AtPromo(t)
  BY DEF AtPromo, OnlyFrame

LEMMA PromoGrant ==
  ASSUME TypeOK, NEW t \in Tokens, PromoAt(t), NEW h \in Handlers, Grant(t, h)
  PROVE  PromoAt(t)'
<1>1. granted'[t] = granted[t] + 1 /\ granted[t] \in Nat /\ uses[t] \in Nat
  BY DEF Grant, TypeOK
<1>2. CASE t \in promo
  <2>1. Moved(t, h, "promo") /\ call[t][h].pc = "grant"
    BY <1>2, MoveEffect DEF Grant
  <2>2. AtPromo(t)' = AtPromo(t) \cup {h} /\ h \notin AtPromo(t)
    BY <2>1, FrameType DEF Moved, OnlyFrame, AtPromo, Frame
  <2>3. Cardinality(AtPromo(t)') = Cardinality(AtPromo(t)) + 1
    BY <2>2, AtPromoFinite, FS_AddElement
  <2>. QED
    BY <1>1, <1>2, <2>3, AtPromoFinite DEF Grant, order, PromoAt
<1>3. CASE t \notin promo
  <2>1. Finished(t, h) /\ call[t][h].pc = "grant"
    BY <1>3, FinishEffect DEF Grant
  <2>2. AtPromo(t)' = AtPromo(t)
    BY <2>1, AtPromoKept DEF Finished, IdleFrame
  <2>. QED
    BY <1>3, <2>1, <2>2 DEF Grant, order, PromoAt, AtPromo
<1>. QED
  BY <1>2, <1>3

LEMMA PromoRecord ==
  ASSUME TypeOK, NEW t \in Tokens, PromoAt(t), NEW h \in Handlers, RecordPromo(t, h)
  PROVE  PromoAt(t)'
<1>1. Finished(t, h) /\ call[t][h].pc = "promo" /\ t \in promo
  BY FinishEffect DEF RecordPromo, PromoAt
<1>2. AtPromo(t)' = AtPromo(t) \ {h} /\ h \in AtPromo(t)
  BY <1>1 DEF Finished, OnlyFrame, AtPromo, IdleFrame
<1>3. Cardinality(AtPromo(t)') = Cardinality(AtPromo(t)) - 1
  BY <1>2, AtPromoFinite, FS_RemoveElement
<1>4. "promoFails" \notin faults => uses'[t] = uses[t] + 1
  BY DEF RecordPromo, TypeOK
<1>5. uses[t] \in Nat /\ granted[t] \in Nat
  BY DEF TypeOK
<1>. QED
  BY <1>1, <1>3, <1>4, <1>5, AtPromoFinite DEF RecordPromo, order, PromoAt

LEMMA PromoStep ==
  ASSUME TypeOK, PromoInv, [Next]_vars
  PROVE  PromoInv'
<1>. SUFFICES ASSUME NEW t \in Tokens PROVE PromoAt(t)'
  BY DEF PromoInv
<1>1. PromoAt(t)
  BY DEF PromoInv
<1>2. ASSUME NEW u \in Tokens, CheckoutStep(u) \/ GatewayMoves(u) PROVE PromoAt(t)'
  BY <1>1, <1>2, PromoKept DEF CheckoutStep, StartCheckout, AskGateway, StoreToken,
     CheckoutFails, GatewayMoves, order, AtPromo
<1>3. ASSUME NEW u \in Tokens, NEW h \in Handlers, u # t,
             Report(u, h) \/ HandlerStep(u, h) \/ GrantFails(u, h)
      PROVE  PromoAt(t)'
  <2>1. call'[t] = call[t] /\ uses'[t] = uses[t] /\ granted'[t] = granted[t]
    BY <1>3 DEF TypeOK, Report, Webhook, Return, Enter, HandlerStep, Query, Update,
       UpdateWhen, Grant, RecordPromo, MarkError, GrantFails, Finish
  <2>2. UNCHANGED <<faults, promo>>
    BY <1>3 DEF Report, Webhook, Return, HandlerStep, Query, Update, UpdateWhen, Grant,
       RecordPromo, MarkError, GrantFails, order
  <2>. QED
    BY <1>1, <2>1, <2>2, PromoKept DEF AtPromo
<1>4. ASSUME NEW h \in Handlers,
             Report(t, h) \/ Query(t, h) \/ Update(t, h) \/ MarkError(t, h) \/ GrantFails(t, h)
      PROVE  PromoAt(t)'
  <2>1. UNCHANGED <<faults, promo, uses, granted>>
    BY <1>4 DEF Report, Webhook, Return, Query, Update, UpdateWhen, MarkError, GrantFails, order
  <2>2. call[t][h].pc # "promo" /\ \A k \in Handlers \ {h} : call'[t][k] = call[t][k]
    BY <1>4 DEF TypeOK, Report, Webhook, Return, CanStart, Enter, Query, Update,
       UpdateWhen, MarkError, GrantFails, Finish
  <2>3. call'[t][h].pc # "promo"
    <3>1. CASE Report(t, h)
      <4>1. PICK pc \in {"update", "query", "markError"},
                 kind \in {"webhook", "return"}, says \in Reports :
               Enter(t, h, pc, kind, says)
        BY <3>1 DEF Report, Webhook, Return
      <4>. QED
        BY <4>1 DEF TypeOK, Enter
    <3>2. CASE Query(t, h)
      <4>1. CASE Finish(t, h)
        BY <4>1, FinishEffect DEF Finished, IdleFrame
      <4>2. CASE \E pc \in {"update", "markError"} :
                   call' = [call EXCEPT ![t][h] = [@ EXCEPT !.pc = pc, !.says = gateway[t]]]
        <5>1. PICK pc \in {"update", "markError"} :
                   call' = [call EXCEPT ![t][h] = [@ EXCEPT !.pc = pc, !.says = gateway[t]]]
          BY <4>2
        <5>2. call'[t][h] = [call[t][h] EXCEPT !.pc = pc, !.says = gateway[t]]
          BY <5>1 DEF TypeOK
        <5>. QED
          BY <5>2, FrameType DEF Frame
      <4>. QED
        BY <3>2, <4>1, <4>2 DEF Query
    <3>3. CASE Update(t, h) \/ MarkError(t, h) \/ GrantFails(t, h)
      <4>1. Finished(t, h) \/ Moved(t, h, "grant")
        BY <3>3, FinishEffect, MoveEffect DEF Update, UpdateWhen, MarkError, GrantFails
      <4>. QED
        BY <4>1, FrameType DEF Finished, Moved, IdleFrame, Frame
    <3>. QED
      BY <1>4, <3>1, <3>2, <3>3
  <2>4. AtPromo(t)' = AtPromo(t)
    BY <2>2, <2>3 DEF AtPromo
  <2>. QED
    BY <1>1, <2>1, <2>4, PromoKept
<1>5. CASE Crash
  <2>1. \A h \in Handlers : call'[t][h].pc = "idle"
    BY <1>5 DEF Crash, IdleFrame
  <2>. QED
    BY <2>1, <1>5 DEF Crash, order, PromoAt
<1>6. CASE UNCHANGED vars
  BY <1>1, <1>6, PromoKept DEF vars, AtPromo
<1>. QED
  BY <1>1, <1>2, <1>3, <1>4, <1>5, <1>6, PromoGrant, PromoRecord DEF Next, HandlerStep

(* Unless recordUsage fails or the process dies, the promo code is counted *)
(* once per fulfilment, for any tokens and handlers (applyFulfillment).    *)
THEOREM PromoCountedOnce == Spec => []PromoCounted
<1>1. Init => PromoInv
  <2>. SUFFICES ASSUME Init, NEW t \in Tokens PROVE PromoAt(t)
    BY DEF PromoInv
  <2>1. \A h \in Handlers : call[t][h].pc = "idle"
    BY DEF Init, IdleFrame
  <2>2. AtPromo(t) = {}
    BY <2>1 DEF AtPromo
  <2>. QED
    BY <2>1, <2>2, FS_EmptySet DEF Init, PromoAt
<1>2. PromoInv => PromoCounted
  BY DEF PromoInv, PromoAt, PromoCounted, AtPromo
<1>. QED
  BY <1>1, <1>2, PromoStep, TypeCorrect, PTL DEF Spec

-----------------------------------------------------------------------------
(***************************************************************************)
(* Sign-up, the other place where a code gives something away: proofs      *)
(* about SignUp for any number of people, links and requests, any max_uses *)
(* and any scenarios.  SignUpInv is inductive.  It says what a request     *)
(* that has stored a tenant still owes it (RowsInv), that without failing  *)
(* statements every failed request has left its tenant a plan or has found *)
(* its link used up (NobodyForgotten), and that nobody holds a link's      *)
(* promotion whose redemption was not counted (Counted).                   *)
(***************************************************************************)
\* Where a request is that has stored the tenant of its address, unless it failed.
Stored == {"redeem", "plan", "counters", "created"}

\* Where nothing has been redeemed yet.
Early == {"idle", "find", "validate", "save", "redeem"}

\* Such a request is the one that stored it.
Owner ==
    \A r \in Requests : frame[r].pc \in Stored => creator[frame[r].email] = r

\* The request that stored a tenant is one for its address, and has got that far.
Made ==
    \A e \in Emails :
        IF creator[e] = Nobody THEN plan[e] = "none"
        ELSE /\ frame[creator[e]].email = e
             /\ frame[creator[e]].pc \in Stored \cup {"failed"}

\* A request gives the promotion exactly if it has a link and has not fallen
\* back; one that has will not answer with a tenant.
Promises(f) ==
    /\ f.pc \in Early => f.give = "FREE" /\ ~f.failing
    /\ f.pc = "redeem" => f.link # NoLink
    /\ f.pc \in Stored \ {"redeem"} => (f.give = "STARTER" <=> f.link # NoLink /\ ~f.failing)
    /\ f.link = NoLink => f.give = "FREE" /\ ~f.failing
    /\ f.pc = "created" => ~f.failing

Given == \A r \in Requests : Promises(frame[r])

\* The rows are those the request has just written.
Written ==
    \A r \in Requests :
        /\ frame[r].pc \in {"counters", "created"} => plan[frame[r].email] = frame[r].give
        /\ frame[r].pc = "created" => counters[frame[r].email] = frame[r].give

RowsInv == SignUpTypeOK /\ Owner /\ Made /\ Given /\ Written

NoFailures == scenario \cap {"dbFails", "crash"} = {}

HasPlan(e) == plan[e] # "none" /\ counters[e] = plan[e]

\* Google's sign-in has read a fresh link and could not redeem it any more.
TurnedDown(e) ==
    /\ frame[creator[e]].kind = "google"
    /\ LinkOf(e) # NoLink /\ ~Redeemable(LinkOf(e))

NobodyForgotten ==
    NoFailures =>
        \A e \in Emails :
            Exists(e) /\ frame[creator[e]].pc = "failed" => HasPlan(e) \/ TurnedDown(e)

\* The requests that have redeemed a link, and will give or have given for it.
Holders(l) ==
    {r \in Requests :
        /\ frame[r].link = l
        /\ \/ frame[r].give = "STARTER"
           \/ creator[frame[r].email] = r /\ plan[frame[r].email] = "STARTER"}

Counted ==
    \A l \in Links : Cardinality(Holders(l)) <= count[l] /\ count[l] <= MaxUses

SignUpInv == RowsInv /\ NobodyForgotten /\ Counted

-----------------------------------------------------------------------------
\* A request that goes on without touching the rows of a tenant.
Moves(r, g) ==
    /\ g.email = frame[r].email
    /\ g.pc \in {"plan", "failed"} /\ frame[r].pc \in Stored
    /\ Promises(g)

LEMMA GotoEffect ==
    ASSUME SignUpTypeOK, NEW r \in Requests, NEW pc, Goto(r, pc)
    PROVE  /\ frame'[r].pc = pc
           /\ \A q \in Requests \ {r} : frame'[q] = frame[q]
           /\ \A q \in Requests :
                 /\ frame'[q].kind = frame[q].kind /\ frame'[q].email = frame[q].email
                 /\ frame'[q].link = frame[q].link /\ frame'[q].give = frame[q].give
<1>1. frame \in [Requests -> RequestFrame]
  BY DEF SignUpTypeOK
<1>2. frame[r] \in RequestFrame
  BY <1>1
<1>3. frame'[r] = [frame[r] EXCEPT !.pc = pc]
  BY <1>1 DEF Goto
<1>4. \A q \in Requests \ {r} : frame'[q] = frame[q]
  BY <1>1 DEF Goto
<1> QED
  BY <1>2, <1>3, <1>4 DEF RequestFrame

LEMMA RequestRows ==
    ASSUME NEW r \in Requests, RowsInv, Arrival(r)
    PROVE  RowsInv'
<1>1. PICK k \in {"signup", "google"}, e \in Emails, l \in Links \cup {NoLink} :
          Request(r, k, e, l)
  BY DEF Arrival
<1> DEFINE g == [frame[r] EXCEPT !.pc = IF k = "google" THEN "find" ELSE "validate",
                                 !.kind = k, !.email = e, !.link = l]
<1>2. frame \in [Requests -> RequestFrame] /\ frame[r] \in RequestFrame
  BY DEF RowsInv, SignUpTypeOK
<1>3. frame' = [frame EXCEPT ![r] = g] /\ frame[r].pc = "idle"
  <2>1. frame' = [frame EXCEPT ![r] = g]
    BY <1>1 DEF Request
  <2>2. frame[r].pc = "idle"
    BY <1>1 DEF Request, Unmade
  <2> QED
    BY <2>1, <2>2
<1>t. g \in RequestFrame
  BY <1>2 DEF RequestFrame
<1>p. g.pc \in {"find", "validate"} /\ g.give = frame[r].give /\ g.failing = frame[r].failing
  BY <1>2 DEF RequestFrame
<1> HIDE DEF g
<1>g. Promises(g)
  BY <1>3, <1>p DEF RowsInv, Given, Promises, Stored, Early
<1>4. UNCHANGED <<scenario, count, dated, expired, creator, plan, counters, died>>
  BY <1>1 DEF Request, link, tenant
<1>5. \A q \in Requests : frame'[q] = IF q = r THEN g ELSE frame[q]
  BY <1>2, <1>3
<1>6. SignUpTypeOK'
  BY <1>3, <1>t, <1>4 DEF RowsInv, SignUpTypeOK
<1>7. Owner'
  BY <1>p, <1>4, <1>5 DEF RowsInv, Owner, Stored
<1>8. Made'
  BY <1>3, <1>4, <1>5 DEF RowsInv, SignUpTypeOK, Made, Stored
<1>9. Given'
  BY <1>g, <1>5 DEF RowsInv, Given
<1>10. Written'
  BY <1>p, <1>4, <1>5 DEF RowsInv, Written
<1> QED
  BY <1>6, <1>7, <1>8, <1>9, <1>10 DEF RowsInv

LEMMA FindByEmailRows ==
    ASSUME NEW r \in Requests, RowsInv, FindByEmail(r)
    PROVE  RowsInv'
<1> USE SignUpAssumption DEF RowsInv, SignUpTypeOK, RequestFrame, Ends
<1>1. SignUpTypeOK'
  BY DEF FindByEmail, Goto, link, tenant, PlanNames
<1>2. Owner'
  BY DEF FindByEmail, Goto, link, tenant, Owner, Made, Stored
<1>3. Made'
  BY DEF FindByEmail, Goto, link, tenant, Owner, Made, Stored
<1>4. Given'
  BY DEF FindByEmail, Goto, link, tenant, Given, Promises, Stored, Early
<1>5. Written'
  BY DEF FindByEmail, Goto, link, tenant, Written, Owner, Made, Stored
<1> QED BY <1>1, <1>2, <1>3, <1>4, <1>5

LEMMA ValidateMagicTokenRows ==
    ASSUME NEW r \in Requests, RowsInv, ValidateMagicToken(r)
    PROVE  RowsInv'
<1> USE SignUpAssumption DEF RowsInv, SignUpTypeOK, RequestFrame, Ends
<1>1. SignUpTypeOK'
  BY DEF ValidateMagicToken, Goto, link, tenant, PlanNames
<1>2. Owner'
  BY DEF ValidateMagicToken, Goto, link, tenant, Owner, Made, Stored
<1>3. Made'
  BY DEF ValidateMagicToken, Goto, link, tenant, Owner, Made, Stored
<1>4. Given'
  BY DEF ValidateMagicToken, Goto, link, tenant, Given, Promises, Stored, Early
<1>5. Written'
  BY DEF ValidateMagicToken, Goto, link, tenant, Written, Owner, Made, Stored
<1> QED BY <1>1, <1>2, <1>3, <1>4, <1>5

LEMMA SaveRows ==
    ASSUME NEW r \in Requests, RowsInv, Save(r)
    PROVE  RowsInv'
<1> USE SignUpAssumption DEF RowsInv, SignUpTypeOK, RequestFrame, Ends
<1>1. SignUpTypeOK'
  BY DEF Save, Goto, link, tenant, PlanNames
<1>2. Owner'
  BY DEF Save, Goto, link, tenant, Owner, Made, Stored
<1>3. Made'
  BY DEF Save, Goto, link, tenant, Owner, Made, Stored
<1>4. Given'
  BY DEF Save, Goto, link, tenant, Given, Promises, Stored, Early
<1>5. Written'
  BY DEF Save, Goto, link, tenant, Written, Owner, Made, Stored
<1> QED BY <1>1, <1>2, <1>3, <1>4, <1>5

LEMMA MovesRows ==
    ASSUME NEW r \in Requests, NEW g \in RequestFrame, RowsInv, Moves(r, g),
           frame' = [frame EXCEPT ![r] = g],
           UNCHANGED <<scenario, expired, tenant, died>>,
           count' \in [Links -> Nat], dated' \subseteq Links
    PROVE  RowsInv'
<1> USE SignUpAssumption DEF RowsInv, SignUpTypeOK, Moves
<1>1. \A q \in Requests : frame'[q] = IF q = r THEN g ELSE frame[q]
  OBVIOUS
<1>2. SignUpTypeOK'
  BY DEF tenant
<1>3. Owner'
  BY <1>1 DEF Owner, Stored, tenant
<1>4. Made'
  BY <1>1 DEF Made, Stored, tenant
<1>5. Given'
  BY <1>1 DEF Given
<1>6. Written'
  BY <1>1 DEF Written, tenant
<1> QED
  BY <1>2, <1>3, <1>4, <1>5, <1>6

LEMMA FallbackMoves ==
    ASSUME NEW r \in Requests, RowsInv, Fallback(r),
           frame[r].pc \in {"redeem", "plan", "counters"},
           frame[r].link # NoLink
    PROVE  \E g \in RequestFrame : Moves(r, g) /\ frame' = [frame EXCEPT ![r] = g]
<1> USE DEF RowsInv, SignUpTypeOK
<1>1. CASE frame[r].kind = "signup"
  <2> DEFINE g == [frame[r] EXCEPT !.pc = "plan", !.give = "FREE", !.failing = TRUE]
  <2>1. g \in RequestFrame
    BY DEF RequestFrame
  <2>2. Moves(r, g)
    BY DEF Moves, RequestFrame, Promises, Stored, Early
  <2>3. frame' = [frame EXCEPT ![r] = g]
    BY <1>1 DEF Fallback
  <2> QED
    BY <2>1, <2>2, <2>3
<1>2. CASE frame[r].kind # "signup"
  <2> DEFINE g == [frame[r] EXCEPT !.pc = "failed"]
  <2>1. g \in RequestFrame
    BY DEF RequestFrame, Ends
  <2>2. Moves(r, g)
    BY DEF Moves, RequestFrame, Promises, Stored, Early, Given
  <2>3. frame' = [frame EXCEPT ![r] = g]
    BY <1>2 DEF Fallback, Goto
  <2> QED
    BY <2>1, <2>2, <2>3
<1> QED
  BY <1>1, <1>2

LEMMA PlanFailsMoves ==
    ASSUME NEW r \in Requests, RowsInv, PlanFails(r), frame[r].pc \in {"plan", "counters"}
    PROVE  \E g \in RequestFrame : Moves(r, g) /\ frame' = [frame EXCEPT ![r] = g]
<1>1. CASE frame[r].give = "STARTER"
  BY <1>1, FallbackMoves DEF PlanFails, RowsInv, Given, Promises
<1>2. CASE frame[r].give # "STARTER"
  <2> DEFINE g == [frame[r] EXCEPT !.pc = "failed"]
  <2> USE DEF RowsInv, SignUpTypeOK
  <2>1. g \in RequestFrame
    BY DEF RequestFrame, Ends
  <2>2. Moves(r, g)
    BY DEF Moves, RequestFrame, Promises, Stored, Early, Given
  <2>3. frame' = [frame EXCEPT ![r] = g]
    BY <1>2 DEF PlanFails, Goto
  <2> QED
    BY <2>1, <2>2, <2>3
<1> QED
  BY <1>1, <1>2

LEMMA RedeemMoves ==
    ASSUME NEW r \in Requests, RowsInv, frame[r].pc = "redeem",
           frame' = [frame EXCEPT ![r] = [@ EXCEPT !.pc = "plan", !.give = "STARTER"]]
    PROVE  \E g \in RequestFrame : Moves(r, g) /\ frame' = [frame EXCEPT ![r] = g]
<1> DEFINE g == [frame[r] EXCEPT !.pc = "plan", !.give = "STARTER"]
<1> USE DEF RowsInv, SignUpTypeOK
<1>1. g \in RequestFrame
  BY DEF RequestFrame
<1>2. Moves(r, g)
  BY DEF Moves, RequestFrame, Promises, Stored, Early, Given
<1>3. frame' = [frame EXCEPT ![r] = g]
  OBVIOUS
<1> QED
  BY <1>1, <1>2, <1>3

LEMMA RedeemMagicLinkRows ==
    ASSUME NEW r \in Requests, RowsInv, RedeemMagicLink(r)
    PROVE  RowsInv'
<1>1. frame[r].pc = "redeem" /\ frame[r].link # NoLink /\ frame[r].link \in Links
  BY DEF RedeemMagicLink, RowsInv, SignUpTypeOK, RequestFrame, Given, Promises
<1>2. UNCHANGED <<scenario, expired, tenant, died>>
  BY DEF RedeemMagicLink
<1>3. count' \in [Links -> Nat] /\ dated' \subseteq Links
  BY <1>1 DEF RedeemMagicLink, RowsInv, SignUpTypeOK, link
<1>4. \E g \in RequestFrame : Moves(r, g) /\ frame' = [frame EXCEPT ![r] = g]
  BY <1>1, RedeemMoves, FallbackMoves DEF RedeemMagicLink
<1> QED
  BY <1>2, <1>3, <1>4, MovesRows

LEMMA EnsurePlanRows ==
    ASSUME NEW r \in Requests, RowsInv, EnsurePlan(r)
    PROVE  RowsInv'
<1>1. frame[r].pc = "plan" /\ UNCHANGED <<scenario, count, dated, expired, creator, counters, died>>
  BY DEF EnsurePlan, link
<1>2. CASE plan' = [plan EXCEPT ![frame[r].email] = frame[r].give] /\ Goto(r, "counters")
  <2> DEFINE g == [frame[r] EXCEPT !.pc = "counters"]
  <2> USE DEF RowsInv, SignUpTypeOK
  <2>1. g \in RequestFrame /\ frame' = [frame EXCEPT ![r] = g]
    BY <1>2 DEF RequestFrame, Goto
  <2>2. g.pc = "counters" /\ g.email = frame[r].email /\ g.give = frame[r].give /\ Promises(g)
    BY <1>1 DEF RequestFrame, Given, Promises, Stored, Early
  <2> HIDE DEF g
  <2>3. \A q \in Requests : frame'[q] = IF q = r THEN g ELSE frame[q]
    BY <2>1
  <2>4. creator[g.email] = r /\ g.email \in Emails /\ g.give \in PlanNames
    BY <1>1, <2>2 DEF Owner, Stored, RequestFrame, PlanNames
  <2>5. SignUpTypeOK'
    BY <1>1, <1>2, <2>1, <2>2, <2>4
  <2>6. Owner'
    BY <1>1, <2>2, <2>3, <2>4 DEF Owner, Stored
  <2>7. Made'
    BY <1>1, <1>2, <2>2, <2>3, <2>4, SignUpAssumption DEF Made, Stored
  <2>8. Given'
    BY <2>2, <2>3 DEF Given
  <2>9. Written'
    BY <1>1, <1>2, <2>2, <2>3, <2>4 DEF Written, Owner, Stored, RequestFrame
  <2> QED
    BY <2>5, <2>6, <2>7, <2>8, <2>9
<1>3. CASE PlanFails(r) /\ UNCHANGED plan
  <2>1. \E g \in RequestFrame : Moves(r, g) /\ frame' = [frame EXCEPT ![r] = g]
    BY <1>1, <1>3, PlanFailsMoves
  <2>2. UNCHANGED <<scenario, expired, tenant, died>> /\ count' \in [Links -> Nat] /\ dated' \subseteq Links
    BY <1>1, <1>3 DEF tenant, RowsInv, SignUpTypeOK
  <2> QED
    BY <2>1, <2>2, MovesRows
<1> QED
  BY <1>2, <1>3 DEF EnsurePlan

LEMMA ResetCountersRows ==
    ASSUME NEW r \in Requests, RowsInv, ResetCounters(r)
    PROVE  RowsInv'
<1>1. frame[r].pc = "counters" /\ UNCHANGED <<scenario, count, dated, expired, creator, plan, died>>
  BY DEF ResetCounters, link
<1>2. CASE /\ counters' = [counters EXCEPT ![frame[r].email] = frame[r].give]
           /\ Goto(r, IF frame[r].failing THEN "failed" ELSE "created")
  <2> DEFINE g == [frame[r] EXCEPT !.pc = IF frame[r].failing THEN "failed" ELSE "created"]
  <2> USE DEF RowsInv, SignUpTypeOK
  <2>1. g \in RequestFrame /\ frame' = [frame EXCEPT ![r] = g]
    BY <1>2 DEF RequestFrame, Goto, Ends
  <2>2. /\ g.pc \in {"failed", "created"} /\ g.email = frame[r].email /\ g.give = frame[r].give
        /\ Promises(g)
    BY <1>1 DEF RequestFrame, Given, Promises, Stored, Early
  <2> HIDE DEF g
  <2>3. \A q \in Requests : frame'[q] = IF q = r THEN g ELSE frame[q]
    BY <2>1
  <2>4. creator[g.email] = r /\ g.email \in Emails /\ g.give \in PlanNames /\ plan[g.email] = g.give
    BY <1>1, <2>2 DEF Owner, Stored, RequestFrame, PlanNames, Written
  <2>5. SignUpTypeOK'
    BY <1>1, <1>2, <2>1, <2>2, <2>4
  <2>6. Owner'
    BY <1>1, <2>2, <2>3, <2>4 DEF Owner, Stored
  <2>7. Made'
    BY <1>1, <2>2, <2>3, <2>4, SignUpAssumption DEF Made, Stored
  <2>8. Given'
    BY <2>2, <2>3 DEF Given
  <2>9. Written'
    BY <1>1, <1>2, <2>2, <2>3, <2>4 DEF Written, Owner, Stored, RequestFrame
  <2> QED
    BY <2>5, <2>6, <2>7, <2>8, <2>9
<1>3. CASE PlanFails(r) /\ UNCHANGED counters
  <2>1. \E g \in RequestFrame : Moves(r, g) /\ frame' = [frame EXCEPT ![r] = g]
    BY <1>1, <1>3, PlanFailsMoves
  <2>2. UNCHANGED <<scenario, expired, tenant, died>> /\ count' \in [Links -> Nat] /\ dated' \subseteq Links
    BY <1>1, <1>3 DEF tenant, RowsInv, SignUpTypeOK
  <2> QED
    BY <2>1, <2>2, MovesRows
<1> QED
  BY <1>2, <1>3 DEF ResetCounters

LEMMA ExpireRows ==
    ASSUME NEW l \in Links, RowsInv, Expire(l)
    PROVE  RowsInv'
<1> USE DEF RowsInv
<1>1. UNCHANGED <<scenario, count, dated, creator, plan, counters, frame, died>>
  BY DEF Expire, link, tenant
<1>2. SignUpTypeOK'
  BY <1>1 DEF SignUpTypeOK, Expire
<1>3. Owner'
  BY <1>1 DEF Owner
<1>4. Made'
  BY <1>1 DEF Made
<1>5. Given'
  BY <1>1 DEF Given
<1>6. Written'
  BY <1>1 DEF Written
<1> QED
  BY <1>2, <1>3, <1>4, <1>5, <1>6

\* g is f, ended by a failure.
Failed(f, g) ==
    /\ g.pc = "failed"
    /\ g.kind = f.kind /\ g.email = f.email /\ g.link = f.link
    /\ g.give = f.give /\ g.failing = f.failing

LEMMA CrashRows ==
    ASSUME RowsInv, ProcessDies
    PROVE  RowsInv'
<1> USE SignUpAssumption DEF RowsInv, SignUpTypeOK
<1>1. \A r \in Requests :
        \/ frame'[r] = frame[r]
        \/ Failed(frame[r], frame'[r]) /\ frame[r].pc # "created"
  <2> TAKE r \in Requests
  <2>1. CASE r \in Unanswered
    BY <2>1 DEF ProcessDies, Unanswered, Ends, RequestFrame, Failed
  <2>2. CASE r \notin Unanswered
    BY <2>2 DEF ProcessDies
  <2> QED
    BY <2>1, <2>2
<1>2. UNCHANGED <<scenario, count, dated, expired, creator, plan, counters>>
  BY DEF ProcessDies, link, tenant
<1>3. \A r \in Requests : [frame[r] EXCEPT !.pc = "failed"] \in RequestFrame
  BY DEF RequestFrame, Ends
<1>4. frame' \in [Requests -> RequestFrame]
  BY <1>3 DEF ProcessDies
<1> HIDE DEF RowsInv
<1> USE DEF Failed
<1>5. SignUpTypeOK'
  BY <1>2, <1>4 DEF RowsInv, SignUpTypeOK, ProcessDies
<1>6. Owner'
  BY <1>1, <1>2 DEF RowsInv, Owner, Stored
<1>7. Made'
  BY <1>1, <1>2 DEF RowsInv, SignUpTypeOK, Made, Stored
<1>8. Given'
  BY <1>1, <1>2 DEF RowsInv, Given, Promises, Stored, Early
<1>9. Written'
  BY <1>1, <1>2 DEF RowsInv, Written
<1> QED
  BY <1>5, <1>6, <1>7, <1>8, <1>9 DEF RowsInv

LEMMA InitRows == SignUpInit => RowsInv
<1> SUFFICES ASSUME SignUpInit PROVE RowsInv
  OBVIOUS
<1>1. Blank \in RequestFrame
  BY SignUpAssumption DEF Blank, RequestFrame
<1>2. Blank.pc = "idle" /\ Promises(Blank)
  BY DEF Blank, Promises, Stored, Early
<1>3. \A r \in Requests : frame[r] = Blank
  BY DEF SignUpInit
<1>4. SignUpTypeOK
  BY <1>1 DEF SignUpInit, SignUpTypeOK, PlanNames
<1>5. Owner /\ Given /\ Written
  BY <1>2, <1>3 DEF Owner, Given, Written, Stored
<1>6. Made
  BY DEF SignUpInit, Made
<1> QED
  BY <1>4, <1>5, <1>6 DEF RowsInv

LEMMA NextRows == RowsInv /\ [SignUpNext]_signUpVars => RowsInv'
<1> SUFFICES ASSUME RowsInv, [SignUpNext]_signUpVars
    PROVE  RowsInv'
  OBVIOUS
<1>1. ASSUME NEW r \in Requests, Arrival(r)
    PROVE  RowsInv'
  BY <1>1, RequestRows
<1>2. ASSUME NEW r \in Requests, RequestStep(r)
    PROVE  RowsInv'
  BY <1>2, FindByEmailRows, ValidateMagicTokenRows, SaveRows, RedeemMagicLinkRows,
     EnsurePlanRows, ResetCountersRows DEF RequestStep
<1>3. ASSUME NEW l \in Links, Expire(l)
    PROVE  RowsInv'
  BY <1>3, ExpireRows
<1>4. CASE ProcessDies
  BY <1>4, CrashRows
<1>5. CASE UNCHANGED signUpVars
  BY <1>5 DEF signUpVars, RowsInv, SignUpTypeOK, Owner, Made, Given, Written
<1> QED
  BY <1>1, <1>2, <1>3, <1>4, <1>5 DEF SignUpNext

-----------------------------------------------------------------------------
\* A step that leaves alone the tenants whose request has failed.
LEMMA SameTenants ==
    ASSUME RowsInv, NobodyForgotten, scenario' = scenario,
           \A e \in Emails :
               creator'[e] # Nobody /\ frame'[creator'[e]].pc = "failed" =>
                   /\ creator'[e] = creator[e] /\ plan'[e] = plan[e] /\ counters'[e] = counters[e]
                   /\ frame[creator[e]].pc = "failed"
                   /\ frame'[creator[e]].kind = frame[creator[e]].kind
                   /\ frame'[creator[e]].link = frame[creator[e]].link,
           \A l \in Links : Redeemable(l)' => Redeemable(l)
    PROVE  NobodyForgotten'
<1> SUFFICES ASSUME NoFailures', NEW e \in Emails, Exists(e)', frame'[creator'[e]].pc = "failed"
             PROVE  HasPlan(e)' \/ TurnedDown(e)'
  BY DEF NobodyForgotten
<1>1. NoFailures /\ Exists(e) /\ creator'[e] = creator[e]
  BY DEF NoFailures, Exists
<1>2. frame[creator[e]].pc = "failed"
  BY <1>1 DEF Exists
<1>3. CASE HasPlan(e)
  BY <1>1, <1>3 DEF HasPlan, Exists
<1>4. CASE TurnedDown(e)
  <2>1. frame[creator[e]].link \in Links \cup {NoLink}
    BY <1>1 DEF RowsInv, SignUpTypeOK, Exists, RequestFrame
  <2> QED
    BY <1>1, <1>4, <2>1 DEF TurnedDown, LinkOf, Exists
<1> QED
  BY <1>1, <1>2, <1>3, <1>4 DEF NobodyForgotten

LEMMA ArrivalServes ==
    ASSUME NEW r \in Requests, RowsInv, NobodyForgotten, Arrival(r)
    PROVE  NobodyForgotten'
<1>1. PICK k \in {"signup", "google"}, e \in Emails, l \in Links \cup {NoLink} :
          Request(r, k, e, l)
  BY DEF Arrival
<1>2. UNCHANGED <<scenario, count, dated, expired, creator, plan, counters, died>>
  BY <1>1 DEF Request, link, tenant
<1>3. frame[r].pc = "idle" 
  BY <1>1 DEF Request, Unmade
<1>4. \A q \in Requests \ {r} : frame'[q] = frame[q]
  BY <1>1 DEF Request, RowsInv, SignUpTypeOK
<1>5. \A e2 \in Emails : creator[e2] # Nobody => creator[e2] \in Requests \ {r}
  BY <1>3 DEF RowsInv, SignUpTypeOK, Made, Stored
<1> QED
  BY <1>2, <1>4, <1>5, SameTenants DEF Redeemable

LEMMA FindServes ==
    ASSUME NEW r \in Requests, RowsInv, NobodyForgotten,
           FindByEmail(r) \/ ValidateMagicToken(r)
    PROVE  NobodyForgotten'
<1>1. UNCHANGED <<scenario, count, dated, expired, creator, plan, counters, died>>
  BY DEF FindByEmail, ValidateMagicToken, link, tenant
<1>2. frame[r].pc \in {"find", "validate"}
  BY DEF FindByEmail, ValidateMagicToken
<1>3. \A q \in Requests \ {r} : frame'[q] = frame[q]
  BY DEF FindByEmail, ValidateMagicToken, Goto, RowsInv, SignUpTypeOK
<1>4. \A e \in Emails : creator[e] # Nobody => creator[e] \in Requests \ {r}
  BY <1>2 DEF RowsInv, SignUpTypeOK, Made, Stored
<1> QED
  BY <1>1, <1>3, <1>4, SameTenants DEF Redeemable

LEMMA SaveServes ==
    ASSUME NEW r \in Requests, RowsInv, NobodyForgotten, Save(r)
    PROVE  NobodyForgotten'
<1>1. UNCHANGED <<scenario, count, dated, expired, plan, counters, died>>
  BY DEF Save, link
<1>2. frame[r].pc = "save"
  BY DEF Save
<1>3. \A q \in Requests \ {r} : frame'[q] = frame[q]
  BY DEF Save, Goto, RowsInv, SignUpTypeOK
<1>4. \A e \in Emails : creator[e] # Nobody => creator[e] \in Requests \ {r}
  BY <1>2 DEF RowsInv, SignUpTypeOK, Made, Stored
<1>5. \/ UNCHANGED creator
      \/ /\ frame'[r].pc # "failed"
         /\ \A e \in Emails : creator'[e] \in {creator[e], r}
  <2>1. CASE creator[frame[r].email] = Nobody
    <3>1. Goto(r, IF frame[r].link = NoLink THEN "plan" ELSE "redeem")
      BY <2>1 DEF Save
    <3>2. frame'[r].pc # "failed"
      BY <3>1 DEF Goto, RowsInv, SignUpTypeOK, RequestFrame
    <3>3. creator' = [creator EXCEPT ![frame[r].email] = r]
      BY <2>1 DEF Save
    <3> QED
      BY <3>2, <3>3 DEF RowsInv, SignUpTypeOK
  <2>2. CASE creator[frame[r].email] # Nobody
    BY <2>2 DEF Save
  <2> QED
    BY <2>1, <2>2
<1> QED
  BY <1>1, <1>3, <1>4, <1>5, SameTenants DEF Redeemable

LEMMA RedeemServes ==
    ASSUME NEW r \in Requests, RowsInv, NobodyForgotten, RedeemMagicLink(r)
    PROVE  NobodyForgotten'
<1>1. UNCHANGED <<scenario, expired, creator, plan, counters, died>>
  BY DEF RedeemMagicLink, tenant
<1>2. frame[r].pc = "redeem" /\ frame[r].link \in Links /\ frame[r].link # NoLink
  BY SignUpAssumption DEF RedeemMagicLink, RowsInv, SignUpTypeOK, RequestFrame, Given, Promises
<1>3. \A q \in Requests \ {r} : frame'[q] = frame[q]
  BY DEF RedeemMagicLink, Fallback, Goto, RowsInv, SignUpTypeOK
<1>4. \A l \in Links : Redeemable(l)' => Redeemable(l)
  <2> SUFFICES ASSUME NEW l \in Links PROVE Redeemable(l)' => Redeemable(l)
    OBVIOUS
  <2>1. CASE UNCHANGED link
    BY <1>1, <2>1 DEF Redeemable, link
  <2>2. CASE count' = [count EXCEPT ![frame[r].link] = @ + 1]
    BY <1>1, <1>2, <2>2, SignUpAssumption DEF Redeemable, RowsInv, SignUpTypeOK
  <2> QED
    BY <2>1, <2>2 DEF RedeemMagicLink
<1>5. \A e \in Emails : creator[e] = r => frame[r].email = e
  BY SignUpAssumption DEF RowsInv, Made
<1>6. CASE frame'[r].pc # "failed"
  BY <1>1, <1>3, <1>4, <1>6, SameTenants DEF RowsInv, SignUpTypeOK
<1>7. CASE frame'[r].pc = "failed"
  <2>1. Fallback(r) /\ UNCHANGED link /\ (NoFailures => ~Redeemable(frame[r].link))
    <3>1. frame \in [Requests -> RequestFrame]
      BY DEF RowsInv, SignUpTypeOK
    <3>2. frame[r] \in RequestFrame
      BY <3>1
    <3>3. [frame[r] EXCEPT !.pc = "plan", !.give = "STARTER"].pc = "plan"
      BY <3>2 DEF RequestFrame
    <3>4. ~(frame' = [frame EXCEPT ![r] = [@ EXCEPT !.pc = "plan", !.give = "STARTER"]])
      BY <1>7, <3>1, <3>3
    <3> QED
      BY <3>4 DEF RedeemMagicLink, NoFailures
  <2>2. frame[r].kind = "google" /\ Goto(r, "failed")
    <3>1. frame \in [Requests -> RequestFrame] /\ frame[r].kind \in {"signup", "google"}
      BY DEF RowsInv, SignUpTypeOK, RequestFrame
    <3>2. frame[r].kind # "signup"
      BY <1>7, <2>1, <3>1 DEF Fallback, RequestFrame
    <3> QED
      BY <2>1, <3>1, <3>2 DEF Fallback
  <2>3. frame'[r].kind = "google" /\ frame'[r].link = frame[r].link
    BY <2>2, GotoEffect DEF RowsInv
  <2> SUFFICES ASSUME NoFailures', NEW e \in Emails, Exists(e)', frame'[creator'[e]].pc = "failed"
               PROVE  HasPlan(e)' \/ TurnedDown(e)'
    BY DEF NobodyForgotten
  <2>4. NoFailures /\ Exists(e) /\ creator'[e] = creator[e] /\ creator[e] \in Requests
    BY <1>1 DEF NoFailures, Exists, RowsInv, SignUpTypeOK
  <2>5. CASE creator[e] = r
    BY <1>1, <1>2, <2>1, <2>3, <2>4, <2>5 DEF TurnedDown, LinkOf, Redeemable, link
  <2>6. CASE creator[e] # r
    <3>1. frame'[creator[e]] = frame[creator[e]]
      BY <1>3, <2>4, <2>6
    <3>2. HasPlan(e) \/ TurnedDown(e)
      BY <2>4, <3>1 DEF NobodyForgotten
    <3> QED
      BY <1>1, <2>1, <2>4, <3>1, <3>2 DEF HasPlan, TurnedDown, LinkOf, Redeemable, link
  <2> QED
    BY <2>5, <2>6
<1> QED
  BY <1>6, <1>7

LEMMA PlanServes ==
    ASSUME NEW r \in Requests, RowsInv, NobodyForgotten, EnsurePlan(r)
    PROVE  NobodyForgotten'
<1> SUFFICES ASSUME NoFailures
    PROVE  NobodyForgotten'
  BY DEF NobodyForgotten, NoFailures, EnsurePlan
<1>1. UNCHANGED <<scenario, count, dated, expired, creator, counters, died>>
  BY DEF EnsurePlan, link
<1>2. frame[r].pc = "plan" /\ Goto(r, "counters") /\ plan' = [plan EXCEPT ![frame[r].email] = frame[r].give]
  BY DEF EnsurePlan, NoFailures
<1>3. \A q \in Requests \ {r} : frame'[q] = frame[q]
  BY <1>2 DEF Goto, RowsInv, SignUpTypeOK
<1>4. frame'[r].pc = "counters"
  BY <1>2 DEF Goto, RowsInv, SignUpTypeOK, RequestFrame
<1>5. \A e \in Emails : creator[e] # r => plan'[e] = plan[e]
  BY <1>2 DEF RowsInv, SignUpTypeOK, Owner, Stored
<1> QED
  BY <1>1, <1>3, <1>4, <1>5, SameTenants DEF Redeemable, RowsInv, SignUpTypeOK

LEMMA CountersServe ==
    ASSUME NEW r \in Requests, RowsInv, NobodyForgotten, ResetCounters(r)
    PROVE  NobodyForgotten'
<1> SUFFICES ASSUME NoFailures
    PROVE  NobodyForgotten'
  BY DEF NobodyForgotten, NoFailures, ResetCounters
<1>1. UNCHANGED <<scenario, count, dated, expired, creator, plan, died>>
  BY DEF ResetCounters, link
<1>2. /\ frame[r].pc = "counters"
      /\ Goto(r, IF frame[r].failing THEN "failed" ELSE "created")
      /\ counters' = [counters EXCEPT ![frame[r].email] = frame[r].give]
  BY DEF ResetCounters, NoFailures
<1>3. \A q \in Requests \ {r} : frame'[q] = frame[q]
  BY <1>2 DEF Goto, RowsInv, SignUpTypeOK
<1>4. frame[r].give # "none" /\ plan[frame[r].email] = frame[r].give /\ frame[r].email \in Emails
  BY <1>2 DEF RowsInv, SignUpTypeOK, RequestFrame, Written
<1>5. \A e \in Emails : creator[e] = r <=> e = frame[r].email
  BY <1>2, SignUpAssumption DEF RowsInv, Made, Owner, Stored
<1>6. counters'[frame[r].email] = frame[r].give
  BY <1>2, <1>4 DEF RowsInv, SignUpTypeOK
<1>7. \A e \in Emails : creator[e] # r => counters'[e] = counters[e]
  BY <1>2, <1>5 DEF RowsInv, SignUpTypeOK
<1> SUFFICES ASSUME NoFailures', NEW e \in Emails, Exists(e)', frame'[creator'[e]].pc = "failed"
             PROVE  HasPlan(e)' \/ TurnedDown(e)'
  BY DEF NobodyForgotten
<1>8. Exists(e) /\ creator'[e] = creator[e] /\ creator[e] \in Requests
  BY <1>1 DEF Exists, RowsInv, SignUpTypeOK
<1>9. CASE creator[e] = r
  BY <1>1, <1>4, <1>5, <1>6, <1>9 DEF HasPlan
<1>10. CASE creator[e] # r
  <2>1. frame'[creator[e]] = frame[creator[e]]
    BY <1>3, <1>8, <1>10
  <2>2. HasPlan(e) \/ TurnedDown(e)
    BY <1>8, <2>1 DEF NobodyForgotten
  <2> QED
    BY <1>1, <1>7, <1>8, <1>10, <2>1, <2>2 DEF HasPlan, TurnedDown, LinkOf, Redeemable
<1> QED
  BY <1>9, <1>10

LEMMA OthersServe ==
    ASSUME RowsInv, NobodyForgotten,
           ProcessDies \/ UNCHANGED signUpVars \/ \E l \in Links : Expire(l)
    PROVE  NobodyForgotten'
<1>1. CASE ProcessDies
  BY <1>1 DEF ProcessDies, NobodyForgotten, NoFailures
<1>2. CASE UNCHANGED signUpVars \/ \E l \in Links : Expire(l)
  <2>1. UNCHANGED <<scenario, count, dated, creator, plan, counters, frame, died>> /\ expired \subseteq expired'
    BY <1>2 DEF Expire, link, tenant, signUpVars
  <2> QED
    BY <2>1, SameTenants DEF Redeemable
<1> QED
  BY <1>1, <1>2

LEMMA NextServes ==
    RowsInv /\ NobodyForgotten /\ [SignUpNext]_signUpVars => NobodyForgotten'
BY ArrivalServes, FindServes, SaveServes, RedeemServes, PlanServes, CountersServe, OthersServe
   DEF SignUpNext, RequestStep

-----------------------------------------------------------------------------
LEMMA HoldersFinite ==
    ASSUME NEW l \in Links
    PROVE  /\ IsFiniteSet(Holders(l)) /\ Cardinality(Holders(l)) \in Nat
           /\ (SignUpTypeOK /\ Counted => count[l] \in Nat /\ MaxUses \in Nat)
<1>1. Holders(l) \subseteq Requests
  BY DEF Holders
<1>2. IsFiniteSet(Requests)
  BY SignUpAssumption
<1>3. IsFiniteSet(Holders(l))
  BY <1>1, <1>2, FS_Subset
<1> QED
  BY <1>3, FS_CardinalityType, SignUpAssumption DEF SignUpTypeOK

\* A step that redeems nothing, and after which nobody holds who did not.
LEMMA NoNewHolders ==
    ASSUME SignUpTypeOK, Counted, count' = count,
           \A l \in Links : Holders(l)' \subseteq Holders(l)
    PROVE  Counted'
<1> SUFFICES ASSUME NEW l \in Links
             PROVE  Cardinality(Holders(l)') <= count'[l] /\ count'[l] <= MaxUses
  BY DEF Counted
<1>1. Cardinality(Holders(l)') <= Cardinality(Holders(l)) /\ Cardinality(Holders(l)') \in Nat
  BY HoldersFinite, FS_Subset, FS_CardinalityType
<1> QED
  BY <1>1, HoldersFinite DEF Counted

\* Nobody becomes a holder who only goes on, or falls back to FREE.
LEMMA FramesGoOn ==
    ASSUME RowsInv, UNCHANGED <<creator, plan>>,
           \A q \in Requests :
               /\ frame'[q].link = frame[q].link /\ frame'[q].email = frame[q].email
               /\ frame'[q].give \in {frame[q].give, "FREE"}
    PROVE  \A l \in Links : Holders(l)' \subseteq Holders(l)
BY DEF Holders

LEMMA ArrivalCounts ==
    ASSUME NEW r \in Requests, RowsInv, Counted, Arrival(r)
    PROVE  Counted'
<1>1. PICK k \in {"signup", "google"}, e \in Emails, l \in Links \cup {NoLink} :
          Request(r, k, e, l)
  BY DEF Arrival
<1>2. UNCHANGED <<count, creator, plan>>
  BY <1>1 DEF Request, link, tenant
<1>3. frame[r].pc = "idle"
  BY <1>1 DEF Request, Unmade
<1>4. \A q \in Requests \ {r} : frame'[q] = frame[q]
  BY <1>1 DEF Request, RowsInv, SignUpTypeOK
<1>5. frame[r].give = "FREE"
  BY <1>3 DEF RowsInv, Given, Promises, Early
<1>6. frame'[r].give = "FREE" /\ frame'[r].email \in Emails
  BY <1>1, <1>5 DEF Request, RowsInv, SignUpTypeOK, RequestFrame
<1>7. \A x \in Emails : creator[x] # r
  BY <1>3, SignUpAssumption DEF RowsInv, SignUpTypeOK, Made, Stored
<1>8. \A x \in Links : Holders(x)' \subseteq Holders(x)
  BY <1>2, <1>4, <1>6, <1>7 DEF Holders
<1> QED
  BY <1>2, <1>8, NoNewHolders DEF RowsInv

LEMMA FindCounts ==
    ASSUME NEW r \in Requests, RowsInv, Counted, FindByEmail(r) \/ ValidateMagicToken(r)
    PROVE  Counted'
<1>1. UNCHANGED <<count, creator, plan>>
  BY DEF FindByEmail, ValidateMagicToken, link, tenant
<1>2. \A q \in Requests :
        /\ frame'[q].link = frame[q].link /\ frame'[q].email = frame[q].email
        /\ frame'[q].give = frame[q].give
  BY DEF FindByEmail, ValidateMagicToken, Goto, RowsInv, SignUpTypeOK, RequestFrame
<1> QED
  BY <1>1, <1>2, FramesGoOn, NoNewHolders DEF RowsInv

LEMMA SaveCounts ==
    ASSUME NEW r \in Requests, RowsInv, Counted, Save(r)
    PROVE  Counted'
<1>1. UNCHANGED <<count, plan>>
  BY DEF Save, link
<1>2. \A q \in Requests :
        /\ frame'[q].link = frame[q].link /\ frame'[q].email = frame[q].email
        /\ frame'[q].give = frame[q].give
  BY GotoEffect DEF Save, RowsInv
<1>3. \A e \in Emails : creator'[e] = creator[e] \/ plan[e] = "none"
  BY DEF Save, RowsInv, SignUpTypeOK, Made
<1>4. \A l \in Links : Holders(l)' \subseteq Holders(l)
  BY <1>1, <1>2, <1>3 DEF Holders, RowsInv, SignUpTypeOK, RequestFrame
<1> QED
  BY <1>1, <1>4, NoNewHolders DEF RowsInv

LEMMA FallbackGoesOn ==
    ASSUME NEW r \in Requests, SignUpTypeOK, Fallback(r) \/ PlanFails(r)
    PROVE  \A q \in Requests :
               /\ frame'[q].link = frame[q].link /\ frame'[q].email = frame[q].email
               /\ frame'[q].give \in {frame[q].give, "FREE"}
<1>1. ASSUME Goto(r, "failed")
      PROVE  \A q \in Requests :
               /\ frame'[q].link = frame[q].link /\ frame'[q].email = frame[q].email
               /\ frame'[q].give = frame[q].give
  BY <1>1 DEF Goto, SignUpTypeOK, RequestFrame
<1>2. ASSUME frame' = [frame EXCEPT ![r] = [@ EXCEPT
                         !.pc = "plan", !.give = "FREE", !.failing = TRUE]]
      PROVE  \A q \in Requests :
               /\ frame'[q].link = frame[q].link /\ frame'[q].email = frame[q].email
               /\ frame'[q].give \in {frame[q].give, "FREE"}
  BY <1>2 DEF SignUpTypeOK, RequestFrame
<1> QED
  BY <1>1, <1>2 DEF Fallback, PlanFails

LEMMA RedeemCounts ==
    ASSUME NEW r \in Requests, RowsInv, Counted, RedeemMagicLink(r)
    PROVE  Counted'
<1>1. UNCHANGED <<creator, plan>>
  BY DEF RedeemMagicLink, tenant
<1>2. CASE Fallback(r) /\ UNCHANGED link
  BY <1>1, <1>2, FallbackGoesOn, FramesGoOn, NoNewHolders DEF RowsInv, link
<1>3. CASE /\ Redeemable(frame[r].link)
           /\ count' = [count EXCEPT ![frame[r].link] = @ + 1]
           /\ frame' = [frame EXCEPT ![r] = [@ EXCEPT !.pc = "plan", !.give = "STARTER"]]
  <2>1. frame[r].pc = "redeem" /\ frame[r].link \in Links
    BY SignUpAssumption DEF RedeemMagicLink, RowsInv, SignUpTypeOK, RequestFrame, Given, Promises
  <2>2. \A q \in Requests \ {r} : frame'[q] = frame[q]
    BY <1>3 DEF RowsInv, SignUpTypeOK
  <2>3. frame'[r].link = frame[r].link /\ frame'[r].email = frame[r].email
    BY <1>3 DEF RowsInv, SignUpTypeOK, RequestFrame
  <2> SUFFICES ASSUME NEW l \in Links
               PROVE  Cardinality(Holders(l)') <= count'[l] /\ count'[l] <= MaxUses
    BY DEF Counted
  <2>4. CASE l = frame[r].link
    <3>1. Holders(l)' \subseteq Holders(l) \cup {r}
      BY <1>1, <2>2, <2>3 DEF Holders
    <3>2. Cardinality(Holders(l) \cup {r}) <= Cardinality(Holders(l)) + 1
      <4>1. Cardinality(Holders(l)) \in Nat
        BY HoldersFinite
      <4>2. Cardinality(Holders(l) \cup {r}) =
              IF r \in Holders(l) THEN Cardinality(Holders(l)) ELSE Cardinality(Holders(l)) + 1
        BY HoldersFinite, FS_AddElement
      <4> HIDE DEF Holders
      <4> QED
        BY <4>1, <4>2
    <3>3. Cardinality(Holders(l)') <= Cardinality(Holders(l) \cup {r})
      BY <3>1, HoldersFinite, FS_AddElement, FS_Subset
    <3>4. count'[l] = count[l] + 1 /\ count[l] < MaxUses
      BY <1>3, <2>4 DEF Redeemable, RowsInv, SignUpTypeOK
    <3>5. Cardinality(Holders(l)') \in Nat /\ Cardinality(Holders(l) \cup {r}) \in Nat
      BY <3>1, HoldersFinite, FS_AddElement, FS_Subset, FS_CardinalityType
    <3> QED
      BY <3>2, <3>3, <3>4, <3>5, HoldersFinite DEF Counted, RowsInv
  <2>5. CASE l # frame[r].link
    <3>1. Holders(l)' \subseteq Holders(l)
      BY <1>1, <2>2, <2>3, <2>5 DEF Holders
    <3>2. Cardinality(Holders(l)') <= Cardinality(Holders(l)) /\ Cardinality(Holders(l)') \in Nat
      BY <3>1, HoldersFinite, FS_Subset, FS_CardinalityType
    <3>3. count'[l] = count[l]
      BY <1>3, <2>5 DEF RowsInv, SignUpTypeOK
    <3> QED
      BY <3>2, <3>3, HoldersFinite DEF Counted, RowsInv
  <2> QED
    BY <2>4, <2>5
<1> QED
  BY <1>2, <1>3 DEF RedeemMagicLink

LEMMA PlanCounts ==
    ASSUME NEW r \in Requests, RowsInv, Counted, EnsurePlan(r)
    PROVE  Counted'
<1>1. UNCHANGED <<count, creator>>
  BY DEF EnsurePlan, link
<1>2. CASE PlanFails(r) /\ UNCHANGED plan
  BY <1>1, <1>2, FallbackGoesOn, FramesGoOn, NoNewHolders DEF RowsInv
<1>3. CASE plan' = [plan EXCEPT ![frame[r].email] = frame[r].give] /\ Goto(r, "counters")
  <2>1. \A q \in Requests :
        /\ frame'[q].link = frame[q].link /\ frame'[q].email = frame[q].email
        /\ frame'[q].give = frame[q].give
    BY <1>3 DEF Goto, RowsInv, SignUpTypeOK, RequestFrame
  <2>2. creator[frame[r].email] = r /\ frame[r].email \in Emails
    BY DEF EnsurePlan, RowsInv, Owner, Stored, SignUpTypeOK, RequestFrame
  <2>3. \A q \in Requests \ {r} :
          creator[frame[q].email] = q => plan'[frame[q].email] = plan[frame[q].email]
    BY <1>3, <2>2 DEF RowsInv, SignUpTypeOK, RequestFrame
  <2>4. plan'[frame[r].email] = frame[r].give
    BY <1>3, <2>2 DEF RowsInv, SignUpTypeOK
  <2>5. \A l \in Links : Holders(l)' \subseteq Holders(l)
    BY <1>1, <2>1, <2>3, <2>4 DEF Holders
  <2> QED
    BY <1>1, <2>5, NoNewHolders DEF RowsInv
<1> QED
  BY <1>2, <1>3 DEF EnsurePlan

LEMMA CountersCount ==
    ASSUME NEW r \in Requests, RowsInv, Counted, ResetCounters(r)
    PROVE  Counted'
<1>1. UNCHANGED <<count, creator, plan>>
  BY DEF ResetCounters, link
<1>2. CASE PlanFails(r)
  BY <1>1, <1>2, FallbackGoesOn, FramesGoOn, NoNewHolders DEF RowsInv
<1>3. CASE Goto(r, IF frame[r].failing THEN "failed" ELSE "created")
  <2>1. \A q \in Requests :
        /\ frame'[q].link = frame[q].link /\ frame'[q].email = frame[q].email
        /\ frame'[q].give = frame[q].give
    BY <1>3 DEF Goto, RowsInv, SignUpTypeOK, RequestFrame
  <2> QED
    BY <1>1, <2>1, FramesGoOn, NoNewHolders DEF RowsInv
<1> QED
  BY <1>2, <1>3 DEF ResetCounters

LEMMA OthersCount ==
    ASSUME RowsInv, Counted, ProcessDies \/ UNCHANGED signUpVars \/ \E l \in Links : Expire(l)
    PROVE  Counted'
<1>1. UNCHANGED <<count, creator, plan>>
  BY DEF ProcessDies, Expire, signUpVars, link, tenant
<1>2. \A q \in Requests :
        /\ frame'[q].link = frame[q].link /\ frame'[q].email = frame[q].email
        /\ frame'[q].give = frame[q].give
  <2>1. CASE UNCHANGED frame
    BY <2>1
  <2>2. CASE ProcessDies
    BY <2>2 DEF ProcessDies, RowsInv, SignUpTypeOK, RequestFrame
  <2> QED
    BY <2>1, <2>2 DEF Expire, signUpVars
<1> QED
  BY <1>1, <1>2, FramesGoOn, NoNewHolders DEF RowsInv

LEMMA NextCounts ==
    RowsInv /\ Counted /\ [SignUpNext]_signUpVars => Counted'
BY ArrivalCounts, FindCounts, SaveCounts, RedeemCounts, PlanCounts, CountersCount, OthersCount
   DEF SignUpNext, RequestStep

-----------------------------------------------------------------------------
LEMMA InitSignUp == SignUpInit => SignUpInv
<1> SUFFICES ASSUME SignUpInit PROVE SignUpInv
  OBVIOUS
<1>1. RowsInv
  BY InitRows
<1>2. NobodyForgotten
  BY DEF SignUpInit, NobodyForgotten, Exists
<1>3. \A r \in Requests : frame[r].give = "FREE" /\ creator[frame[r].email] # r
  BY <1>1, SignUpAssumption DEF SignUpInit, Blank, RowsInv, SignUpTypeOK, RequestFrame
<1>4. \A l \in Links : Holders(l) = {}
  BY <1>3 DEF Holders
<1>5. Counted
  <2>1. \A l \in Links : Cardinality(Holders(l)) = 0 /\ count[l] = 0
    BY <1>4, FS_EmptySet DEF SignUpInit
  <2> QED
    BY <2>1, SignUpAssumption DEF Counted
<1> QED
  BY <1>1, <1>2, <1>5 DEF SignUpInv

LEMMA NextSignUp == SignUpInv /\ [SignUpNext]_signUpVars => SignUpInv'
BY NextRows, NextServes, NextCounts DEF SignUpInv

LEMMA SignUpInvariant == SignUpSpec => []SignUpInv
<1>1. SignUpInit => SignUpInv
  BY InitSignUp
<1>2. SignUpInv /\ [SignUpNext]_signUpVars => SignUpInv'
  BY NextSignUp
<1> QED
  BY <1>1, <1>2, PTL DEF SignUpSpec

\* Every tenant with a link's promotion was stored by a holder of its own.
LEMMA PromotedHold ==
    ASSUME SignUpInv, NEW l \in Links
    PROVE  Cardinality(Promoted(l)) <= MaxUses
<1> DEFINE f == [r \in Holders(l) |-> frame[r].email]
<1>1. Promoted(l) \subseteq {frame[r].email : r \in Holders(l)}
  <2> SUFFICES ASSUME NEW e \in Promoted(l)
               PROVE  \E r \in Holders(l) : e = frame[r].email
    OBVIOUS
  <2>1. creator[e] \in Requests /\ frame[creator[e]].email = e
    BY DEF Promoted, Exists, SignUpInv, RowsInv, SignUpTypeOK, Made
  <2>2. creator[e] \in Holders(l)
    BY <2>1 DEF Promoted, LinkOf, Holders
  <2> QED
    BY <2>1, <2>2
<1>2. /\ IsFiniteSet({frame[r].email : r \in Holders(l)})
      /\ Cardinality({frame[r].email : r \in Holders(l)}) <= Cardinality(Holders(l))
  <2>1. {frame[r].email : r \in Holders(l)} = {f[r] : r \in Holders(l)}
    OBVIOUS
  <2>2. f \in Surjection(Holders(l), {f[r] : r \in Holders(l)})
    BY DEF Surjection
  <2> QED
    BY <2>1, <2>2, HoldersFinite, FS_Surjection
<1>3. /\ Cardinality(Promoted(l)) <= Cardinality({frame[r].email : r \in Holders(l)})
      /\ Cardinality(Promoted(l)) \in Nat
  BY <1>1, <1>2, FS_Subset, FS_CardinalityType
<1> QED
  BY <1>2, <1>3, HoldersFinite, FS_CardinalityType DEF SignUpInv, RowsInv, Counted

\* PromoWithinUses for any number of people, links and requests: whatever
\* happens between reading a link and redeeming it, the WHERE clause of
\* redeemMagicLink bounds the tenants that get its promotion by max_uses.
THEOREM PromotionsBounded == SignUpSpec => []PromoWithinUses
<1>1. SignUpInv => PromoWithinUses
  BY PromotedHold DEF PromoWithinUses
<1>2. SignUpSpec => []SignUpInv
  BY SignUpInvariant
<1> QED
  BY <1>1, <1>2, PTL

LEMMA LeftOut == SignUpInv => PlanLeftOut
<1> SUFFICES ASSUME SignUpInv, NoFailures, Unanswered = {}, NEW e \in Emails, Exists(e)
             PROVE  \/ plan[e] # "none" /\ counters[e] = plan[e]
                    \/ /\ frame[creator[e]].kind = "google"
                       /\ LinkOf(e) # NoLink /\ ~Redeemable(LinkOf(e))
  BY DEF PlanLeftOut, NoFailures
<1>1. creator[e] \in Requests /\ frame[creator[e]].email = e
  BY DEF Exists, SignUpInv, RowsInv, SignUpTypeOK, Made
<1>2. frame[creator[e]].pc \in {"created", "failed"}
  BY <1>1 DEF Exists, SignUpInv, RowsInv, Made, Stored, Unanswered, Ends
<1>3. CASE frame[creator[e]].pc = "created"
  <2>1. frame[creator[e]].give # "none"
    BY <1>1 DEF SignUpInv, RowsInv, SignUpTypeOK, RequestFrame
  <2>2. plan[e] = frame[creator[e]].give /\ counters[e] = frame[creator[e]].give
    BY <1>1, <1>3 DEF SignUpInv, RowsInv, Written
  <2> QED
    BY <2>1, <2>2
<1>4. CASE frame[creator[e]].pc = "failed"
  BY <1>4 DEF SignUpInv, NobodyForgotten, HasPlan, TurnedDown
<1> QED
  BY <1>2, <1>3, <1>4

\* PlanLeftOut: without failing statements and crashes only Google's sign-in with
\* a link that was used up or expired under way leaves a tenant without a plan.
THEOREM NobodyLeftOut == SignUpSpec => []PlanLeftOut
<1>1. SignUpSpec => []SignUpInv
  BY SignUpInvariant
<1>2. SignUpInv => PlanLeftOut
  BY LeftOut
<1> QED
  BY <1>1, <1>2, PTL

LEMMA Asked == SignUpInv => CreatedAsAsked
BY DEF SignUpInv, RowsInv, SignUpTypeOK, RequestFrame, Given, Promises, Written, Stored, CreatedAsAsked

\* CreatedAsAsked: whoever is answered with a new tenant has the plan asked for
\* and its counters, and no later request for the address takes them away.
THEOREM AnsweredAsAsked == SignUpSpec => []CreatedAsAsked
<1>1. SignUpSpec => []SignUpInv
  BY SignUpInvariant
<1>2. SignUpInv => CreatedAsAsked
  BY Asked
<1> QED
  BY <1>1, <1>2, PTL
=============================================================================
