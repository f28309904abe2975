--------------------------- MODULE PlanUsage_proofs ---------------------------
(***************************************************************************)
(* Proofs about PlanUsage for any numbers of handlers, requests,           *)
(* subscriptions and events, any lengths of periods, limits and scenarios. *)
(* Whoever is about to write a plan row with a paid plan has it from       *)
(* somewhere: from Stripe's subscription, from one of its events, or from  *)
(* the row that was read; the invariant IInv says that all of these are    *)
(* backed by a purchase.  Where nothing overlaps and events come in order, *)
(* FollowInv says more: what is read is still so when it is written.       *)
(* Where nothing overlaps and no handler drops the count, TallyInv says    *)
(* that the one row of the counter moves with the period of the plan.      *)
(* They say what they need of the fields and no more; Typed, at the end,   *)
(* gives every field its type.                                             *)
(***************************************************************************)
EXTENDS PlanUsage, FiniteSetTheorems, SequenceTheorems, TLAPS

IsRow(row) == row = PlanFor(row.name, row.sub, row.from, row.to, row.billing)

\* A plan row, a subscription or an event has a period.
Timely(r) == r.from \in Int /\ r.to \in Int /\ r.from <= r.to

\* A plan row or an event: if it names a paid plan, that was bought.
Backed(r, purchases) ==
    /\ Timely(r)
    /\ r.name # "FREE" => <<r.sub, r.name>> \in purchases

Events(T) ==
    [type : T, sub : Subs, name : T, from : T, to : T, tagged : T, again : BOOLEAN]

GoodEvent(e, purchases) == (\E T : e \in Events(T)) /\ Backed(e, purchases)

\* What a frame has read, what it will write, and what it answers.
Frames(T) ==
    [pc : T, type : T, event : T, seen : T, next : T, keep : T, row : T, used : T]

GoodFrame(f, purchases) ==
    /\ \E T : f \in Frames(T)
    /\ Backed(f.seen, purchases)
    /\ f.pc \in {"ensure", "ensureOnly"} => Backed(f.next, purchases)
    /\ f.type = "webhook" => GoodEvent(f.event, purchases)

Subscriptions(T) ==
    [state : T, name : T, from : T, to : T, tagged : BOOLEAN, announced : BOOLEAN]

GoodSubscription(s, sub, purchases) ==
    /\ (\E T : sub \in Subscriptions(T)) /\ Timely(sub)
    /\ sub.name # "FREE" => <<s, sub.name>> \in purchases

FramesInv ==
    /\ frame = [p \in Procs |-> frame[p]]
    /\ \A p \in Procs : GoodFrame(frame[p], bought)

StripeInv ==
    /\ stripe = [s \in Subs |-> stripe[s]]
    /\ \A s \in Subs : GoodSubscription(s, stripe[s], bought)

InboxInv ==
    /\ \E T : inbox \in Seq(T)
    /\ \A i \in 1 .. Len(inbox) : GoodEvent(inbox[i], bought)

PlanInv == Backed(plan, bought)

IInv == FramesInv /\ StripeInv /\ InboxInv /\ PlanInv

\* The tenant buys what is on offer and cancels what was bought.
AskedApt(f) ==
    /\ f.pc = "update" => f.next.name \in OnOffer
    /\ f.pc = "cancel" => f.seen.name # "FREE"
    /\ f.pc \in {"ensure", "ensureOnly"} => IsRow(f.next)

DeskInv ==
    /\ now \in Int /\ IsRow(plan) /\ bought \subseteq Subs \X OnOffer
    /\ \A p \in Procs : AskedApt(frame[p])

-----------------------------------------------------------------------------
(* The parts of a step *)

LEMMA MorePurchases ==
  ASSUME NEW A, NEW B, A \subseteq B
  PROVE  /\ \A r : Backed(r, A) => Backed(r, B)
         /\ \A e : GoodEvent(e, A) => GoodEvent(e, B)
         /\ \A f : GoodFrame(f, A) => GoodFrame(f, B)
         /\ \A s, sub : GoodSubscription(s, sub, A) => GoodSubscription(s, sub, B)
<1>1. \A r : Backed(r, A) => Backed(r, B)
  BY DEF Backed
<1>2. \A e : GoodEvent(e, A) => GoodEvent(e, B)
  BY <1>1 DEF GoodEvent
<1>3. \A f : GoodFrame(f, A) => GoodFrame(f, B)
  BY <1>1, <1>2 DEF GoodFrame
<1>4. \A s, sub : GoodSubscription(s, sub, A) => GoodSubscription(s, sub, B)
  BY DEF GoodSubscription
<1>. QED
  BY <1>1, <1>2, <1>3, <1>4

\* What a step leaves alone.
LEMMA Kept ==
  ASSUME IInv, bought \subseteq bought'
  PROVE  /\ UNCHANGED frame => FramesInv'
         /\ UNCHANGED stripe => StripeInv'
         /\ UNCHANGED inbox => InboxInv'
         /\ UNCHANGED plan => PlanInv'
<1>1. UNCHANGED frame => FramesInv'
  BY MorePurchases DEF IInv, FramesInv
<1>2. UNCHANGED stripe => StripeInv'
  BY MorePurchases DEF IInv, StripeInv
<1>3. UNCHANGED inbox => InboxInv'
  BY MorePurchases DEF IInv, InboxInv
<1>4. UNCHANGED plan => PlanInv'
  BY MorePurchases DEF IInv, PlanInv
<1>. QED
  BY <1>1, <1>2, <1>3, <1>4

\* No frame but p's changes.
Only(p) ==
    /\ frame' = [q \in Procs |-> frame'[q]]
    /\ \A q \in Procs \ {p} : frame'[q] = frame[q]

LEMMA FrameMoves ==
  ASSUME IInv, bought \subseteq bought', NEW p \in Procs, Only(p),
         GoodFrame(frame'[p], bought')
  PROVE  FramesInv'
  BY MorePurchases DEF IInv, FramesInv, Only

LEMMA SubscriptionMoves ==
  ASSUME IInv, bought \subseteq bought', NEW s, NEW sub,
         s \in Subs => GoodSubscription(s, sub, bought'),
         stripe' = [stripe EXCEPT ![s] = sub]
  PROVE  StripeInv'
  BY MorePurchases DEF IInv, StripeInv

LEMMA EventSent ==
  ASSUME IInv, bought \subseteq bought', NEW e, GoodEvent(e, bought'),
         inbox' = Append(inbox, e)
  PROVE  InboxInv'
<1>1. PICK T : inbox \in Seq(T)
  BY DEF IInv, InboxInv
<1>2. inbox \in Seq(T \cup {e})
  BY <1>1
<1>3. inbox' \in Seq(T \cup {e})
  BY <1>2
<1>4. ASSUME NEW i \in 1 .. Len(inbox')
      PROVE  GoodEvent(inbox'[i], bought')
  <2>1. inbox'[i] = IF i <= Len(inbox) THEN inbox[i] ELSE e
    BY <1>2, <1>4
  <2>2. i <= Len(inbox) => i \in 1 .. Len(inbox)
    BY <1>2
  <2>. QED
    BY <2>1, <2>2, MorePurchases DEF IInv, InboxInv
<1>. QED
  BY <1>3, <1>4 DEF InboxInv

\* An event that is sent again is the same but for its mark.
LEMMA SameEventAgain ==
  ASSUME NEW e, NEW B, GoodEvent(e, B)
  PROVE  GoodEvent([e EXCEPT !.again = TRUE], B)
<1>1. PICK T : e \in Events(T)
  BY DEF GoodEvent
<1> DEFINE r == [e EXCEPT !.again = TRUE]
<1>2. r \in Events(T)
  BY <1>1 DEF Events
<1>3. r.sub = e.sub /\ r.name = e.name /\ r.from = e.from /\ r.to = e.to
  BY <1>1 DEF Events
<1>. QED
  BY <1>2, <1>3 DEF GoodEvent, Backed, Timely

\* A webhook is answered.
LEMMA EventAnswered ==
  ASSUME IInv, UNCHANGED bought, NEW p \in Procs, frame[p].type = "webhook",
         inbox' \in Answered(frame[p].event)
  PROVE  InboxInv'
<1> DEFINE e == frame[p].event
           again == [e EXCEPT !.again = TRUE]
           S == {inbox[k] : k \in 1 .. Len(inbox)} \cup {again}
<1>1. \A x \in S : GoodEvent(x, bought)
  <2>1. GoodEvent(e, bought)
    BY DEF IInv, FramesInv, GoodFrame
  <2>2. GoodEvent(again, bought)
    BY <2>1, SameEventAgain
  <2>. QED
    BY <2>2 DEF IInv, InboxInv
<1>2. inbox \in Seq(S) /\ Len(inbox) \in Nat
  BY DEF IInv, InboxInv
<1>3. Without(e) \in Seq(S)
  <2>1. PICK i : Without(e) = [k \in 1 .. Len(inbox) - 1 |-> inbox[IF k < i THEN k ELSE k + 1]]
    BY DEF Without
  <2>2. \A k \in 1 .. Len(inbox) - 1 : (IF k < i THEN k ELSE k + 1) \in 1 .. Len(inbox)
    BY <1>2
  <2>3. \A k \in 1 .. Len(inbox) - 1 : inbox[IF k < i THEN k ELSE k + 1] \in S
    BY <2>2
  <2>4. CASE Len(inbox) = 0
    <3>1. 1 .. Len(inbox) - 1 = 1 .. 0
      BY <2>4
    <3>. QED
      BY <2>1, <2>3, <3>1
  <2>5. CASE Len(inbox) # 0
    BY <1>2, <2>1, <2>3, <2>5
  <2>. QED
    BY <2>4, <2>5
<1>4. inbox' \in Seq(S)
  BY <1>2, <1>3 DEF Answered
<1>5. \A k \in 1 .. Len(inbox') : inbox'[k] \in S
  BY <1>4
<1>. QED
  BY <1>1, <1>4, <1>5 DEF InboxInv

\* A frame that goes on: what it has read, and what it answers, stays.
LEMMA FrameGoesOn ==
  ASSUME NEW f, NEW B, GoodFrame(f, B), NEW pc, NEW next,
         pc \in {"ensure", "ensureOnly"} => Backed(next, B)
  PROVE  GoodFrame([f EXCEPT !.pc = pc, !.next = next], B)
<1> DEFINE g == [f EXCEPT !.pc = pc, !.next = next]
<1>1. PICK T : f \in Frames(T)
  BY DEF GoodFrame
<1>2. f \in Frames(T \cup {pc, next})
  BY <1>1 DEF Frames
<1>3. g \in Frames(T \cup {pc, next})
  BY <1>2 DEF Frames
<1>4. /\ g.pc = pc /\ g.next = next /\ g.seen = f.seen
      /\ g.type = f.type /\ g.event = f.event
  BY <1>1 DEF Frames
<1>. QED
  BY <1>3, <1>4 DEF GoodFrame

LEMMA FrameEnters ==
  ASSUME IInv, bought \subseteq bought', NEW p \in Procs, NEW pc, NEW type, NEW e,
         NEW next, NEW keep, Enter(p, pc, type, e, next, keep),
         Backed(next, bought'), type = "webhook" => GoodEvent(e, bought')
  PROVE  FramesInv'
<1> DEFINE f == [pc |-> pc, type |-> type, event |-> e, seen |-> plan,
                 next |-> next, keep |-> keep, row |-> 0, used |-> 0]
<1>1. frame' = [frame EXCEPT ![p] = f]
  BY DEF Enter
<1>2. Only(p) /\ frame'[p] = f
  BY <1>1 DEF Only, IInv, FramesInv
<1>3. f \in Frames({pc, type, e, plan, next, keep, 0})
  BY DEF Frames
<1>4. Backed(plan, bought')
  BY MorePurchases DEF IInv, PlanInv
<1>5. GoodFrame(f, bought')
  BY <1>3, <1>4 DEF GoodFrame
<1>. QED
  BY <1>2, <1>5, FrameMoves

LEMMA IdleIsBacked == \A B : Backed(Idle.seen, B)
  BY PlanUsageAssumption DEF Idle, Backed, Timely, PlanFor

LEMMA FrameReturns ==
  ASSUME IInv, bought \subseteq bought', NEW p \in Procs, Return(p)
  PROVE  FramesInv'
<1>1. Only(p) /\ frame'[p] = Idle
  BY DEF Return, Only, IInv, FramesInv
<1>2. GoodFrame(Idle, bought')
  <2>1. Idle \in Frames({"idle", "none", NoEvent, Idle.seen, TRUE, 0})
    BY DEF Frames, Idle
  <2>. QED
    BY <2>1, IdleIsBacked DEF GoodFrame, Idle
<1>. QED
  BY <1>1, <1>2, FrameMoves

LEMMA FrameContinues ==
  ASSUME IInv, bought \subseteq bought', NEW p \in Procs, NEW pc, NEW next,
         pc \in {"ensure", "ensureOnly"} => Backed(next, bought'),
         frame' = [frame EXCEPT ![p].pc = pc, ![p].next = next]
  PROVE  FramesInv'
<1> DEFINE g == [frame[p] EXCEPT !.pc = pc, !.next = next]
<1>1. Only(p) /\ frame'[p] = g
  BY DEF Only, IInv, FramesInv
<1>2. GoodFrame(g, bought')
  BY MorePurchases, FrameGoesOn DEF IInv, FramesInv
<1>. QED
  BY <1>1, <1>2, FrameMoves

\* The other fields a frame keeps are not restricted.
LEMMA FrameNotes ==
  ASSUME IInv, bought \subseteq bought', NEW p \in Procs, NEW g,
         \E T : g \in Frames(T), g.pc \notin {"ensure", "ensureOnly"},
         g.seen = frame[p].seen, g.type = frame[p].type, g.event = frame[p].event,
         frame' = [frame EXCEPT ![p] = g]
  PROVE  FramesInv'
<1>1. Only(p) /\ frame'[p] = g
  BY DEF Only, IInv, FramesInv
<1>2. GoodFrame(g, bought')
  BY MorePurchases DEF GoodFrame, IInv, FramesInv
<1>. QED
  BY <1>1, <1>2, FrameMoves

\* What changes a subscription without changing its name.
LEMMA SubscriptionKept ==
  ASSUME NEW s, NEW sub, NEW B, GoodSubscription(s, sub, B), NEW v, NEW w
  PROVE  /\ GoodSubscription(s, [sub EXCEPT !.tagged = TRUE], B)
         /\ GoodSubscription(s, [sub EXCEPT !.announced = TRUE], B)
         /\ GoodSubscription(s, [sub EXCEPT !.state = v], B)
         /\ GoodSubscription(s, [sub EXCEPT !.state = v, !.tagged = TRUE], B)
         /\ v \in Int /\ w \in Int /\ v <= w =>
              GoodSubscription(s, [sub EXCEPT !.from = v, !.to = w, !.announced = FALSE], B)
<1>1. PICK T : sub \in Subscriptions(T)
  BY DEF GoodSubscription
<1> DEFINE U == T \cup {v, w}
<1>2. sub \in Subscriptions(U)
  BY <1>1 DEF Subscriptions
<1>3. \A new : new \in Subscriptions(U) /\ new.name = sub.name /\ Timely(new)
                => GoodSubscription(s, new, B)
  BY DEF GoodSubscription
<1>0. Timely(sub)
  BY DEF GoodSubscription
<1>4. LET new == [sub EXCEPT !.tagged = TRUE]
      IN  new \in Subscriptions(U) /\ new.name = sub.name /\ Timely(new)
  BY <1>0, <1>2 DEF Subscriptions, Timely
<1>5. LET new == [sub EXCEPT !.announced = TRUE]
      IN  new \in Subscriptions(U) /\ new.name = sub.name /\ Timely(new)
  BY <1>0, <1>2 DEF Subscriptions, Timely
<1>6. LET new == [sub EXCEPT !.state = v]
      IN  new \in Subscriptions(U) /\ new.name = sub.name /\ Timely(new)
  BY <1>0, <1>2 DEF Subscriptions, Timely
<1>7. LET new == [sub EXCEPT !.state = v, !.tagged = TRUE]
      IN  new \in Subscriptions(U) /\ new.name = sub.name /\ Timely(new)
  BY <1>0, <1>2 DEF Subscriptions, Timely
<1>8. LET new == [sub EXCEPT !.from = v, !.to = w, !.announced = FALSE]
      IN  /\ new \in Subscriptions(U) /\ new.name = sub.name
          /\ v \in Int /\ w \in Int /\ v <= w => Timely(new)
  BY <1>2 DEF Subscriptions, Timely
<1>. QED
  BY <1>3, <1>4, <1>5, <1>6, <1>7, <1>8

LEMMA SubscriptionRenamed ==
  ASSUME NEW s, NEW sub, NEW A, NEW B, GoodSubscription(s, sub, A), NEW name,
         <<s, name>> \in B
  PROVE  GoodSubscription(s, [sub EXCEPT !.name = name, !.state = "active",
                                         !.tagged = TRUE], B)
<1>1. PICK T : sub \in Subscriptions(T)
  BY DEF GoodSubscription
<1> DEFINE U == T \cup {name, "active"}
           new == [sub EXCEPT !.name = name, !.state = "active", !.tagged = TRUE]
<1>2. sub \in Subscriptions(U)
  BY <1>1 DEF Subscriptions
<1>3. new \in Subscriptions(U) /\ new.name = name /\ Timely(new)
  BY <1>2 DEF Subscriptions, Timely, GoodSubscription
<1>. QED
  BY <1>3 DEF GoodSubscription

LEMMA OpenedIsGood ==
  ASSUME now \in Int, NEW s, NEW name, NEW tagged \in BOOLEAN, NEW B, <<s, name>> \in B
  PROVE  GoodSubscription(s, Opened(name, tagged), B)
<1> DEFINE new == Opened(name, tagged)
<1>1. new \in Subscriptions({"active", name, now, now + Month})
  BY DEF Opened, Subscriptions
<1>2. new.name = name /\ Timely(new)
  BY PlanUsageAssumption DEF Opened, Timely
<1>. QED
  BY <1>1, <1>2 DEF GoodSubscription

LEMMA EventOfIsGood ==
  ASSUME NEW t, NEW s \in Subs, NEW sub, NEW B, GoodSubscription(s, sub, B)
  PROVE  GoodEvent(EventOf(t, s, sub), B)
<1> DEFINE e == EventOf(t, s, sub)
<1>1. e \in Events({t, sub.name, sub.from, sub.to, sub.tagged})
  BY DEF EventOf, Events
<1>2. e.sub = s /\ e.name = sub.name /\ e.from = sub.from /\ e.to = sub.to
  BY DEF EventOf
<1>. QED
  BY <1>1, <1>2 DEF GoodEvent, GoodSubscription, Backed, Timely

LEMMA SendKeepsIInv ==
  ASSUME IInv, bought \subseteq bought', NEW t, NEW s \in Subs, NEW sub,
         GoodSubscription(s, sub, bought'), Send(t, s, sub)
  PROVE  IInv'
<1>1. StripeInv'
  BY SubscriptionMoves DEF Send
<1>2. InboxInv'
  BY EventOfIsGood, EventSent DEF Send
<1>. QED
  BY <1>1, <1>2, Kept DEF Send, IInv

-----------------------------------------------------------------------------
(* One lemma per group of actions *)

LEMMA StripeKeepsIInv == IInv /\ DeskInv /\ StripeMoves => IInv'
<1> SUFFICES ASSUME IInv, DeskInv, StripeMoves PROVE IInv'
  OBVIOUS
<1>1. ASSUME NEW name \in Paid, Checkout(name) PROVE IInv'
  <2>1. NextSub \in Subs
    BY <1>1 DEF Checkout, NextSub, Unopened
  <2>2. bought \subseteq bought' /\ <<NextSub, name>> \in bought'
    BY <1>1 DEF Checkout
  <2>3. GoodSubscription(NextSub, Opened(name, FALSE), bought')
    BY <2>2, OpenedIsGood DEF DeskInv
  <2>. QED
    BY <1>1, <2>1, <2>2, <2>3, SendKeepsIInv DEF Checkout
<1>2. ASSUME NEW s \in Subs, UNCHANGED bought, NEW v, NEW w
      PROVE  /\ GoodSubscription(s, [stripe[s] EXCEPT !.announced = TRUE], bought')
             /\ GoodSubscription(s, [stripe[s] EXCEPT !.state = "ended"], bought')
             /\ v \in Int /\ w \in Int /\ v <= w =>
                  GoodSubscription(s, [stripe[s] EXCEPT !.from = v, !.to = w,
                                                        !.announced = FALSE], bought')
  BY <1>2, SubscriptionKept DEF IInv, StripeInv
<1>3. ASSUME NEW s \in Subs, StripeRenews(s) PROVE IInv'
  <2>1. UNCHANGED bought
    BY <1>3 DEF StripeRenews
  <2> DEFINE new == [stripe[s] EXCEPT !.from = stripe[s].from + Month,
                                      !.to = stripe[s].to + Month, !.announced = FALSE]
  <2>2. GoodSubscription(s, new, bought')
    <3>1. Timely(stripe[s])
      BY DEF IInv, StripeInv, GoodSubscription
    <3>2. PICK v, w : v = stripe[s].from + Month /\ w = stripe[s].to + Month
      OBVIOUS
    <3>3. v \in Int /\ w \in Int /\ v <= w
      BY <3>1, <3>2, PlanUsageAssumption DEF Timely
    <3>4. new = [stripe[s] EXCEPT !.from = v, !.to = w, !.announced = FALSE]
      BY <3>2
    <3> HIDE DEF new
    <3>5. GoodSubscription(s, [stripe[s] EXCEPT !.from = v, !.to = w,
                                                !.announced = FALSE], bought')
      BY <1>2, <2>1, <3>3
    <3>. QED
      BY <3>4, <3>5
  <2>3. Send("paid", s, new)
    BY <1>3 DEF StripeRenews
  <2>. QED
    BY <2>1, <2>2, <2>3, SendKeepsIInv
<1>4. ASSUME NEW s \in Subs, StripeAnnounces(s) PROVE IInv'
  BY <1>2, <1>4, SendKeepsIInv DEF StripeAnnounces
<1>5. ASSUME NEW s \in Subs, StripeEnds(s) PROVE IInv'
  BY <1>2, <1>5, SendKeepsIInv DEF StripeEnds
<1>. QED
  BY <1>1, <1>3, <1>4, <1>5 DEF StripeMoves

LEMMA DeliverKeepsIInv ==
  ASSUME IInv, DeskInv, NEW p \in Procs, Deliver(p)
  PROVE  IInv'
<1>1. PICK i \in 1 .. Len(inbox) :
        \/ DeliverCheckout(p, i) \/ DeliverPaid(p, i) \/ DeliverUpcoming(p, i)
        \/ DeliverDeleted(p, i)
  BY DEF Deliver
<1> DEFINE e == inbox[i]
<1>2. GoodEvent(e, bought) /\ e.sub \in Subs
  <2>1. GoodEvent(e, bought)
    BY DEF IInv, InboxInv
  <2>. QED
    BY <2>1 DEF GoodEvent, Events
<1>3. UNCHANGED <<inbox, plan, bought>>
  BY <1>1 DEF DeliverCheckout, DeliverPaid, DeliverUpcoming, DeliverDeleted
<1>4. CASE DeliverCheckout(p, i)
  <2> DEFINE sub == stripe[e.sub]
             next == PlanFor(sub.name, e.sub, sub.from, sub.to, "active")
  <2>1. GoodSubscription(e.sub, sub, bought)
    BY <1>2 DEF IInv, StripeInv
  <2>2. StripeInv'
    <3>1. GoodSubscription(e.sub, [sub EXCEPT !.tagged = TRUE], bought')
      BY <1>3, <2>1, SubscriptionKept
    <3>2. stripe' = [stripe EXCEPT ![e.sub] = [sub EXCEPT !.tagged = TRUE]]
      BY <1>4 DEF DeliverCheckout
    <3>. QED
      BY <1>3, <3>1, <3>2, SubscriptionMoves
  <2>3. Backed(next, bought)
    BY <2>1 DEF Backed, Timely, GoodSubscription, PlanFor
  <2>4. FramesInv'
    BY <1>2, <1>3, <1>4, <2>3, FrameEnters DEF DeliverCheckout
  <2>. QED
    BY <1>3, <2>2, <2>4, Kept DEF IInv
<1>5. CASE DeliverPaid(p, i)
  <2>1. Backed(PlanFor(e.name, e.sub, e.from, e.to, "active"), bought)
    BY <1>2, PlanUsageAssumption DEF DeskInv, Backed, Timely, GoodEvent, PlanFor
  <2>2. FramesInv' /\ UNCHANGED stripe
    BY <1>2, <1>3, <1>5, <2>1, FrameEnters DEF DeliverPaid
  <2>. QED
    BY <1>3, <2>2, Kept DEF IInv
<1>6. CASE DeliverUpcoming(p, i)
  <2>1. Backed(PlanFor(e.name, e.sub, now, now + Trial, "trialing"), bought)
    BY <1>2, PlanUsageAssumption DEF DeskInv, Backed, Timely, GoodEvent, PlanFor
  <2>2. FramesInv' /\ UNCHANGED stripe
    BY <1>2, <1>3, <1>6, <2>1, FrameEnters DEF DeliverUpcoming
  <2>. QED
    BY <1>3, <2>2, Kept DEF IInv
<1>7. CASE DeliverDeleted(p, i)
  <2>1. FramesInv' /\ UNCHANGED stripe
    BY <1>2, <1>3, <1>7, FrameEnters DEF DeliverDeleted, IInv, PlanInv
  <2>. QED
    BY <1>3, <2>1, Kept DEF IInv
<1>. QED
  BY <1>1, <1>4, <1>5, <1>6, <1>7

\* A plan row as it was read, with another name, is not written as it is:
\* CallUpdate replaces it.
LEMMA RequestKeepsIInv == ASSUME IInv, NEW p \in Procs, Request(p) PROVE IInv'
<1>1. PICK name : StartUpdate(p, name) \/ StartCancel(p)
  BY DEF Request
<1>2. UNCHANGED <<stripe, inbox, plan, bought>>
  BY <1>1 DEF StartUpdate, StartCancel
<1>3. FramesInv'
  <2>1. CASE StartUpdate(p, name)
    <3> DEFINE next == [plan EXCEPT !.name = name]
               f == [pc |-> "update", type |-> "request", event |-> NoEvent,
                     seen |-> plan, next |-> next, keep |-> TRUE, row |-> 0, used |-> 0]
    <3>1. frame' = [frame EXCEPT ![p] = f]
      BY <2>1 DEF StartUpdate, Enter
    <3>2. Only(p) /\ frame'[p] = f
      BY <3>1 DEF Only, IInv, FramesInv
    <3>3. f \in Frames({"update", "request", NoEvent, plan, next, TRUE, 0})
      BY DEF Frames
    <3>4. GoodFrame(f, bought')
      BY <1>2, <3>3 DEF GoodFrame, IInv, PlanInv
    <3>. QED
      BY <1>2, <3>2, <3>4, FrameMoves
  <2>2. CASE StartCancel(p)
    <3>1. Enter(p, "cancel", "request", NoEvent, plan, TRUE)
      BY <2>2 DEF StartCancel
    <3>2. Backed(plan, bought') /\ "request" # "webhook"
      BY <1>2 DEF IInv, PlanInv
    <3>. QED
      BY <1>2, <3>1, <3>2, FrameEnters
  <2>. QED
    BY <1>1, <2>1, <2>2
<1>. QED
  BY <1>2, <1>3, Kept DEF IInv

LEMMA FreeIsBacked == DeskInv => \A sub, billing, B : Backed(FreePlan(sub, billing), B)
  BY PlanUsageAssumption DEF DeskInv, Backed, Timely, FreePlan, PlanFor

LEMMA FindExpiredKeepsIInv ==
  ASSUME IInv, DeskInv, NEW p \in Procs, FindExpired(p)
  PROVE  IInv'
<1>1. Backed(FreePlan(NoSub, "active"), bought')
  BY FreeIsBacked
<1>2. /\ Enter(p, "ensure", "job", NoEvent, FreePlan(NoSub, "active"), TRUE)
      /\ UNCHANGED <<stripe, inbox, plan, bought>>
  BY DEF FindExpired
<1>3. FramesInv'
  <2>1. "job" # "webhook"
    OBVIOUS
  <2>. QED
    BY <1>1, <1>2, <2>1, FrameEnters
<1>. QED
  BY <1>2, <1>3, Kept DEF IInv

LEMMA DoneKeeps ==
  ASSUME IInv, UNCHANGED bought, NEW p \in Procs, Done(p)
  PROVE  FramesInv' /\ InboxInv'
<1>1. FramesInv'
  BY FrameReturns DEF Done
<1>2. InboxInv'
  BY EventAnswered, Kept DEF Done
<1>. QED
  BY <1>1, <1>2

LEMMA FindCancelledKeepsIInv ==
  ASSUME IInv, DeskInv, NEW p \in Procs, FindCancelled(p)
  PROVE  IInv'
<1>1. UNCHANGED <<stripe, plan, bought>>
  BY DEF FindCancelled
<1>2. CASE Done(p)
  BY <1>1, <1>2, DoneKeeps, Kept DEF IInv
<1>3. CASE ~ Done(p)
  <2> DEFINE next == FreePlan(plan.sub, "canceled")
  <2>1. /\ frame' = [frame EXCEPT ![p].pc = "ensure", ![p].next = next]
        /\ UNCHANGED inbox
    BY <1>3 DEF FindCancelled
  <2>2. Backed(next, bought')
    BY FreeIsBacked
  <2>3. FramesInv'
    BY <1>1, <2>1, <2>2, FrameContinues
  <2>. QED
    BY <1>1, <2>1, <2>3, Kept DEF IInv
<1>. QED
  BY <1>2, <1>3

LEMMA SeenIsBought ==
  ASSUME IInv, DeskInv, NEW p \in Procs, ~ NeedsNew(frame[p].seen)
  PROVE  frame[p].seen.sub \in Subs
<1>1. Backed(frame[p].seen, bought)
  BY DEF IInv, FramesInv, GoodFrame
<1>. QED
  BY <1>1 DEF NeedsNew, Backed, DeskInv

LEMMA CallUpdateKeepsIInv ==
  ASSUME IInv, DeskInv, NEW p \in Procs, CallUpdate(p)
  PROVE  IInv'
<1> DEFINE name == frame[p].next.name
<1>1. UNCHANGED <<inbox, plan>>
  BY DEF CallUpdate
<1>2. CASE CreateSubscription(p)
  <2> DEFINE sub == Opened(name, TRUE)
             next == PlanFor(name, NextSub, sub.from, sub.to, "active")
  <2>1. /\ bought \subseteq bought' /\ <<NextSub, name>> \in bought'
        /\ stripe' = [stripe EXCEPT ![NextSub] = sub]
        /\ frame' = [frame EXCEPT ![p].pc = "ensure", ![p].next = next]
    BY <1>2 DEF CreateSubscription
  <2>2. Backed(next, bought')
    BY <2>1, PlanUsageAssumption DEF DeskInv, Backed, Timely, PlanFor, Opened
  <2>3. FramesInv'
    BY <2>1, <2>2, FrameContinues
  <2>4. StripeInv'
    BY <2>1, OpenedIsGood, SubscriptionMoves DEF DeskInv
  <2>. QED
    BY <1>1, <2>1, <2>3, <2>4, Kept DEF IInv
<1>3. ASSUME NEW s \in Subs, ChangeSubscription(p, s) PROVE IInv'
  <2> DEFINE sub == [stripe[s] EXCEPT !.name = name, !.state = "active", !.tagged = TRUE]
             next == PlanFor(name, s, stripe[s].from, stripe[s].to, "active")
  <2>1. /\ bought \subseteq bought' /\ <<s, name>> \in bought'
        /\ stripe' = [stripe EXCEPT ![s].name = name, ![s].state = "active",
                                    ![s].tagged = TRUE]
        /\ frame' = [frame EXCEPT ![p].pc = "ensure", ![p].next = next]
    BY <1>3 DEF ChangeSubscription
  <2>2. Backed(next, bought')
    <3>1. Timely(stripe[s])
      BY DEF IInv, StripeInv, GoodSubscription
    <3>. QED
      BY <2>1, <3>1 DEF Backed, Timely, PlanFor
  <2>3. FramesInv'
    BY <2>1, <2>2, FrameContinues
  <2>4. StripeInv'
    <3>1. stripe' = [stripe EXCEPT ![s] = sub]
      BY <2>1 DEF IInv, StripeInv
    <3>2. s \in Subs => GoodSubscription(s, sub, bought')
      BY <2>1, SubscriptionRenamed DEF IInv, StripeInv
    <3>. QED
      BY <2>1, <3>1, <3>2, SubscriptionMoves
  <2>. QED
    BY <1>1, <2>1, <2>3, <2>4, Kept DEF IInv
<1>4. CASE Return(p) /\ UNCHANGED <<stripe, bought>>
  BY <1>1, <1>4, FrameReturns, Kept DEF IInv
<1>5. ~ NeedsNew(frame[p].seen) => frame[p].seen.sub \in Subs
  BY SeenIsBought
<1>. QED
  BY <1>2, <1>3, <1>4, <1>5 DEF CallUpdate

LEMMA CallCancelKeepsIInv ==
  ASSUME IInv, DeskInv, NEW p \in Procs, CallCancel(p)
  PROVE  IInv'
<1> DEFINE seen == frame[p].seen
           sub == stripe[seen.sub]
           new == [sub EXCEPT !.state = "leaving", !.tagged = TRUE]
           next == PlanFor(seen.name, seen.sub, sub.from, sub.to,
                           "active_until_period_end")
<1>1. UNCHANGED <<inbox, plan, bought>>
  BY DEF CallCancel
<1>2. CASE Return(p) /\ UNCHANGED stripe
  BY <1>1, <1>2, FrameReturns, Kept DEF IInv
<1>3. CASE ~ (Return(p) /\ UNCHANGED stripe)
  <2>1. /\ stripe' = [stripe EXCEPT ![seen.sub].state = "leaving",
                                    ![seen.sub].tagged = TRUE]
        /\ frame' = [frame EXCEPT ![p].pc = "ensureOnly", ![p].next = next]
    BY <1>3 DEF CallCancel
  <2>2. Backed(next, bought')
    <3>1. Backed(seen, bought) /\ seen.sub \in Subs
      BY DEF Backed, IInv, FramesInv, GoodFrame, DeskInv, AskedApt, CallCancel
    <3>2. Timely(sub)
      BY <3>1 DEF IInv, StripeInv, GoodSubscription
    <3>. QED
      BY <1>1, <3>1, <3>2 DEF Backed, Timely, PlanFor
  <2>3. FramesInv'
    BY <1>1, <2>1, <2>2, FrameContinues
  <2>4. StripeInv'
    <3>1. stripe' = [stripe EXCEPT ![seen.sub] = new]
      BY <2>1 DEF IInv, StripeInv
    <3>2. seen.sub \in Subs => GoodSubscription(seen.sub, new, bought')
      BY <1>1, SubscriptionKept DEF IInv, StripeInv
    <3>. QED
      BY <1>1, <3>1, <3>2, SubscriptionMoves
  <2>. QED
    BY <1>1, <2>3, <2>4, Kept DEF IInv
<1>. QED
  BY <1>2, <1>3

LEMMA EnsurePlanKeepsIInv == ASSUME IInv, NEW p \in Procs, EnsurePlan(p) PROVE IInv'
<1> DEFINE g == [frame[p] EXCEPT !.pc = IF @ = "ensure" THEN "read" ELSE "sync"]
<1>1. UNCHANGED <<stripe, inbox, bought>>
  BY DEF EnsurePlan
<1>2. PlanInv'
  BY <1>1 DEF EnsurePlan, IInv, FramesInv, GoodFrame, PlanInv, Backed
<1>3. FramesInv'
  <2>1. PICK T : frame[p] \in Frames(T)
    BY DEF IInv, FramesInv, GoodFrame
  <2>2. frame[p] \in Frames(T \cup {"read", "sync"})
    BY <2>1 DEF Frames
  <2>3. g \in Frames(T \cup {"read", "sync"})
    BY <2>2 DEF Frames
  <2>4. /\ g.pc \in {"read", "sync"} /\ g.seen = frame[p].seen
        /\ g.type = frame[p].type /\ g.event = frame[p].event
    BY <2>1 DEF Frames
  <2>5. g.pc \notin {"ensure", "ensureOnly"}
    BY <2>4
  <2>6. frame' = [frame EXCEPT ![p] = g]
    BY DEF EnsurePlan, IInv, FramesInv
  <2>. QED
    BY <1>1, <2>3, <2>4, <2>5, <2>6, FrameNotes
<1>. QED
  BY <1>1, <1>2, <1>3, Kept DEF IInv

LEMMA ResetReadKeepsIInv == ASSUME IInv, NEW p \in Procs, ResetRead(p) PROVE IInv'
<1>1. UNCHANGED <<stripe, inbox, plan, bought>>
  BY DEF ResetRead
<1>2. PICK used, last :
        frame' = [frame EXCEPT ![p].pc = "write", ![p].row = last, ![p].used = used]
  BY DEF ResetRead
<1> DEFINE g == [frame[p] EXCEPT !.pc = "write", !.row = last, !.used = used]
<1>3. FramesInv'
  <2>1. PICK T : frame[p] \in Frames(T)
    BY DEF IInv, FramesInv, GoodFrame
  <2> DEFINE U == T \cup {"write", last, used}
  <2>2. frame[p] \in Frames(U)
    BY <2>1 DEF Frames
  <2>3. g \in Frames(U)
    BY <2>2 DEF Frames
  <2>4. /\ g.pc = "write" /\ g.seen = frame[p].seen
        /\ g.type = frame[p].type /\ g.event = frame[p].event
    BY <2>1 DEF Frames
  <2>5. g.pc \notin {"ensure", "ensureOnly"}
    BY <2>4
  <2>6. frame' = [frame EXCEPT ![p] = g]
    BY <1>2 DEF IInv, FramesInv
  <2>. QED
    BY <1>1, <2>3, <2>4, <2>5, <2>6, FrameNotes
<1>. QED
  BY <1>1, <1>3, Kept DEF IInv

LEMMA ResetWriteKeepsIInv == ASSUME IInv, NEW p \in Procs, ResetWrite(p) PROVE IInv'
<1>1. UNCHANGED <<stripe, plan, bought>>
  BY DEF ResetWrite
<1>2. CASE Return(p) /\ UNCHANGED inbox
  BY <1>1, <1>2, FrameReturns, Kept DEF IInv
<1>3. CASE Done(p)
  BY <1>1, <1>3, DoneKeeps, Kept DEF IInv
<1>4. CASE frame' = [frame EXCEPT ![p].pc = "sync"] /\ UNCHANGED inbox
  <2> DEFINE g == [frame[p] EXCEPT !.pc = "sync"]
  <2>1. PICK T : frame[p] \in Frames(T)
    BY DEF IInv, FramesInv, GoodFrame
  <2>2. frame[p] \in Frames(T \cup {"sync"})
    BY <2>1 DEF Frames
  <2>3. g \in Frames(T \cup {"sync"})
    BY <2>2 DEF Frames
  <2>4. /\ g.pc = "sync" /\ g.seen = frame[p].seen
        /\ g.type = frame[p].type /\ g.event = frame[p].event
    BY <2>1 DEF Frames
  <2>5. g.pc \notin {"ensure", "ensureOnly"}
    BY <2>4
  <2>6. frame' = [frame EXCEPT ![p] = g]
    BY <1>4 DEF IInv, FramesInv
  <2>7. FramesInv'
    BY <1>1, <2>3, <2>4, <2>5, <2>6, FrameNotes
  <2>. QED
    BY <1>1, <1>4, <2>7, Kept DEF IInv
<1>. QED
  BY <1>2, <1>3, <1>4 DEF ResetWrite, AfterReset

LEMMA SyncCustomerKeepsIInv == ASSUME IInv, NEW p \in Procs, SyncCustomer(p) PROVE IInv'
<1>1. Done(p) /\ UNCHANGED <<stripe, plan, bought>>
  BY DEF SyncCustomer
<1>. QED
  BY <1>1, DoneKeeps, Kept DEF IInv

LEMMA CrashKeepsIInv == IInv /\ Crash => IInv'
<1> SUFFICES ASSUME IInv, Crash PROVE IInv'
  OBVIOUS
<1>1. frame' = [p \in Procs |-> Idle] /\ UNCHANGED <<stripe, inbox, plan, bought>>
  BY DEF Crash
<1>2. GoodFrame(Idle, bought')
  <2>1. Idle \in Frames({"idle", "none", NoEvent, Idle.seen, TRUE, 0})
    BY DEF Frames, Idle
  <2>. QED
    BY <2>1, IdleIsBacked DEF GoodFrame, Idle
<1>3. FramesInv'
  BY <1>1, <1>2 DEF FramesInv
<1>. QED
  BY <1>1, <1>3, Kept DEF IInv

\* Steps that touch none of it.
LEMMA OthersKeepIInv ==
  ASSUME IInv, UNCHANGED <<frame, stripe, inbox, plan, bought>>
  PROVE  IInv'
  BY Kept DEF IInv

LEMMA NextKeepsIInv == IInv /\ DeskInv /\ [Next]_vars => IInv'
<1> SUFFICES ASSUME IInv, DeskInv, [Next]_vars PROVE IInv'
  OBVIOUS
<1>1. CASE Tick
  BY <1>1, OthersKeepIInv DEF Tick
<1>2. CASE StripeMoves
  BY <1>2, StripeKeepsIInv
<1>3. CASE Crash
  BY <1>3, CrashKeepsIInv
<1>4. ASSUME NEW p \in Procs, Deliver(p) \/ Request(p) \/ FindExpired(p) PROVE IInv'
  BY <1>4, DeliverKeepsIInv, RequestKeepsIInv, FindExpiredKeepsIInv
<1>5. ASSUME NEW p \in Procs, FrameStep(p) PROVE IInv'
  BY <1>5, FindCancelledKeepsIInv, CallUpdateKeepsIInv, CallCancelKeepsIInv,
     EnsurePlanKeepsIInv, ResetReadKeepsIInv, ResetWriteKeepsIInv, SyncCustomerKeepsIInv
     DEF FrameStep
<1>6. ASSUME NEW c \in Connectors, ConnStart(c) \/ ConnStep(c) PROVE IInv'
  <2>1. UNCHANGED <<frame, stripe, inbox, plan, bought>>
    BY <1>6 DEF ConnStart, ConnStep, EnsureAccountLimit, DeleteAccount, SaveAccount,
       AdjustUsage, UpdateUserPlanUsage
  <2>. QED
    BY <2>1, OthersKeepIInv
<1>7. CASE UNCHANGED vars
  BY <1>7, OthersKeepIInv DEF vars
<1>. QED
  BY <1>1, <1>2, <1>3, <1>4, <1>5, <1>6, <1>7 DEF Next

LEMMA InitIInv == Init => IInv
<1> SUFFICES ASSUME Init PROVE IInv
  OBVIOUS
<1>1. FramesInv
  <2>1. GoodFrame(Idle, bought)
    <3>1. Idle \in Frames({"idle", "none", NoEvent, Idle.seen, TRUE, 0})
      BY DEF Frames, Idle
    <3>. QED
      BY <3>1, IdleIsBacked DEF GoodFrame, Idle
  <2>. QED
    BY <2>1 DEF Init, FramesInv
<1>2. StripeInv
  <2>1. NoSubscription \in Subscriptions({"none", "FREE", 0})
    BY DEF NoSubscription, Subscriptions
  <2>2. \A s : GoodSubscription(s, NoSubscription, bought)
    BY <2>1 DEF GoodSubscription, NoSubscription, Timely
  <2>. QED
    BY <2>2 DEF Init, StripeInv
<1>3. InboxInv
  <2>1. inbox \in Seq({}) /\ Len(inbox) = 0
    BY DEF Init
  <2>. QED
    BY <2>1 DEF InboxInv
<1>4. PlanInv
  BY PlanUsageAssumption DEF Init, PlanInv, Backed, Timely, FreePlan, PlanFor
<1>. QED
  BY <1>1, <1>2, <1>3, <1>4 DEF IInv

-----------------------------------------------------------------------------
(* When events come in order and nothing overlaps, the row follows Stripe.  *)
(* Every part says of which rows, subscriptions and times it speaks, so     *)
(* that it can be asked of a state and of the next.                         *)

InOrder == faults \cap {"overlap", "late", "second"} = {} /\ crashed # "cut"

LiveIn(subs) == {s \in Subs : subs[s].state \in {"active", "leaving"}}

DueIn(subs, t) == {s \in LiveIn(subs) : subs[s].to <= t}

\* At most one subscription is live.
OneLive(subs) ==
    /\ \A s, t \in LiveIn(subs) : s = t
    /\ \A s \in LiveIn(subs) : subs[s].name \in Paid /\ subs[s].to \in Int

\* The row is what Stripe says, and does not end before Stripe's period.
Follows(row, subs) ==
    \/ LiveIn(subs) = {} /\ row.name = "FREE"
    \/ \E s \in LiveIn(subs) :
          /\ row.sub = s /\ row.name = subs[s].name /\ row.billing # "canceled"
          /\ row.to \in Int /\ subs[s].to <= row.to

\* processExpiredPlans may come before Stripe's renewal.
FollowsSoon(row, subs, t) ==
    Follows(row, subs) \/ (row.name = "FREE" /\ DueIn(subs, t) # {})

\* What an event says has not changed since it was sent; and the row has a paid
\* plan only from the subscription that ended.
EventApt(e, row, subs, t) ==
    /\ e.type = "deleted" => LiveIn(subs) = {} /\ (row.name # "FREE" => row.sub = e.sub)
    /\ e.type # "deleted" => e.sub \in LiveIn(subs) /\ e.name = subs[e.sub].name
    /\ e.type = "paid" => e.to = subs[e.sub].to
    /\ e.type = "upcoming" => subs[e.sub].to <= t + Trial

Writing == {"ensure", "ensureOnly"}
Written == {"read", "write", "sync"}

\* A webhook, a request or the job f that runs, alone, with these events, this
\* row, these subscriptions at the time t.
WebhookApt(f, queue, row, subs) ==
    /\ queue # <<>> /\ f.event = queue[1]
    /\ \/ f.pc = "find" /\ f.event.type = "deleted"
       \/ f.pc = "ensure" /\ Follows(f.next, subs)
       \/ f.pc \in Written /\ Follows(row, subs)

RequestApt(f, queue, row, subs) ==
    /\ queue = <<>>
    /\ \/ f.pc = "update" /\ f.next.name \in Paid /\ f.seen = row /\ Follows(row, subs)
       \/ f.pc = "cancel" /\ row.name # "FREE" /\ f.seen = row /\ Follows(row, subs)
       \/ f.pc \in Writing /\ Follows(f.next, subs)
       \/ f.pc \in Written /\ Follows(row, subs)

JobApt(f, queue, row, subs, t) ==
    /\ f.pc \in {"ensure", "read", "write"}
    /\ queue = <<>> => FollowsSoon(row, subs, t)
    /\ f.pc = "ensure" => f.next.name = "FREE" /\ (queue = <<>> => DueIn(subs, t) # {})

FrameApt(f, queue, row, subs, t) ==
    /\ f.pc \in Writing => IsRow(f.next)
    /\ \/ f.type = "webhook" /\ WebhookApt(f, queue, row, subs)
       \/ f.type = "request" /\ RequestApt(f, queue, row, subs)
       \/ f.type = "job" /\ JobApt(f, queue, row, subs, t)

QueueApt(queue, row, subs, t) ==
    queue # <<>> => Len(queue) = 1 /\ EventApt(queue[1], row, subs, t)

FollowInv ==
    /\ now \in Int /\ IsRow(plan) /\ OneLive(stripe)
    /\ QueueApt(inbox, plan, stripe, now)
    /\ \A p, q \in Procs : frame[p].pc # "idle" /\ frame[q].pc # "idle" => p = q
    /\ \A p \in Procs : frame[p].pc # "idle" => FrameApt(frame[p], inbox, plan, stripe, now)
    /\ ProcsIdle /\ inbox = <<>> => FollowsSoon(plan, stripe, now)

\* A frame enters, goes on or returns while the others are idle.
LEMMA TurnTaken ==
  ASSUME FollowInv, NEW p \in Procs, frame[p].pc # "idle" \/ ProcsIdle, Only(p),
         now' \in Int, IsRow(plan'), OneLive(stripe'), QueueApt(inbox', plan', stripe', now'),
         IF frame'[p].pc = "idle"
         THEN inbox' = <<>> => FollowsSoon(plan', stripe', now')
         ELSE FrameApt(frame'[p], inbox', plan', stripe', now')
  PROVE  FollowInv'
<1>1. \A q \in Procs : q # p => frame'[q].pc = "idle"
  BY DEF FollowInv, Only, ProcsIdle
<1>2. \A q, r \in Procs : frame'[q].pc # "idle" /\ frame'[r].pc # "idle" => q = r
  BY <1>1
<1>3. \A q \in Procs : frame'[q].pc # "idle" =>
          FrameApt(frame'[q], inbox', plan', stripe', now')
  BY <1>1
<1>4. ProcsIdle' => frame'[p].pc = "idle"
  BY DEF ProcsIdle
<1>. QED
  BY <1>2, <1>3, <1>4 DEF FollowInv

\* What a step does to p's frame.
LEMMA EnterEffect ==
  ASSUME IInv, NEW p \in Procs, NEW pc, NEW type, NEW e, NEW next, NEW keep,
         Enter(p, pc, type, e, next, keep)
  PROVE  /\ Only(p) /\ frame'[p].pc = pc /\ frame'[p].type = type
         /\ frame'[p].event = e /\ frame'[p].next = next /\ frame'[p].seen = plan
         /\ frame'[p].keep = keep
<1> DEFINE f == [pc |-> pc, type |-> type, event |-> e, seen |-> plan,
                 next |-> next, keep |-> keep, row |-> 0, used |-> 0]
<1>1. frame' = [frame EXCEPT ![p] = f]
  BY DEF Enter
<1>2. Only(p) /\ frame'[p] = f
  BY <1>1 DEF Only, IInv, FramesInv
<1>. QED
  BY <1>2

LEMMA ReturnEffect ==
  ASSUME IInv, NEW p \in Procs, Return(p)
  PROVE  Only(p) /\ frame'[p].pc = "idle"
<1>1. Only(p) /\ frame'[p] = Idle
  BY DEF Return, Only, IInv, FramesInv
<1>. QED
  BY <1>1 DEF Idle

\* A step that says how far the frame is and what it will write.
Continues(p, pc, next) ==
    /\ Only(p) /\ frame'[p].pc = pc /\ frame'[p].next = next
    /\ frame'[p].type = frame[p].type /\ frame'[p].event = frame[p].event
    /\ frame'[p].keep = frame[p].keep

LEMMA ContinueEffect ==
  ASSUME IInv, NEW p \in Procs, NEW pc, NEW next,
         frame' = [frame EXCEPT ![p].pc = pc, ![p].next = next]
  PROVE  Continues(p, pc, next)
<1>1. PICK T : frame[p] \in Frames(T)
  BY DEF IInv, FramesInv, GoodFrame
<1> DEFINE g == [frame[p] EXCEPT !.pc = pc, !.next = next]
<1>2. Only(p) /\ frame'[p] = g
  BY DEF Only, IInv, FramesInv
<1>3. /\ g.pc = pc /\ g.next = next
      /\ g.type = frame[p].type /\ g.event = frame[p].event
      /\ g.keep = frame[p].keep
  BY <1>1 DEF Frames
<1>. QED
  BY <1>2, <1>3 DEF Continues

\* A step that only says how far the frame is, and what its reset will write.
Moves(p, pc) ==
    /\ Only(p) /\ frame'[p].pc = pc
    /\ frame'[p].type = frame[p].type /\ frame'[p].event = frame[p].event
    /\ frame'[p].next = frame[p].next /\ frame'[p].keep = frame[p].keep

LEMMA MoveEffect ==
  ASSUME IInv, NEW p \in Procs, NEW pc, frame' = [frame EXCEPT ![p].pc = pc]
  PROVE  Moves(p, pc)
<1>1. PICK T : frame[p] \in Frames(T)
  BY DEF IInv, FramesInv, GoodFrame
<1> DEFINE g == [frame[p] EXCEPT !.pc = pc]
<1>2. Only(p) /\ frame'[p] = g
  BY DEF Only, IInv, FramesInv
<1>3. /\ g.pc = pc /\ g.type = frame[p].type /\ g.event = frame[p].event
      /\ g.next = frame[p].next /\ g.keep = frame[p].keep
  BY <1>1 DEF Frames
<1>. QED
  BY <1>2, <1>3 DEF Moves

LEMMA ReadEffect ==
  ASSUME IInv, NEW p \in Procs, NEW row, NEW used,
         frame' = [frame EXCEPT ![p].pc = "write", ![p].row = row, ![p].used = used]
  PROVE  Moves(p, "write") /\ frame'[p].row = row /\ frame'[p].used = used
<1>1. PICK T : frame[p] \in Frames(T)
  BY DEF IInv, FramesInv, GoodFrame
<1> DEFINE g == [frame[p] EXCEPT !.pc = "write", !.row = row, !.used = used]
<1>2. Only(p) /\ frame'[p] = g
  BY DEF Only, IInv, FramesInv
<1>3. /\ g.pc = "write" /\ g.type = frame[p].type /\ g.event = frame[p].event
      /\ g.next = frame[p].next /\ g.keep = frame[p].keep
      /\ g.row = row /\ g.used = used
  BY <1>1 DEF Frames
<1>. QED
  BY <1>2, <1>3 DEF Moves

\* What a change of one subscription does to those that are live.
LEMMA LiveMoves ==
  ASSUME IInv, NEW s \in Subs, NEW sub, stripe' = [stripe EXCEPT ![s] = sub]
  PROVE  /\ stripe'[s] = sub /\ \A t \in Subs : t # s => stripe'[t] = stripe[t]
         /\ LiveIn(stripe') = IF sub.state \in {"active", "leaving"}
                              THEN LiveIn(stripe) \cup {s} ELSE LiveIn(stripe) \ {s}
<1>1. stripe'[s] = sub /\ \A t \in Subs : t # s => stripe'[t] = stripe[t]
  BY DEF IInv, StripeInv
<1>. QED
  BY <1>1 DEF LiveIn

\* Nothing else runs when something starts, and there are no events when
\* Stripe moves.
LEMMA InOrderRests ==
  ASSUME InOrder
  PROVE  /\ \A p \in Procs : CanStart(p) => ProcsIdle
         /\ Settled => ProcsIdle /\ inbox = <<>>
         /\ Prompt => inbox = <<>> /\ \A s \in Subs : ~ Due(s)
  BY DEF InOrder, CanStart, Rest, Settled, Prompt

LEMMA DueIsDue == \A s \in Subs : Due(s) <=> s \in DueIn(stripe, now)
  BY DEF Due, DueIn, LiveIn

LEMMA NotDue ==
  ASSUME FollowsSoon(plan, stripe, now), \A s \in Subs : ~ Due(s)
  PROVE  Follows(plan, stripe)
<1>1. DueIn(stripe, now) = {}
  BY DueIsDue DEF DueIn, LiveIn
<1>. QED
  BY <1>1 DEF FollowsSoon
-----------------------------------------------------------------------------
(* What is asked for at the desk *)

LEMMA ScenarioStays == [Next]_vars => UNCHANGED faults /\ (~ Crash => UNCHANGED crashed)
<1> SUFFICES ASSUME [Next]_vars PROVE UNCHANGED faults /\ (~ Crash => UNCHANGED crashed)
  OBVIOUS
<1>1. CASE Crash
  BY <1>1 DEF Crash
<1>2. CASE ~ Crash
  <2> DEFINE rest == UNCHANGED <<faults, crashed>>
  <2>1. ASSUME Tick \/ StripeMoves PROVE rest
    <3>1. ASSUME NEW t, NEW s, NEW sub, Send(t, s, sub) PROVE rest
      BY <3>1 DEF Send
    <3>2. ASSUME NEW name, Checkout(name) PROVE rest
      BY <3>1, <3>2, Zenon DEF Checkout
    <3>3. ASSUME NEW s, StripeRenews(s) PROVE rest
      BY <3>1, <3>3, Zenon DEF StripeRenews
    <3>4. ASSUME NEW s, StripeAnnounces(s) PROVE rest
      BY <3>1, <3>4, Zenon DEF StripeAnnounces
    <3>5. ASSUME NEW s, StripeEnds(s) PROVE rest
      BY <3>1, <3>5, Zenon DEF StripeEnds
    <3>. QED
      BY <2>1, <3>2, <3>3, <3>4, <3>5 DEF Tick, StripeMoves
  <2>2. ASSUME NEW p \in Procs, Deliver(p) PROVE rest
    BY <2>2 DEF Deliver, DeliverCheckout, DeliverPaid, DeliverUpcoming, DeliverDeleted
  <2>3. ASSUME NEW p \in Procs, Request(p) \/ FindExpired(p) PROVE rest
    BY <2>3 DEF Request, StartUpdate, StartCancel, FindExpired
  <2>4. ASSUME NEW p \in Procs, FrameStep(p) PROVE rest
    BY <2>4 DEF FrameStep, FindCancelled, CallUpdate, CallCancel, EnsurePlan, ResetRead,
       ResetWrite, SyncCustomer
  <2>5. ASSUME NEW c \in Connectors, ConnStart(c) \/ ConnStep(c) PROVE rest
    BY <2>5 DEF ConnStart, ConnStep, EnsureAccountLimit, DeleteAccount, SaveAccount,
       AdjustUsage, UpdateUserPlanUsage
  <2>6. ASSUME UNCHANGED vars PROVE rest
    BY <2>6 DEF vars
  <2>7. rest
    BY <1>2, <2>1, <2>2, <2>3, <2>4, <2>5, <2>6 DEF Next
  <2>. QED
    BY <2>7
<1>. QED
  BY <1>1, <1>2

LEMMA PlanForIsRow ==
  \A name, sub, from, to, billing : IsRow(PlanFor(name, sub, from, to, billing))
  BY DEF IsRow, PlanFor

LEMMA FreePlanIsRow == \A sub, billing : IsRow(FreePlan(sub, billing))
  BY PlanForIsRow DEF FreePlan

\* What a step does to the frame p, the clock, the row and the purchases.
LEMMA DeskMoves ==
  ASSUME DeskInv, UNCHANGED faults, now' \in Int, IsRow(plan'),
         bought' \subseteq Subs \X OnOffer,
         UNCHANGED frame \/ \E p \in Procs : Only(p) /\ AskedApt(frame'[p])
  PROVE  DeskInv'
<1>1. OnOffer' = OnOffer
  BY DEF OnOffer
<1>2. \A q \in Procs : AskedApt(frame'[q])
  BY DEF Only, DeskInv
<1>3. \A q \in Procs : AskedApt(frame[q])'
  BY <1>1, <1>2 DEF AskedApt
<1>. QED
  BY <1>1, <1>3 DEF DeskInv

LEMMA DeskStays ==
  ASSUME DeskInv, UNCHANGED <<faults, now, plan, bought>>,
         UNCHANGED frame \/ \E p \in Procs : Only(p) /\ AskedApt(frame'[p])
  PROVE  DeskInv'
  BY DeskMoves DEF DeskInv

LEMMA StripeKeepsDesk == ASSUME DeskInv, Tick \/ StripeMoves PROVE DeskInv'
<1>1. CASE Tick
  BY <1>1, DeskMoves DEF Tick, DeskInv
<1>2. ASSUME NEW t, NEW s, NEW sub, Send(t, s, sub) PROVE UNCHANGED <<faults, now, plan, frame>>
  BY <1>2 DEF Send
<1>3. ASSUME NEW name \in Paid, Checkout(name) PROVE DeskInv'
  <2>1. NextSub \in Subs /\ name \in OnOffer
    BY <1>3 DEF Checkout, NextSub, Unopened
  <2>2. bought' = bought \cup {<<NextSub, name>>}
    BY <1>3 DEF Checkout
  <2>3. UNCHANGED <<faults, now, plan, frame>>
    BY <1>2, <1>3, Zenon DEF Checkout
  <2>. QED
    BY <2>1, <2>2, <2>3, DeskMoves DEF DeskInv
<1>4. ASSUME NEW s, StripeRenews(s) \/ StripeAnnounces(s) \/ StripeEnds(s) PROVE DeskInv'
  <2>1. UNCHANGED <<faults, now, plan, frame>>
    BY <1>2, <1>4, Zenon DEF StripeRenews, StripeAnnounces, StripeEnds
  <2>2. UNCHANGED bought
    BY <1>4 DEF StripeRenews, StripeAnnounces, StripeEnds
  <2>. QED
    BY <2>1, <2>2, DeskStays
<1>. QED
  BY <1>1, <1>3, <1>4 DEF StripeMoves

LEMMA StartKeepsDesk ==
  ASSUME IInv, DeskInv, NEW p \in Procs, Deliver(p) \/ Request(p) \/ FindExpired(p)
  PROVE  DeskInv'
<1>0. ASSUME NEW pc, NEW type, NEW e, NEW next, NEW keep, Enter(p, pc, type, e, next, keep),
             pc \in {"ensure", "find"}, pc = "ensure" => IsRow(next)
      PROVE  Only(p) /\ AskedApt(frame'[p])
  <2>1. Only(p) /\ frame'[p].pc = pc /\ frame'[p].next = next
    BY <1>0, EnterEffect
  <2>. QED
    BY <1>0, <2>1 DEF AskedApt
<1>1. CASE Deliver(p)
  <2>1. PICK i \in 1 .. Len(inbox) :
          \/ DeliverCheckout(p, i) \/ DeliverPaid(p, i) \/ DeliverUpcoming(p, i)
          \/ DeliverDeleted(p, i)
    BY <1>1 DEF Deliver
  <2>2. UNCHANGED <<faults, now, plan, bought>>
    BY <2>1 DEF DeliverCheckout, DeliverPaid, DeliverUpcoming, DeliverDeleted
  <2>3. CASE DeliverCheckout(p, i)
    BY <1>0, <2>2, <2>3, PlanForIsRow, DeskStays DEF DeliverCheckout
  <2>4. CASE DeliverPaid(p, i)
    BY <1>0, <2>2, <2>4, PlanForIsRow, DeskStays DEF DeliverPaid
  <2>5. CASE DeliverUpcoming(p, i)
    BY <1>0, <2>2, <2>5, PlanForIsRow, DeskStays DEF DeliverUpcoming
  <2>6. CASE DeliverDeleted(p, i)
    <3>1. Enter(p, "find", "webhook", inbox[i], plan, TRUE)
      BY <2>6 DEF DeliverDeleted
    <3>2. Only(p) /\ frame'[p].pc = "find"
      BY <3>1, EnterEffect
    <3>3. AskedApt(frame'[p])
      BY <3>2 DEF AskedApt
    <3>. QED
      BY <2>2, <3>2, <3>3, DeskStays
  <2>. QED
    BY <2>1, <2>3, <2>4, <2>5, <2>6
<1>2. CASE Request(p)
  <2>1. PICK name : StartUpdate(p, name) \/ StartCancel(p)
    BY <1>2 DEF Request
  <2>2. UNCHANGED <<faults, now, plan, bought>>
    BY <2>1 DEF StartUpdate, StartCancel
  <2>3. CASE StartUpdate(p, name)
    <3> DEFINE next == [plan EXCEPT !.name = name]
    <3>1. Enter(p, "update", "request", NoEvent, next, TRUE) /\ name \in OnOffer
      BY <2>3 DEF StartUpdate
    <3>2. next.name = name
      BY DEF DeskInv, IsRow, PlanFor
    <3> HIDE DEF next
    <3>3. Only(p) /\ frame'[p].pc = "update" /\ frame'[p].next = next
      BY <3>1, EnterEffect
    <3>4. AskedApt(frame'[p])
      BY <3>1, <3>2, <3>3 DEF AskedApt
    <3>. QED
      BY <2>2, <3>3, <3>4, DeskStays
  <2>4. CASE StartCancel(p)
    <3>1. Enter(p, "cancel", "request", NoEvent, plan, TRUE) /\ plan.name # "FREE"
      BY <2>4 DEF StartCancel
    <3>2. Only(p) /\ frame'[p].pc = "cancel" /\ frame'[p].seen = plan
      BY <3>1, EnterEffect
    <3>3. AskedApt(frame'[p])
      BY <3>1, <3>2 DEF AskedApt
    <3>. QED
      BY <2>2, <3>2, <3>3, DeskStays
  <2>. QED
    BY <2>1, <2>3, <2>4
<1>3. CASE FindExpired(p)
  <2>1. /\ Enter(p, "ensure", "job", NoEvent, FreePlan(NoSub, "active"), TRUE)
        /\ UNCHANGED <<faults, now, plan, bought>>
    BY <1>3 DEF FindExpired
  <2>2. Only(p) /\ AskedApt(frame'[p])
    BY <1>0, <2>1, FreePlanIsRow
  <2>. QED
    BY <2>1, <2>2, DeskStays
<1>. QED
  BY <1>1, <1>2, <1>3

LEMMA FrameKeepsDesk ==
  ASSUME IInv, DeskInv, NEW p \in Procs, FrameStep(p)
  PROVE  DeskInv'
<1>1. ASSUME Return(p) PROVE Only(p) /\ AskedApt(frame'[p])
  <2>1. Only(p) /\ frame'[p].pc = "idle"
    BY <1>1, ReturnEffect
  <2>. QED
    BY <2>1 DEF AskedApt
<1>2. ASSUME NEW pc \in {"ensure", "ensureOnly"}, NEW next, IsRow(next),
             frame' = [frame EXCEPT ![p].pc = pc, ![p].next = next]
      PROVE  Only(p) /\ AskedApt(frame'[p])
  <2>1. Continues(p, pc, next)
    BY <1>2, ContinueEffect, Zenon
  <2>. QED
    BY <1>2, <2>1 DEF Continues, AskedApt
<1>3. ASSUME NEW pc \in {"read", "write", "sync"}, Moves(p, pc)
      PROVE  Only(p) /\ AskedApt(frame'[p])
  BY <1>3 DEF Moves, AskedApt
<1>4. CASE FindCancelled(p)
  <2>1. UNCHANGED <<faults, now, plan, bought>>
    BY <1>4 DEF FindCancelled
  <2>2. Return(p) \/ frame' = [frame EXCEPT ![p].pc = "ensure",
                                            ![p].next = FreePlan(plan.sub, "canceled")]
    BY <1>4 DEF FindCancelled, Done
  <2>3. Only(p) /\ AskedApt(frame'[p])
    BY <1>1, <1>2, <2>2, FreePlanIsRow
  <2>. QED
    BY <2>1, <2>3, DeskStays
<1>5. CASE CallUpdate(p)
  <2> DEFINE name == frame[p].next.name
  <2>1. frame[p].pc = "update" /\ UNCHANGED <<faults, now, plan>>
    BY <1>5 DEF CallUpdate
  <2>2. name \in OnOffer
    BY <2>1 DEF DeskInv, AskedApt
  <2>3. ASSUME NEW s \in Subs, NEW next, IsRow(next),
               bought' = bought \cup {<<s, name>>},
               frame' = [frame EXCEPT ![p].pc = "ensure", ![p].next = next]
        PROVE  DeskInv'
    <3>1. Only(p) /\ AskedApt(frame'[p])
      BY <1>2, <2>3
    <3>2. bought' \subseteq Subs \X OnOffer
      BY <2>2, <2>3 DEF DeskInv
    <3>. QED
      BY <2>1, <3>1, <3>2, DeskMoves DEF DeskInv
  <2>4. CASE CreateSubscription(p)
    <3>1. NextSub \in Subs
      BY <2>4 DEF CreateSubscription, NextSub, Unopened
    <3>. QED
      BY <2>3, <2>4, <3>1, PlanForIsRow DEF CreateSubscription
  <2>5. ASSUME NEW s \in Subs, ChangeSubscription(p, s) PROVE DeskInv'
    BY <2>3, <2>5, PlanForIsRow DEF ChangeSubscription
  <2>6. CASE Return(p) /\ UNCHANGED bought
    BY <1>1, <2>1, <2>6, DeskStays
  <2>7. ~ NeedsNew(frame[p].seen) => frame[p].seen.sub \in Subs
    BY SeenIsBought
  <2>. QED
    BY <1>5, <2>4, <2>5, <2>6, <2>7 DEF CallUpdate
<1>6. CASE CallCancel(p)
  <2>1. UNCHANGED <<faults, now, plan, bought>>
    BY <1>6 DEF CallCancel
  <2>2. Only(p) /\ AskedApt(frame'[p])
    BY <1>1, <1>2, <1>6, PlanForIsRow DEF CallCancel
  <2>. QED
    BY <2>1, <2>2, DeskStays
<1>7. CASE EnsurePlan(p)
  <2> DEFINE pc == IF frame[p].pc = "ensure" THEN "read" ELSE "sync"
  <2>1. UNCHANGED <<faults, now, bought>> /\ IsRow(plan')
    BY <1>7 DEF EnsurePlan, DeskInv, AskedApt
  <2>2. frame' = [frame EXCEPT ![p].pc = pc] /\ pc \in {"read", "sync"}
    BY <1>7 DEF EnsurePlan, IInv, FramesInv
  <2> HIDE DEF pc
  <2>3. Only(p) /\ AskedApt(frame'[p])
    BY <1>3, <2>2, MoveEffect
  <2>. QED
    BY <2>1, <2>3, DeskMoves DEF DeskInv
<1>8. CASE ResetRead(p)
  <2>1. UNCHANGED <<faults, now, plan, bought>>
    BY <1>8 DEF ResetRead
  <2>2. PICK used, last :
          frame' = [frame EXCEPT ![p].pc = "write", ![p].row = last, ![p].used = used]
    BY <1>8 DEF ResetRead
  <2>3. Moves(p, "write")
    BY <2>2, ReadEffect, Zenon
  <2>. QED
    BY <1>3, <2>1, <2>3, DeskStays
<1>9. CASE ResetWrite(p) \/ SyncCustomer(p)
  <2>1. UNCHANGED <<faults, now, plan, bought>>
    BY <1>9 DEF ResetWrite, SyncCustomer
  <2>2. Return(p) \/ frame' = [frame EXCEPT ![p].pc = "sync"]
    BY <1>9 DEF ResetWrite, SyncCustomer, AfterReset, Done
  <2>3. Only(p) /\ AskedApt(frame'[p])
    BY <1>1, <1>3, <2>2, MoveEffect
  <2>. QED
    BY <2>1, <2>3, DeskStays
<1>. QED
  BY <1>4, <1>5, <1>6, <1>7, <1>8, <1>9 DEF FrameStep

LEMMA NextKeepsDesk == IInv /\ DeskInv /\ [Next]_vars => DeskInv'
<1> SUFFICES ASSUME IInv, DeskInv, [Next]_vars PROVE DeskInv'
  OBVIOUS
<1>1. CASE Crash
  <2>1. /\ frame' = [p \in Procs |-> Idle]
        /\ UNCHANGED <<faults, now, plan, bought>>
    BY <1>1 DEF Crash
  <2>2. \A p \in Procs : AskedApt(frame[p])'
    BY <2>1 DEF AskedApt, Idle
  <2>3. OnOffer' = OnOffer
    BY <2>1 DEF OnOffer
  <2>. QED
    BY <2>1, <2>2, <2>3 DEF DeskInv
<1>2. ASSUME NEW c \in Connectors, ConnStart(c) \/ ConnStep(c) PROVE DeskInv'
  <2>1. UNCHANGED <<faults, now, plan, frame, bought>>
    BY <1>2 DEF ConnStart, ConnStep, EnsureAccountLimit, DeleteAccount, SaveAccount,
       AdjustUsage, UpdateUserPlanUsage
  <2>. QED
    BY <2>1, DeskStays
<1>3. CASE UNCHANGED vars
  BY <1>3, DeskStays DEF vars
<1>. QED
  BY <1>1, <1>2, <1>3, StripeKeepsDesk, StartKeepsDesk, FrameKeepsDesk DEF Next

LEMMA InitDesk == Init => DeskInv
<1> SUFFICES ASSUME Init PROVE DeskInv
  OBVIOUS
<1>1. now \in Int /\ IsRow(plan) /\ bought \subseteq Subs \X OnOffer
  BY FreePlanIsRow DEF Init
<1>2. \A p \in Procs : AskedApt(frame[p])
  BY DEF Init, Idle, AskedApt
<1>. QED
  BY <1>1, <1>2 DEF DeskInv

LEMMA DeskAndIInv == Spec => [](IInv /\ DeskInv)
  BY InitIInv, InitDesk, NextKeepsIInv, NextKeepsDesk, PTL DEF Spec

-----------------------------------------------------------------------------
(* Stripe moves *)

\* An event is sent while nothing runs and none is waiting.
LEMMA SendFollows ==
  ASSUME IInv, InOrder, FollowInv, Settled, NEW t, NEW s \in Subs, NEW sub, Send(t, s, sub),
         OneLive(stripe'), EventApt(EventOf(t, s, sub), plan, stripe', now)
  PROVE  FollowInv'
<1> DEFINE e == EventOf(t, s, sub)
<1>1. ProcsIdle /\ inbox = <<>>
  BY InOrderRests
<1>2. UNCHANGED <<frame, plan, now>> /\ inbox' = Append(inbox, e)
  BY DEF Send
<1> HIDE DEF e
<1>3. inbox' # <<>> /\ Len(inbox') = 1 /\ inbox'[1] = e
  BY <1>1, <1>2
<1>4. QueueApt(inbox', plan', stripe', now')
  BY <1>2, <1>3 DEF QueueApt, e
<1>. QED
  BY <1>1, <1>2, <1>3, <1>4 DEF FollowInv, ProcsIdle

LEMMA CheckoutFollows ==
  ASSUME IInv, InOrder, FollowInv, NEW name \in Paid, Checkout(name)
  PROVE  FollowInv'
<1> DEFINE sub == Opened(name, FALSE)
           e == EventOf("checkout", NextSub, sub)
<1>1. NextSub \in Subs
  BY DEF Checkout, NextSub, Unopened
<1>2. Settled /\ Send("checkout", NextSub, sub)
  BY DEF Checkout
<1>3. stripe' = [stripe EXCEPT ![NextSub] = sub]
  BY <1>2 DEF Send
<1>4. sub.state = "active" /\ sub.name = name /\ sub.to = now + Month
  BY DEF Opened
<1>5. e.type = "checkout" /\ e.sub = NextSub /\ e.name = name
  BY <1>4 DEF EventOf
<1> HIDE DEF sub, e
<1>6. LiveIn(stripe) = {}
  BY DEF Checkout, InOrder, LiveIn
<1>7. LiveIn(stripe') = {NextSub} /\ stripe'[NextSub] = sub
  BY <1>1, <1>3, <1>4, <1>6, LiveMoves
<1>8. now + Month \in Int
  BY PlanUsageAssumption DEF FollowInv
<1>9. OneLive(stripe')
  BY <1>4, <1>7, <1>8 DEF OneLive
<1>10. EventApt(e, plan, stripe', now)
  BY <1>4, <1>5, <1>7 DEF EventApt
<1>. QED
  BY <1>1, <1>2, <1>9, <1>10, SendFollows DEF e

LEMMA RenewsFollows ==
  ASSUME IInv, InOrder, FollowInv, NEW s \in Subs, StripeRenews(s)
  PROVE  FollowInv'
<1> DEFINE sub == [stripe[s] EXCEPT !.from = @ + Month, !.to = @ + Month, !.announced = FALSE]
           e == EventOf("paid", s, sub)
<1>1. Settled /\ Due(s) /\ stripe[s].state = "active" /\ Send("paid", s, sub)
  BY DEF StripeRenews
<1>2. stripe' = [stripe EXCEPT ![s] = sub]
  BY <1>1 DEF Send
<1>3. PICK T : stripe[s] \in Subscriptions(T)
  BY DEF IInv, StripeInv, GoodSubscription
<1>4. /\ sub.state = "active" /\ sub.name = stripe[s].name
      /\ sub.to = stripe[s].to + Month
  BY <1>1, <1>3 DEF Subscriptions
<1>5. e.type = "paid" /\ e.sub = s /\ e.name = sub.name /\ e.to = sub.to
  BY DEF EventOf
<1> HIDE DEF sub, e
<1>6. s \in LiveIn(stripe)
  BY <1>1 DEF LiveIn
<1>7. LiveIn(stripe) = {s} /\ stripe[s].name \in Paid /\ stripe[s].to \in Int
  BY <1>6 DEF FollowInv, OneLive
<1>8. LiveIn(stripe') = {s} /\ stripe'[s] = sub
  BY <1>2, <1>4, <1>7, LiveMoves
<1>9. sub.to \in Int
  BY <1>4, <1>7, PlanUsageAssumption
<1>10. OneLive(stripe')
  BY <1>4, <1>7, <1>8, <1>9 DEF OneLive
<1>11. EventApt(e, plan, stripe', now)
  BY <1>5, <1>8 DEF EventApt
<1>. QED
  BY <1>1, <1>10, <1>11, SendFollows DEF e

LEMMA AnnouncesFollows ==
  ASSUME IInv, InOrder, FollowInv, NEW s \in Subs, StripeAnnounces(s)
  PROVE  FollowInv'
<1> DEFINE sub == [stripe[s] EXCEPT !.announced = TRUE]
           e == EventOf("upcoming", s, sub)
<1>1. /\ Settled /\ stripe[s].state = "active" /\ Send("upcoming", s, sub)
      /\ now + Trial >= stripe[s].to
  BY DEF StripeAnnounces
<1>2. stripe' = [stripe EXCEPT ![s] = sub]
  BY <1>1 DEF Send
<1>3. PICK T : stripe[s] \in Subscriptions(T)
  BY DEF IInv, StripeInv, GoodSubscription
<1>4. sub.state = "active" /\ sub.name = stripe[s].name /\ sub.to = stripe[s].to
  BY <1>1, <1>3 DEF Subscriptions
<1>5. e.type = "upcoming" /\ e.sub = s /\ e.name = sub.name
  BY DEF EventOf
<1> HIDE DEF sub, e
<1>6. s \in LiveIn(stripe)
  BY <1>1 DEF LiveIn
<1>7. LiveIn(stripe) = {s} /\ stripe[s].name \in Paid /\ stripe[s].to \in Int
  BY <1>6 DEF FollowInv, OneLive
<1>8. LiveIn(stripe') = {s} /\ stripe'[s] = sub
  BY <1>2, <1>4, <1>7, LiveMoves
<1>9. OneLive(stripe')
  BY <1>4, <1>7, <1>8 DEF OneLive
<1>10. stripe[s].to <= now + Trial
  BY <1>1, <1>7, PlanUsageAssumption DEF FollowInv
<1>11. EventApt(e, plan, stripe', now)
  BY <1>4, <1>5, <1>8, <1>10 DEF EventApt
<1>. QED
  BY <1>1, <1>9, <1>11, SendFollows DEF e

LEMMA EndsFollows ==
  ASSUME IInv, InOrder, FollowInv, NEW s \in Subs, StripeEnds(s)
  PROVE  FollowInv'
<1> DEFINE sub == [stripe[s] EXCEPT !.state = "ended"]
           e == EventOf("deleted", s, sub)
<1>1. Settled /\ Due(s) /\ Send("deleted", s, sub)
  BY DEF StripeEnds
<1>2. stripe' = [stripe EXCEPT ![s] = sub]
  BY <1>1 DEF Send
<1>3. PICK T : stripe[s] \in Subscriptions(T)
  BY DEF IInv, StripeInv, GoodSubscription
<1>4. sub.state = "ended"
  BY <1>3 DEF Subscriptions
<1>5. e.type = "deleted" /\ e.sub = s
  BY DEF EventOf
<1> HIDE DEF sub, e
<1>6. LiveIn(stripe) = {s}
  BY <1>1 DEF FollowInv, OneLive, LiveIn, Due
<1>7. LiveIn(stripe') = {}
  BY <1>2, <1>4, <1>6, LiveMoves
<1>8. OneLive(stripe')
  BY <1>7 DEF OneLive
<1>9. plan.name # "FREE" => plan.sub = s
  BY <1>1, <1>6, InOrderRests DEF FollowInv, FollowsSoon, Follows
<1>10. EventApt(e, plan, stripe', now)
  BY <1>5, <1>7, <1>9 DEF EventApt
<1>. QED
  BY <1>1, <1>8, <1>10, SendFollows DEF e

LEMMA TickFollows ==
  ASSUME IInv, InOrder, FollowInv, Tick
  PROVE  FollowInv'
<1>1. ProcsIdle /\ inbox = <<>> /\ \A s \in Subs : ~ Due(s)
  BY InOrderRests DEF Tick
<1>2. Follows(plan, stripe)
  BY <1>1, NotDue DEF FollowInv
<1>3. UNCHANGED <<frame, plan, inbox, stripe>> /\ now' \in Int
  BY DEF Tick, FollowInv
<1>. QED
  BY <1>1, <1>2, <1>3 DEF FollowInv, ProcsIdle, FollowsSoon, QueueApt
-----------------------------------------------------------------------------
(* A webhook, a request or the job starts *)

LEMMA WithPaid == NoSub \notin Subs /\ "FREE" \notin Paid /\ Trial \in Nat /\ Month \in Nat
  BY PlanUsageAssumption DEF NoSub, Subs, Paid

\* Nothing but frame changes, and p's is apt.
LEMMA StartFollows ==
  ASSUME IInv, InOrder, FollowInv, NEW p \in Procs, CanStart(p), Only(p),
         UNCHANGED <<now, plan, inbox>>, OneLive(stripe'),
         QueueApt(inbox, plan, stripe', now), frame'[p].pc # "idle",
         FrameApt(frame'[p], inbox, plan, stripe', now)
  PROVE  FollowInv'
<1>1. ProcsIdle
  BY InOrderRests
<1>2. now' \in Int /\ IsRow(plan')
  BY DEF FollowInv
<1>. QED
  BY <1>1, <1>2, TurnTaken

LEMMA DeliverFollows ==
  ASSUME IInv, InOrder, FollowInv, NEW p \in Procs, Deliver(p)
  PROVE  FollowInv'
<1>1. PICK i \in 1 .. Len(inbox) :
        \/ DeliverCheckout(p, i) \/ DeliverPaid(p, i) \/ DeliverUpcoming(p, i)
        \/ DeliverDeleted(p, i)
  BY DEF Deliver
<1> DEFINE e == inbox[1]
<1>2. i = 1 /\ CanStart(p)
  BY <1>1 DEF DeliverCheckout, DeliverPaid, DeliverUpcoming, DeliverDeleted, Delivers, InOrder
<1>3. inbox # <<>> /\ EventApt(e, plan, stripe, now)
  BY <1>2 DEF FollowInv, QueueApt
<1>4. UNCHANGED <<now, plan, inbox>>
  BY <1>1 DEF DeliverCheckout, DeliverPaid, DeliverUpcoming, DeliverDeleted
<1>5. OneLive(stripe) /\ QueueApt(inbox, plan, stripe, now) /\ now \in Int
  BY DEF FollowInv
<1>6. \A name, sub, from, to, billing :
        LET r == PlanFor(name, sub, from, to, billing)
        IN  /\ IsRow(r) /\ r.name = name /\ r.sub = sub /\ r.to = to /\ r.billing = billing
  BY DEF PlanFor, IsRow
<1>0. ASSUME NEW pc, NEW next, NEW keep, Enter(p, pc, "webhook", e, next, keep)
       PROVE  /\ Only(p) /\ frame'[p].pc = pc /\ frame'[p].type = "webhook"
              /\ frame'[p].event = e /\ frame'[p].next = next
  BY <1>0, EnterEffect
<1>7. CASE DeliverCheckout(p, i)
  <2> DEFINE sub == stripe[e.sub]
             next == PlanFor(sub.name, e.sub, sub.from, sub.to, "active")
             new == [sub EXCEPT !.tagged = TRUE]
  <2>1. /\ e.type = "checkout" /\ stripe' = [stripe EXCEPT ![e.sub].tagged = TRUE]
        /\ Enter(p, "ensure", "webhook", e, next, FALSE)
    BY <1>2, <1>7 DEF DeliverCheckout
  <2>2. e.sub \in LiveIn(stripe) /\ e.sub \in Subs
    BY <1>3, <2>1 DEF EventApt, LiveIn
  <2>3. PICK T : sub \in Subscriptions(T)
    BY <2>2 DEF IInv, StripeInv, GoodSubscription
  <2>4. new.name = sub.name /\ new.to = sub.to /\ new.state = sub.state
    BY <2>3 DEF Subscriptions
  <2>5. stripe' = [stripe EXCEPT ![e.sub] = new]
    BY <2>1
  <2>6. /\ Only(p) /\ frame'[p].pc = "ensure" /\ frame'[p].type = "webhook"
        /\ frame'[p].event = e /\ frame'[p].next = next
    BY <2>1, <1>0
  <2>7. /\ IsRow(next) /\ next.name = sub.name /\ next.sub = e.sub /\ next.to = sub.to
        /\ next.billing = "active"
    BY <1>6
  <2> HIDE DEF new, next
  <2>8. stripe'[e.sub] = new /\ LiveIn(stripe') = LiveIn(stripe)
    <3>1. new.state \in {"active", "leaving"}
      BY <2>2, <2>4 DEF LiveIn
    <3>2. stripe'[e.sub] = new /\ LiveIn(stripe') = LiveIn(stripe) \cup {e.sub}
      BY <2>2, <2>5, <3>1, LiveMoves
    <3>. QED
      BY <2>2, <3>2
  <2>9. \A s \in LiveIn(stripe) : s = e.sub
    BY <1>5, <2>2 DEF OneLive
  <2>10. OneLive(stripe')
    BY <1>5, <2>2, <2>4, <2>8, <2>9 DEF OneLive
  <2>11. EventApt(e, plan, stripe', now)
    BY <1>3, <2>1, <2>4, <2>8 DEF EventApt
  <2>12. QueueApt(inbox, plan, stripe', now)
    BY <1>5, <2>11 DEF QueueApt
  <2>13. sub.to \in Int
    BY <1>5, <2>2 DEF OneLive
  <2>14. Follows(next, stripe')
    BY <2>2, <2>4, <2>7, <2>8, <2>13 DEF Follows
  <2>15. FrameApt(frame'[p], inbox, plan, stripe', now)
    BY <1>3, <2>6, <2>7, <2>14 DEF FrameApt, WebhookApt
  <2>16. frame'[p].pc # "idle"
    BY <2>6
  <2>. QED
    BY <1>2, <1>4, <2>6, <2>10, <2>12, <2>15, <2>16, StartFollows
<1>8. ASSUME NEW next, Follows(next, stripe), IsRow(next), NEW keep, UNCHANGED stripe,
             Enter(p, "ensure", "webhook", e, next, keep)
      PROVE  FollowInv'
  <2>1. /\ Only(p) /\ frame'[p].pc = "ensure" /\ frame'[p].type = "webhook"
        /\ frame'[p].event = e /\ frame'[p].next = next
    BY <1>8, EnterEffect
  <2>2. FrameApt(frame'[p], inbox, plan, stripe, now) /\ frame'[p].pc # "idle"
    BY <1>3, <1>8, <2>1 DEF FrameApt, WebhookApt
  <2>. QED
    BY <1>2, <1>4, <1>5, <1>8, <2>1, <2>2, StartFollows
<1>9. CASE DeliverPaid(p, i)
  <2> DEFINE next == PlanFor(e.name, e.sub, e.from, e.to, "active")
  <2>1. e.type = "paid" /\ Enter(p, "ensure", "webhook", e, next, TRUE) /\ UNCHANGED stripe
    BY <1>2, <1>9 DEF DeliverPaid
  <2>2. IsRow(next) /\ next.name = e.name /\ next.sub = e.sub /\ next.to = e.to
        /\ next.billing = "active"
    BY <1>6
  <2> HIDE DEF next
  <2>3. /\ e.sub \in LiveIn(stripe) /\ e.name = stripe[e.sub].name
        /\ e.to = stripe[e.sub].to /\ stripe[e.sub].to \in Int
    BY <1>3, <1>5, <2>1 DEF EventApt, OneLive
  <2>4. Follows(next, stripe)
    BY <2>2, <2>3 DEF Follows
  <2>. QED
    BY <1>8, <2>1, <2>2, <2>4
<1>10. CASE DeliverUpcoming(p, i)
  <2> DEFINE next == PlanFor(e.name, e.sub, now, now + Trial, "trialing")
  <2>1. e.type = "upcoming" /\ Enter(p, "ensure", "webhook", e, next, FALSE) /\ UNCHANGED stripe
    BY <1>2, <1>10 DEF DeliverUpcoming
  <2>2. IsRow(next) /\ next.name = e.name /\ next.sub = e.sub /\ next.to = now + Trial
        /\ next.billing = "trialing"
    BY <1>6
  <2> HIDE DEF next
  <2>3. /\ e.sub \in LiveIn(stripe) /\ e.name = stripe[e.sub].name
        /\ stripe[e.sub].to <= now + Trial /\ now + Trial \in Int
    BY <1>3, <1>5, <2>1, WithPaid DEF EventApt
  <2>4. Follows(next, stripe)
    BY <2>2, <2>3 DEF Follows
  <2>. QED
    BY <1>8, <2>1, <2>2, <2>4
<1>11. CASE DeliverDeleted(p, i)
  <2>1. e.type = "deleted" /\ Enter(p, "find", "webhook", e, plan, TRUE) /\ UNCHANGED stripe
    BY <1>2, <1>11 DEF DeliverDeleted
  <2>2. /\ Only(p) /\ frame'[p].pc = "find" /\ frame'[p].type = "webhook"
        /\ frame'[p].event = e
    BY <2>1, <1>0
  <2>3. FrameApt(frame'[p], inbox, plan, stripe, now) /\ frame'[p].pc # "idle"
    BY <1>3, <2>1, <2>2 DEF FrameApt, WebhookApt, Writing
  <2>. QED
    BY <1>2, <1>4, <1>5, <2>1, <2>2, <2>3, StartFollows
<1>. QED
  BY <1>1, <1>7, <1>9, <1>10, <1>11

LEMMA RequestFollows ==
  ASSUME IInv, InOrder, FollowInv, NEW p \in Procs, Request(p)
  PROVE  FollowInv'
<1>1. PICK name \in Plans : (name \in Paid /\ StartUpdate(p, name)) \/ StartCancel(p)
  BY DEF Request, Paid, Plans
<1>2. CanStart(p) /\ Prompt /\ UNCHANGED <<now, plan, inbox, stripe>>
  BY <1>1 DEF StartUpdate, StartCancel
<1>3. inbox = <<>> /\ Follows(plan, stripe)
  BY <1>2, InOrderRests, NotDue DEF FollowInv
<1>4. OneLive(stripe) /\ QueueApt(inbox, plan, stripe, now) /\ IsRow(plan)
  BY DEF FollowInv
<1>5. CASE name \in Paid /\ StartUpdate(p, name)
  <2> DEFINE next == [plan EXCEPT !.name = name]
  <2>1. Enter(p, "update", "request", NoEvent, next, TRUE)
    BY <1>5 DEF StartUpdate
  <2>2. /\ Only(p) /\ frame'[p].pc = "update" /\ frame'[p].type = "request"
        /\ frame'[p].next = next /\ frame'[p].seen = plan
    BY <2>1, EnterEffect
  <2>3. next.name = name
    BY <1>4 DEF IsRow, PlanFor
  <2> HIDE DEF next
  <2>4. FrameApt(frame'[p], inbox, plan, stripe, now) /\ frame'[p].pc # "idle"
    BY <1>3, <1>5, <2>2, <2>3 DEF FrameApt, RequestApt, Writing
  <2>. QED
    BY <1>2, <1>4, <2>2, <2>4, StartFollows
<1>6. CASE StartCancel(p)
  <2>1. Enter(p, "cancel", "request", NoEvent, plan, TRUE) /\ plan.name # "FREE"
    BY <1>6 DEF StartCancel
  <2>2. /\ Only(p) /\ frame'[p].pc = "cancel" /\ frame'[p].type = "request"
        /\ frame'[p].seen = plan
    BY <2>1, EnterEffect
  <2>3. FrameApt(frame'[p], inbox, plan, stripe, now) /\ frame'[p].pc # "idle"
    BY <1>3, <2>1, <2>2 DEF FrameApt, RequestApt, Writing
  <2>. QED
    BY <1>2, <1>4, <2>2, <2>3, StartFollows
<1>. QED
  BY <1>1, <1>5, <1>6

LEMMA FindExpiredFollows ==
  ASSUME IInv, InOrder, FollowInv, NEW p \in Procs, FindExpired(p)
  PROVE  FollowInv'
<1> DEFINE next == FreePlan(NoSub, "active")
<1>1. /\ CanStart(p) /\ plan.name # "FREE" /\ plan.to <= now
      /\ Enter(p, "ensure", "job", NoEvent, next, TRUE)
      /\ UNCHANGED <<now, plan, inbox, stripe>>
  BY DEF FindExpired
<1>2. IsRow(next) /\ next.name = "FREE"
  BY DEF IsRow, FreePlan, PlanFor
<1>3. /\ Only(p) /\ frame'[p].pc = "ensure" /\ frame'[p].type = "job"
      /\ frame'[p].next = next
  BY <1>1, EnterEffect
<1> HIDE DEF next
<1>4. ASSUME inbox = <<>>
      PROVE  FollowsSoon(plan, stripe, now) /\ DueIn(stripe, now) # {}
  <2>1. Follows(plan, stripe) /\ FollowsSoon(plan, stripe, now)
    BY <1>1, <1>4, InOrderRests DEF FollowInv, FollowsSoon
  <2>2. PICK s \in LiveIn(stripe) : plan.to \in Int /\ stripe[s].to <= plan.to
    BY <1>1, <2>1 DEF Follows
  <2>3. stripe[s].to <= now
    BY <1>1, <2>2 DEF FollowInv, OneLive
  <2>. QED
    BY <2>1, <2>2, <2>3 DEF DueIn
<1>5. FrameApt(frame'[p], inbox, plan, stripe, now) /\ frame'[p].pc # "idle"
  BY <1>2, <1>3, <1>4 DEF FrameApt, JobApt
<1>. QED
  BY <1>1, <1>3, <1>5, StartFollows DEF FollowInv
-----------------------------------------------------------------------------
(* What runs goes on *)

\* A step of the running frame p that changes at most the row, subscriptions
\* and events.
LEMMA StepFollows ==
  ASSUME FollowInv, NEW p \in Procs, frame[p].pc # "idle", Only(p), UNCHANGED now,
         IsRow(plan'), OneLive(stripe'), QueueApt(inbox', plan', stripe', now),
         IF frame'[p].pc = "idle"
         THEN inbox' = <<>> => FollowsSoon(plan', stripe', now)
         ELSE FrameApt(frame'[p], inbox', plan', stripe', now)
  PROVE  FollowInv'
<1>1. now' \in Int
  BY DEF FollowInv
<1>. QED
  BY <1>1, TurnTaken

\* A frame that returns and leaves the rest as it is.
LEMMA ReturnFollows ==
  ASSUME IInv, FollowInv, NEW p \in Procs, frame[p].pc # "idle", Return(p),
         UNCHANGED <<now, plan, stripe, inbox>>, inbox = <<>> => FollowsSoon(plan, stripe, now)
  PROVE  FollowInv'
<1>1. Only(p) /\ frame'[p].pc = "idle"
  BY ReturnEffect
<1>. QED
  BY <1>1, StepFollows DEF FollowInv

\* The only event is answered.
LEMMA AnsweredLast ==
  ASSUME InOrder, inbox # <<>>, Len(inbox) = 1, NEW e, e = inbox[1], inbox' \in Answered(e)
  PROVE  inbox' = <<>>
<1>1. inbox' = Without(e)
  BY DEF Answered, InOrder
<1>2. PICK i : Without(e) = [k \in 1 .. Len(inbox) - 1 |-> inbox[IF k < i THEN k ELSE k + 1]]
  BY DEF Without
<1>3. 1 .. Len(inbox) - 1 = {}
  OBVIOUS
<1>4. DOMAIN inbox' = {} /\ inbox' = [k \in {} |-> inbox[IF k < i THEN k ELSE k + 1]]
  BY <1>1, <1>2, <1>3
<1>5. inbox' \in Seq({})
  <2>1. 1 .. 0 = {}
    OBVIOUS
  <2>. QED
    BY <1>4, <2>1
<1>. QED
  BY <1>5

\* A handler is done after it has written.
LEMMA DoneFollows ==
  ASSUME IInv, InOrder, FollowInv, NEW p \in Procs, frame[p].pc # "idle", Done(p),
         UNCHANGED <<now, plan, stripe>>, FollowsSoon(plan, stripe, now)
  PROVE  FollowInv'
<1>1. Only(p) /\ frame'[p].pc = "idle"
  BY ReturnEffect DEF Done
<1>2. CASE frame[p].type = "webhook"
  <2>1. inbox # <<>> /\ frame[p].event = inbox[1] /\ Len(inbox) = 1
    BY <1>2 DEF FollowInv, QueueApt, FrameApt, WebhookApt
  <2>2. inbox' = <<>>
    BY <1>2, <2>1, AnsweredLast DEF Done
  <2>. QED
    BY <1>1, <2>2, StepFollows DEF FollowInv, QueueApt
<1>3. CASE frame[p].type # "webhook"
  BY <1>1, <1>3, StepFollows DEF Done, FollowInv
<1>. QED
  BY <1>2, <1>3

LEMMA FindCancelledFollows ==
  ASSUME IInv, InOrder, FollowInv, NEW p \in Procs, FindCancelled(p)
  PROVE  FollowInv'
<1> DEFINE e == frame[p].event
           next == FreePlan(plan.sub, "canceled")
<1>1. frame[p].pc = "find" /\ UNCHANGED <<now, plan, stripe>>
  BY DEF FindCancelled
<1>2. /\ frame[p].type = "webhook" /\ inbox # <<>> /\ e = inbox[1] /\ e.type = "deleted"
      /\ EventApt(e, plan, stripe, now)
  BY <1>1 DEF FollowInv, FrameApt, WebhookApt, RequestApt, JobApt, Writing, Written, QueueApt
<1>3. LiveIn(stripe) = {} /\ (plan.name # "FREE" => plan.sub = e.sub)
  BY <1>2 DEF EventApt
<1>4. CASE plan.sub = e.sub \/ e.tagged
  <2>1. frame' = [frame EXCEPT ![p].pc = "ensure", ![p].next = next] /\ UNCHANGED inbox
    BY <1>4 DEF FindCancelled
  <2>2. IsRow(next) /\ next.name = "FREE"
    BY DEF IsRow, FreePlan, PlanFor
  <2> HIDE DEF next
  <2>3. /\ Only(p) /\ frame'[p].pc = "ensure" /\ frame'[p].next = next
        /\ frame'[p].type = frame[p].type /\ frame'[p].event = frame[p].event
    <3>1. Continues(p, "ensure", next)
      BY <2>1, ContinueEffect, Zenon
    <3>. QED
      BY <3>1 DEF Continues
  <2>4. Follows(next, stripe)
    BY <1>3, <2>2 DEF Follows
  <2>5. FrameApt(frame'[p], inbox, plan, stripe, now) /\ frame'[p].pc # "idle"
    BY <1>2, <2>2, <2>3, <2>4 DEF FrameApt, WebhookApt
  <2>. QED
    BY <1>1, <2>1, <2>3, <2>5, StepFollows DEF FollowInv
<1>5. CASE ~ (plan.sub = e.sub \/ e.tagged)
  <2>1. Done(p)
    BY <1>5 DEF FindCancelled
  <2>2. FollowsSoon(plan, stripe, now)
    BY <1>3, <1>5 DEF FollowsSoon, Follows
  <2>. QED
    BY <1>1, <2>1, <2>2, DoneFollows
<1>. QED
  BY <1>4, <1>5

\* A request about the subscription is alone with it.
LEMMA UpdateRuns ==
  ASSUME FollowInv, NEW p \in Procs, frame[p].pc \in {"update", "cancel"}
  PROVE  /\ frame[p].type = "request" /\ inbox = <<>>
         /\ frame[p].seen = plan /\ Follows(plan, stripe)
         /\ frame[p].pc = "update" => frame[p].next.name \in Paid
         /\ frame[p].pc = "cancel" => plan.name # "FREE"
  BY DEF FollowInv, FrameApt, WebhookApt, RequestApt, JobApt, Writing, Written

\* The request has changed the subscription.
LEMMA RequestGoesOn ==
  ASSUME IInv, FollowInv, NEW p \in Procs, frame[p].pc \in {"update", "cancel"},
         NEW pc \in Writing, NEW next, IsRow(next), Follows(next, stripe'), OneLive(stripe'),
         frame' = [frame EXCEPT ![p].pc = pc, ![p].next = next],
         UNCHANGED <<now, plan, inbox>>
  PROVE  FollowInv'
<1>1. frame[p].type = "request" /\ inbox = <<>>
  BY UpdateRuns
<1>2. /\ Only(p) /\ frame'[p].pc = pc /\ frame'[p].next = next
      /\ frame'[p].type = frame[p].type
  <2>1. Continues(p, pc, next)
    BY ContinueEffect, Zenon
  <2>. QED
    BY <2>1 DEF Continues
<1>3. FrameApt(frame'[p], inbox, plan, stripe', now) /\ frame'[p].pc # "idle"
  BY <1>1, <1>2 DEF FrameApt, RequestApt, Writing
<1>4. QueueApt(inbox', plan', stripe', now)
  BY <1>1 DEF QueueApt
<1>. QED
  BY <1>2, <1>3, <1>4, StepFollows DEF FollowInv

LEMMA CallUpdateFollows ==
  ASSUME IInv, InOrder, FollowInv, NEW p \in Procs, CallUpdate(p)
  PROVE  FollowInv'
<1> DEFINE name == frame[p].next.name
<1>1. frame[p].pc = "update" /\ UNCHANGED <<now, plan, inbox>>
  BY DEF CallUpdate
<1>2. /\ inbox = <<>> /\ frame[p].seen = plan /\ Follows(plan, stripe) /\ name \in Paid
  BY <1>1, UpdateRuns
<1>3. CASE NeedsNew(plan) /\ CreateSubscription(p)
  <2> DEFINE sub == Opened(name, TRUE)
             next == PlanFor(name, NextSub, sub.from, sub.to, "active")
  <2>1. /\ stripe' = [stripe EXCEPT ![NextSub] = sub] /\ Unopened # {}
        /\ frame' = [frame EXCEPT ![p].pc = "ensure", ![p].next = next]
    BY <1>3 DEF CreateSubscription
  <2>2. NextSub \in Subs
    BY <2>1 DEF NextSub, Unopened
  <2>3. sub.state = "active" /\ sub.name = name /\ sub.to = now + Month
    BY DEF Opened
  <2>4. /\ IsRow(next) /\ next.name = name /\ next.sub = NextSub /\ next.to = sub.to
        /\ next.billing = "active"
    BY DEF IsRow, PlanFor
  <2> HIDE DEF sub, next
  <2>5. LiveIn(stripe) = {}
    BY <1>2, <1>3, WithPaid DEF NeedsNew, Follows, FollowInv, OneLive, LiveIn
  <2> DEFINE new == NextSub
  <2> HIDE DEF new
  <2>6. LiveIn(stripe') = {NextSub} /\ stripe'[NextSub] = sub
    <3>1. stripe' = [stripe EXCEPT ![new] = sub] /\ new \in Subs
      BY <2>1, <2>2 DEF new
    <3>2. /\ stripe'[new] = sub
          /\ LiveIn(stripe') = IF sub.state \in {"active", "leaving"}
                               THEN LiveIn(stripe) \cup {new} ELSE LiveIn(stripe) \ {new}
      BY <3>1, LiveMoves
    <3>3. LiveIn(stripe') = {new}
      BY <3>2, <2>3, <2>5
    <3>. QED
      BY <3>2, <3>3 DEF new
  <2>7. sub.to \in Int
    BY <2>3, WithPaid DEF FollowInv
  <2>8. OneLive(stripe') /\ Follows(next, stripe')
    BY <1>2, <2>3, <2>4, <2>6, <2>7 DEF OneLive, Follows
  <2>. QED
    BY <1>1, <2>1, <2>4, <2>8, RequestGoesOn DEF Writing
<1>4. CASE ~ NeedsNew(plan) /\ ChangeSubscription(p, plan.sub)
  <2> DEFINE s == plan.sub
             sub == [stripe[s] EXCEPT !.name = name, !.state = "active", !.tagged = TRUE]
             next == PlanFor(name, s, stripe[s].from, stripe[s].to, "active")
  <2>1. /\ stripe' = [stripe EXCEPT ![s].name = name, ![s].state = "active",
                                    ![s].tagged = TRUE]
        /\ frame' = [frame EXCEPT ![p].pc = "ensure", ![p].next = next]
    BY <1>4 DEF ChangeSubscription
  <2>2. s \in LiveIn(stripe)
    BY <1>2, <1>4 DEF NeedsNew, Follows
  <2>3. s \in Subs /\ LiveIn(stripe) = {s} /\ stripe[s].to \in Int
    BY <2>2 DEF FollowInv, OneLive, LiveIn
  <2>4. PICK T : stripe[s] \in Subscriptions(T)
    BY <2>3 DEF IInv, StripeInv, GoodSubscription
  <2>5. sub.state = "active" /\ sub.name = name /\ sub.to = stripe[s].to
    BY <2>4 DEF Subscriptions
  <2>6. stripe' = [stripe EXCEPT ![s] = sub]
    BY <2>1, <2>3 DEF IInv, StripeInv
  <2>7. /\ IsRow(next) /\ next.name = name /\ next.sub = s /\ next.to = stripe[s].to
        /\ next.billing = "active"
    BY DEF IsRow, PlanFor
  <2> HIDE DEF sub, next, s
  <2>8. LiveIn(stripe') = {s} /\ stripe'[s] = sub
    BY <2>3, <2>5, <2>6, LiveMoves
  <2>9. OneLive(stripe') /\ Follows(next, stripe')
    BY <1>2, <2>3, <2>5, <2>7, <2>8 DEF OneLive, Follows
  <2>. QED
    BY <1>1, <2>1, <2>7, <2>9, RequestGoesOn DEF Writing
<1>5. CASE Return(p) /\ UNCHANGED stripe
  BY <1>1, <1>2, <1>5, ReturnFollows DEF FollowsSoon
<1>. QED
  BY <1>2, <1>3, <1>4, <1>5 DEF CallUpdate

LEMMA CallCancelFollows ==
  ASSUME IInv, InOrder, FollowInv, NEW p \in Procs, CallCancel(p)
  PROVE  FollowInv'
<1>1. frame[p].pc = "cancel" /\ UNCHANGED <<now, plan, inbox>>
  BY DEF CallCancel
<1>2. inbox = <<>> /\ frame[p].seen = plan /\ Follows(plan, stripe) /\ plan.name # "FREE"
  BY <1>1, UpdateRuns
<1>3. CASE Return(p) /\ UNCHANGED stripe
  BY <1>1, <1>2, <1>3, ReturnFollows DEF FollowsSoon
<1>4. CASE ~ (Return(p) /\ UNCHANGED stripe)
  <2> DEFINE s == plan.sub
             sub == [stripe[s] EXCEPT !.state = "leaving", !.tagged = TRUE]
             next == PlanFor(plan.name, s, stripe[s].from, stripe[s].to,
                             "active_until_period_end")
  <2>1. /\ stripe' = [stripe EXCEPT ![s].state = "leaving", ![s].tagged = TRUE]
        /\ frame' = [frame EXCEPT ![p].pc = "ensureOnly", ![p].next = next]
    BY <1>2, <1>4 DEF CallCancel
  <2>2. s \in LiveIn(stripe) /\ plan.name = stripe[s].name
    BY <1>2 DEF Follows
  <2>3. s \in Subs /\ LiveIn(stripe) = {s} /\ stripe[s].to \in Int /\ stripe[s].name \in Paid
    BY <2>2 DEF FollowInv, OneLive, LiveIn
  <2>4. PICK T : stripe[s] \in Subscriptions(T)
    BY <2>3 DEF IInv, StripeInv, GoodSubscription
  <2>5. sub.state = "leaving" /\ sub.name = stripe[s].name /\ sub.to = stripe[s].to
    BY <2>4 DEF Subscriptions
  <2>6. stripe' = [stripe EXCEPT ![s] = sub]
    BY <2>1, <2>3 DEF IInv, StripeInv
  <2>7. /\ IsRow(next) /\ next.name = plan.name /\ next.sub = s /\ next.to = stripe[s].to
        /\ next.billing = "active_until_period_end"
    BY DEF IsRow, PlanFor
  <2> HIDE DEF sub, next, s
  <2>8. LiveIn(stripe') = {s} /\ stripe'[s] = sub
    BY <2>3, <2>5, <2>6, LiveMoves
  <2>9. OneLive(stripe') /\ Follows(next, stripe')
    BY <2>2, <2>3, <2>5, <2>7, <2>8 DEF OneLive, Follows
  <2>. QED
    BY <1>1, <2>1, <2>7, <2>9, RequestGoesOn DEF Writing
<1>. QED
  BY <1>3, <1>4

LEMMA EnsurePlanFollows ==
  ASSUME IInv, InOrder, FollowInv, NEW p \in Procs, EnsurePlan(p)
  PROVE  FollowInv'
<1> DEFINE f == frame[p]
           pc == IF f.pc = "ensure" THEN "read" ELSE "sync"
<1>1. f.pc \in Writing /\ plan' = f.next /\ UNCHANGED <<now, stripe, inbox>>
  BY DEF EnsurePlan, Writing
<1>2. Moves(p, pc)
  <2>1. frame' = [frame EXCEPT ![p].pc = pc]
    BY DEF EnsurePlan, IInv, FramesInv
  <2> HIDE DEF pc
  <2>. QED
    BY <2>1, MoveEffect
<1>3. FrameApt(f, inbox, plan, stripe, now) /\ IsRow(f.next)
  BY <1>1 DEF FollowInv, FrameApt, Writing
<1>4. /\ Follows(f.next, stripe) \/ f.next.name = "FREE"
      /\ f.type = "webhook" => Follows(f.next, stripe) /\ f.pc = "ensure"
      /\ f.type = "request" => Follows(f.next, stripe)
      /\ f.type = "job" => f.next.name = "FREE" /\ f.pc = "ensure"
                           /\ (inbox = <<>> => FollowsSoon(f.next, stripe, now))
  BY <1>1, <1>3 DEF FrameApt, WebhookApt, RequestApt, JobApt, Writing, Written, FollowsSoon
<1>5. QueueApt(inbox, f.next, stripe, now)
  BY <1>4 DEF FollowInv, QueueApt, EventApt, Follows
<1>6. FrameApt(frame'[p], inbox, f.next, stripe, now) /\ frame'[p].pc # "idle"
  BY <1>2, <1>3, <1>4 DEF Moves, FrameApt, WebhookApt, RequestApt, JobApt, Writing, Written
<1>. QED
  BY <1>1, <1>2, <1>3, <1>5, <1>6, StepFollows DEF Moves, FollowInv, Writing

\* A frame that has written the row only says how far it is.
LEMMA MoveFollows ==
  ASSUME IInv, FollowInv, NEW p \in Procs, frame[p].pc \in Written, NEW pc \in Written,
         Moves(p, pc), pc = "sync" => frame[p].type # "job",
         UNCHANGED <<now, plan, stripe, inbox>>
  PROVE  FollowInv'
<1>1. FrameApt(frame[p], inbox, plan, stripe, now)
  BY DEF FollowInv, Written
<1>2. FrameApt(frame'[p], inbox, plan, stripe, now) /\ frame'[p].pc # "idle"
  BY <1>1 DEF Moves, FrameApt, WebhookApt, RequestApt, JobApt, Writing, Written
<1>. QED
  BY <1>2, StepFollows DEF Moves, FollowInv, Written

LEMMA WrittenFollows ==
  ASSUME FollowInv, NEW p \in Procs, frame[p].pc \in Written
  PROVE  /\ inbox = <<>> \/ frame[p].type = "webhook" => FollowsSoon(plan, stripe, now)
         /\ frame[p].type \in {"webhook", "request"} => Follows(plan, stripe)
         /\ frame[p].type \in {"webhook", "request", "job"}
         /\ frame[p].type = "request" => inbox = <<>>
<1>1. FrameApt(frame[p], inbox, plan, stripe, now)
  BY DEF FollowInv, Written
<1>. QED
  BY <1>1 DEF FrameApt, WebhookApt, RequestApt, JobApt, Writing, Written, FollowsSoon

LEMMA ResetReadFollows ==
  ASSUME IInv, InOrder, FollowInv, NEW p \in Procs, ResetRead(p)
  PROVE  FollowInv'
<1> DEFINE newest == rows[Len(rows)]
           kept == frame[p].keep \/ SamePeriod(newest, frame[p].next)
           used == IF kept THEN newest.used ELSE 0
<1>1. frame' = [frame EXCEPT ![p].pc = "write", ![p].row = Len(rows), ![p].used = used]
  BY DEF ResetRead
<1> HIDE DEF used
<1>2. Moves(p, "write")
  BY <1>1, ReadEffect, Zenon
<1>3. frame[p].pc = "read" /\ UNCHANGED <<now, plan, stripe, inbox>>
  BY DEF ResetRead
<1>. QED
  BY <1>2, <1>3, MoveFollows DEF Written

LEMMA ResetWriteFollows ==
  ASSUME IInv, InOrder, FollowInv, NEW p \in Procs, ResetWrite(p)
  PROVE  FollowInv'
<1>1. frame[p].pc = "write" /\ UNCHANGED <<now, plan, stripe>>
  BY DEF ResetWrite
<1>2. CASE Return(p) /\ UNCHANGED inbox
  BY <1>1, <1>2, WrittenFollows, ReturnFollows DEF Written
<1>3. CASE Syncs(frame[p]) /\ frame' = [frame EXCEPT ![p].pc = "sync"] /\ UNCHANGED inbox
  <2>1. Moves(p, "sync") /\ frame[p].type # "job"
    BY <1>3, MoveEffect DEF Syncs
  <2>. QED
    BY <1>1, <1>3, <2>1, MoveFollows DEF Written
<1>4. CASE ~ Syncs(frame[p]) /\ Done(p)
  <2>1. CASE frame[p].type = "webhook"
    <3>1. FollowsSoon(plan, stripe, now)
      BY <1>1, <2>1, WrittenFollows DEF Written
    <3>. QED
      BY <1>1, <1>4, <3>1, DoneFollows
  <2>2. CASE frame[p].type # "webhook"
    BY <1>1, <1>4, <2>2, WrittenFollows, ReturnFollows DEF Written, Done
  <2>. QED
    BY <2>1, <2>2
<1>. QED
  BY <1>2, <1>3, <1>4 DEF ResetWrite, AfterReset

LEMMA SyncCustomerFollows ==
  ASSUME IInv, InOrder, FollowInv, NEW p \in Procs, SyncCustomer(p)
  PROVE  FollowInv'
<1>1. frame[p].pc = "sync" /\ Done(p) /\ UNCHANGED <<now, plan, stripe>>
  BY DEF SyncCustomer
<1>2. frame[p].type # "job"
  BY <1>1 DEF FollowInv, FrameApt, JobApt
<1>3. FollowsSoon(plan, stripe, now)
  BY <1>1, <1>2, WrittenFollows DEF Written, FollowsSoon
<1>. QED
  BY <1>1, <1>3, DoneFollows

-----------------------------------------------------------------------------
(* The process dies; and the whole *)

\* What a handler or the job has not finished will be done again.  A request in
\* which the process dies between Stripe and the row is excluded (InOrder').
LEMMA CrashFollows ==
  ASSUME IInv, InOrder, FollowInv, InOrder', Crash
  PROVE  FollowInv'
<1>1. /\ frame' = [p \in Procs |-> Idle] /\ UNCHANGED <<now, stripe, inbox, plan>>
      /\ \A p \in Procs : ~ (frame[p].type = "request" /\ frame[p].pc \in Writing)
  BY DEF Crash, InOrder, Writing
<1>2. \A p \in Procs : frame'[p].pc = "idle"
  BY <1>1 DEF Idle
<1>3. inbox = <<>> => FollowsSoon(plan, stripe, now)
  <2>1. CASE ProcsIdle
    BY <2>1 DEF FollowInv
  <2>2. CASE ~ ProcsIdle
    <3>1. PICK p \in Procs : frame[p].pc # "idle" /\ FrameApt(frame[p], inbox, plan, stripe, now)
      BY <2>2 DEF ProcsIdle, FollowInv
    <3>. QED
      BY <1>1, <3>1 DEF FrameApt, WebhookApt, RequestApt, JobApt, FollowsSoon
  <2>. QED
    BY <2>1, <2>2
<1>. QED
  BY <1>1, <1>2, <1>3 DEF FollowInv

LEMMA NextKeepsFollow == IInv /\ (InOrder => FollowInv) /\ [Next]_vars => (InOrder => FollowInv)'
<1> SUFFICES ASSUME IInv, InOrder => FollowInv, [Next]_vars, InOrder' PROVE FollowInv'
  OBVIOUS
<1>1. InOrder
  <2>1. CASE Crash
    BY <2>1 DEF Crash, InOrder
  <2>2. CASE ~ Crash
    BY <2>2, ScenarioStays DEF InOrder
  <2>. QED
    BY <2>1, <2>2
<1>2. FollowInv
  BY <1>1
<1>3. CASE Tick
  BY <1>1, <1>2, <1>3, TickFollows
<1>4. CASE StripeMoves
  BY <1>1, <1>2, <1>4, CheckoutFollows, RenewsFollows, AnnouncesFollows, EndsFollows
     DEF StripeMoves
<1>5. CASE Crash
  BY <1>1, <1>2, <1>5, CrashFollows
<1>6. ASSUME NEW p \in Procs, Deliver(p) \/ Request(p) \/ FindExpired(p) PROVE FollowInv'
  BY <1>1, <1>2, <1>6, DeliverFollows, RequestFollows, FindExpiredFollows
<1>7. ASSUME NEW p \in Procs, FrameStep(p) PROVE FollowInv'
  BY <1>1, <1>2, <1>7, FindCancelledFollows, CallUpdateFollows, CallCancelFollows,
     EnsurePlanFollows, ResetReadFollows, ResetWriteFollows, SyncCustomerFollows
     DEF FrameStep
<1>8. CASE UNCHANGED <<now, frame, stripe, inbox, plan>>
  BY <1>2, <1>8 DEF FollowInv, ProcsIdle
<1>9. ASSUME NEW c \in Connectors, ConnStart(c) \/ ConnStep(c) PROVE FollowInv'
  <2>1. UNCHANGED <<now, frame, stripe, inbox, plan>>
    BY <1>9 DEF ConnStart, ConnStep, EnsureAccountLimit, DeleteAccount, SaveAccount,
       AdjustUsage, UpdateUserPlanUsage
  <2>. QED
    BY <1>8, <2>1
<1>10. CASE UNCHANGED vars
  BY <1>8, <1>10 DEF vars
<1>. QED
  BY <1>3, <1>4, <1>5, <1>6, <1>7, <1>9, <1>10 DEF Next

LEMMA InitFollow == Init => FollowInv
<1> SUFFICES ASSUME Init PROVE FollowInv
  OBVIOUS
<1>1. \A s \in Subs : stripe[s].state = "none"
  BY DEF Init, NoSubscription
<1>2. LiveIn(stripe) = {}
  BY <1>1 DEF LiveIn
<1>3. IsRow(plan) /\ plan.name = "FREE"
  BY DEF Init, FreePlan, PlanFor, IsRow
<1>4. inbox = <<>> /\ now \in Int /\ \A p \in Procs : frame[p].pc = "idle"
  BY DEF Init, Idle
<1>5. OneLive(stripe) /\ QueueApt(inbox, plan, stripe, now) /\ FollowsSoon(plan, stripe, now)
  BY <1>2, <1>3, <1>4 DEF OneLive, QueueApt, FollowsSoon, Follows
<1>. QED
  BY <1>3, <1>4, <1>5 DEF FollowInv

LEMMA FollowImplies == (InOrder => FollowInv) => PlanFollowsStripe
<1> SUFFICES ASSUME InOrder, FollowInv, ProcsIdle, inbox = <<>>, \A s \in Subs : ~ Due(s)
             PROVE  IF Live = {} THEN plan.name = "FREE"
                    ELSE \E s \in Live : plan.sub = s /\ plan.name = stripe[s].name
  BY DEF PlanFollowsStripe, InOrder
<1>1. Follows(plan, stripe)
  BY NotDue DEF FollowInv
<1>. QED
  BY <1>1 DEF Follows, Live, LiveIn

(* If events come in order and handlers, requests and the job one at a time, *)
(* the row of user_plans says what Stripe says once all is dealt with:       *)
(* every webhook that fails or dies is repeated, the job may only come       *)
(* before a renewal that repairs it, and a request writes what it has asked  *)
(* Stripe for (StripeWebhookService, UserService).                           *)
THEOREM RowFollowsStripe == Spec => []PlanFollowsStripe
<1>1. Spec => []IInv
  BY DeskAndIInv, PTL
<1>2. Init => (InOrder => FollowInv)
  BY InitFollow
<1>3. Spec => [](InOrder => FollowInv)
  BY <1>1, <1>2, NextKeepsFollow, PTL DEF Spec
<1>. QED
  BY <1>3, FollowImplies, PTL

-----------------------------------------------------------------------------
(* While nothing overlaps and no handler has dropped the count, the newest  *)
(* row of user_plan_usage is the only one, it moves with the plan's period, *)
(* and with the requests that are about to count it has every account.      *)

Calm ==
    /\ faults \cap {"overlap", "crash"} = {}
    /\ "parallel" \in faults => \A name \in OnOffer : Limit[name] = Limit["FREE"]

Resetting == {"read", "write"}
Dropping == {"checkout", "upcoming"}

\* What the frame f knows of the row of the plan and of the count.
FrameTally(f, row, pl) ==
    /\ f.keep \/ f.event.type \in Dropping
    /\ f.pc \in {"update", "cancel"} => f.seen = pl
    /\ f.pc = "ensureOnly" => f.next.name = pl.name
    /\ f.pc \in Resetting => f.next = pl
    /\ f.pc = "write" => f.row = 1 /\ (f.used = row.used
                                         \/ (f.used = 0 /\ f.event.type \in Dropping))

RowFits(row, pl) == SamePeriod(row, pl) /\ row.used <= Limit[pl.name]

ConnFrames ==
    [pc : {"idle", "save", "adjust", "count"}, delta : {-1, 0, 1}, from : Int, to : Int]

\* A request that has passed the limit counts its account, for this period.
ConnTally(k, row, pl, t) ==
    /\ k.pc = "save" \/ (k.pc \in {"adjust", "count"} /\ k.delta > 0) =>
          pl.to > t /\ ("parallel" \in faults \/ row.used < Limit[pl.name])
    /\ k.pc = "count" => k.from = pl.from /\ k.to = pl.to

\* The count and the requests about to count cover the accounts; parallel
\* requests may exceed the limit, which is then that of every plan.
Covers(row, n, accounts) ==
    row.used + n >= IF "parallel" \in faults THEN Least(accounts, Limit["FREE"])
                                             ELSE accounts

OneRow(rs) == rs \in Seq(UsageRow) /\ Len(rs) = 1

AloneInv ==
    /\ \A p, q \in Procs : frame[p].pc # "idle" /\ frame[q].pc # "idle" => p = q
    /\ ProcsIdle \/ ConnIdle
    /\ "parallel" \in faults
          \/ \A c, d \in Connectors : conn[c].pc # "idle" /\ conn[d].pc # "idle" => c = d

TallyInv ==
    /\ AloneInv /\ OneRow(rows) /\ connected \in Nat /\ conn \in [Connectors -> ConnFrames]
    /\ \A p \in Procs : frame[p].pc # "idle" => FrameTally(frame[p], rows[1], plan)
    /\ (\A p \in Procs : frame[p].pc \notin Resetting) => RowFits(rows[1], plan)
    /\ \A c \in Connectors : ConnTally(conn[c], rows[1], plan, now)
    /\ Covers(rows[1], Cardinality(Uncounted), connected)

Tallied == Calm /\ ~ forgot => TallyInv

\* Nothing starts while something else runs.
LEMMA CalmRests ==
  ASSUME Calm
  PROVE  /\ \A p \in Procs : CanStart(p) => ProcsIdle /\ ConnIdle
         /\ Settled => ProcsIdle /\ ConnIdle
         /\ \A c \in Connectors : ConnCanStart(c) =>
              /\ conn[c].pc = "idle" /\ ProcsIdle /\ ("parallel" \in faults \/ ConnIdle)
<1>1. \A p \in Procs : CanStart(p) => ProcsIdle /\ ConnIdle
  BY DEF Calm, CanStart, Rest
<1>2. Settled => ProcsIdle /\ ConnIdle
  BY DEF Calm, Settled, Rest
<1>3. ASSUME NEW c \in Connectors, ConnCanStart(c)
      PROVE  conn[c].pc = "idle" /\ ProcsIdle /\ ("parallel" \in faults \/ ConnIdle)
  <2>1. PICK d \in Connectors : conn[d].pc = "idle"
    BY <1>3 DEF ConnCanStart
  <2>2. conn[CHOOSE e \in Connectors : conn[e].pc = "idle"].pc = "idle"
    BY <2>1
  <2>. QED
    BY <1>3, <2>2 DEF ConnCanStart, Calm
<1>. QED
  BY <1>1, <1>2, <1>3

LEMMA PlanIsOnOffer ==
  ASSUME IInv, DeskInv
  PROVE  plan.name \in OnOffer \cup {"FREE"} /\ plan.name \in Plans /\ plan.from \in Int
         /\ plan.to \in Int /\ plan.from <= plan.to
<1>1. Backed(plan, bought)
  BY DEF IInv, PlanInv
<1>2. plan.name # "FREE" => plan.name \in OnOffer
  BY <1>1 DEF Backed, DeskInv
<1>. QED
  BY <1>1, <1>2 DEF Backed, Timely, OnOffer, Paid, Plans

LEMMA LimitIsNat ==
  ASSUME IInv, DeskInv
  PROVE  /\ Limit[plan.name] \in Nat \ {0} /\ Limit["FREE"] \in Nat \ {0}
         /\ Calm /\ "parallel" \in faults => Limit[plan.name] = Limit["FREE"]
<1>1. Limit \in [Plans -> Nat \ {0}] /\ "FREE" \in Plans
  BY PlanUsageAssumption DEF Plans
<1>2. plan.name \in Plans /\ (plan.name = "FREE" \/ plan.name \in OnOffer)
  BY PlanIsOnOffer
<1>3. Limit[plan.name] \in Nat \ {0} /\ Limit["FREE"] \in Nat \ {0}
  BY <1>1, <1>2
<1>4. ASSUME Calm, "parallel" \in faults PROVE Limit[plan.name] = Limit["FREE"]
  BY <1>2, <1>4 DEF Calm
<1>. QED
  BY <1>3, <1>4

LEMMA RowType ==
  ASSUME NEW rs, OneRow(rs)
  PROVE  /\ rs[1] \in UsageRow /\ DOMAIN rs = {1}
         /\ rs[1].from \in Int /\ rs[1].to \in Int /\ rs[1].used \in Nat
<1>1. 1 \in 1 .. Len(rs) /\ DOMAIN rs = 1 .. Len(rs) /\ 1 .. Len(rs) = {1}
  BY DEF OneRow
<1>2. rs[1] \in UsageRow
  BY <1>1 DEF OneRow
<1>. QED
  BY <1>1, <1>2 DEF UsageRow

LEMMA RowReplaced ==
  ASSUME NEW rs, OneRow(rs), NEW row \in UsageRow
  PROVE  OneRow([rs EXCEPT ![1] = row]) /\ [rs EXCEPT ![1] = row][1] = row
<1>1. rs \in Seq(UsageRow) /\ 1 \in 1 .. Len(rs) /\ DOMAIN rs = {1}
  BY RowType DEF OneRow
<1>2. [rs EXCEPT ![1] = row] \in Seq(UsageRow) /\ Len([rs EXCEPT ![1] = row]) = Len(rs)
  BY <1>1, ExceptSeq
<1>. QED
  BY <1>1, <1>2 DEF OneRow

LEMMA NoneUncounted == ConnIdle => Uncounted = {}
  BY DEF ConnIdle, Uncounted

\* A frame enters, goes on or returns while all else is idle.
LEMMA TurnTallied ==
  ASSUME IInv, DeskInv, TallyInv, UNCHANGED <<faults, conn, connected>>, NEW p \in Procs,
         frame[p].pc # "idle" \/ ProcsIdle, ConnIdle, Only(p),
         OneRow(rows'), rows'[1].used >= rows[1].used,
         frame'[p].pc # "idle" => FrameTally(frame'[p], rows'[1], plan'),
         frame'[p].pc \notin Resetting => RowFits(rows'[1], plan')
  PROVE  TallyInv'
<1>1. \A q \in Procs : q # p => frame'[q].pc = "idle"
  BY DEF TallyInv, AloneInv, Only, ProcsIdle
<1>2. ConnIdle'
  BY DEF ConnIdle
<1>3. AloneInv'
  BY <1>1, <1>2 DEF AloneInv, ConnIdle
<1>4. \A q \in Procs : frame'[q].pc # "idle" => FrameTally(frame'[q], rows'[1], plan')
  BY <1>1
<1>5. Uncounted = {} /\ Uncounted' = {}
  BY <1>2, NoneUncounted DEF ConnIdle, Uncounted
<1>6. Covers(rows'[1], Cardinality(Uncounted'), connected')
  <2>1. Covers(rows[1], Cardinality(Uncounted), connected)
    BY DEF TallyInv
  <2>2. rows[1].used \in Nat /\ rows'[1].used \in Nat /\ connected \in Nat
    BY RowType DEF TallyInv
  <2>3. Cardinality({}) = 0
    BY FS_EmptySet
  <2>. QED
    BY <1>5, <2>1, <2>2, <2>3, LimitIsNat DEF Covers, Least
<1>7. \A c \in Connectors : ConnTally(conn'[c], rows'[1], plan', now')
  BY <1>2 DEF ConnTally, ConnIdle
<1>8. UNCHANGED faults /\ connected' \in Nat /\ conn' \in [Connectors -> ConnFrames]
  BY DEF TallyInv
<1>9. (\A q \in Procs : frame'[q].pc \notin Resetting) => RowFits(rows'[1], plan')
  OBVIOUS
<1>10. \A c \in Connectors : ConnTally(conn[c], rows[1], plan, now)'
  BY <1>7, <1>8 DEF ConnTally
<1>11. Covers(rows[1], Cardinality(Uncounted), connected)'
  BY <1>6, <1>8 DEF Covers
<1>. QED
  BY <1>3, <1>4, <1>8, <1>9, <1>10, <1>11 DEF TallyInv

\* The same, when the row of the count and the row of the plan stay.
LEMMA TurnStays ==
  ASSUME IInv, DeskInv, TallyInv, UNCHANGED <<faults, conn, connected, rows, plan>>,
         NEW p \in Procs, frame[p].pc # "idle" \/ ProcsIdle, ConnIdle, Only(p),
         frame'[p].pc # "idle" => FrameTally(frame'[p], rows[1], plan),
         frame'[p].pc \notin Resetting => RowFits(rows[1], plan)
  PROVE  TallyInv'
<1>1. OneRow(rows) /\ rows[1].used \in Nat
  BY RowType DEF TallyInv
<1>2. rows'[1].used >= rows[1].used
  BY <1>1
<1>. QED
  BY <1>1, <1>2, TurnTallied

LEMMA ProcsIdleFits == ASSUME TallyInv, ProcsIdle PROVE RowFits(rows[1], plan)
  BY DEF TallyInv, ProcsIdle, Resetting

LEMMA RunsAlone ==
  ASSUME TallyInv, NEW p \in Procs, frame[p].pc # "idle"
  PROVE  /\ ConnIdle /\ FrameTally(frame[p], rows[1], plan)
         /\ frame[p].pc \notin Resetting => RowFits(rows[1], plan)
<1>1. ConnIdle /\ FrameTally(frame[p], rows[1], plan)
  BY DEF TallyInv, AloneInv, ProcsIdle
<1>2. ASSUME frame[p].pc \notin Resetting PROVE RowFits(rows[1], plan)
  <2>1. \A q \in Procs : q # p => frame[q].pc = "idle"
    BY DEF TallyInv, AloneInv
  <2>2. \A q \in Procs : frame[q].pc \notin Resetting
    BY <1>2, <2>1 DEF Resetting
  <2>. QED
    BY <2>2 DEF TallyInv
<1>. QED
  BY <1>1, <1>2

LEMMA TallyStays ==
  ASSUME TallyInv, UNCHANGED <<faults, now, frame, plan, rows, conn, connected>>
  PROVE  TallyInv'
<1>1. AloneInv' /\ Uncounted' = Uncounted
  BY DEF TallyInv, AloneInv, ProcsIdle, ConnIdle, Uncounted
<1>2. Covers(rows[1], Cardinality(Uncounted), connected)'
  BY <1>1 DEF TallyInv, Covers
<1>3. \A c \in Connectors : ConnTally(conn[c], rows[1], plan, now)'
  BY DEF TallyInv, ConnTally
<1>. QED
  BY <1>1, <1>2, <1>3 DEF TallyInv

-----------------------------------------------------------------------------
(* The steps of the clock, of Stripe and of the frames *)

LEMMA StripeKeepsTally ==
  ASSUME Calm, IInv, DeskInv, TallyInv, Tick \/ StripeMoves
  PROVE  TallyInv'
<1>1. CASE Tick
  <2>1. /\ ConnIdle
        /\ UNCHANGED <<faults, frame, plan, rows, conn, connected>>
    BY <1>1, CalmRests DEF Tick
  <2>2. \A c \in Connectors : ConnTally(conn[c], rows[1], plan, now)'
    BY <2>1 DEF ConnTally, ConnIdle
  <2>3. AloneInv' /\ Uncounted' = Uncounted
    BY <2>1 DEF TallyInv, AloneInv, ProcsIdle, ConnIdle, Uncounted
  <2>4. Covers(rows[1], Cardinality(Uncounted), connected)'
    BY <2>1, <2>3 DEF TallyInv, Covers
  <2>. QED
    BY <2>1, <2>2, <2>3, <2>4 DEF TallyInv
<1>2. CASE StripeMoves
  <2>1. ASSUME NEW t, NEW s, NEW sub, Send(t, s, sub)
        PROVE  UNCHANGED <<faults, now, frame, plan, rows, conn, connected>>
    BY <2>1 DEF Send
  <2>2. UNCHANGED <<faults, now, frame, plan, rows, conn, connected>>
    <3>1. ASSUME NEW name, Checkout(name)
          PROVE  UNCHANGED <<faults, now, frame, plan, rows, conn, connected>>
      BY <2>1, <3>1, Zenon DEF Checkout
    <3>2. ASSUME NEW s, StripeRenews(s) \/ StripeAnnounces(s) \/ StripeEnds(s)
          PROVE  UNCHANGED <<faults, now, frame, plan, rows, conn, connected>>
      BY <2>1, <3>2, Zenon DEF StripeRenews, StripeAnnounces, StripeEnds
    <3>. QED
      BY <1>2, <3>1, <3>2 DEF StripeMoves
  <2>. QED
    BY <2>2, TallyStays
<1>. QED
  BY <1>1, <1>2

\* Something starts: it has read the row of the plan.
LEMMA StartKeepsTally ==
  ASSUME Calm, IInv, DeskInv, TallyInv, NEW p \in Procs,
         Deliver(p) \/ Request(p) \/ FindExpired(p)
  PROVE  TallyInv'
<1>1. ASSUME CanStart(p), UNCHANGED <<faults, conn, connected, rows, plan>>,
             NEW pc \in {"ensure", "find", "update", "cancel"}, NEW type, NEW e,
             NEW next, NEW keep, Enter(p, pc, type, e, next, keep),
             keep \/ e.type \in Dropping
      PROVE  TallyInv'
  <2>1. ProcsIdle /\ ConnIdle
    BY <1>1, CalmRests
  <2>2. /\ Only(p) /\ frame'[p].pc = pc /\ frame'[p].event = e
        /\ frame'[p].seen = plan /\ frame'[p].keep = keep
    BY <1>1, EnterEffect
  <2>3. FrameTally(frame'[p], rows[1], plan)
    BY <1>1, <2>2 DEF FrameTally, Resetting
  <2>4. RowFits(rows[1], plan)
    BY <2>1, ProcsIdleFits
  <2>. QED
    BY <1>1, <2>1, <2>2, <2>3, <2>4, TurnStays
<1>2. CASE Deliver(p)
  <2>1. PICK i \in 1 .. Len(inbox) :
          \/ DeliverCheckout(p, i) \/ DeliverPaid(p, i) \/ DeliverUpcoming(p, i)
          \/ DeliverDeleted(p, i)
    BY <1>2 DEF Deliver
  <2> DEFINE e == inbox[i]
  <2>2. CanStart(p) /\ UNCHANGED <<faults, conn, connected, rows, plan>>
    BY <2>1 DEF DeliverCheckout, DeliverPaid, DeliverUpcoming, DeliverDeleted, Delivers
  <2>3. CASE DeliverCheckout(p, i)
    <3>1. PICK next : e.type = "checkout" /\ Enter(p, "ensure", "webhook", e, next, FALSE)
      BY <2>3 DEF DeliverCheckout
    <3>. QED
      BY <1>1, <2>2, <3>1 DEF Dropping
  <2>4. CASE DeliverPaid(p, i)
    <3>1. PICK next : Enter(p, "ensure", "webhook", e, next, TRUE)
      BY <2>4 DEF DeliverPaid
    <3>. QED
      BY <1>1, <2>2, <3>1
  <2>5. CASE DeliverUpcoming(p, i)
    <3>1. PICK next : e.type = "upcoming" /\ Enter(p, "ensure", "webhook", e, next, FALSE)
      BY <2>5 DEF DeliverUpcoming
    <3>. QED
      BY <1>1, <2>2, <3>1 DEF Dropping
  <2>6. CASE DeliverDeleted(p, i)
    <3>1. Enter(p, "find", "webhook", e, plan, TRUE)
      BY <2>6 DEF DeliverDeleted
    <3>. QED
      BY <1>1, <2>2, <3>1
  <2>. QED
    BY <2>1, <2>3, <2>4, <2>5, <2>6
<1>3. CASE Request(p)
  <2>1. PICK name : StartUpdate(p, name) \/ StartCancel(p)
    BY <1>3 DEF Request
  <2>2. CanStart(p) /\ UNCHANGED <<faults, conn, connected, rows, plan>>
    BY <2>1 DEF StartUpdate, StartCancel
  <2>3. PICK pc, next :
          /\ Enter(p, pc, "request", NoEvent, next, TRUE)
          /\ pc = "update" \/ pc = "cancel"
    BY <2>1 DEF StartUpdate, StartCancel
  <2>. QED
    BY <1>1, <2>2, <2>3
<1>4. CASE FindExpired(p)
  <2>1. /\ Enter(p, "ensure", "job", NoEvent, FreePlan(NoSub, "active"), TRUE)
        /\ CanStart(p) /\ UNCHANGED <<faults, conn, connected, rows, plan>>
    BY <1>4 DEF FindExpired
  <2>. QED
    BY <1>1, <2>1
<1>. QED
  BY <1>2, <1>3, <1>4

\* A frame that returns leaves the rows as they are.
LEMMA ReturnTallied ==
  ASSUME IInv, DeskInv, TallyInv, UNCHANGED <<faults, conn, connected, rows, plan>>,
         NEW p \in Procs, frame[p].pc \notin Resetting \cup {"idle"}, Return(p)
  PROVE  TallyInv'
<1>1. Only(p) /\ frame'[p].pc = "idle"
  BY ReturnEffect
<1>2. RowFits(rows[1], plan) /\ ConnIdle
  BY RunsAlone
<1>. QED
  BY <1>1, <1>2, TurnStays

\* A frame goes on to write a row of the plan.
LEMMA ContinueTallied ==
  ASSUME IInv, DeskInv, TallyInv, UNCHANGED <<faults, conn, connected, rows, plan>>,
         NEW p \in Procs, frame[p].pc \notin Resetting \cup {"idle"},
         NEW pc \in {"ensure", "ensureOnly"}, NEW next,
         pc = "ensureOnly" => next.name = plan.name,
         frame' = [frame EXCEPT ![p].pc = pc, ![p].next = next]
  PROVE  TallyInv'
<1>1. Continues(p, pc, next)
  BY ContinueEffect, Zenon
<1>2. RowFits(rows[1], plan) /\ ConnIdle /\ FrameTally(frame[p], rows[1], plan)
  BY RunsAlone
<1>3. FrameTally(frame'[p], rows[1], plan)
  BY <1>1, <1>2 DEF Continues, FrameTally, Resetting
<1>. QED
  BY <1>1, <1>2, <1>3, TurnStays DEF Continues

LEMMA AskingKeepsTally ==
  ASSUME IInv, DeskInv, TallyInv, NEW p \in Procs,
         FindCancelled(p) \/ CallUpdate(p) \/ CallCancel(p)
  PROVE  TallyInv'
<1>1. /\ frame[p].pc \in {"find", "update", "cancel"}
      /\ UNCHANGED <<faults, conn, connected, rows, plan>>
  BY DEF FindCancelled, CallUpdate, CallCancel
<1>2. frame[p].pc \notin Resetting \cup {"idle"}
  BY <1>1 DEF Resetting
<1>3. FrameTally(frame[p], rows[1], plan)
  BY <1>2, RunsAlone
<1>4. CASE Return(p)
  BY <1>1, <1>2, <1>4, ReturnTallied
<1>5. CASE ~ Return(p)
  <2>1. PICK pc, next :
          /\ frame' = [frame EXCEPT ![p].pc = pc, ![p].next = next]
          /\ pc = "ensure" \/ (pc = "ensureOnly" /\ next.name = plan.name)
    <3>1. CASE FindCancelled(p)
      BY <1>5, <3>1 DEF FindCancelled, Done
    <3>2. CASE CallUpdate(p)
      BY <1>5, <3>2 DEF CallUpdate, CreateSubscription, ChangeSubscription
    <3>3. CASE CallCancel(p)
      <4>1. frame[p].seen = plan
        BY <1>3, <3>3 DEF CallCancel, FrameTally
      <4>. QED
        <5>1. PICK pc, next :
                /\ frame' = [frame EXCEPT ![p].pc = pc, ![p].next = next]
                /\ pc = "ensureOnly" /\ next.name = frame[p].seen.name
          <6> DEFINE sub == stripe[frame[p].seen.sub]
                     next == PlanFor(frame[p].seen.name, frame[p].seen.sub, sub.from,
                                     sub.to, "active_until_period_end")
          <6>1. frame' = [frame EXCEPT ![p].pc = "ensureOnly", ![p].next = next]
            BY <1>5, <3>3 DEF CallCancel
          <6>2. next.name = frame[p].seen.name
            BY DEF PlanFor
          <6> HIDE DEF next
          <6>. QED
            BY <6>1, <6>2
        <5>. QED
          BY <4>1, <5>1
    <3>. QED
      BY <3>1, <3>2, <3>3
  <2>2. pc \in {"ensure", "ensureOnly"} /\ (pc = "ensureOnly" => next.name = plan.name)
    BY <2>1
  <2>. QED
    BY <1>1, <1>2, <2>1, <2>2, ContinueTallied
<1>. QED
  BY <1>4, <1>5

\* Between the row of the plan and the counters, only the frame runs.
LEMMA EnsureKeepsTally ==
  ASSUME IInv, DeskInv, TallyInv, ~ forgot', NEW p \in Procs, EnsurePlan(p)
  PROVE  TallyInv'
<1> DEFINE f == frame[p]
           pc == IF f.pc = "ensure" THEN "read" ELSE "sync"
<1>1. /\ f.pc \in {"ensure", "ensureOnly"} /\ plan' = f.next
      /\ UNCHANGED <<faults, conn, connected, rows>>
      /\ f.pc = "ensureOnly" => SamePeriod(plan, f.next)
  BY DEF EnsurePlan
<1>2. Moves(p, pc)
  <2>1. frame' = [frame EXCEPT ![p].pc = pc]
    BY DEF EnsurePlan, IInv, FramesInv
  <2> HIDE DEF pc
  <2>. QED
    BY <2>1, MoveEffect
<1>3. ConnIdle /\ FrameTally(f, rows[1], plan) /\ RowFits(rows[1], plan)
  BY <1>1, RunsAlone DEF Resetting
<1>4. FrameTally(frame'[p], rows[1], f.next)
  BY <1>1, <1>2, <1>3 DEF Moves, FrameTally, Resetting
<1>5. frame'[p].pc \notin Resetting => RowFits(rows[1], f.next)
  <2>1. ASSUME f.pc = "ensureOnly" PROVE RowFits(rows[1], f.next)
    BY <1>1, <1>3, <2>1 DEF FrameTally, RowFits, SamePeriod
  <2>. QED
    BY <1>1, <1>2, <2>1 DEF Moves, Resetting
<1>6. OneRow(rows) /\ rows[1].used \in Nat
  BY RowType DEF TallyInv
<1>7. rows'[1].used >= rows[1].used
  BY <1>1, <1>6
<1>8. Only(p) /\ f.pc # "idle"
  BY <1>1, <1>2 DEF Moves
<1> HIDE DEF f, pc
<1>9. frame[p].pc # "idle"
  BY <1>8 DEF f
<1>10. OneRow(rows') /\ FrameTally(frame'[p], rows'[1], plan')
       /\ (frame'[p].pc \notin Resetting => RowFits(rows'[1], plan'))
  BY <1>1, <1>4, <1>5, <1>6
<1>. QED
  BY <1>1, <1>3, <1>7, <1>8, <1>9, <1>10, TurnTallied

LEMMA ReadKeepsTally ==
  ASSUME IInv, DeskInv, TallyInv, NEW p \in Procs, ResetRead(p)
  PROVE  TallyInv'
<1> DEFINE newest == rows[Len(rows)]
           kept == frame[p].keep \/ SamePeriod(newest, frame[p].next)
           used == IF kept THEN newest.used ELSE 0
<1>1. /\ frame' = [frame EXCEPT ![p].pc = "write", ![p].row = Len(rows), ![p].used = used]
      /\ frame[p].pc = "read" /\ UNCHANGED <<faults, conn, connected, rows, plan>>
  BY DEF ResetRead
<1>2. Len(rows) = 1
  BY DEF TallyInv, OneRow
<1>3. ConnIdle /\ FrameTally(frame[p], rows[1], plan)
  BY <1>1, RunsAlone
<1>4. used = rows[1].used \/ (used = 0 /\ frame[p].event.type \in Dropping)
  BY <1>2, <1>3 DEF FrameTally
<1> HIDE DEF used
<1>5. Moves(p, "write") /\ frame'[p].row = Len(rows) /\ frame'[p].used = used
  BY <1>1, ReadEffect, Zenon
<1>6. FrameTally(frame'[p], rows[1], plan)
  BY <1>1, <1>2, <1>3, <1>4, <1>5 DEF Moves, FrameTally, Resetting
<1>7. Only(p) /\ frame'[p].pc \in Resetting /\ frame[p].pc # "idle"
  BY <1>1, <1>5 DEF Moves, Resetting
<1>. QED
  BY <1>1, <1>3, <1>6, <1>7, TurnStays

LEMMA WriteKeepsTally ==
  ASSUME IInv, DeskInv, TallyInv, ~ forgot', NEW p \in Procs, ResetWrite(p)
  PROVE  TallyInv'
<1> DEFINE f == frame[p]
           row == [from |-> f.next.from, to |-> f.next.to, used |-> f.used]
<1>1. /\ f.pc = "write" /\ ~ Refused(f) /\ rows' = [rows EXCEPT ![f.row] = row]
      /\ ~ (f.event.type \in {"checkout", "upcoming"} /\ f.used < rows[f.row].used)
      /\ UNCHANGED <<faults, conn, connected, plan>>
      /\ Done(p) \/ frame' = [frame EXCEPT ![p].pc = "sync"]
  BY DEF ResetWrite, AfterReset
<1>2. ConnIdle /\ FrameTally(f, rows[1], plan)
  BY <1>1, RunsAlone
<1>3. /\ f.row = 1 /\ f.next = plan
      /\ f.used = rows[1].used \/ (f.used = 0 /\ f.event.type \in Dropping)
  BY <1>1, <1>2 DEF FrameTally, Resetting
<1>4. OneRow(rows) /\ rows[1].used \in Nat /\ DOMAIN rows = {1}
  BY RowType DEF TallyInv
<1>5. f.used \in Nat /\ f.used >= rows[1].used
  BY <1>1, <1>3, <1>4 DEF Dropping
<1>6. row \in UsageRow
  BY <1>3, <1>5, PlanIsOnOffer DEF UsageRow
<1>7. row.from = plan.from /\ row.to = plan.to /\ row.used = f.used
  BY <1>3
<1>8. f.used <= Limit[plan.name]
  BY <1>1, <1>3, <1>5, LimitIsNat DEF Refused
<1> HIDE DEF row
<1>9. rows' = [rows EXCEPT ![1] = row]
  BY <1>1, <1>3
<1>10. OneRow(rows') /\ rows'[1] = row
  BY <1>4, <1>6, <1>9, RowReplaced
<1>11. rows'[1].used >= rows[1].used
  BY <1>5, <1>7, <1>10
<1>12. RowFits(rows'[1], plan')
  BY <1>1, <1>7, <1>8, <1>10 DEF RowFits, SamePeriod
<1>13. CASE Done(p)
  <2>1. Only(p) /\ frame'[p].pc = "idle"
    BY <1>13, ReturnEffect DEF Done
  <2>2. frame[p].pc # "idle"
    BY <1>1
  <2>. QED
    BY <1>1, <1>2, <1>10, <1>11, <1>12, <2>1, <2>2, TurnTallied
<1>14. CASE frame' = [frame EXCEPT ![p].pc = "sync"]
  <2>1. Moves(p, "sync")
    BY <1>14, MoveEffect
  <2>2. FrameTally(frame'[p], rows'[1], plan')
    BY <1>2, <2>1 DEF Moves, FrameTally, Resetting
  <2>3. Only(p) /\ frame[p].pc # "idle"
    BY <1>1, <2>1 DEF Moves
  <2>. QED
    BY <1>1, <1>2, <1>10, <1>11, <1>12, <2>2, <2>3, TurnTallied
<1>. QED
  BY <1>1, <1>13, <1>14

LEMMA SyncKeepsTally ==
  ASSUME IInv, DeskInv, TallyInv, NEW p \in Procs, SyncCustomer(p)
  PROVE  TallyInv'
<1>1. frame[p].pc = "sync" /\ Return(p) /\ UNCHANGED <<faults, conn, connected, rows, plan>>
  BY DEF SyncCustomer, Done
<1>2. frame[p].pc \notin Resetting \cup {"idle"}
  BY <1>1 DEF Resetting
<1>. QED
  BY <1>1, <1>2, ReturnTallied

-----------------------------------------------------------------------------
(* The requests about accounts *)

\* The account of the request k is stored and not yet counted.
ToCount(k) == k.pc \in {"adjust", "count"} /\ k.delta > 0

LEMMA UncountedMoves ==
  ASSUME conn \in [Connectors -> ConnFrames], NEW c \in Connectors, NEW k,
         conn' = [conn EXCEPT ![c] = k]
  PROVE  LET n == Cardinality(Uncounted)
             m == Cardinality(Uncounted')
         IN  /\ n \in Nat /\ m \in Nat
             /\ (ToCount(k) <=> ToCount(conn[c])) => m = n
             /\ ToCount(k) /\ ~ ToCount(conn[c]) => m = n + 1
             /\ ~ ToCount(k) /\ ToCount(conn[c]) => m = n - 1
<1>1. Uncounted = {d \in Connectors : ToCount(conn[d])}
  BY DEF Uncounted, ToCount
<1>2. Uncounted' = {d \in Connectors : ToCount(conn'[d])}
  BY DEF Uncounted, ToCount
<1>3. Uncounted' = IF ToCount(k) THEN Uncounted \cup {c} ELSE Uncounted \ {c}
  BY <1>1, <1>2
<1>4. IsFiniteSet(Connectors) /\ Uncounted \subseteq Connectors
  BY <1>1, PlanUsageAssumption
<1>5. IsFiniteSet(Uncounted)
  BY <1>4, FS_Subset
<1>6. c \in Uncounted <=> ToCount(conn[c])
  BY <1>1
<1>7. /\ IsFiniteSet(Uncounted \cup {c})
      /\ Cardinality(Uncounted \cup {c}) = IF c \in Uncounted THEN Cardinality(Uncounted)
                                           ELSE Cardinality(Uncounted) + 1
  BY <1>5, FS_AddElement
<1>8. /\ IsFiniteSet(Uncounted \ {c})
      /\ Cardinality(Uncounted \ {c}) = IF c \in Uncounted THEN Cardinality(Uncounted) - 1
                                        ELSE Cardinality(Uncounted)
  BY <1>5, FS_RemoveElement
<1>9. IsFiniteSet(Uncounted')
  BY <1>3, <1>7, <1>8
<1>10. Cardinality(Uncounted) \in Nat /\ Cardinality(Uncounted') \in Nat
  BY <1>5, <1>9, FS_CardinalityType
<1>. QED
  BY <1>3, <1>6, <1>7, <1>8, <1>10

\* The quota is that of the only row.
LEMMA QuotaIs ==
  ASSUME TallyInv, RowFits(rows[1], plan)
  PROVE  /\ \A period : SamePeriod(rows[1], period) => RowsOf(period) = {1}
         /\ plan.to > now => AccountsUsed = rows[1].used /\ AccountsLimit = Limit[plan.name]
         /\ ~ (plan.to > now) => AccountsUsed = 0 /\ AccountsLimit = 0
<1>1. 1 .. Len(rows) = {1}
  BY DEF TallyInv, OneRow
<1>2. ASSUME NEW period, SamePeriod(rows[1], period) PROVE RowsOf(period) = {1}
  BY <1>1, <1>2 DEF RowsOf
<1>3. RowsOf(plan) = {1}
  BY <1>2 DEF RowFits
<1>4. UsedIn(plan) = rows[1].used
  BY <1>3 DEF UsedIn
<1>. QED
  BY <1>2, <1>4 DEF AccountsUsed, AccountsLimit

\* The request c goes on, while no handler, request about the plan or job runs.
LEMMA ConnTallied ==
  ASSUME IInv, DeskInv, TallyInv, UNCHANGED <<faults, frame, plan, now>>, ProcsIdle,
         NEW c \in Connectors, conn[c].pc # "idle" \/ "parallel" \in faults \/ ConnIdle,
         NEW k \in ConnFrames, conn' = [conn EXCEPT ![c] = k],
         OneRow(rows'), connected' \in Nat, RowFits(rows'[1], plan),
         ConnTally(k, rows'[1], plan, now),
         Covers(rows'[1], Cardinality(Uncounted'), connected')
  PROVE  TallyInv'
<1>1. /\ conn' \in [Connectors -> ConnFrames] /\ conn'[c] = k
      /\ \A d \in Connectors \ {c} : conn'[d] = conn[d]
  BY DEF TallyInv
<1>2. "parallel" \in faults \/ \A d \in Connectors \ {c} : conn[d].pc = "idle"
  BY DEF TallyInv, AloneInv, ConnIdle
<1>3. ProcsIdle'
  BY DEF ProcsIdle
<1>4. AloneInv'
  <2>1. \A p, q \in Procs : frame'[p].pc # "idle" /\ frame'[q].pc # "idle" => p = q
    BY DEF TallyInv, AloneInv
  <2>2. "parallel" \in faults \/ \A d, e \in Connectors :
            conn'[d].pc # "idle" /\ conn'[e].pc # "idle" => d = e
    BY <1>1, <1>2
  <2>. QED
    BY <1>3, <2>1, <2>2 DEF AloneInv
<1>5. ASSUME NEW d \in Connectors PROVE ConnTally(conn'[d], rows'[1], plan, now)
  <2>1. CASE d = c
    BY <1>1, <2>1
  <2>2. CASE d # c
    BY <1>1, <1>2, <2>2 DEF TallyInv, ConnTally
  <2>. QED
    BY <2>1, <2>2
<1>6. \A d \in Connectors : ConnTally(conn[d], rows[1], plan, now)'
  BY <1>5 DEF ConnTally
<1>7. Covers(rows[1], Cardinality(Uncounted), connected)'
  BY DEF Covers
<1>8. \A p \in Procs : frame'[p].pc = "idle"
  BY DEF ProcsIdle
<1>. QED
  BY <1>1, <1>4, <1>6, <1>7, <1>8 DEF TallyInv

LEMMA FrameIsConn ==
  ASSUME NEW f \in ConnFrames
  PROVE  /\ LET k == [f EXCEPT !.pc = "save"] IN k \in ConnFrames /\ k.pc = "save"
         /\ \A d \in {-1, 1} : LET k == [f EXCEPT !.pc = "adjust", !.delta = d]
                               IN  k \in ConnFrames /\ k.pc = "adjust" /\ k.delta = d
         /\ IdleConn \in ConnFrames /\ IdleConn.pc = "idle"
<1>1. LET k == [f EXCEPT !.pc = "save"] IN k \in ConnFrames /\ k.pc = "save"
  BY DEF ConnFrames
<1>2. ASSUME NEW d \in {-1, 1}
      PROVE  LET k == [f EXCEPT !.pc = "adjust", !.delta = d]
             IN  k \in ConnFrames /\ k.pc = "adjust" /\ k.delta = d
  BY DEF ConnFrames
<1>3. IdleConn \in ConnFrames /\ IdleConn.pc = "idle"
  BY DEF ConnFrames, IdleConn
<1>. QED
  BY <1>1, <1>2, <1>3

\* A request starts: nothing has been written, and an account may be deleted.
LEMMA ConnStartKeepsTally ==
  ASSUME Calm, IInv, DeskInv, TallyInv, NEW c \in Connectors, ConnStart(c)
  PROVE  TallyInv'
<1>1. /\ conn[c].pc = "idle" /\ ProcsIdle /\ ("parallel" \in faults \/ ConnIdle)
      /\ UNCHANGED <<faults, frame, plan, now, rows>>
  BY CalmRests DEF ConnStart, EnsureAccountLimit, DeleteAccount
<1>2. RowFits(rows[1], plan)
  BY <1>1, ProcsIdleFits
<1>3. /\ conn[c] \in ConnFrames /\ OneRow(rows) /\ connected \in Nat /\ rows[1].used \in Nat
      /\ Covers(rows[1], Cardinality(Uncounted), connected)
  BY RowType DEF TallyInv
<1>4. ~ ToCount(conn[c])
  BY <1>1 DEF ToCount
<1>5. CASE EnsureAccountLimit(c)
  <2> DEFINE k == [conn[c] EXCEPT !.pc = "save"]
  <2>1. conn' = [conn EXCEPT ![c] = k]
    BY <1>5 DEF EnsureAccountLimit, TallyInv
  <2>2. k \in ConnFrames /\ k.pc = "save"
    BY <1>3, FrameIsConn
  <2> HIDE DEF k
  <2>3. AccountsUsed < AccountsLimit /\ UNCHANGED connected
    BY <1>5 DEF EnsureAccountLimit
  <2>4. plan.to > now /\ rows[1].used < Limit[plan.name]
    BY <1>2, <2>3, QuotaIs
  <2>5. ConnTally(k, rows[1], plan, now)
    BY <2>2, <2>4 DEF ConnTally
  <2>6. Cardinality(Uncounted') = Cardinality(Uncounted)
    <3>1. ~ ToCount(k)
      BY <2>2 DEF ToCount
    <3>. QED
      BY <1>4, <2>1, <3>1, UncountedMoves DEF TallyInv
  <2>7. Covers(rows'[1], Cardinality(Uncounted'), connected')
    BY <1>1, <1>3, <2>3, <2>6
  <2>. QED
    BY <1>1, <1>2, <1>3, <2>1, <2>2, <2>3, <2>5, <2>7, ConnTallied
<1>6. CASE DeleteAccount(c)
  <2> DEFINE k == [conn[c] EXCEPT !.pc = "adjust", !.delta = -1]
  <2>1. conn' = [conn EXCEPT ![c] = k] /\ connected > 0 /\ connected' = connected - 1
    BY <1>6 DEF DeleteAccount, TallyInv
  <2>2. k \in ConnFrames /\ k.pc = "adjust" /\ k.delta = -1
    BY <1>3, FrameIsConn
  <2> HIDE DEF k
  <2>3. ConnTally(k, rows[1], plan, now) /\ ~ ToCount(k)
    BY <2>2 DEF ConnTally, ToCount
  <2>4. Cardinality(Uncounted') = Cardinality(Uncounted) /\ Cardinality(Uncounted) \in Nat
    BY <1>4, <2>1, <2>3, UncountedMoves DEF TallyInv
  <2>5. connected' \in Nat
    BY <1>3, <2>1
  <2>6. Covers(rows[1], Cardinality(Uncounted), connected')
    BY <1>3, <2>1, <2>4, LimitIsNat DEF Covers, Least
  <2>7. Covers(rows'[1], Cardinality(Uncounted'), connected')
    BY <1>1, <2>4, <2>6
  <2>. QED
    BY <1>1, <1>2, <1>3, <2>1, <2>2, <2>3, <2>5, <2>7, ConnTallied
<1>. QED
  BY <1>5, <1>6 DEF ConnStart

\* What a running request finds.
LEMMA ConnRuns ==
  ASSUME Calm, IInv, DeskInv, TallyInv, NEW c \in Connectors, conn[c].pc # "idle"
  PROVE  /\ ProcsIdle /\ RowFits(rows[1], plan) /\ ConnTally(conn[c], rows[1], plan, now)
         /\ conn[c] \in ConnFrames /\ OneRow(rows) /\ connected \in Nat
         /\ rows[1].used \in Nat /\ Covers(rows[1], Cardinality(Uncounted), connected)
         /\ conn[c].delta \in {-1, 0, 1}
<1>1. ProcsIdle
  BY DEF TallyInv, AloneInv, ConnIdle
<1>2. conn[c] \in ConnFrames
  BY DEF TallyInv
<1>. QED
  BY <1>1, <1>2, ProcsIdleFits, RowType DEF TallyInv, ConnFrames

\* The account is stored.
LEMMA SaveKeepsTally ==
  ASSUME Calm, IInv, DeskInv, TallyInv, NEW c \in Connectors, SaveAccount(c)
  PROVE  TallyInv'
<1>1. /\ conn[c].pc = "save" /\ conn[c].pc # "idle" /\ connected' = connected + 1
      /\ UNCHANGED <<faults, frame, plan, now, rows>>
  BY DEF SaveAccount
<1>2. /\ ProcsIdle /\ RowFits(rows[1], plan) /\ ConnTally(conn[c], rows[1], plan, now)
      /\ conn[c] \in ConnFrames /\ OneRow(rows) /\ connected \in Nat
      /\ rows[1].used \in Nat /\ Covers(rows[1], Cardinality(Uncounted), connected)
  BY <1>1, ConnRuns
<1> DEFINE k == [conn[c] EXCEPT !.pc = "adjust", !.delta = 1]
<1>3. conn' = [conn EXCEPT ![c] = k]
  BY DEF SaveAccount, TallyInv
<1>4. k \in ConnFrames /\ k.pc = "adjust" /\ k.delta = 1
  BY <1>2, FrameIsConn
<1> HIDE DEF k
<1>5. ConnTally(k, rows[1], plan, now)
  BY <1>1, <1>2, <1>4 DEF ConnTally
<1>6. /\ Cardinality(Uncounted') = Cardinality(Uncounted) + 1
      /\ Cardinality(Uncounted) \in Nat
  <2>1. ToCount(k) /\ ~ ToCount(conn[c])
    BY <1>1, <1>4 DEF ToCount
  <2>. QED
    BY <1>3, <2>1, UncountedMoves DEF TallyInv
<1>7. Covers(rows[1], Cardinality(Uncounted) + 1, connected + 1)
  BY <1>2, <1>6, LimitIsNat DEF Covers, Least
<1>8. Covers(rows'[1], Cardinality(Uncounted'), connected') /\ connected' \in Nat
  BY <1>1, <1>2, <1>6, <1>7
<1>. QED
  BY <1>1, <1>2, <1>3, <1>4, <1>5, <1>8, ConnTallied

\* The limit is checked once more: where requests do not run in parallel, in vain.
LEMMA AdjustKeepsTally ==
  ASSUME Calm, IInv, DeskInv, TallyInv, NEW c \in Connectors, AdjustUsage(c)
  PROVE  TallyInv'
<1>1. /\ conn[c].pc = "adjust" /\ conn[c].pc # "idle"
      /\ UNCHANGED <<faults, frame, plan, now, rows, connected>>
  BY DEF AdjustUsage
<1>2. /\ ProcsIdle /\ RowFits(rows[1], plan) /\ ConnTally(conn[c], rows[1], plan, now)
      /\ conn[c] \in ConnFrames /\ OneRow(rows) /\ connected \in Nat
      /\ rows[1].used \in Nat /\ Covers(rows[1], Cardinality(Uncounted), connected)
      /\ conn[c].delta \in {-1, 0, 1}
  BY <1>1, ConnRuns
<1> DEFINE over == conn[c].delta > 0 /\ AccountsUsed + conn[c].delta > AccountsLimit
<1>3. CASE over
  <2>1. conn' = [conn EXCEPT ![c] = IdleConn]
    BY <1>3 DEF AdjustUsage, TallyInv
  <2>2. /\ conn[c].delta = 1 /\ plan.to > now
        /\ "parallel" \in faults \/ rows[1].used < Limit[plan.name]
    BY <1>1, <1>2, <1>3 DEF ConnTally
  <2>3. rows[1].used + 1 > Limit[plan.name]
    BY <1>2, <1>3, <2>2, QuotaIs
  <2>4. "parallel" \in faults /\ rows[1].used >= Limit["FREE"]
    BY <1>2, <2>2, <2>3, LimitIsNat
  <2>5. IdleConn \in ConnFrames /\ IdleConn.pc = "idle"
    BY <1>2, FrameIsConn
  <2>6. ConnTally(IdleConn, rows[1], plan, now)
    BY <2>5 DEF ConnTally
  <2>7. Cardinality(Uncounted') \in Nat
    BY <2>1, UncountedMoves DEF TallyInv
  <2>8. Covers(rows[1], Cardinality(Uncounted'), connected)
    BY <1>2, <2>4, <2>7, LimitIsNat DEF Covers, Least
  <2>9. Covers(rows'[1], Cardinality(Uncounted'), connected')
    BY <1>1, <2>8
  <2>. QED
    BY <1>1, <1>2, <2>1, <2>5, <2>6, <2>9, ConnTallied
<1>4. CASE ~ over
  <2> DEFINE k == [conn[c] EXCEPT !.pc = "count", !.from = plan.from, !.to = plan.to]
  <2>1. conn' = [conn EXCEPT ![c] = k]
    BY <1>4 DEF AdjustUsage, TallyInv
  <2>2. /\ k \in ConnFrames /\ k.pc = "count" /\ k.delta = conn[c].delta
        /\ k.from = plan.from /\ k.to = plan.to
    <3>1. PICK f, from, to : f = conn[c] /\ from = plan.from /\ to = plan.to
      OBVIOUS
    <3>2. f \in ConnFrames /\ from \in Int /\ to \in Int
      BY <1>2, <3>1, PlanIsOnOffer
    <3> DEFINE g == [f EXCEPT !.pc = "count", !.from = from, !.to = to]
    <3>3. k = g
      BY <3>1
    <3>4. /\ g \in ConnFrames /\ g.pc = "count" /\ g.delta = f.delta
          /\ g.from = from /\ g.to = to
      BY <3>2 DEF ConnFrames
    <3> HIDE DEF g, k
    <3>. QED
      BY <3>1, <3>3, <3>4
  <2> HIDE DEF k, over
  <2>3. ConnTally(k, rows[1], plan, now) /\ (ToCount(k) <=> ToCount(conn[c]))
    BY <1>1, <1>2, <2>2 DEF ConnTally, ToCount
  <2>4. Cardinality(Uncounted') = Cardinality(Uncounted)
    BY <2>1, <2>3, UncountedMoves DEF TallyInv
  <2>5. Covers(rows'[1], Cardinality(Uncounted'), connected')
    BY <1>1, <1>2, <2>4
  <2>. QED
    BY <1>1, <1>2, <2>1, <2>2, <2>3, <2>5, ConnTallied
<1>. QED
  BY <1>3, <1>4

\* The account is counted, or the count of a deletion clamped to nothing.
LEMMA CountKeepsTally ==
  ASSUME Calm, IInv, DeskInv, TallyInv, NEW c \in Connectors, UpdateUserPlanUsage(c)
  PROVE  TallyInv'
<1> DEFINE period == conn[c]
           new == Added(period.delta)
           used == Least(rows[1].used + new, Limit[plan.name])
           row == [rows[1] EXCEPT !.used = used]
<1>1. /\ period.pc = "count" /\ period.pc # "idle"
      /\ UNCHANGED <<faults, frame, plan, now, connected>>
  BY DEF UpdateUserPlanUsage
<1>2. /\ ProcsIdle /\ RowFits(rows[1], plan) /\ ConnTally(period, rows[1], plan, now)
      /\ period \in ConnFrames /\ OneRow(rows) /\ connected \in Nat
      /\ rows[1].used \in Nat /\ Covers(rows[1], Cardinality(Uncounted), connected)
      /\ period.delta \in {-1, 0, 1}
  BY <1>1, ConnRuns
<1>3. period.from = plan.from /\ period.to = plan.to
  BY <1>1, <1>2 DEF ConnTally
<1>4. plan.to >= period.from /\ plan.from <= period.to
  BY <1>3, PlanIsOnOffer
<1>5. RowsOf(period) = {1}
  <2>1. SamePeriod(rows[1], period)
    BY <1>2, <1>3 DEF RowFits, SamePeriod
  <2>. QED
    BY <1>2, <2>1, QuotaIs
<1>6. rows' = [i \in DOMAIN rows |->
                 IF i \in RowsOf(period)
                 THEN [rows[i] EXCEPT !.used = Least(@ + new, Limit[plan.name])]
                 ELSE rows[i]]
  BY <1>4, <1>5 DEF UpdateUserPlanUsage
<1>7. /\ rows[1] \in UsageRow /\ DOMAIN rows = {1}
      /\ rows[1].from \in Int /\ rows[1].to \in Int
  BY <1>2, RowType
<1>8. Limit[plan.name] \in Nat \ {0} /\ rows[1].used <= Limit[plan.name]
  BY <1>2, LimitIsNat DEF RowFits
<1>9. new = IF period.delta = 1 THEN 1 ELSE 0
  BY <1>2, <1>8 DEF Added, Least, Greatest
<1>10. used \in Nat /\ used <= Limit[plan.name]
       /\ used = IF rows[1].used + new < Limit[plan.name] THEN rows[1].used + new
                 ELSE Limit[plan.name]
  BY <1>2, <1>8, <1>9 DEF Least
<1>11. rows' = [rows EXCEPT ![1] = row]
  BY <1>5, <1>6, <1>7
<1> HIDE DEF new, used
<1>12. row \in UsageRow /\ row.used = used /\ row.from = rows[1].from /\ row.to = rows[1].to
  BY <1>7, <1>10 DEF UsageRow
<1> HIDE DEF row
<1>13. OneRow(rows') /\ rows'[1] = row
  BY <1>2, <1>11, <1>12, RowReplaced
<1>14. RowFits(rows'[1], plan)
  BY <1>2, <1>10, <1>12, <1>13 DEF RowFits, SamePeriod
<1>15. conn' = [conn EXCEPT ![c] = IdleConn]
  BY DEF UpdateUserPlanUsage
<1>16. IdleConn \in ConnFrames /\ IdleConn.pc = "idle"
  BY <1>2, FrameIsConn
<1>17. ConnTally(IdleConn, rows'[1], plan, now) /\ ~ ToCount(IdleConn)
  BY <1>16 DEF ConnTally, ToCount
<1> DEFINE n == Cardinality(Uncounted)
           m == Cardinality(Uncounted')
<1>18. /\ n \in Nat /\ m \in Nat
       /\ m = IF period.delta = 1 THEN n - 1 ELSE n
  <2>1. ToCount(period) <=> period.delta = 1
    BY <1>1, <1>2 DEF ToCount
  <2>. QED
    BY <1>15, <1>17, <2>1, UncountedMoves DEF TallyInv
<1> HIDE DEF n, m
<1>19. Covers(row, m, connected)
  <2>1. Covers(rows[1], n, connected)
    BY <1>2 DEF n
  <2>2. CASE period.delta = 1
    <3>1. "parallel" \in faults \/ rows[1].used < Limit[plan.name]
      BY <1>1, <1>2, <2>2 DEF ConnTally
    <3>2. CASE "parallel" \in faults
      <4>1. Limit[plan.name] = Limit["FREE"] /\ Limit["FREE"] \in Nat
        BY <3>2, LimitIsNat
      <4>. QED
        BY <1>2, <1>8, <1>9, <1>10, <1>12, <1>18, <2>1, <2>2, <3>2, <4>1 DEF Covers, Least
    <3>3. CASE "parallel" \notin faults
      BY <1>2, <1>8, <1>9, <1>10, <1>12, <1>18, <2>1, <2>2, <3>1, <3>3 DEF Covers
    <3>. QED
      BY <3>2, <3>3
  <2>3. CASE period.delta # 1
    <3>1. used = rows[1].used /\ m = n
      BY <1>2, <1>8, <1>9, <1>10, <1>18, <2>3
    <3>. QED
      BY <1>12, <2>1, <3>1 DEF Covers
  <2>. QED
    BY <2>2, <2>3
<1>20. Covers(rows'[1], Cardinality(Uncounted'), connected')
  BY <1>1, <1>13, <1>19 DEF m
<1>. QED
  BY <1>1, <1>2, <1>13, <1>14, <1>15, <1>16, <1>17, <1>20, ConnTallied

-----------------------------------------------------------------------------
(* The whole *)

\* What has been dropped is not found again.
LEMMA ForgotStays == [Next]_vars => (forgot => forgot')
<1> SUFFICES ASSUME [Next]_vars, forgot PROVE forgot'
  OBVIOUS
<1>1. CASE Tick \/ Crash
  BY <1>1 DEF Tick, Crash
<1>2. CASE StripeMoves
  <2>1. ASSUME NEW t, NEW s, NEW sub, Send(t, s, sub) PROVE forgot'
    BY <2>1 DEF Send
  <2>2. ASSUME NEW name, Checkout(name) PROVE forgot'
    BY <2>1, <2>2, Zenon DEF Checkout
  <2>3. ASSUME NEW s, StripeRenews(s) \/ StripeAnnounces(s) \/ StripeEnds(s) PROVE forgot'
    BY <2>1, <2>3, Zenon DEF StripeRenews, StripeAnnounces, StripeEnds
  <2>. QED
    BY <1>2, <2>2, <2>3 DEF StripeMoves
<1>3. ASSUME NEW p \in Procs, Deliver(p) \/ Request(p) \/ FindExpired(p) PROVE forgot'
  BY <1>3 DEF Deliver, DeliverCheckout, DeliverPaid, DeliverUpcoming, DeliverDeleted,
     Request, StartUpdate, StartCancel, FindExpired
<1>4. ASSUME NEW p \in Procs, FrameStep(p) PROVE forgot'
  BY <1>4 DEF FrameStep, FindCancelled, CallUpdate, CallCancel, EnsurePlan, ResetRead,
     ResetWrite, SyncCustomer
<1>5. ASSUME NEW c \in Connectors, ConnStart(c) \/ ConnStep(c) PROVE forgot'
  BY <1>5 DEF ConnStart, ConnStep, EnsureAccountLimit, DeleteAccount, SaveAccount,
     AdjustUsage, UpdateUserPlanUsage
<1>6. CASE UNCHANGED vars
  BY <1>6 DEF vars
<1>. QED
  BY <1>1, <1>2, <1>3, <1>4, <1>5, <1>6 DEF Next

LEMMA NextKeepsTally == IInv /\ DeskInv /\ Tallied /\ [Next]_vars => Tallied'
<1> SUFFICES ASSUME IInv, DeskInv, Tallied, [Next]_vars, Calm', ~ forgot' PROVE TallyInv'
  BY DEF Tallied
<1>1. Calm
  BY ScenarioStays DEF Calm, OnOffer
<1>2. TallyInv
  BY <1>1, ForgotStays DEF Tallied
<1>3. CASE Tick \/ StripeMoves
  BY <1>1, <1>2, <1>3, StripeKeepsTally
<1>4. CASE Crash
  BY <1>1, <1>4 DEF Crash, Calm
<1>5. ASSUME NEW p \in Procs, Deliver(p) \/ Request(p) \/ FindExpired(p) PROVE TallyInv'
  BY <1>1, <1>2, <1>5, StartKeepsTally
<1>6. ASSUME NEW p \in Procs, FrameStep(p) PROVE TallyInv'
  BY <1>2, <1>6, AskingKeepsTally, EnsureKeepsTally, ReadKeepsTally, WriteKeepsTally,
     SyncKeepsTally DEF FrameStep
<1>7. ASSUME NEW c \in Connectors, ConnStart(c) PROVE TallyInv'
  BY <1>1, <1>2, <1>7, ConnStartKeepsTally
<1>8. ASSUME NEW c \in Connectors, ConnStep(c) PROVE TallyInv'
  BY <1>1, <1>2, <1>8, SaveKeepsTally, AdjustKeepsTally, CountKeepsTally DEF ConnStep
<1>9. CASE UNCHANGED vars
  BY <1>2, <1>9, TallyStays DEF vars
<1>. QED
  BY <1>3, <1>4, <1>5, <1>6, <1>7, <1>8, <1>9 DEF Next

LEMMA InitTally == Init => Tallied
<1> SUFFICES ASSUME Init PROVE TallyInv
  BY DEF Tallied
<1> DEFINE row == [from |-> 0, to |-> Month, used |-> 0]
<1>1. rows = <<row>> /\ row \in UsageRow
  BY PlanUsageAssumption DEF Init, UsageRow
<1>2. row.from = 0 /\ row.to = Month /\ row.used = 0
  OBVIOUS
<1> HIDE DEF row
<1>3. OneRow(rows) /\ rows[1] = row
  BY <1>1 DEF OneRow
<1>4. ProcsIdle /\ ConnIdle
  BY DEF Init, ProcsIdle, ConnIdle, Idle, IdleConn
<1>5. AloneInv
  BY <1>4 DEF AloneInv, ProcsIdle, ConnIdle
<1>6. connected = 0 /\ conn \in [Connectors -> ConnFrames]
  BY DEF Init, IdleConn, ConnFrames
<1>7. RowFits(rows[1], plan)
  <2>1. plan.from = 0 /\ plan.to = Month /\ plan.name = "FREE"
    BY PlanUsageAssumption DEF Init, FreePlan, PlanFor
  <2>2. Limit["FREE"] \in Nat
    BY PlanUsageAssumption DEF Plans
  <2>. QED
    BY <1>2, <1>3, <2>1, <2>2 DEF RowFits, SamePeriod
<1>8. \A c \in Connectors : ConnTally(conn[c], rows[1], plan, now)
  BY <1>4 DEF ConnIdle, ConnTally
<1>9. Covers(rows[1], Cardinality(Uncounted), connected)
  <2>1. Cardinality(Uncounted) = 0
    BY <1>4, NoneUncounted, FS_EmptySet
  <2>2. Limit["FREE"] \in Nat
    BY PlanUsageAssumption DEF Plans
  <2>. QED
    BY <1>2, <1>3, <1>6, <2>1, <2>2 DEF Covers, Least
<1>. QED
  BY <1>3, <1>4, <1>5, <1>6, <1>7, <1>8, <1>9 DEF TallyInv, ProcsIdle

LEMMA TallyImplies == IInv /\ DeskInv /\ Tallied => AccountsCounted
<1> SUFFICES ASSUME IInv, DeskInv, Calm, TallyInv, ProcsIdle, plan.to > now
             PROVE  AccountsUsed + Cardinality(Uncounted) >= Least(connected, AccountsLimit)
  BY DEF AccountsCounted, Tallied, Calm
<1>1. RowFits(rows[1], plan)
  BY ProcsIdleFits
<1>2. AccountsUsed = rows[1].used /\ AccountsLimit = Limit[plan.name]
  BY <1>1, QuotaIs
<1>3. /\ rows[1].used \in Nat /\ connected \in Nat
      /\ Covers(rows[1], Cardinality(Uncounted), connected)
  BY RowType DEF TallyInv
<1>4. Cardinality(Uncounted) \in Nat
  <2>1. IsFiniteSet(Connectors) /\ Uncounted \subseteq Connectors
    BY PlanUsageAssumption DEF Uncounted
  <2>. QED
    BY <2>1, FS_Subset, FS_CardinalityType
<1>. QED
  BY <1>2, <1>3, <1>4, LimitIsNat DEF Covers, Least

(* However many requests connect and delete accounts at once, and whatever   *)
(* checkouts, renewals, changes, cancellations and expiries come between     *)
(* them, the count of accounts in the period of the plan has every account   *)
(* up to the limit, until a handler drops it (AccountsService,               *)
(* UserService.resetUsageCountersForPlan): a reset that keeps the count      *)
(* moves the one row there is, and a request counts in the period it reads.  *)
THEOREM AccountsAreCounted == Spec => []AccountsCounted
<1>1. Spec => []Tallied
  BY DeskAndIInv, InitTally, NextKeepsTally, PTL DEF Spec
<1>. QED
  BY <1>1, DeskAndIInv, TallyImplies, PTL

(* A paid plan in the row of user_plans is one that the tenant bought under *)
(* the subscription in the row, however webhooks (late, repeated, in any    *)
(* order), requests, the job and crashes of the process interleave.         *)
THEOREM PaidPlanWasBought == Spec => []PaidWasBought
<1>1. IInv => PaidWasBought
  BY DEF IInv, PlanInv, Backed, PaidWasBought
<1>. QED
  BY <1>1, DeskAndIInv, PTL

-----------------------------------------------------------------------------
(* The types                                                                *)

Kind == {"none", "webhook", "request", "job"}
Pc == {"idle", "find", "update", "cancel", "ensure", "ensureOnly", "read", "write", "sync"}

FrameType ==
    [pc : Pc, type : Kind, event : Event \cup {NoEvent}, seen : PlanRow, next : PlanRow,
     keep : BOOLEAN, row : Int, used : Nat]

\* A webhook has an event; a change is to a paid plan, a cancellation of a subscription.
FrameTyped(f) ==
    /\ f \in FrameType
    /\ f.type = "webhook" \/ f.pc = "find" => f.event \in Event
    /\ f.pc = "update" => f.next.name \in Paid
    /\ f.pc = "cancel" => f.seen.sub # NoSub

ConnType == [pc : {"idle", "save", "adjust", "count"}, delta : Int, from : Int, to : Int]

WorldTyped ==
    /\ faults \in Scenarios
    /\ now \in 0 .. MaxTime
    /\ stripe \in [Subs -> Subscription]
    /\ customer \in {"none", "stripe", "tenant"}
    /\ crashed \in {"no", "yes", "cut"} /\ forgot \in BOOLEAN
    /\ bought \subseteq Subs \X Paid
InboxTyped == inbox \in Seq(Event)
RowsTyped == rows \in Seq(UsageRow) /\ rows # <<>>
PlanTyped == plan \in PlanRow
FramesTyped ==
    /\ frame \in [Procs -> FrameType]
    /\ \A p \in Procs : FrameTyped(frame[p])
ConnTyped == conn \in [Connectors -> ConnType] /\ connected \in Nat

Typed == WorldTyped /\ InboxTyped /\ RowsTyped /\ PlanTyped /\ FramesTyped /\ ConnTyped

LEMMA Numbers ==
  /\ Month \in Nat \ {0} /\ Trial \in Nat /\ MaxTime \in Nat
  /\ MaxSubs \in Nat /\ Limit \in [Plans -> Nat \ {0}] /\ "FREE" \in Plans
  BY PlanUsageAssumption DEF Plans

LEMMA NowInt == Typed => now \in Int
  BY Numbers DEF Typed, WorldTyped

LEMMA FreePlanTyped ==
  ASSUME Typed, NEW s \in Subs \cup {NoSub},
         NEW b \in {"active", "trialing", "active_until_period_end", "canceled"}
  PROVE  FreePlan(s, b) \in PlanRow
  BY NowInt, Numbers DEF FreePlan, PlanFor, PlanRow

LEMMA IdleTyped == FrameTyped(Idle)
<1>1. PlanFor("FREE", NoSub, 0, Month, "active") \in PlanRow
  BY Numbers DEF PlanFor, PlanRow
<1> DEFINE row == PlanFor("FREE", NoSub, 0, Month, "active")
<1>2. /\ Idle.pc = "idle" /\ Idle.type = "none" /\ Idle \in FrameType
  <2>1. Idle = [pc |-> "idle", type |-> "none", event |-> NoEvent, seen |-> row, next |-> row,
                keep |-> TRUE, row |-> 0, used |-> 0]
    BY DEF Idle
  <2> HIDE DEF row
  <2>2. row \in PlanRow
    BY <1>1 DEF row
  <2>. QED
    BY <2>1, <2>2 DEF FrameType, Pc, Kind
<1>. QED
  BY <1>2 DEF FrameTyped

LEMMA IdleConnTyped == IdleConn \in ConnType
  BY DEF IdleConn, ConnType

LEMMA InitTyped == Init => Typed
<1> SUFFICES ASSUME Init
             PROVE  Typed
  OBVIOUS
<1>1. WorldTyped
  <2>1. NoSubscription \in Subscription
    BY Numbers DEF NoSubscription, Subscription
  <2>2. stripe \in [Subs -> Subscription]
    BY <2>1 DEF Init
  <2>3. now \in 0 .. MaxTime
    BY Numbers DEF Init
  <2>. QED
    BY <2>2, <2>3 DEF Init, WorldTyped
<1>2. RowsTyped
  BY Numbers DEF Init, RowsTyped, UsageRow
<1>3. PlanTyped
  BY Numbers DEF Init, PlanTyped, FreePlan, PlanFor, PlanRow, NoSub
<1>4. FramesTyped
  BY IdleTyped DEF Init, FramesTyped, FrameTyped
<1>5. ConnTyped
  BY IdleConnTyped DEF Init, ConnTyped
<1>. QED
  BY <1>1, <1>2, <1>3, <1>4, <1>5 DEF Typed, Init, InboxTyped

LEMMA FrameStays ==
  ASSUME Typed, NEW p \in Procs, NEW g, FrameTyped(g), frame' = [frame EXCEPT ![p] = g]
  PROVE  FramesTyped'
  BY DEF Typed, FramesTyped, FrameTyped

LEMMA TypedEnters ==
  ASSUME Typed, NEW p \in Procs, NEW pc \in Pc, NEW type \in Kind, NEW e, NEW next \in PlanRow,
         NEW keep \in BOOLEAN, Enter(p, pc, type, e, next, keep),
         e \in Event \/ (e = NoEvent /\ type # "webhook" /\ pc # "find"),
         pc = "update" => next.name \in Paid, pc = "cancel" => plan.sub # NoSub
  PROVE  FramesTyped'
<1> DEFINE g == [pc |-> pc, type |-> type, event |-> e, seen |-> plan,
                 next |-> next, keep |-> keep, row |-> 0, used |-> 0]
<1>1. g \in FrameType
  BY DEF FrameType, Typed, PlanTyped
<1>2. FrameTyped(g)
  BY <1>1 DEF FrameTyped
<1>. QED
  BY <1>2, FrameStays DEF Enter

LEMMA TypedReturns ==
  ASSUME Typed, NEW p \in Procs, Return(p)
  PROVE  FramesTyped'
  BY IdleTyped, FrameStays DEF Return

LEMMA TypedDone ==
  ASSUME Typed, NEW p \in Procs, Done(p)
  PROVE  FramesTyped' /\ InboxTyped'
<1>1. FramesTyped'
  BY TypedReturns DEF Done
<1>2. CASE frame[p].type = "webhook"
  <2> DEFINE e == frame[p].event
             i == CHOOSE i \in 1 .. Len(inbox) : inbox[i] = e
  <2>1. e \in Event
    BY <1>2 DEF Typed, FramesTyped, FrameTyped
  <2>2. inbox \in Seq(Event) /\ Len(inbox) \in Nat
    BY DEF Typed, InboxTyped
  <2>3. Without(e) \in Seq(Event)
    <3>1. Without(e) = [k \in 1 .. Len(inbox) - 1 |-> inbox[IF k < i THEN k ELSE k + 1]]
      BY DEF Without
    <3> HIDE DEF i
    <3>2. \A k \in 1 .. Len(inbox) - 1 : inbox[IF k < i THEN k ELSE k + 1] \in Event
      BY <2>2
    <3>3. CASE Len(inbox) = 0
      <4>1. 1 .. Len(inbox) - 1 = 1 .. 0
        BY <3>3
      <4>. QED
        BY <3>1, <3>2, <4>1
    <3>4. CASE Len(inbox) # 0
      BY <2>2, <3>1, <3>2, <3>4
    <3>. QED
      BY <3>3, <3>4
  <2>4. [e EXCEPT !.again = TRUE] \in Event
    BY <2>1 DEF Event
  <2>5. inbox' \in Answered(e)
    BY <1>2 DEF Done
  <2>6. inbox' \in Seq(Event)
    BY <2>3, <2>4, <2>5 DEF Answered
  <2>. QED
    BY <1>1, <2>6 DEF InboxTyped
<1>3. CASE frame[p].type # "webhook"
  BY <1>1, <1>3 DEF Done, Typed, InboxTyped
<1>. QED
  BY <1>2, <1>3

LEMMA WorldStays ==
  ASSUME Typed, UNCHANGED <<faults, now, customer, crashed, forgot, stripe, bought>>
  PROVE  WorldTyped'
  BY DEF Typed, WorldTyped

LEMMA RestStays ==
  ASSUME Typed
  PROVE  /\ UNCHANGED inbox => InboxTyped'
         /\ UNCHANGED rows => RowsTyped'
         /\ UNCHANGED plan => PlanTyped'
         /\ UNCHANGED frame => FramesTyped'
         /\ UNCHANGED <<conn, connected>> => ConnTyped'
  BY DEF Typed, InboxTyped, RowsTyped, PlanTyped, FramesTyped, ConnTyped, FrameTyped

LEMMA TypedTick == Typed /\ Tick => Typed'
<1> SUFFICES ASSUME Typed, Tick
             PROVE  Typed'
  OBVIOUS
<1>1. WorldTyped'
  BY Numbers DEF Tick, Typed, WorldTyped
<1>. QED
  BY <1>1, RestStays DEF Tick, Typed

LEMMA TypedSend ==
  ASSUME Typed, NEW t \in {"checkout", "paid", "upcoming", "deleted"}, NEW s \in Subs,
         NEW sub \in Subscription, Send(t, s, sub)
  PROVE  InboxTyped' /\ stripe' \in [Subs -> Subscription]
<1>1. EventOf(t, s, sub) \in Event
  BY DEF EventOf, Event, Subscription
<1>. QED
  BY <1>1 DEF Send, Typed, InboxTyped, WorldTyped

LEMMA TypedSent ==
  ASSUME Typed, NEW t \in {"checkout", "paid", "upcoming", "deleted"}, NEW s \in Subs,
         NEW sub \in Subscription, Send(t, s, sub), bought' \subseteq Subs \X Paid
  PROVE  Typed'
<1>1. InboxTyped' /\ stripe' \in [Subs -> Subscription]
  BY TypedSend
<1>2. UNCHANGED <<faults, now, customer, plan, rows, frame, connected, conn, crashed, forgot>>
  BY DEF Send
<1>3. WorldTyped'
  BY <1>1, <1>2 DEF Typed, WorldTyped
<1>. QED
  BY <1>1, <1>2, <1>3, RestStays DEF Typed

LEMMA OpenedTyped ==
  ASSUME Typed, NEW name \in Plans, NEW b \in BOOLEAN
  PROVE  Opened(name, b) \in Subscription
  BY NowInt, Numbers DEF Opened, Subscription

LEMMA NextSubTyped == Unopened # {} => NextSub \in Subs
<1>1. Unopened # {} => NextSub \in Unopened
  BY DEF NextSub
<1>. QED
  BY <1>1 DEF Unopened

LEMMA TypedStripe == Typed /\ StripeMoves => Typed'
<1> SUFFICES ASSUME Typed, StripeMoves
             PROVE  Typed'
  OBVIOUS
<1>0. bought \subseteq Subs \X Paid /\ stripe \in [Subs -> Subscription]
  BY DEF Typed, WorldTyped
<1>1. ASSUME NEW name \in Paid, Checkout(name)
      PROVE  Typed'
  <2>1. Unopened # {} /\ Send("checkout", NextSub, Opened(name, FALSE))
        /\ bought' = bought \cup {<<NextSub, name>>}
    BY <1>1 DEF Checkout
  <2>2. NextSub \in Subs
    BY <2>1, NextSubTyped
  <2>3. Opened(name, FALSE) \in Subscription
    BY OpenedTyped DEF Paid
  <2>4. bought' \subseteq Subs \X Paid
    BY <1>0, <2>1, <2>2
  <2>. QED
    BY <2>1, <2>2, <2>3, <2>4, TypedSent
<1>2. ASSUME NEW s \in Subs, StripeRenews(s)
      PROVE  Typed'
  <2> DEFINE sub == [stripe[s] EXCEPT !.from = @ + Month, !.to = @ + Month, !.announced = FALSE]
  <2>1. Send("paid", s, sub) /\ UNCHANGED bought
    BY <1>2 DEF StripeRenews
  <2>2. sub \in Subscription
    <3>1. stripe[s] \in Subscription
      BY <1>0
    <3>2. stripe[s].from + Month \in Int /\ stripe[s].to + Month \in Int
      BY <3>1, Numbers DEF Subscription
    <3>. QED
      BY <3>1, <3>2 DEF Subscription
  <2>. QED
    BY <1>0, <2>1, <2>2, TypedSent
<1>3. ASSUME NEW s \in Subs, StripeAnnounces(s)
      PROVE  Typed'
  <2> DEFINE sub == [stripe[s] EXCEPT !.announced = TRUE]
  <2>1. Send("upcoming", s, sub) /\ UNCHANGED bought
    BY <1>3 DEF StripeAnnounces
  <2>2. sub \in Subscription
    BY <1>0 DEF Subscription
  <2>. QED
    BY <1>0, <2>1, <2>2, TypedSent
<1>4. ASSUME NEW s \in Subs, StripeEnds(s)
      PROVE  Typed'
  <2> DEFINE sub == [stripe[s] EXCEPT !.state = "ended"]
  <2>1. Send("deleted", s, sub) /\ UNCHANGED bought
    BY <1>4 DEF StripeEnds
  <2>2. sub \in Subscription
    BY <1>0 DEF Subscription
  <2>. QED
    BY <1>0, <2>1, <2>2, TypedSent
<1>. QED
  BY <1>1, <1>2, <1>3, <1>4 DEF StripeMoves

LEMMA TypedDeliver ==
  ASSUME Typed, NEW p \in Procs, NEW i \in 1 .. Len(inbox),
         \/ DeliverCheckout(p, i) \/ DeliverPaid(p, i) \/ DeliverUpcoming(p, i)
         \/ DeliverDeleted(p, i)
  PROVE  Typed'
<1> DEFINE e == inbox[i]
           sub == stripe[e.sub]
<1>1. e \in Event /\ e.sub \in Subs /\ e.name \in Plans /\ e.from \in Int /\ e.to \in Int
  <2>1. e \in Event
    BY DEF Typed, InboxTyped
  <2>. QED
    BY <2>1 DEF Event
<1>2. stripe \in [Subs -> Subscription] /\ plan \in PlanRow
  BY DEF Typed, WorldTyped, PlanTyped
<1>3. sub \in Subscription /\ sub.name \in Plans /\ sub.from \in Int /\ sub.to \in Int
  BY <1>1, <1>2 DEF Subscription
<1>4. /\ UNCHANGED <<faults, now, inbox, customer, plan, rows, connected, conn, crashed,
                     forgot, bought>>
      /\ stripe' = stripe \/ stripe' = [stripe EXCEPT ![e.sub].tagged = TRUE]
  BY DEF DeliverCheckout, DeliverPaid, DeliverUpcoming, DeliverDeleted
<1>5. stripe' \in [Subs -> Subscription]
  <2>1. [sub EXCEPT !.tagged = TRUE] \in Subscription
    BY <1>3 DEF Subscription
  <2>. QED
    BY <1>1, <1>2, <1>4, <2>1
<1>6. \E next \in PlanRow, keep \in BOOLEAN, pc \in {"ensure", "find"} :
         Enter(p, pc, "webhook", e, next, keep)
  <2>1. \A a \in Int, b \in Int, bl \in {"active", "trialing"}, name \in Plans :
           PlanFor(name, e.sub, a, b, bl) \in PlanRow
    BY <1>1 DEF PlanFor, PlanRow
  <2>2. now \in Int /\ now + Trial \in Int
    BY NowInt, Numbers
  <2>3. CASE DeliverCheckout(p, i)
    BY <1>3, <2>1, <2>3 DEF DeliverCheckout
  <2>4. CASE DeliverPaid(p, i)
    BY <1>1, <2>1, <2>4 DEF DeliverPaid
  <2>5. CASE DeliverUpcoming(p, i)
    BY <1>1, <2>1, <2>2, <2>5 DEF DeliverUpcoming
  <2>6. CASE DeliverDeleted(p, i)
    BY <1>2, <2>6 DEF DeliverDeleted
  <2>. QED
    BY <2>3, <2>4, <2>5, <2>6
<1>7. FramesTyped'
  BY <1>1, <1>6, TypedEnters DEF Pc, Kind
<1>8. WorldTyped'
  BY <1>4, <1>5 DEF Typed, WorldTyped
<1>. QED
  BY <1>4, <1>7, <1>8, RestStays DEF Typed

LEMMA TypedRequest ==
  ASSUME Typed, NEW p \in Procs, Request(p) \/ FindExpired(p)
  PROVE  Typed'
<1>0. plan \in PlanRow
  BY DEF Typed, PlanTyped
<1>1. UNCHANGED <<faults, now, stripe, inbox, customer, plan, rows, connected, conn, crashed,
                  forgot, bought>>
  BY DEF Request, StartUpdate, StartCancel, FindExpired
<1>2. FramesTyped'
  <2>1. ASSUME NEW name \in Paid, StartUpdate(p, name)
        PROVE  FramesTyped'
    <3>1. Enter(p, "update", "request", NoEvent, [plan EXCEPT !.name = name], TRUE)
      BY <2>1 DEF StartUpdate
    <3>2. /\ [plan EXCEPT !.name = name] \in PlanRow
          /\ [plan EXCEPT !.name = name].name = name
      BY <1>0, <2>1 DEF PlanRow, Paid
    <3>. QED
      BY <2>1, <3>1, <3>2, TypedEnters DEF Pc, Kind
  <2>2. CASE StartCancel(p)
    <3>1. Enter(p, "cancel", "request", NoEvent, plan, TRUE) /\ plan.sub # NoSub
      BY <2>2 DEF StartCancel
    <3>. QED
      BY <1>0, <3>1, TypedEnters DEF Pc, Kind
  <2>3. CASE FindExpired(p)
    <3>1. Enter(p, "ensure", "job", NoEvent, FreePlan(NoSub, "active"), TRUE)
      BY <2>3 DEF FindExpired
    <3>2. FreePlan(NoSub, "active") \in PlanRow
      BY FreePlanTyped
    <3>. QED
      BY <3>1, <3>2, TypedEnters DEF Pc, Kind
  <2>. QED
    BY <2>1, <2>2, <2>3 DEF Request
<1>. QED
  BY <1>1, <1>2, WorldStays, RestStays DEF Typed

\* A frame that goes on to pc with the row it will write.
LEMMA TypedGoesOn ==
  ASSUME Typed, NEW p \in Procs, NEW pc \in Pc \ {"find", "update", "cancel"}, NEW next \in PlanRow,
         \/ frame' = [frame EXCEPT ![p].pc = pc, ![p].next = next]
         \/ frame' = [frame EXCEPT ![p].pc = pc]
  PROVE  FramesTyped'
<1>1. frame[p] \in FrameType /\ FrameTyped(frame[p]) /\ frame \in [Procs -> FrameType]
  BY DEF Typed, FramesTyped, FrameTyped
<1>2. ASSUME NEW g \in {[frame[p] EXCEPT !.pc = pc, !.next = next], [frame[p] EXCEPT !.pc = pc]}
      PROVE  FrameTyped(g)
  <2>1. g \in FrameType /\ g.pc = pc /\ g.type = frame[p].type /\ g.event = frame[p].event
    BY <1>1 DEF FrameType
  <2>. QED
    BY <1>1, <2>1 DEF FrameTyped
<1>3. \/ frame' = [frame EXCEPT ![p] = [frame[p] EXCEPT !.pc = pc, !.next = next]]
      \/ frame' = [frame EXCEPT ![p] = [frame[p] EXCEPT !.pc = pc]]
  BY <1>1
<1>. QED
  BY <1>2, <1>3, FrameStays

LEMMA TypedFindCancelled ==
  ASSUME Typed, NEW p \in Procs, FindCancelled(p)
  PROVE  Typed'
<1>1. UNCHANGED <<faults, now, stripe, plan, rows, connected, conn, crashed, forgot, bought>>
  BY DEF FindCancelled
<1>2. WorldTyped'
  BY <1>1 DEF FindCancelled, Typed, WorldTyped
<1>3. FramesTyped' /\ InboxTyped'
  <2>1. CASE Done(p)
    BY <2>1, TypedDone
  <2>2. CASE /\ frame' = [frame EXCEPT ![p].pc = "ensure",
                                       ![p].next = FreePlan(plan.sub, "canceled")]
             /\ UNCHANGED inbox
    <3>1. plan.sub \in Subs \cup {NoSub}
      BY DEF Typed, PlanTyped, PlanRow
    <3>2. FreePlan(plan.sub, "canceled") \in PlanRow
      BY <3>1, FreePlanTyped
    <3>. QED
      BY <2>2, <3>2, TypedGoesOn, RestStays DEF Pc
  <2>. QED
    BY <2>1, <2>2 DEF FindCancelled
<1>. QED
  BY <1>1, <1>2, <1>3, RestStays DEF Typed

LEMMA TypedCallUpdate ==
  ASSUME Typed, NEW p \in Procs, CallUpdate(p)
  PROVE  Typed'
<1> DEFINE name == frame[p].next.name
           seen == frame[p].seen
<1>1. UNCHANGED <<faults, now, inbox, customer, plan, rows, connected, conn, crashed, forgot>>
  BY DEF CallUpdate
<1>2. name \in Paid /\ name \in Plans /\ seen \in PlanRow
  BY DEF CallUpdate, Typed, FramesTyped, FrameTyped, FrameType, Paid
<1>3. stripe \in [Subs -> Subscription] /\ bought \subseteq Subs \X Paid
  BY DEF Typed, WorldTyped
<1>4. \A s \in Subs, sub \in Subscription :
         PlanFor(name, s, sub.from, sub.to, "active") \in PlanRow
  BY <1>2 DEF PlanFor, PlanRow, Subscription
<1>5. FramesTyped' /\ stripe' \in [Subs -> Subscription] /\ bought' \subseteq Subs \X Paid
  <2>1. CASE CreateSubscription(p)
    <3> DEFINE sub == Opened(name, TRUE)
               next == PlanFor(name, NextSub, sub.from, sub.to, "active")
    <3>1. NextSub \in Subs /\ sub \in Subscription
      BY <1>2, <2>1, NextSubTyped, OpenedTyped DEF CreateSubscription
    <3>2. next \in PlanRow
      BY <1>4, <3>1
    <3>3. /\ stripe' = [stripe EXCEPT ![NextSub] = sub]
          /\ bought' = bought \cup {<<NextSub, name>>}
          /\ frame' = [frame EXCEPT ![p].pc = "ensure", ![p].next = next]
      BY <2>1 DEF CreateSubscription
    <3> HIDE DEF sub, next
    <3>4. FramesTyped'
      BY <3>2, <3>3, TypedGoesOn DEF Pc
    <3>. QED
      BY <1>2, <1>3, <3>1, <3>3, <3>4
  <2>2. CASE ~NeedsNew(seen) /\ ChangeSubscription(p, seen.sub)
    <3> DEFINE s == seen.sub
               next == PlanFor(name, s, stripe[s].from, stripe[s].to, "active")
    <3>1. s \in Subs
      BY <1>2, <2>2 DEF NeedsNew, PlanRow
    <3>2. stripe[s] \in Subscription
      BY <1>3, <3>1
    <3>3. next \in PlanRow
      BY <1>4, <3>1, <3>2
    <3>4. [stripe[s] EXCEPT !.name = name, !.state = "active", !.tagged = TRUE] \in Subscription
      BY <1>2, <3>2 DEF Subscription
    <3>5. /\ stripe' = [stripe EXCEPT ![s].name = name, ![s].state = "active", ![s].tagged = TRUE]
          /\ bought' = bought \cup {<<s, name>>}
          /\ frame' = [frame EXCEPT ![p].pc = "ensure", ![p].next = next]
      BY <2>2 DEF ChangeSubscription
    <3> HIDE DEF next
    <3>6. FramesTyped'
      BY <3>3, <3>5, TypedGoesOn DEF Pc
    <3> HIDE DEF s
    <3>7. stripe' = [stripe EXCEPT ![s] = [stripe[s] EXCEPT !.name = name, !.state = "active",
                                                            !.tagged = TRUE]]
      BY <1>3, <3>1, <3>5
    <3>8. stripe' \in [Subs -> Subscription]
      BY <1>3, <3>1, <3>4, <3>7
    <3>. QED
      BY <1>2, <1>3, <3>1, <3>5, <3>6, <3>8
  <2>3. CASE Return(p) /\ UNCHANGED <<stripe, bought>>
    BY <1>3, <2>3, TypedReturns
  <2>. QED
    BY <2>1, <2>2, <2>3 DEF CallUpdate
<1>6. WorldTyped'
  BY <1>1, <1>5 DEF Typed, WorldTyped
<1>. QED
  BY <1>1, <1>5, <1>6, RestStays DEF Typed

LEMMA TypedCallCancel ==
  ASSUME Typed, NEW p \in Procs, CallCancel(p)
  PROVE  Typed'
<1> DEFINE s == frame[p].seen.sub
           next == PlanFor(frame[p].seen.name, s, stripe[s].from, stripe[s].to,
                           "active_until_period_end")
<1>1. UNCHANGED <<faults, now, inbox, customer, plan, rows, connected, conn, crashed, forgot,
                  bought>>
  BY DEF CallCancel
<1>2. frame[p].seen \in PlanRow /\ frame[p].seen.sub # NoSub
  BY DEF CallCancel, Typed, FramesTyped, FrameTyped, FrameType
<1>3. s \in Subs /\ frame[p].seen.name \in Plans
  BY <1>2 DEF PlanRow
<1>4. stripe \in [Subs -> Subscription]
  BY DEF Typed, WorldTyped
<1>5. stripe[s] \in Subscription
  BY <1>3, <1>4
<1>6. FramesTyped' /\ stripe' \in [Subs -> Subscription]
  <2>1. CASE /\ stripe' = [stripe EXCEPT ![s].state = "leaving", ![s].tagged = TRUE]
             /\ frame' = [frame EXCEPT ![p].pc = "ensureOnly", ![p].next = next]
    <3>1. next \in PlanRow
      BY <1>3, <1>5 DEF PlanFor, PlanRow, Subscription
    <3>2. [stripe[s] EXCEPT !.state = "leaving", !.tagged = TRUE] \in Subscription
      BY <1>5 DEF Subscription
    <3> HIDE DEF next
    <3>3. FramesTyped'
      BY <2>1, <3>1, TypedGoesOn DEF Pc
    <3> HIDE DEF s
    <3>4. stripe' = [stripe EXCEPT ![s] = [stripe[s] EXCEPT !.state = "leaving", !.tagged = TRUE]]
      BY <1>3, <1>4, <2>1
    <3>. QED
      BY <1>3, <1>4, <3>2, <3>3, <3>4
  <2>2. CASE Return(p) /\ UNCHANGED stripe
    BY <1>4, <2>2, TypedReturns
  <2>. QED
    BY <2>1, <2>2 DEF CallCancel
<1>7. WorldTyped'
  BY <1>1, <1>6 DEF Typed, WorldTyped
<1>. QED
  BY <1>1, <1>6, <1>7, RestStays DEF Typed

LEMMA TypedEnsurePlan ==
  ASSUME Typed, NEW p \in Procs, EnsurePlan(p)
  PROVE  Typed'
<1> DEFINE pc == IF frame[p].pc = "ensure" THEN "read" ELSE "sync"
<1>1. UNCHANGED <<faults, now, stripe, inbox, customer, rows, connected, conn, crashed, bought>>
  BY DEF EnsurePlan
<1>2. frame \in [Procs -> FrameType] /\ frame[p].next \in PlanRow
  BY DEF Typed, FramesTyped, FrameTyped, FrameType
<1>3. frame' = [frame EXCEPT ![p].pc = pc]
  BY <1>2 DEF EnsurePlan
<1>4. FramesTyped'
  <2>1. pc \in Pc \ {"find", "update", "cancel"}
    BY DEF Pc
  <2> HIDE DEF pc
  <2>. QED
    BY <1>2, <1>3, <2>1, TypedGoesOn
<1>5. PlanTyped'
  BY <1>2 DEF EnsurePlan, PlanTyped
<1>6. forgot' \in BOOLEAN
  BY DEF EnsurePlan
<1>7. WorldTyped'
  BY <1>1, <1>6 DEF Typed, WorldTyped
<1>. QED
  BY <1>1, <1>4, <1>5, <1>7, RestStays DEF Typed

LEMMA TypedResetRead ==
  ASSUME Typed, NEW p \in Procs, ResetRead(p)
  PROVE  Typed'
<1>1. UNCHANGED <<faults, now, stripe, inbox, customer, plan, rows, connected, conn, crashed,
                  forgot, bought>>
  BY DEF ResetRead
<1>2. FrameTyped(frame[p]) /\ frame \in [Procs -> FrameType] /\ frame[p].pc = "read"
  BY DEF Typed, FramesTyped, ResetRead
<1>3. Len(rows) \in Int /\ rows[Len(rows)] \in UsageRow
  BY DEF Typed, RowsTyped
<1>4. PICK used \in Nat : frame' = [frame EXCEPT ![p].pc = "write", ![p].row = Len(rows),
                                                 ![p].used = used]
  BY <1>3 DEF ResetRead, UsageRow
<1> DEFINE g == [frame[p] EXCEPT !.pc = "write", !.row = Len(rows), !.used = used]
<1>5. g \in FrameType /\ g.pc = "write" /\ g.type = frame[p].type /\ g.event = frame[p].event
  BY <1>2, <1>3 DEF FrameTyped, FrameType, Pc
<1>6. FrameTyped(g)
  BY <1>2, <1>5 DEF FrameTyped
<1>7. frame' = [frame EXCEPT ![p] = g]
  BY <1>2, <1>4
<1>8. FramesTyped'
  BY <1>6, <1>7, FrameStays
<1>. QED
  BY <1>1, <1>8, WorldStays, RestStays DEF Typed

LEMMA TypedResetWrite ==
  ASSUME Typed, NEW p \in Procs, ResetWrite(p)
  PROVE  Typed'
<1> DEFINE f == frame[p]
           row == [from |-> f.next.from, to |-> f.next.to, used |-> f.used]
<1>1. UNCHANGED <<faults, now, stripe, customer, plan, connected, conn, crashed, bought>>
  BY DEF ResetWrite
<1>2. rows \in Seq(UsageRow) /\ rows # <<>>
  BY DEF Typed, RowsTyped
<1>3. row \in UsageRow
  BY DEF Typed, FramesTyped, FrameTyped, FrameType, PlanRow, UsageRow
<1>4. forgot' \in BOOLEAN
  BY DEF ResetWrite
<1>5. FramesTyped' /\ InboxTyped' /\ RowsTyped'
  <2>1. CASE Return(p) /\ UNCHANGED <<inbox, rows>>
    BY <2>1, TypedReturns, RestStays
  <2>2. CASE rows' = [rows EXCEPT ![f.row] = row] /\ AfterReset(p)
    <3>1. RowsTyped'
      <4>1. rows' = [rows EXCEPT ![f.row] = row]
        BY <2>2
      <4> HIDE DEF row
      <4>2. DOMAIN rows = 1 .. Len(rows) /\ Len(rows) \in Nat
        BY <1>2
      <4>3. rows' = [i \in 1 .. Len(rows) |-> rows'[i]]
        BY <4>1, <4>2
      <4>4. \A i \in 1 .. Len(rows) : rows'[i] \in UsageRow
        BY <1>2, <1>3, <4>1, <4>2
      <4>5. rows' \in Seq(UsageRow) /\ Len(rows') = Len(rows)
        BY <4>2, <4>3, <4>4
      <4>6. Len(rows) # 0
        BY <1>2
      <4>. QED
        BY <4>5, <4>6 DEF RowsTyped
    <3>2. FramesTyped' /\ InboxTyped'
      <4>1. CASE Done(p)
        BY <4>1, TypedDone
      <4>2. CASE frame' = [frame EXCEPT ![p].pc = "sync"] /\ UNCHANGED inbox
        <5>1. f.next \in PlanRow
          BY DEF Typed, FramesTyped, FrameTyped, FrameType
        <5>. QED
          BY <4>2, <5>1, TypedGoesOn, RestStays DEF Pc
      <4>. QED
        BY <2>2, <4>1, <4>2 DEF AfterReset
    <3>. QED
      BY <3>1, <3>2
  <2>. QED
    BY <2>1, <2>2 DEF ResetWrite
<1>6. WorldTyped'
  BY <1>1, <1>4 DEF Typed, WorldTyped
<1>. QED
  BY <1>1, <1>5, <1>6, RestStays DEF Typed

LEMMA TypedSync ==
  ASSUME Typed, NEW p \in Procs, SyncCustomer(p)
  PROVE  Typed'
<1>1. UNCHANGED <<faults, now, stripe, plan, rows, connected, conn, crashed, forgot, bought>>
      /\ customer' = "stripe" /\ Done(p)
  BY DEF SyncCustomer
<1>2. WorldTyped'
  BY <1>1 DEF Typed, WorldTyped
<1>. QED
  BY <1>1, <1>2, TypedDone, RestStays DEF Typed

LEMMA TypedCrash == Typed /\ Crash => Typed'
<1> SUFFICES ASSUME Typed, Crash
             PROVE  Typed'
  OBVIOUS
<1>1. UNCHANGED <<faults, now, stripe, inbox, customer, plan, rows, connected, forgot, bought>>
      /\ crashed' \in {"yes", "cut"}
      /\ frame' = [p \in Procs |-> Idle] /\ conn' = [c \in Connectors |-> IdleConn]
  BY DEF Crash
<1>2. WorldTyped'
  BY <1>1 DEF Typed, WorldTyped
<1>3. FramesTyped'
  BY <1>1, IdleTyped DEF FramesTyped, FrameTyped
<1>4. ConnTyped'
  BY <1>1, IdleConnTyped DEF Typed, ConnTyped
<1>. QED
  BY <1>1, <1>2, <1>3, <1>4, RestStays DEF Typed

\* The new rows of updateUserPlanUsage have counts from zero on.
LEMMA TypedCount ==
  ASSUME Typed, NEW c \in Connectors, UpdateUserPlanUsage(c)
  PROVE  RowsTyped'
<1> DEFINE period == conn[c]
           new == Added(period.delta)
           limit == Limit[plan.name]
<1>1. limit \in Nat /\ period.delta \in Int /\ period.from \in Int /\ period.to \in Int
  BY Numbers DEF Typed, PlanTyped, PlanRow, ConnTyped, ConnType
<1>2. new \in Nat
  BY <1>1 DEF Added, Greatest, Least
<1>3. rows \in Seq(UsageRow) /\ rows # <<>> /\ Len(rows) \in Nat
  BY DEF Typed, RowsTyped
<1>4. CASE rows' = rows
  BY <1>3, <1>4 DEF RowsTyped
<1>5. CASE rows' = Append(rows, [from |-> period.from, to |-> period.to, used |-> new])
  <2>1. [from |-> period.from, to |-> period.to, used |-> new] \in UsageRow
    BY <1>1, <1>2 DEF UsageRow
  <2> HIDE DEF new
  <2>2. rows' \in Seq(UsageRow) /\ Len(rows') = Len(rows) + 1
    BY <1>3, <1>5, <2>1
  <2>. QED
    BY <1>3, <2>2 DEF RowsTyped
<1>6. CASE rows' = [i \in DOMAIN rows |->
                      IF i \in RowsOf(period)
                      THEN [rows[i] EXCEPT !.used = Least(@ + new, limit)]
                      ELSE rows[i]]
  <2> HIDE DEF new, limit
  <2>1. \A r \in UsageRow : [r EXCEPT !.used = Least(@ + new, limit)] \in UsageRow
    BY <1>1, <1>2 DEF UsageRow, Least
  <2>2. DOMAIN rows = 1 .. Len(rows) /\ \A i \in DOMAIN rows : rows[i] \in UsageRow
    BY <1>3
  <2>3. \A i \in 1 .. Len(rows) : rows'[i] \in UsageRow
    BY <1>6, <2>1, <2>2
  <2>4. rows' = [i \in 1 .. Len(rows) |-> rows'[i]]
    BY <1>6, <2>2
  <2>5. rows' \in Seq(UsageRow) /\ Len(rows') = Len(rows)
    BY <1>3, <2>3, <2>4
  <2>6. Len(rows) # 0
    BY <1>3
  <2>. QED
    BY <2>5, <2>6 DEF RowsTyped
<1>. QED
  BY <1>4, <1>5, <1>6 DEF UpdateUserPlanUsage

LEMMA MovedTyped ==
  ASSUME NEW g \in ConnType
  PROVE  /\ [g EXCEPT !.pc = "adjust", !.delta = 1] \in ConnType
         /\ [g EXCEPT !.pc = "adjust", !.delta = -1] \in ConnType
<1>1. ASSUME NEW d \in Int
      PROVE  [g EXCEPT !.pc = "adjust", !.delta = d] \in ConnType
  BY DEF ConnType
<1>2. 1 \in Int /\ -1 \in Int
  OBVIOUS
<1>. QED
  BY <1>1, <1>2, Zenon

LEMMA TypedConn ==
  ASSUME Typed, NEW c \in Connectors, ConnStart(c) \/ ConnStep(c)
  PROVE  Typed'
<1>0. conn \in [Connectors -> ConnType] /\ connected \in Nat /\ conn[c] \in ConnType
  BY DEF Typed, ConnTyped
<1>1. UNCHANGED <<faults, now, stripe, inbox, customer, plan, frame, crashed, forgot, bought>>
  BY DEF ConnStart, ConnStep, EnsureAccountLimit, DeleteAccount, SaveAccount, AdjustUsage,
         UpdateUserPlanUsage
<1>2. ConnTyped'
  <2>1. CASE EnsureAccountLimit(c)
    BY <1>0, <2>1 DEF EnsureAccountLimit, ConnTyped, ConnType
  <2>2. CASE SaveAccount(c)
    <3>1. [conn[c] EXCEPT !.pc = "adjust", !.delta = 1] \in ConnType
      BY <1>0, MovedTyped, Zenon
    <3>2. /\ conn' = [conn EXCEPT ![c] = [conn[c] EXCEPT !.pc = "adjust", !.delta = 1]]
          /\ connected' \in Nat
      BY <1>0, <2>2 DEF SaveAccount
    <3>. QED
      BY <1>0, <3>1, <3>2 DEF ConnTyped
  <2>3. CASE DeleteAccount(c)
    <3>1. [conn[c] EXCEPT !.pc = "adjust", !.delta = -1] \in ConnType
      BY <1>0, MovedTyped, Zenon
    <3>2. /\ conn' = [conn EXCEPT ![c] = [conn[c] EXCEPT !.pc = "adjust", !.delta = -1]]
          /\ connected' \in Nat
      BY <1>0, <2>3 DEF DeleteAccount
    <3>. QED
      BY <1>0, <3>1, <3>2 DEF ConnTyped
  <2>4. CASE AdjustUsage(c)
    <3>1. plan.from \in Int /\ plan.to \in Int
      BY DEF Typed, PlanTyped, PlanRow
    <3>2. [conn[c] EXCEPT !.pc = "count", !.from = plan.from, !.to = plan.to] \in ConnType
      BY <1>0, <3>1 DEF ConnType
    <3>3. \E g \in ConnType : conn' = [conn EXCEPT ![c] = g]
      BY <1>0, <2>4, <3>2, IdleConnTyped DEF AdjustUsage
    <3>. QED
      BY <1>0, <2>4, <3>3 DEF AdjustUsage, ConnTyped
  <2>5. CASE UpdateUserPlanUsage(c)
    BY <1>0, <2>5, IdleConnTyped DEF UpdateUserPlanUsage, ConnTyped
  <2>. QED
    BY <2>1, <2>2, <2>3, <2>4, <2>5 DEF ConnStart, ConnStep
<1>3. RowsTyped'
  <2>1. UNCHANGED rows \/ UpdateUserPlanUsage(c)
    BY DEF ConnStart, ConnStep, EnsureAccountLimit, DeleteAccount, SaveAccount, AdjustUsage
  <2>. QED
    BY <2>1, TypedCount, RestStays
<1>. QED
  BY <1>1, <1>2, <1>3, WorldStays, RestStays DEF Typed

LEMMA NextTyped == Typed /\ [Next]_vars => Typed'
<1> SUFFICES ASSUME Typed, [Next]_vars
             PROVE  Typed'
  OBVIOUS
<1>1. CASE UNCHANGED vars
  BY <1>1, WorldStays, RestStays DEF vars, Typed
<1>2. ASSUME NEW p \in Procs, Deliver(p) \/ Request(p) \/ FindExpired(p)
      PROVE  Typed'
  BY <1>2, TypedDeliver, TypedRequest DEF Deliver
<1>3. ASSUME NEW p \in Procs, FrameStep(p)
      PROVE  Typed'
  BY <1>3, TypedFindCancelled, TypedCallUpdate, TypedCallCancel, TypedEnsurePlan,
     TypedResetRead, TypedResetWrite, TypedSync DEF FrameStep
<1>4. ASSUME NEW c \in Connectors, ConnStart(c) \/ ConnStep(c)
      PROVE  Typed'
  BY <1>4, TypedConn
<1>. QED
  BY <1>1, <1>2, <1>3, <1>4, TypedTick, TypedStripe, TypedCrash DEF Next

(* Every reachable state is well typed, for any numbers of handlers,        *)
(* requests and subscriptions: what ensurePlan writes is a row of a plan, a *)
(* subscription is changed only if there is one, and no count of accounts   *)
(* is below zero.                                                           *)
THEOREM TypeCorrect == Spec => []TypeOK
<1>1. Typed => TypeOK
  BY DEF Typed, WorldTyped, InboxTyped, RowsTyped, PlanTyped, FramesTyped, FrameTyped,
         FrameType, Pc, ConnTyped, ConnType, TypeOK
<1>. QED
  BY <1>1, InitTyped, NextTyped, PTL DEF Spec

=============================================================================
