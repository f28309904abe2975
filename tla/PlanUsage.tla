------------------------------ MODULE PlanUsage ------------------------------
(***************************************************************************)
(* The plan of one tenant and the count of its connected accounts: Stripe  *)
(* and its webhooks, the requests to change or cancel a subscription, the  *)
(* job that ends expired plans, and the connecting and deleting of         *)
(* accounts (UserService, UserRepository, StripeWebhookService,            *)
(* AccountsService).  Stripe is external.                                  *)
(*                                                                         *)
(* user_plans holds one row per tenant, user_plan_usage one row per period *)
(* and counter; the counter kept here is "accounts", the one whose count   *)
(* outlives a period.  Every handler writes the plan in one transaction    *)
(* and moves the counters to its period in another.                        *)
(***************************************************************************)
EXTENDS Integers, Sequences, FiniteSets

CONSTANTS
    Procs,      \* bound: the handlers, requests and jobs running at a time
    Connectors, \* bound: the requests about accounts running at a time
    MaxSubs,    \* bound: subscriptions
    MaxEvents,  \* bound: events waiting for their 200
    MaxAccounts,\* bound: the accounts the tenant would connect
    MaxTime,    \* bound: the clock
    Month,      \* the length of a paid, and of a free, period
    Trial,      \* the length of the trial invoice.upcoming starts
    Limit,      \* PLAN_LIMITS: the accounts each plan allows
    Scenarios   \* the sets of adverse events explored

Plans == {"FREE", "STARTER", "PRO"}

(* "overlap"  handlers, requests, the job and the clock interleave         *)
(* "parallel" several requests about accounts run at a time                *)
(* "late"     events come out of order, twice, or after other changes      *)
(* "crash"    the process dies, once                                       *)
(* "second"   a checkout although a subscription is active                 *)
(* "pro"      the PRO plan is on offer                                     *)
(* "requests" subscriptions are changed and cancelled by the tenant        *)
(* "accounts" accounts are connected and deleted                           *)
(* "others"   a reset fails because of another counter of the plan         *)
Kinds ==
    {"overlap", "parallel", "late", "crash", "second", "pro", "requests", "accounts",
     "others"}

ASSUME PlanUsageAssumption ==
    /\ IsFiniteSet(Connectors)
    /\ MaxSubs \in Nat /\ MaxEvents \in Nat
    /\ MaxAccounts \in Nat /\ MaxTime \in Nat
    /\ Month \in Nat \ {0} /\ Trial \in 1 .. Month
    /\ Limit \in [Plans -> Nat \ {0}]
    /\ Scenarios \subseteq SUBSET Kinds

VARIABLES
    faults,    \* the scenario; never changes
    now,       \* the clock
    stripe,    \* Stripe's subscriptions
    inbox,     \* the events Stripe has not got a 200 for
    customer,  \* tenants.stripe_customer_id: "none", "stripe", or "tenant"
    plan,      \* the row of user_plans
    rows,      \* the rows of user_plan_usage for accounts, oldest first
    frame,     \* the frames of handlers, requests and the job
    connected, \* the number of rows of social_accounts
    conn,      \* the frames of requests about accounts
    crashed,   \* bound: whether the process has died: "no", "yes", or "cut" if
               \* a request had changed the subscription and not yet the row
    forgot,    \* history: the count was lost by a checkout, a trial, a refused
               \* reset, or a cancellation that moved the plan's period
    bought     \* history: what each subscription has been for

vars == <<faults, now, stripe, inbox, customer, plan, rows, frame, connected,
          conn, crashed, forgot, bought>>

-----------------------------------------------------------------------------
(* Rows, subscriptions and frames *)

Paid == Plans \ {"FREE"}
Subs == 1 .. MaxSubs
NoSub == 0  \* NULL

Subscription ==
    [state : {"none", "active", "leaving", "ended"}, name : Plans,
     from : Int, to : Int, tagged : BOOLEAN, announced : BOOLEAN]

PlanRow ==
    [name : Plans, sub : Subs \cup {NoSub}, from : Int, to : Int,
     billing : {"active", "trialing", "active_until_period_end", "canceled"}]

UsageRow == [from : Int, to : Int, used : Nat]

Event ==
    [type : {"checkout", "paid", "upcoming", "deleted"}, sub : Subs,
     name : Plans, from : Int, to : Int, tagged : BOOLEAN, again : BOOLEAN]

NoSubscription ==
    [state |-> "none", name |-> "FREE", from |-> 0, to |-> 0,
     tagged |-> FALSE, announced |-> FALSE]

NoEvent == [type |-> "none"]

PlanFor(name, sub, from, to, billing) ==
    [name |-> name, sub |-> sub, from |-> from, to |-> to, billing |-> billing]

\* getPlanLimits(FREE) for a calculatePlanPeriod that starts today.
FreePlan(sub, billing) == PlanFor("FREE", sub, now, now + Month, billing)

\* seen is the plan row a frame has read, next the one it will write; keep is
\* preserveUsageTypes: ['accounts'], row and used what its reset will write.
Idle ==
    [pc |-> "idle", type |-> "none", event |-> NoEvent,
     seen |-> PlanFor("FREE", NoSub, 0, Month, "active"),
     next |-> PlanFor("FREE", NoSub, 0, Month, "active"),
     keep |-> TRUE, row |-> 0, used |-> 0]

IdleConn == [pc |-> "idle", delta |-> 0, from |-> 0, to |-> 0]

Init ==
    /\ faults \in Scenarios
    /\ now = 0
    /\ stripe = [s \in Subs |-> NoSubscription]
    /\ inbox = <<>>
    /\ customer = "none"
    /\ plan = FreePlan(NoSub, "active")
    /\ rows = <<[from |-> 0, to |-> Month, used |-> 0]>>
    /\ frame = [p \in Procs |-> Idle]
    /\ connected = 0
    /\ conn = [c \in Connectors |-> IdleConn]
    /\ crashed = "no"
    /\ forgot = FALSE
    /\ bought = {}

ProcsIdle == \A p \in Procs : frame[p].pc = "idle"
ConnIdle == \A c \in Connectors : conn[c].pc = "idle"

\* Unless they overlap, what happens next waits for what is running.
Rest == "overlap" \in faults \/ (ProcsIdle /\ ConnIdle)

\* A subscription at the end of its period.
Due(s) == stripe[s].state \in {"active", "leaving"} /\ stripe[s].to <= now

\* Unless events are late, it waits for Stripe's events, and a tenant's request
\* for what Stripe does at the end of a period.
Settled == Rest /\ ("late" \in faults \/ inbox = <<>>)
Prompt == "late" \in faults \/ (inbox = <<>> /\ \A s \in Subs : ~Due(s))

-----------------------------------------------------------------------------
(* Stripe *)

\* What Stripe does at the end of a period, it does on time.
Tick ==
    /\ Settled
    /\ now < MaxTime
    /\ \A s \in Subs : ~Due(s)
    /\ now' = now + 1
    /\ UNCHANGED <<faults, stripe, inbox, customer, plan, rows, frame,
                   connected, conn, crashed, forgot, bought>>

\* The event of type t about the subscription s, whose state is sub.
EventOf(t, s, sub) ==
    [type |-> t, sub |-> s, name |-> sub.name, from |-> sub.from, to |-> sub.to,
     tagged |-> sub.tagged, again |-> FALSE]

Send(t, s, sub) ==
    /\ Len(inbox) < MaxEvents
    /\ stripe' = [stripe EXCEPT ![s] = sub]
    /\ inbox' = Append(inbox, EventOf(t, s, sub))
    /\ UNCHANGED <<faults, now, customer, plan, rows, frame, connected, conn,
                   crashed, forgot>>

Opened(name, tagged) ==
    [state |-> "active", name |-> name, from |-> now, to |-> now + Month,
     tagged |-> tagged, announced |-> FALSE]

Unopened == {s \in Subs : stripe[s].state = "none"}
NextSub == CHOOSE s \in Unopened : TRUE

\* What is on offer in the scenario.
OnOffer == IF "pro" \in faults THEN Paid ELSE {"STARTER"}

\* The tenant buys a plan on Stripe's page.
Checkout(name) ==
    /\ Settled /\ Prompt
    /\ Unopened # {} /\ name \in OnOffer
    /\ "second" \in faults
          \/ \A s \in Subs : stripe[s].state \in {"none", "ended"}
    /\ Send("checkout", NextSub, Opened(name, FALSE))
    /\ bought' = bought \cup {<<NextSub, name>>}

StripeRenews(s) ==
    /\ Settled
    /\ Due(s) /\ stripe[s].state = "active"
    /\ Send("paid", s, [stripe[s] EXCEPT !.from = @ + Month, !.to = @ + Month,
                                         !.announced = FALSE])
    /\ UNCHANGED bought

\* The renewal is near.
StripeAnnounces(s) ==
    /\ Settled
    /\ stripe[s].state = "active" /\ ~stripe[s].announced
    /\ now < stripe[s].to /\ now + Trial >= stripe[s].to
    /\ Send("upcoming", s, [stripe[s] EXCEPT !.announced = TRUE])
    /\ UNCHANGED bought

\* It was cancelled, or its renewal was not paid.
StripeEnds(s) ==
    /\ Settled
    /\ Due(s)
    /\ Send("deleted", s, [stripe[s] EXCEPT !.state = "ended"])
    /\ UNCHANGED bought

StripeMoves ==
    \/ \E name \in Paid : Checkout(name)
    \/ \E s \in Subs : StripeRenews(s) \/ StripeAnnounces(s) \/ StripeEnds(s)

-----------------------------------------------------------------------------
(* The frames *)

Enter(p, pc, type, event, next, keep) ==
    frame' = [frame EXCEPT ![p] =
                [pc |-> pc, type |-> type, event |-> event, seen |-> plan,
                 next |-> next, keep |-> keep, row |-> 0, used |-> 0]]

Return(p) == frame' = [frame EXCEPT ![p] = Idle]

\* inbox without e, or with e still to be sent again; no two events are equal.
Without(e) ==
    LET i == CHOOSE i \in 1 .. Len(inbox) : inbox[i] = e
    IN [k \in 1 .. Len(inbox) - 1 |-> inbox[IF k < i THEN k ELSE k + 1]]
Answered(e) ==
    {Without(e)} \cup
        (IF "late" \in faults /\ ~e.again
         THEN {Append(Without(e), [e EXCEPT !.again = TRUE])} ELSE {})

\* The handler is done; a webhook answers 200, and Stripe may not hear it.
Done(p) ==
    /\ Return(p)
    /\ IF frame[p].type = "webhook"
       THEN inbox' \in Answered(frame[p].event)
       ELSE UNCHANGED inbox

-----------------------------------------------------------------------------
(* The webhooks *)

\* Frames are interchangeable: whatever starts takes one of the free ones.
CanStart(p) ==
    /\ Rest
    /\ ~ \A q \in Procs : frame[q].pc # "idle"
    /\ p = CHOOSE q \in Procs : frame[q].pc = "idle"

\* Stripe delivers one event after the other, unless it is late.
Delivers(p, i) ==
    /\ CanStart(p)
    /\ i = 1 \/ "late" \in faults
    /\ \A q \in Procs : frame[q].event # inbox[i]

\* processCheckoutSessionCompleted: the session is read again, the
\* subscription gets the tenant's id, and counters start anew.
DeliverCheckout(p, i) ==
    LET e == inbox[i]
        sub == stripe[e.sub]
    IN /\ Delivers(p, i)
       /\ e.type = "checkout"
       /\ stripe' = [stripe EXCEPT ![e.sub].tagged = TRUE]
       /\ Enter(p, "ensure", "webhook", e,
                PlanFor(sub.name, e.sub, sub.from, sub.to, "active"), FALSE)
       /\ UNCHANGED <<faults, now, inbox, customer, plan, rows, connected, conn,
                      crashed, forgot, bought>>

\* Mutants: a renewal starts the count of accounts anew; it keeps the plan's name.
PaidForgets(p, i) ==
    LET e == inbox[i]
    IN /\ Delivers(p, i)
       /\ e.type = "paid" /\ stripe[e.sub].tagged
       /\ Enter(p, "ensure", "webhook", e,
                PlanFor(e.name, e.sub, e.from, e.to, "active"), FALSE)
       /\ UNCHANGED <<faults, now, stripe, inbox, customer, plan, rows, connected,
                      conn, crashed, forgot, bought>>

PaidKeepsName(p, i) ==
    LET e == inbox[i]
    IN /\ Delivers(p, i)
       /\ e.type = "paid" /\ stripe[e.sub].tagged
       /\ Enter(p, "ensure", "webhook", e,
                PlanFor(plan.name, e.sub, e.from, e.to, "active"), TRUE)
       /\ UNCHANGED <<faults, now, stripe, inbox, customer, plan, rows, connected,
                      conn, crashed, forgot, bought>>

\* processInvoicePaid: a subscription without the tenant's id is an error, and
\* the event comes again.
DeliverPaid(p, i) ==
    LET e == inbox[i]
    IN /\ Delivers(p, i)
       /\ e.type = "paid" /\ stripe[e.sub].tagged
       /\ Enter(p, "ensure", "webhook", e,
                PlanFor(e.name, e.sub, e.from, e.to, "active"), TRUE)
       /\ UNCHANGED <<faults, now, stripe, inbox, customer, plan, rows, connected,
                      conn, crashed, forgot, bought>>

\* processInvoiceUpcoming: a trial from now on, whatever has been paid.
DeliverUpcoming(p, i) ==
    LET e == inbox[i]
    IN /\ Delivers(p, i)
       /\ e.type = "upcoming" /\ (stripe[e.sub].tagged \/ customer = "stripe")
       /\ Enter(p, "ensure", "webhook", e,
                PlanFor(e.name, e.sub, now, now + Trial, "trialing"), FALSE)
       /\ UNCHANGED <<faults, now, stripe, inbox, customer, plan, rows, connected,
                      conn, crashed, forgot, bought>>

DeliverDeleted(p, i) ==
    LET e == inbox[i]
    IN /\ Delivers(p, i)
       /\ e.type = "deleted"
       /\ Enter(p, "find", "webhook", e, plan, TRUE)
       /\ UNCHANGED <<faults, now, stripe, inbox, customer, plan, rows, connected,
                      conn, crashed, forgot, bought>>

\* handleSubscriptionCancelled: the plan of that subscription, or else the
\* plan of the tenant the event names.  The tenant's id is stored as the
\* Stripe customer (users.service.ts:1164).
FindCancelled(p) ==
    LET e == frame[p].event
    IN /\ frame[p].pc = "find"
       /\ IF plan.sub = e.sub \/ e.tagged
          THEN /\ frame' = [frame EXCEPT ![p].pc = "ensure",
                                         ![p].next = FreePlan(plan.sub, "canceled")]
               /\ UNCHANGED inbox
          ELSE Done(p)
       /\ customer' = IF e.tagged THEN "tenant" ELSE customer
       /\ UNCHANGED <<faults, now, stripe, plan, rows, connected, conn, crashed,
                      forgot, bought>>

-----------------------------------------------------------------------------
(* updateSubscription and cancelSubscription *)

StartUpdate(p, name) ==
    /\ CanStart(p)
    /\ "requests" \in faults /\ Prompt
    /\ name \in OnOffer
    /\ plan.name # name \/ plan.billing \in {"active_until_period_end", "canceled"}
    /\ Enter(p, "update", "request", NoEvent, [plan EXCEPT !.name = name], TRUE)
    /\ UNCHANGED <<faults, now, stripe, inbox, customer, plan, rows, connected,
                   conn, crashed, forgot, bought>>

\* A new subscription needs a customer that Stripe knows.
CreateSubscription(p) ==
    LET name == frame[p].next.name
        sub == Opened(name, TRUE)
    IN /\ customer = "stripe" /\ Unopened # {}
       /\ stripe' = [stripe EXCEPT ![NextSub] = sub]
       /\ bought' = bought \cup {<<NextSub, name>>}
       /\ frame' = [frame EXCEPT ![p].pc = "ensure",
             ![p].next = PlanFor(name, NextSub, sub.from, sub.to, "active")]

\* Mutant: only the row learns the new plan.
ChangeRowOnly(p, s) ==
    LET name == frame[p].next.name
    IN /\ UNCHANGED stripe
       /\ bought' = bought \cup {<<s, name>>}
       /\ frame' = [frame EXCEPT ![p].pc = "ensure",
             ![p].next = PlanFor(name, s, stripe[s].from, stripe[s].to, "active")]

ChangeSubscription(p, s) ==
    LET name == frame[p].next.name
    IN /\ stripe' = [stripe EXCEPT ![s].name = name, ![s].state = "active",
                                   ![s].tagged = TRUE]
       /\ bought' = bought \cup {<<s, name>>}
       /\ frame' = [frame EXCEPT ![p].pc = "ensure",
             ![p].next = PlanFor(name, s, stripe[s].from, stripe[s].to, "active")]

\* needsNewSubscription, and the same when Stripe says it was canceled.
NeedsNew(row) ==
    \/ row.sub = NoSub \/ row.name = "FREE" \/ row.billing = "canceled"
    \/ stripe[row.sub].state = "ended"

CallUpdate(p) ==
    LET seen == frame[p].seen
    IN /\ frame[p].pc = "update"
       /\ \/ IF NeedsNew(seen) THEN CreateSubscription(p)
                                ELSE ChangeSubscription(p, seen.sub)
          \/ Return(p) /\ UNCHANGED <<stripe, bought>>  \* an error
       /\ UNCHANGED <<faults, now, inbox, customer, plan, rows, connected, conn,
                      crashed, forgot>>

StartCancel(p) ==
    /\ CanStart(p)
    /\ "requests" \in faults /\ Prompt
    /\ plan.name # "FREE" /\ plan.sub # NoSub
    /\ plan.billing # "active_until_period_end"
    /\ Enter(p, "cancel", "request", NoEvent, plan, TRUE)
    /\ UNCHANGED <<faults, now, stripe, inbox, customer, plan, rows, connected,
                   conn, crashed, forgot, bought>>

\* scheduleSubscriptionCancellation; the counters are left where they are.
CallCancel(p) ==
    LET seen == frame[p].seen
        sub == stripe[seen.sub]
    IN /\ frame[p].pc = "cancel"
       /\ \/ /\ sub.state # "ended"
             /\ stripe' = [stripe EXCEPT ![seen.sub].state = "leaving",
                                         ![seen.sub].tagged = TRUE]
             /\ frame' = [frame EXCEPT ![p].pc = "ensureOnly",
                   ![p].next = PlanFor(seen.name, seen.sub, sub.from, sub.to,
                                       "active_until_period_end")]
          \/ Return(p) /\ UNCHANGED stripe  \* an error
       /\ UNCHANGED <<faults, now, inbox, customer, plan, rows, connected, conn,
                      crashed, forgot, bought>>

-----------------------------------------------------------------------------
(* The writes: ensurePlan, resetUsageCountersForPlan, syncStripeCustomerId *)

SamePeriod(r, q) == r.from = q.from /\ r.to = q.to

\* A cancellation writes Stripe's period and leaves the counters where they are.
EnsurePlan(p) ==
    /\ frame[p].pc \in {"ensure", "ensureOnly"}
    /\ plan' = frame[p].next
    /\ forgot' = (forgot \/ (frame[p].pc = "ensureOnly"
                               /\ ~SamePeriod(plan, frame[p].next)))
    /\ frame' = [frame EXCEPT ![p].pc = IF @ = "ensure" THEN "read" ELSE "sync"]
    /\ UNCHANGED <<faults, now, stripe, inbox, customer, rows, connected, conn,
                   crashed, bought>>

\* The newest row is moved to the plan's period; its count is kept if asked
\* for, or if the period is the same.
ResetRead(p) ==
    LET newest == rows[Len(rows)]
        kept == frame[p].keep \/ SamePeriod(newest, frame[p].next)
    IN /\ frame[p].pc = "read"
       /\ frame' = [frame EXCEPT ![p].pc = "write", ![p].row = Len(rows),
                                 ![p].used = IF kept THEN newest.used ELSE 0]
       /\ UNCHANGED <<faults, now, stripe, inbox, customer, plan, rows, connected,
                      conn, crashed, forgot, bought>>

\* The handlers that go on to store Stripe's customer id.
Syncs(f) == f.type = "request" \/ (f.type = "webhook" /\ f.event.type # "deleted")

AfterReset(p) ==
    IF Syncs(frame[p])
    THEN frame' = [frame EXCEPT ![p].pc = "sync"] /\ UNCHANGED inbox
    ELSE Done(p)

\* CHECK (used_count <= limit_count), UNIQUE (tenant, plan, type, period).
Refused(f) ==
    \/ f.used > Limit[f.next.name]
    \/ \E i \in 1 .. Len(rows) : i # f.row /\ SamePeriod(rows[i], f.next)

\* A refused reset, of this counter or of another in the same transaction (see
\* UsageLimits), is rolled back and the handler fails; the plan stays written,
\* and a webhook's event will come again.
ResetWrite(p) ==
    LET f == frame[p]
    IN /\ f.pc = "write"
       /\ \/ /\ Refused(f) \/ "others" \in faults
             /\ forgot' = TRUE
             /\ Return(p)
             /\ UNCHANGED <<inbox, rows>>
          \/ /\ ~Refused(f)
             /\ rows' = [rows EXCEPT ![f.row] =
                           [from |-> f.next.from, to |-> f.next.to, used |-> f.used]]
             /\ forgot' = (forgot \/ (/\ f.event.type \in {"checkout", "upcoming"}
                                     /\ f.used < rows[f.row].used))
             /\ AfterReset(p)
       /\ UNCHANGED <<faults, now, stripe, customer, plan, connected, conn, crashed,
                      bought>>

SyncCustomer(p) ==
    /\ frame[p].pc = "sync"
    /\ customer' = "stripe"
    /\ Done(p)
    /\ UNCHANGED <<faults, now, stripe, plan, rows, connected, conn, crashed,
                   forgot, bought>>

\* Mutant: only plans in good standing expire.
FindExpiredActive(p) ==
    /\ CanStart(p)
    /\ plan.name # "FREE" /\ plan.to <= now /\ plan.billing = "active"
    /\ Enter(p, "ensure", "job", NoEvent, FreePlan(NoSub, "active"), TRUE)
    /\ UNCHANGED <<faults, now, stripe, inbox, customer, plan, rows, connected,
                   conn, crashed, forgot, bought>>

\* processExpiredPlans: the list is read, each plan on it is then overwritten.
FindExpired(p) ==
    /\ CanStart(p)
    /\ plan.name # "FREE" /\ plan.to <= now
    /\ Enter(p, "ensure", "job", NoEvent, FreePlan(NoSub, "active"), TRUE)
    /\ UNCHANGED <<faults, now, stripe, inbox, customer, plan, rows, connected,
                   conn, crashed, forgot, bought>>

\* The process dies: no handler goes on.
Crash ==
    /\ "crash" \in faults /\ crashed = "no"
    /\ ~(ProcsIdle /\ ConnIdle)
    /\ crashed' = IF \E p \in Procs : /\ frame[p].type = "request"
                                      /\ frame[p].pc \in {"ensure", "ensureOnly"}
                  THEN "cut" ELSE "yes"
    /\ frame' = [p \in Procs |-> Idle]
    /\ conn' = [c \in Connectors |-> IdleConn]
    /\ UNCHANGED <<faults, now, stripe, inbox, customer, plan, rows, connected,
                   forgot, bought>>

-----------------------------------------------------------------------------
(* Accounts: upsertAccount for a new page, and deleteAccount *)

\* getCurrentUsageQuota for the plan's own period: nothing once it has ended.
AccountsLimit == IF plan.to > now THEN Limit[plan.name] ELSE 0
RowsOf(period) == {i \in 1 .. Len(rows) : SamePeriod(rows[i], period)}
UsedIn(period) ==
    IF RowsOf(period) = {} THEN 0 ELSE rows[CHOOSE i \in RowsOf(period) : TRUE].used
AccountsUsed == IF plan.to > now THEN UsedIn(plan) ELSE 0

ConnCanStart(c) ==
    /\ ~ \A d \in Connectors : conn[d].pc # "idle"
    /\ c = CHOOSE d \in Connectors : conn[d].pc = "idle"
    /\ "accounts" \in faults
    /\ "overlap" \in faults \/ ProcsIdle
    /\ faults \cap {"overlap", "parallel"} # {} \/ ConnIdle

Saving == {c \in Connectors : conn[c].pc = "save"}

\* ensureAccountLimit; a refusal changes nothing.
EnsureAccountLimit(c) ==
    /\ ConnCanStart(c)
    /\ connected + Cardinality(Saving) < MaxAccounts
    /\ AccountsUsed < AccountsLimit
    /\ conn' = [conn EXCEPT ![c].pc = "save"]
    /\ UNCHANGED <<faults, now, stripe, inbox, customer, plan, rows, frame,
                   connected, crashed, forgot, bought>>

SaveAccount(c) ==
    /\ conn[c].pc = "save"
    /\ connected' = connected + 1
    /\ conn' = [conn EXCEPT ![c] = [@ EXCEPT !.pc = "adjust", !.delta = 1]]
    /\ UNCHANGED <<faults, now, stripe, inbox, customer, plan, rows, frame,
                   crashed, forgot, bought>>

DeleteAccount(c) ==
    /\ ConnCanStart(c)
    /\ connected > 0
    /\ connected' = connected - 1
    /\ conn' = [conn EXCEPT ![c] = [@ EXCEPT !.pc = "adjust", !.delta = -1]]
    /\ UNCHANGED <<faults, now, stripe, inbox, customer, plan, rows, frame,
                   crashed, forgot, bought>>

\* adjustUsage: the period and the quota are read, and the limit is checked
\* once more; an error leaves the account stored and uncounted.
AdjustUsage(c) ==
    /\ conn[c].pc = "adjust"
    /\ conn' = [conn EXCEPT ![c] =
         IF @.delta > 0 /\ AccountsUsed + @.delta > AccountsLimit
         THEN IdleConn
         ELSE [@ EXCEPT !.pc = "count", !.from = plan.from, !.to = plan.to]]
    /\ UNCHANGED <<faults, now, stripe, inbox, customer, plan, rows, frame,
                   connected, crashed, forgot, bought>>

Least(a, b) == IF a < b THEN a ELSE b
Greatest(a, b) == IF a > b THEN a ELSE b

\* EXCLUDED.used_count: a negative count is clamped before it is added.
Added(delta) == Greatest(0, Least(delta, Limit[plan.name]))

\* updateUserPlanUsage, for a plan that meets the period; else it fails.
UpdateUserPlanUsage(c) ==
    LET period == conn[c]
        new == Added(period.delta)
    IN /\ period.pc = "count"
       /\ rows' =
            IF ~(plan.to >= period.from /\ plan.from <= period.to) THEN rows
            ELSE IF RowsOf(period) = {}
            THEN Append(rows, [from |-> period.from, to |-> period.to, used |-> new])
            ELSE [i \in DOMAIN rows |->
                    IF i \in RowsOf(period)
                    THEN [rows[i] EXCEPT !.used = Least(@ + new, Limit[plan.name])]
                    ELSE rows[i]]
       /\ conn' = [conn EXCEPT ![c] = IdleConn]
       /\ UNCHANGED <<faults, now, stripe, inbox, customer, plan, frame,
                      connected, crashed, forgot, bought>>

-----------------------------------------------------------------------------
Deliver(p) ==
    \E i \in 1 .. Len(inbox) :
        DeliverCheckout(p, i) \/ DeliverPaid(p, i) \/ DeliverUpcoming(p, i)
            \/ DeliverDeleted(p, i)

Request(p) == (\E name \in Paid : StartUpdate(p, name)) \/ StartCancel(p)

FrameStep(p) ==
    \/ FindCancelled(p) \/ CallUpdate(p) \/ CallCancel(p)
    \/ EnsurePlan(p) \/ ResetRead(p) \/ ResetWrite(p) \/ SyncCustomer(p)

ConnStart(c) == EnsureAccountLimit(c) \/ DeleteAccount(c)
ConnStep(c) == SaveAccount(c) \/ AdjustUsage(c) \/ UpdateUserPlanUsage(c)

Next ==
    \/ Tick \/ StripeMoves \/ Crash
    \/ \E p \in Procs : Deliver(p) \/ Request(p) \/ FindExpired(p) \/ FrameStep(p)
    \/ \E c \in Connectors : ConnStart(c) \/ ConnStep(c)

Spec == Init /\ [][Next]_vars

\* What runs goes on; the interval of the worker process fires again and again;
\* Stripe repeats an event until it is answered.
FairSpec ==
    /\ Spec
    /\ \A p \in Procs : WF_vars(FrameStep(p))
    /\ \A c \in Connectors : WF_vars(ConnStep(c))
    /\ SF_vars(\E p \in Procs : FindExpired(p))

-----------------------------------------------------------------------------
(* Type invariant *)
TypeOK ==
    /\ faults \in Scenarios
    /\ now \in 0 .. MaxTime
    /\ stripe \in [Subs -> Subscription]
    /\ inbox \in Seq(Event)
    /\ customer \in {"none", "stripe", "tenant"}
    /\ plan \in PlanRow
    /\ rows \in Seq(UsageRow)
    /\ \A p \in Procs :
          /\ frame[p].pc \in {"idle", "find", "update", "cancel", "ensure",
                              "ensureOnly", "read", "write", "sync"}
          /\ frame[p].next \in PlanRow /\ frame[p].seen \in PlanRow
          /\ frame[p].event \in Event \cup {NoEvent}
    /\ connected \in Nat
    /\ \A c \in Connectors : conn[c].pc \in {"idle", "save", "adjust", "count"}
    /\ crashed \in {"no", "yes", "cut"} /\ forgot \in BOOLEAN
    /\ bought \subseteq Subs \X Paid

(* A paid plan in the row is one the tenant bought, under the subscription *)
(* the row names: no order of events, requests, jobs and crashes puts a    *)
(* name of one subscription next to the id of another.                     *)
PaidWasBought == plan.name # "FREE" => <<plan.sub, plan.name>> \in bought

\* The subscription Stripe will go on charging, or has been paid for.
Live == {s \in Subs : stripe[s].state \in {"active", "leaving"}}

(* When events come in order, one at a time, and nothing overlaps, the row *)
(* is what Stripe says once all events and expiries are dealt with, after  *)
(* any sequence of purchases, changes, cancellations, renewals and trials, *)
(* and also if the process died, in a handler or the job: the events come  *)
(* again.  (A request that dies after it changed the subscription leaves   *)
(* the row behind for good.)                                               *)
PlanFollowsStripe ==
    faults \cap {"overlap", "late", "second"} = {} /\ crashed # "cut" =>
        (/\ ProcsIdle /\ inbox = <<>>
         /\ \A s \in Subs : ~Due(s)
         /\ ~(plan.name # "FREE" /\ plan.to <= now)
         =>
            IF Live = {} THEN plan.name = "FREE"
            ELSE \E s \in Live : plan.sub = s /\ plan.name = stripe[s].name)

\* Stored accounts whose count is still to come.
Uncounted == {c \in Connectors : conn[c].pc \in {"adjust", "count"} /\ conn[c].delta > 0}

(* However many requests connect accounts at once, and whatever renewals,  *)
(* changes and expiries come between them, the count of the plan's period  *)
(* has all of the accounts, up to the limit - unless one of the handlers   *)
(* that drop it has run (forgot).  Parallel requests may exceed the limit  *)
(* and leave accounts uncounted, which a larger plan would then show: with *)
(* them, the plans on offer allow as many accounts as FREE.                *)
AccountsCounted ==
    /\ faults \cap {"overlap", "crash"} = {}
    /\ "parallel" \in faults => \A name \in OnOffer : Limit[name] = Limit["FREE"]
    /\ ~forgot /\ ProcsIdle /\ plan.to > now
    => AccountsUsed + Cardinality(Uncounted) >= Least(connected, AccountsLimit)

(* A paid plan whose period has ended is renewed or becomes FREE.          *)
PaidPlanEnds ==
    (plan.name # "FREE" /\ plan.to <= now)
        ~> (plan.name = "FREE" \/ plan.to > now)
=============================================================================
