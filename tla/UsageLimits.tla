----------------------------- MODULE UsageLimits -----------------------------
(***************************************************************************)
(* One usage counter of one tenant: the check of its limit, the counting   *)
(* of what is used, the add-ons that raise it and the plan changes that    *)
(* move it (PostsService, AIService, UserService, UserRepository).         *)
(*                                                                         *)
(* The counter is "posts" (usage types sent and scheduled) or "ai".  Both  *)
(* live in user_plan_usage, one row per period, but in different periods:  *)
(* posts are counted by the calendar month, AI requests by the plan's      *)
(* period, and add-ons raise the row of the plan's period.                 *)
(*                                                                         *)
(* A use is one call that counts one: createPost, the status callbacks and *)
(* the job may each count the same post (PostPublishing), here each is a   *)
(* use of its own.                                                         *)
(***************************************************************************)
EXTENDS Integers, Sequences, FiniteSets

CONSTANTS
    Procs,      \* bound: the requests, jobs and webhooks running at a time
    MaxTime,    \* bound: the clock
    MaxUses,    \* bound: posts or AI requests in a month
    MaxMoves,   \* bound: changes of the plan and add-ons bought, together
    Month,      \* the length of a month, and of a plan's period
    Delta,      \* what an add-on adds
    Limit,      \* PLAN_LIMITS: what each plan allows of each counter
    Scenarios   \* the sets of circumstances explored

Plans == {"FREE", "STARTER", "PRO"}
Counters == {"posts", "ai"}

(* "overlap"   what runs interleaves, with the clock too                   *)
(* "change"    the plan changes                                            *)
(* "unasked"   uses that no check precedes: an edit gives a draft its time *)
(*             or sends a scheduled post at once, a scheduled post is      *)
(*             published, a failed target is sent again, a callback counts *)
(*             again what was sent at once                                 *)
(* "others"    a reset fails because of another counter of the plan        *)
(* "crash"     the process dies, once                                      *)
Kinds == {"overlap", "change", "unasked", "others", "crash"}

ASSUME UsageLimitsAssumption ==
    /\ IsFiniteSet(Procs) /\ MaxTime \in Nat /\ MaxUses \in Nat
    /\ MaxMoves \in Nat
    /\ Month \in Nat \ {0} /\ Delta \in Nat \ {0}
    /\ Limit \in [Plans -> [Counters -> Nat]]
    /\ Scenarios \subseteq SUBSET Kinds

VARIABLES
    faults,    \* the scenario; never changes
    counter,   \* the counter looked at; never changes
    now,       \* the clock
    plan,      \* the row of user_plans
    rows,      \* the counter's rows of user_plan_usage, oldest first
    frame,     \* the frames of what runs
    crashed,   \* bound: whether the process has died
    changes,   \* the changes of the plan so far
    grants,    \* the add-ons bought so far
    uses,      \* history: the uses of this month, or all AI requests
    allow,     \* history: what the plans in force meanwhile allow together
    excess,    \* history: those of the uses that a check would have refused
    raised,    \* history: the add-ons that went into the plan's row
    fresh      \* history: nothing but add-ons touched that row since its reset

vars == <<faults, counter, now, plan, rows, frame, crashed, changes, grants,
          uses, allow, excess, raised, fresh>>

scenario == <<faults, counter>>
history == <<uses, allow, excess, raised, fresh>>

-----------------------------------------------------------------------------
PlanRow == [name : Plans, from : Int, to : Int]
UsageRow == [from : Int, to : Int, used : Nat, limit : Nat]

SamePeriod(r, q) == r.from = q.from /\ r.to = q.to

\* startOfMonth and endOfMonth of the day t.
MonthOf(t) ==
    [from |-> (t \div Month) * Month, to |-> (t \div Month) * Month + Month - 1]

\* delta is what a frame counts, period where; row and used are what it has
\* read of the row it writes, base is the plan's limit it has read.
Idle ==
    [pc |-> "idle", delta |-> 0, from |-> 0, to |-> 0, row |-> 0, used |-> 0, base |-> 0]

\* Of the plan applyFreePlan gives on the day of the sign-up.
Init ==
    /\ faults \in Scenarios
    /\ counter \in Counters
    /\ now \in 0 .. Month - 1
    /\ plan = [name |-> "FREE", from |-> now, to |-> now + Month - 1]
    /\ rows = <<[from |-> now, to |-> now + Month - 1, used |-> 0,
                 limit |-> Limit["FREE"][counter]]>>
    /\ frame = [p \in Procs |-> Idle]
    /\ crashed = FALSE
    /\ changes = 0 /\ grants = 0
    /\ uses = 0 /\ allow = Limit["FREE"][counter] /\ excess = 0
    /\ raised = 0 /\ fresh = TRUE

AllIdle == \A p \in Procs : frame[p].pc = "idle"
Rest == "overlap" \in faults \/ AllIdle

\* Frames are interchangeable: whatever starts takes one of the free ones.
CanStart(p) ==
    /\ Rest
    /\ \E q \in Procs : frame[q].pc = "idle"
    /\ p = CHOOSE q \in Procs : frame[q].pc = "idle"

Goto(p, pc) == frame' = [frame EXCEPT ![p].pc = pc]
Return(p) == frame' = [frame EXCEPT ![p] = Idle]

Tick ==
    /\ Rest /\ now < MaxTime
    /\ now' = now + 1
    /\ IF counter = "posts" /\ MonthOf(now') # MonthOf(now)
       THEN uses' = 0 /\ excess' = 0 /\ allow' = Limit[plan.name][counter]
       ELSE UNCHANGED <<uses, allow, excess>>
    /\ UNCHANGED <<scenario, plan, rows, frame, crashed, changes, grants, raised,
                   fresh>>

-----------------------------------------------------------------------------
(* The quota: used from the period's row, the limit from the plan *)

RowsOf(period) == {i \in 1 .. Len(rows) : SamePeriod(rows[i], period)}
Used(period) ==
    IF RowsOf(period) = {} THEN 0 ELSE rows[CHOOSE i \in RowsOf(period) : TRUE].used

\* getCurrentUsageQuota: a plan that has ended counts for nothing.
InForce == plan.to >= now
QuotaLimit == IF InForce THEN Limit[plan.name][counter] ELSE 0
QuotaUsed(period) == IF InForce THEN Used(period) ELSE 0

\* Mutant: a count at the limit still passes.
CheckPassesOnce(period) == QuotaUsed(period) <= QuotaLimit

\* One more is within the limit.
CheckPasses(period) == QuotaUsed(period) + 1 <= QuotaLimit

-----------------------------------------------------------------------------
(* Posts: the check, the publishing, the counting *)

\* checkIfUserLimitsReached; a refusal ends the request.
CheckPosts(p) ==
    /\ CanStart(p)
    /\ counter = "posts" /\ uses < MaxUses
    /\ CheckPasses(MonthOf(now))
    /\ Goto(p, "publish")
    /\ UNCHANGED <<scenario, now, plan, rows, crashed, changes, grants, history>>

\* incrementSentPostsLimit works out the month anew.
Publish(p) ==
    /\ frame[p].pc = "publish"
    /\ uses' = uses + 1
    /\ frame' = [frame EXCEPT ![p] = [@ EXCEPT
           !.pc = "count", !.delta = 1,
           !.from = MonthOf(now).from, !.to = MonthOf(now).to]]
    /\ UNCHANGED <<scenario, now, plan, rows, crashed, changes, grants, allow,
                   excess, raised, fresh>>

\* Published, or put in the queue, and counted without having asked.
UseUnasked(p) ==
    /\ "unasked" \in faults
    /\ CanStart(p)
    /\ counter = "posts" /\ uses < MaxUses
    /\ uses' = uses + 1
    /\ excess' = IF CheckPasses(MonthOf(now)) THEN excess ELSE excess + 1
    /\ frame' = [frame EXCEPT ![p] = [@ EXCEPT
           !.pc = "count", !.delta = 1,
           !.from = MonthOf(now).from, !.to = MonthOf(now).to]]
    /\ UNCHANGED <<scenario, now, plan, rows, crashed, changes, grants, allow,
                   raised, fresh>>

\* deletePost, and an edit that drops targets or sends later what was sent at once.
GiveBack(p) ==
    /\ CanStart(p)
    /\ counter = "posts" /\ uses > 0
    /\ frame' = [frame EXCEPT ![p] = [@ EXCEPT
           !.pc = "count", !.delta = -1,
           !.from = MonthOf(now).from, !.to = MonthOf(now).to]]
    /\ UNCHANGED <<scenario, now, plan, rows, crashed, changes, grants, history>>

-----------------------------------------------------------------------------
(* AI requests: ensureUserHasAiAccess and adjustUsage *)

AskAi(p) ==
    /\ CanStart(p)
    /\ counter = "ai" /\ uses < MaxUses
    /\ plan.name = "PRO"
    /\ Goto(p, "period")
    /\ UNCHANGED <<scenario, now, plan, rows, crashed, changes, grants, history>>

\* getActivePlanPeriod.
ReadPeriod(p) ==
    /\ frame[p].pc = "period"
    /\ frame' = [frame EXCEPT ![p] = [@ EXCEPT
           !.pc = "quota", !.from = plan.from, !.to = plan.to]]
    /\ UNCHANGED <<scenario, now, plan, rows, crashed, changes, grants, history>>

CheckAi(p) ==
    /\ frame[p].pc = "quota"
    /\ IF CheckPasses(frame[p])
       THEN frame' = [frame EXCEPT ![p].pc = "count", ![p].delta = 1]
       ELSE Return(p)
    /\ UNCHANGED <<scenario, now, plan, rows, crashed, changes, grants, history>>

-----------------------------------------------------------------------------
(* updateUserPlanUsage *)

Least(a, b) == IF a < b THEN a ELSE b
Greatest(a, b) == IF a > b THEN a ELSE b

\* Only a plan that meets the period and allows something is counted for.
Countable(period) ==
    /\ plan.to >= period.from /\ plan.from <= period.to
    /\ Limit[plan.name][counter] > 0

\* EXCLUDED.used_count.
Added(delta) == Greatest(0, Least(delta, Limit[plan.name][counter]))

\* Mutant: the sum is not clamped.
CountedUnclamped(r, delta) ==
    [r EXCEPT !.used = @ + Added(delta), !.limit = Limit[plan.name][counter]]

\* The row after counting: both the sum and the limit are the plan's.
Counted(r, delta) ==
    [r EXCEPT !.used = Least(@ + Added(delta), Limit[plan.name][counter]),
              !.limit = Limit[plan.name][counter]]

\* Mutant: a row that is there is left alone.
UpsertOnce(f) ==
    IF RowsOf(f) = {}
    THEN Append(rows, [from |-> f.from, to |-> f.to, used |-> Added(f.delta),
                       limit |-> Limit[plan.name][counter]])
    ELSE rows

Upsert(f) ==
    IF RowsOf(f) = {}
    THEN Append(rows, [from |-> f.from, to |-> f.to, used |-> Added(f.delta),
                       limit |-> Limit[plan.name][counter]])
    ELSE [i \in 1 .. Len(rows) |->
            IF i \in RowsOf(f) THEN Counted(rows[i], f.delta) ELSE rows[i]]

\* A post that cannot be counted stays published; an AI request fails.
Count(p) ==
    LET f == frame[p]
    IN /\ f.pc = "count"
       /\ Return(p)
       /\ IF Countable(f)
          THEN /\ rows' = Upsert(f)
               /\ uses' = IF counter = "ai" THEN uses + 1 ELSE uses
               /\ fresh' = (fresh /\ ~SamePeriod(f, plan))
          ELSE UNCHANGED <<rows, uses, fresh>>
       /\ UNCHANGED <<scenario, now, plan, crashed, changes, grants, allow,
                      excess, raised>>

-----------------------------------------------------------------------------
(* applyAddonPurchase and incrementUsageLimits *)

\* findUserPlanByUserId.
BuyAddon(p) ==
    /\ CanStart(p)
    /\ changes + grants < MaxMoves
    /\ grants' = grants + 1
    /\ frame' = [frame EXCEPT ![p] = [@ EXCEPT
           !.pc = "find", !.from = plan.from, !.to = plan.to,
           !.base = Limit[plan.name][counter]]]
    /\ UNCHANGED <<scenario, now, plan, rows, crashed, changes, history>>

FindRow(p) ==
    LET found == RowsOf(frame[p])
        i == CHOOSE j \in found : TRUE
    IN /\ frame[p].pc = "find"
       /\ frame' = [frame EXCEPT ![p] = [@ EXCEPT
              !.pc = "raise",
              !.row = IF found = {} THEN 0 ELSE i,
              !.used = IF found = {} THEN 0 ELSE rows[i].used]]
       /\ UNCHANGED <<scenario, now, plan, rows, crashed, changes, grants, history>>

\* Mutant: the new limit is worked out from what was read.
RaisedTo(f, r) == Greatest(f.used, f.base + Delta)

\* GREATEST($1, $2, limit_count + $3).
RaisedLimit(f, r) == Greatest(Greatest(f.used, f.base + Delta), r.limit + Delta)

\* An add-on that goes into the plan's row.
Lands(period) ==
    raised' = IF SamePeriod(period, plan) THEN raised + 1 ELSE raised

\* The row is raised, or inserted; a row inserted meanwhile makes it fail.
Raise(p) ==
    LET f == frame[p]
    IN /\ f.pc = "raise"
       /\ Return(p)
       /\ \/ /\ f.row # 0
             /\ rows' = [rows EXCEPT ![f.row].limit = RaisedLimit(f, rows[f.row])]
             /\ Lands(rows[f.row])
          \/ /\ f.row = 0 /\ RowsOf(f) = {}
             /\ rows' = Append(rows, [from |-> f.from, to |-> f.to, used |-> 0,
                                      limit |-> f.base + Delta])
             /\ Lands(f)
          \/ /\ f.row = 0 /\ RowsOf(f) # {}
             /\ UNCHANGED <<rows, raised>>
       /\ UNCHANGED <<scenario, now, plan, crashed, changes, grants, uses, allow,
                      excess, fresh>>

-----------------------------------------------------------------------------
(* Plan changes: ensurePlan and resetUsageCountersForPlan *)

FromToday == [from |-> now, to |-> now + Month - 1]

\* The FREE plan starts today; Stripe's period starts today, is the one in the
\* row (a repeated event, an upgrade) or, once that has ended, the one after it.
NewPeriods(name) ==
    {FromToday} \cup
        (IF name = "FREE" THEN {}
         ELSE {[from |-> plan.from, to |-> plan.to]} \cup
              {q \in {[from |-> plan.to + 1, to |-> plan.to + Month]} : q.from <= now})

\* The counter is reset if getUsageCountersForPlan lists it; applyFreePlan's own
\* list has AI as well, and cancelSubscription renews the row and resets nothing.
Resets(name) ==
    {(counter = "posts" \/ name = "PRO")}
        \cup (IF name = "FREE" THEN {TRUE} ELSE {})
        \cup (IF name = plan.name /\ name # "FREE" THEN {FALSE} ELSE {})

\* Changes one at a time; how they overlap is the subject of PlanUsage.
Changing == \E p \in Procs : frame[p].pc \in {"reset", "write"}

EnsurePlan(p, name, period, reset) ==
    /\ "change" \in faults
    /\ CanStart(p) /\ ~Changing
    /\ changes + grants < MaxMoves
    /\ changes' = changes + 1
    /\ plan' = [name |-> name, from |-> period.from, to |-> period.to]
    /\ allow' = allow + Limit[name][counter]
    /\ raised' = 0 /\ fresh' = FALSE
    /\ IF reset /\ Limit[name][counter] > 0
       THEN Goto(p, "reset")
       ELSE UNCHANGED frame
    /\ UNCHANGED <<scenario, now, rows, crashed, grants, uses, excess>>

ChangePlan(p) ==
    \E name \in Plans : \E period \in NewPeriods(name) : \E reset \in Resets(name) :
        EnsurePlan(p, name, period, reset)

\* The newest row, whatever its period; its count is kept within a period.
ResetRead(p) ==
    LET newest == rows[Len(rows)]
    IN /\ frame[p].pc = "reset"
       /\ frame' = [frame EXCEPT ![p] = [@ EXCEPT
              !.pc = "write", !.row = Len(rows),
              !.used = IF SamePeriod(newest, plan) THEN newest.used ELSE 0]]
       /\ UNCHANGED <<scenario, now, plan, rows, crashed, changes, grants, history>>

\* chk_used_count_within_limit, UNIQUE (tenant, plan, type, period).
ResetRefused(f) ==
    \/ f.used > Limit[plan.name][counter]
    \/ \E i \in RowsOf(plan) : i # f.row

\* The row in the new plan's period, with its limit.
MovedRow(f) ==
    [rows EXCEPT ![f.row] = [from |-> plan.from, to |-> plan.to, used |-> f.used,
                             limit |-> Limit[plan.name][counter]]]

\* The counters of a plan are reset in one transaction, all of them or none.
ResetWrite(p) ==
    LET f == frame[p]
    IN /\ f.pc = "write"
       /\ Return(p)
       /\ \/ /\ ~ResetRefused(f)
             /\ rows' = MovedRow(f)
             /\ raised' = 0 /\ fresh' = TRUE
          \/ /\ ResetRefused(f) \/ "others" \in faults
             /\ UNCHANGED <<rows, raised, fresh>>
       /\ UNCHANGED <<scenario, now, plan, crashed, changes, grants, uses, allow,
                      excess>>

-----------------------------------------------------------------------------
Crash ==
    /\ "crash" \in faults /\ ~crashed /\ ~AllIdle
    /\ crashed' = TRUE
    /\ frame' = [p \in Procs |-> Idle]
    /\ UNCHANGED <<scenario, now, plan, rows, changes, grants, history>>

PostStep(p) == CheckPosts(p) \/ Publish(p) \/ UseUnasked(p) \/ GiveBack(p)
AiStep(p) == AskAi(p) \/ ReadPeriod(p) \/ CheckAi(p)
AddonStep(p) == BuyAddon(p) \/ FindRow(p) \/ Raise(p)
ChangeStep(p) == ChangePlan(p) \/ ResetRead(p) \/ ResetWrite(p)

Next ==
    \/ Tick
    \/ \E p \in Procs :
          PostStep(p) \/ AiStep(p) \/ Count(p) \/ AddonStep(p) \/ ChangeStep(p)
    \/ Crash

Spec == Init /\ [][Next]_vars

-----------------------------------------------------------------------------
Frame ==
    [pc : {"idle", "publish", "period", "quota", "count", "find", "raise",
           "reset", "write"},
     delta : {-1, 0, 1}, from : Int, to : Int, row : Nat, used : Nat, base : Nat]

(* Type invariant *)
TypeOK ==
    /\ faults \in Scenarios /\ counter \in Counters
    /\ now \in Nat
    /\ plan \in PlanRow
    /\ rows \in Seq(UsageRow) /\ rows # <<>>
    /\ frame \in [Procs -> Frame]
    /\ crashed \in BOOLEAN
    /\ changes \in Nat /\ grants \in Nat
    /\ uses \in Nat /\ allow \in Nat /\ excess \in Nat /\ raised \in Nat
    /\ fresh \in BOOLEAN

(* No order of counting, raising and resetting writes a row the CHECK      *)
(* used_count <= limit_count would throw out: counting and add-ons never   *)
(* fail for it, although both write a limit read at another time.          *)
UsedWithinLimit == \A i \in 1 .. Len(rows) : rows[i].used <= rows[i].limit

\* Nothing runs in between.
Orderly == faults \cap {"overlap", "crash"} = {}

(* Handled one at a time, what is used of a month (of the plans so far,    *)
(* for AI) stays within what the plans in force in it allow, together: a   *)
(* change of plan may hand out one allowance more, never two.  Only a use  *)
(* that does not ask can go beyond, and only by itself: what it uses is    *)
(* counted, so that nothing that asks later gets it once more.             *)
WithinAllowances == Orderly => uses <= allow + excess

(* Whatever overlaps, a month without a change of plan ends with all the   *)
(* uses of its posts counted, up to the limit the count is clamped to, as  *)
(* long as no statement fails: incrementSentPostsLimit logs an error and   *)
(* goes on, and that count is lost.                                        *)
CountedOrClamped ==
    /\ counter = "posts" /\ changes = 0 /\ InForce /\ ~crashed
    /\ \A p \in Procs : frame[p].pc # "count"
    => Used(MonthOf(now)) = Least(uses, QuotaLimit)

(* Add-ons bought at the same time add up in the row of the plan's period  *)
(* until something else writes that row: none is overwritten by another.   *)
PurchasesAddUp ==
    fresh => \A i \in RowsOf(plan) :
        rows[i].limit >= Limit[plan.name][counter] + raised * Delta
=============================================================================
