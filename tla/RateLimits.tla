------------------------------ MODULE RateLimits ------------------------------
(***************************************************************************)
(* The rate limits of one platform: Redis counters per window of time      *)
(* (PlatformRateLimiter), the reservation of YouTube's quota               *)
(* (YouTubeQuotaManager), the daily slots (PlatformQuotaService), and the  *)
(* requests and jobs that ask and move them (createPost, schedulePost,     *)
(* handleJob, retryPostTarget, deletePost).                                *)
(*                                                                         *)
(* Every limit is asked before a post is sent and counted after, by other  *)
(* calls.  A post here has one target.  What a sent post does to its rows  *)
(* is PostPublishing's subject, what becomes of the job of a post that is  *)
(* deleted PostEditing's.                                                  *)
(***************************************************************************)
EXTENDS Integers, Sequences, FiniteSets

CONSTANTS
    Posts,      \* bound: the posts
    Accounts,   \* the tenants' accounts on the platform
    UserOf,     \* the tenant of each account
    AccountOf,  \* the account each post goes to
    App,        \* the holder of the counters of the application
    Lengths,    \* the lengths of a second, a minute, ... in steps of the clock
    Requests,   \* bound: createPost requests between validation and reservation
    Jitter,     \* half of jitterWindowSec
    MaxTime,    \* bound: the clock
    Cases       \* the cases explored: a platform, Kinds and posts

(* "schedule" posts are scheduled        "now"      posts are sent at once *)
(* "retry"    failed posts are retried   "delete"   posts are deleted      *)
(* "together" deletions overlap          "jitter"   due times are spread   *)
(* "slow"     windows end while calls are under way                        *)
(* "far"      posts are scheduled for after the end of the clock           *)
Kinds == {"schedule", "now", "retry", "delete", "together", "jitter", "slow", "far"}

Units == {"second", "minute", "fiveMinutes", "hour", "day"}

\* PlatformLimits; 0 is what the code takes a limit for that is not configured.
PlatformLimits ==
    [postsPerDay : Nat, postsPerMinute : Nat, requestsPerHour : Nat,
     requestsPer5Min : Nat, quotaUnits : Nat, costPerPost : Nat,
     pointsPerPost : Nat, pointsPerDay : Nat, appDailyLimit : Nat, appRps : Nat]

\* The limits each platform is configured with; X has no configuration.
Configured ==
    [tiktok |-> {"postsPerDay", "postsPerMinute"},
     youtube |-> {"postsPerDay", "quotaUnits", "costPerPost", "appDailyLimit"},
     pinterest |-> {"postsPerDay", "requestsPerHour", "appDailyLimit"},
     instagram |-> {"postsPerDay", "requestsPerHour"},
     threads |-> {"postsPerDay", "requestsPerHour"},
     facebook |-> {"postsPerDay", "requestsPerHour"},
     bluesky |-> {"postsPerDay", "pointsPerPost", "pointsPerDay", "requestsPer5Min"},
     linkedin |-> {"postsPerDay", "appRps"}]

Platforms ==
    {p \in [name : DOMAIN Configured, limits : PlatformLimits, maxConcurrency : Nat] :
        \A l \in DOMAIN p.limits : p.limits[l] # 0 => l \in Configured[p.name]}

ASSUME RateLimitsAssumption ==
    /\ IsFiniteSet(Posts) /\ Posts # {} /\ App \notin Accounts \cup Posts
    /\ AccountOf \in [Posts -> Accounts]
    /\ Cases \subseteq [platform : Platforms, faults : SUBSET Kinds, posts : SUBSET Posts]
    /\ Lengths \in [Units -> Nat \ {0}]
    /\ Jitter \in Nat /\ Requests \in Nat /\ MaxTime \in Nat

VARIABLES
    platform,   \* the platform and its configuration; never changes
    faults,     \* the Kinds of the case; never changes
    now,        \* the clock
    count,      \* the Redis keys of counters
    users,      \* the tenants in the set of each day
    slots,      \* platform_daily_usage.scheduled_count of each day
    post        \* the posts, with the frame of the call or job about them

vars == <<platform, faults, now, count, users, slots, post>>

limits == platform.limits

-----------------------------------------------------------------------------
(* Windows and counters *)

StartOf(unit, t) == (t \div Lengths[unit]) * Lengths[unit]
EndOf(unit, t) == StartOf(unit, t) + Lengths[unit]

\* A counter is refused when its count and one more cost exceed the limit; one
\* that is clamped is decremented only when it was seen above 0.
Counter(name, per, unit, limit, cost, clamped) ==
    IF limit = 0 \/ cost = 0 THEN {}
    ELSE {[name |-> name, per |-> per, unit |-> unit, limit |-> limit,
           cost |-> cost, clamped |-> clamped]}

DailyPosts == Counter("daily", "account", "day", limits.postsPerDay, 1, TRUE)
MinutePosts == Counter("minute", "account", "minute", limits.postsPerMinute, 1, TRUE)
HourlyRequests == Counter("hour", "account", "hour", limits.requestsPerHour, 1, TRUE)
FiveMinuteRequests ==
    Counter("5min", "account", "fiveMinutes", limits.requestsPer5Min, 1, TRUE)
Quota ==
    Counter("quota", IF platform.name = "youtube" THEN "app" ELSE "account", "day",
            limits.quotaUnits, limits.costPerPost, FALSE)
Points ==
    Counter("points", "account", "day", limits.pointsPerDay, limits.pointsPerPost, FALSE)

\* TikTok's daily limit is one of users.
AppDaily ==
    IF platform.name = "tiktok" THEN {}
    ELSE Counter("appDaily", "app", "day", limits.appDailyLimit, 1, FALSE)
AppRps == Counter("rps", "app", "second", limits.appRps, 1, FALSE)
AppQuota ==
    Counter("appQuota", "app", "day", limits.appDailyLimit, limits.costPerPost, FALSE)

UsageCounters ==
    DailyPosts \cup MinutePosts \cup HourlyRequests \cup FiveMinuteRequests
        \cup Quota \cup Points
AppCounters == AppDaily \cup AppRps \cup AppQuota

\* The Redis key: name, holder, start of the window.
Key(c, holder, t) ==
    <<c.name, IF c.per = "app" THEN App ELSE holder, StartOf(c.unit, t)>>

Value(k) == IF k \in DOMAIN count THEN count[k] ELSE 0

\* INCRBY of the keys of counters by their cost, signed.
Moved(counters, holder, t, sign) ==
    LET keys == {Key(c, holder, t) : c \in counters}
        by(k) == LET c == CHOOSE c \in counters : Key(c, holder, t) = k
                 IN sign * c.cost
    IN [k \in DOMAIN count \cup keys |->
            Value(k) + (IF k \in keys THEN by(k) ELSE 0)]

UsersOf(day) == IF day \in DOMAIN users THEN users[day] ELSE {}

-----------------------------------------------------------------------------
(* checkRateLimit *)

\* checkAppUserLimit, and checkAppDailyLimit for TikTok, where also a user who
\* is in the set is refused.
UsersRefuse(user) ==
    LET today == UsersOf(StartOf("day", now))
    IN /\ limits.appDailyLimit # 0
       /\ Cardinality(today) >= limits.appDailyLimit
       /\ platform.name = "tiktok" \/ user \notin today

\* The ends of the windows that refuse the holder: all are asked at once.
Refusals(holder, user) ==
    {EndOf(c.unit, now) : c \in
        {d \in UsageCounters \cup AppCounters :
            Value(Key(d, holder, now)) + d.cost > d.limit}}
    \cup {t \in {EndOf("day", now)} : UsersRefuse(user)}

Greatest(S) == CHOOSE x \in S : \A y \in S : y <= x

\* The most restrictive result is the one that takes longest to reset.
LastReset(S) == Greatest(S)

-----------------------------------------------------------------------------
NoTime == -1
NoKey == <<>>

\* at is the time asked for, due the job's, resets when what delayed the job is
\* over, slot and left what createPost and the counting still have to do, key
\* and seen what a reservation or a decrement has read, reserved the day a
\* quota is reserved on, sentAt (history) when the platform took the post.
NewPost ==
    [pc |-> "new", kind |-> "none", at |-> NoTime, due |-> NoTime,
     resets |-> NoTime, slot |-> "none", left |-> <<>>, key |-> NoKey,
     seen |-> {}, reserved |-> NoTime, sentAt |-> NoTime]

NoPost == [NewPost EXCEPT !.pc = "deleted"]

Init ==
    /\ \E c \in Cases :
          /\ platform = c.platform /\ faults = c.faults
          /\ post = [p \in Posts |-> IF p \in c.posts THEN NewPost ELSE NoPost]
    /\ now = 0
    /\ count = <<>>
    /\ users = <<>>
    /\ slots = <<>>

Days == {StartOf("day", t) : t \in 0 .. (MaxTime + 1)}
SlotsOf(day) == IF day \in DOMAIN slots THEN slots[day] ELSE 0

AtLeastZero(n) == IF n < 0 THEN 0 ELSE n

\* incrementScheduledCount.
WithSlots(day, n) ==
    [d \in DOMAIN slots \cup {day} |->
        IF d = day THEN AtLeastZero(SlotsOf(d) + n) ELSE slots[d]]

\* The posts no call or running job is about.
Resting ==
    {p \in Posts : /\ post[p].pc \in {"new", "queued", "done", "failed", "refused", "deleted"}
                   /\ post[p].slot # "validated"}

Tick ==
    /\ now < MaxTime
    /\ "slow" \in faults \/ Resting = Posts
    /\ now' = now + 1
    /\ UNCHANGED <<platform, faults, count, users, slots, post>>

-----------------------------------------------------------------------------
(* createPost *)

\* The posts whose slots are validated and not reserved.
Validated == {p \in Posts : post[p].slot = "validated"}

\* Mutant: the slots are not compared with the limit.
ValidateNothing(p, at) ==
    /\ post[p].pc = "new" /\ "schedule" \in faults
    /\ at > now /\ Cardinality(Validated) < Requests
    /\ ("far" \in faults <=> at > MaxTime)
    /\ post' = [post EXCEPT ![p].pc = "schedule", ![p].kind = "scheduled",
                            ![p].at = at, ![p].slot = "validated"]
    /\ UNCHANGED <<platform, faults, now, count, users, slots>>

\* validatePlatformQuotas; schedulePost is then called and not awaited.
Validate(p, at) ==
    /\ post[p].pc = "new" /\ "schedule" \in faults
    /\ at > now /\ Cardinality(Validated) < Requests
    /\ ("far" \in faults <=> at > MaxTime)
    /\ limits.postsPerDay = 0 \/ SlotsOf(StartOf("day", at)) < limits.postsPerDay
    /\ post' = [post EXCEPT ![p].pc = "schedule", ![p].kind = "scheduled",
                            ![p].at = at, ![p].slot = "validated"]
    /\ UNCHANGED <<platform, faults, now, count, users, slots>>

\* A post to be sent at once: its limits are asked, its slots are not.
CheckNow(p) ==
    /\ post[p].pc = "new" /\ "now" \in faults
    /\ Refusals(AccountOf[p], UserOf[AccountOf[p]]) = {}
    /\ post' = [post EXCEPT ![p].pc = "publish", ![p].kind = "now",
                            ![p].at = now, ![p].slot = "validated"]
    /\ UNCHANGED <<platform, faults, now, count, users, slots>>

\* reservePlatformSlots, after the rows of the post exist.
ReserveSlots(p) ==
    /\ post[p].slot = "validated"
    /\ slots' = WithSlots(StartOf("day", post[p].at), 1)
    /\ post' = [post EXCEPT ![p].slot = "reserved"]
    /\ UNCHANGED <<platform, faults, now, count, users>>

-----------------------------------------------------------------------------
(* schedulePost *)

Later(a, b) == IF a > b THEN a ELSE b

\* The post's id is passed for the account's.
ScheduleCheck(p) ==
    LET resets == Refusals(p, UserOf[AccountOf[p]])
        due == IF resets = {} THEN post[p].at ELSE Later(post[p].at, LastReset(resets))
    IN /\ post[p].pc = "schedule"
       /\ post' = [post EXCEPT
             ![p].pc = IF platform.name = "youtube" THEN "budget" ELSE "enqueue",
             ![p].due = due,
             ![p].resets = IF resets = {} THEN NoTime ELSE Greatest(resets)]
       /\ UNCHANGED <<platform, faults, now, count, users, slots>>

QuotaKey == <<"appQuota", App, StartOf("day", now)>>

\* reserveQuota begins with getQuotaBudget; without a budget the job is put off
\* to the next day.
ReadBudget(p) ==
    LET remaining == AtLeastZero(limits.appDailyLimit - Value(QuotaKey))
        reset == EndOf("day", now)
    IN /\ post[p].pc = "budget"
       /\ IF remaining >= limits.costPerPost
          THEN post' = [post EXCEPT ![p].pc = "multi"]
          ELSE post' = [post EXCEPT ![p].pc = "enqueue",
                           ![p].due = Later(@, reset),
                           ![p].resets = Later(@, reset)]
       /\ UNCHANGED <<platform, faults, now, count, users, slots>>

\* Mutant: what MULTI answers is not compared with the limit.
ReserveUnchecked(p) ==
    /\ post[p].pc = "multi"
    /\ count' = Moved(AppQuota, App, now, 1)
    /\ post' = [post EXCEPT ![p].pc = "enqueue", ![p].reserved = StartOf("day", now)]
    /\ UNCHANGED <<platform, faults, now, users, slots>>

\* MULTI: the quota is incremented, and an overshoot rolled back.
ReserveQuota(p) ==
    LET new == Value(QuotaKey) + limits.costPerPost
    IN /\ post[p].pc = "multi"
       /\ count' = Moved(AppQuota, App, now, 1)
       /\ post' = [post EXCEPT
             ![p].pc = IF new > limits.appDailyLimit THEN "rollback" ELSE "enqueue",
             ![p].key = IF new > limits.appDailyLimit THEN QuotaKey ELSE @,
             ![p].reserved = IF new > limits.appDailyLimit THEN @ ELSE StartOf("day", now)]
       /\ UNCHANGED <<platform, faults, now, users, slots>>

\* The rollback; the job is put off by an hour.
RollBack(p) ==
    /\ post[p].pc = "rollback"
    /\ count' = [count EXCEPT ![post[p].key] = @ - limits.costPerPost]
    /\ post' = [post EXCEPT ![p].pc = "enqueue", ![p].key = NoKey,
                            ![p].due = Later(@, now + Lengths["hour"])]
    /\ UNCHANGED <<platform, faults, now, users, slots>>

\* applyJitter spreads the due time in both directions.
Jittered(due) == IF "jitter" \in faults THEN (due - Jitter) .. (due + Jitter) ELSE {due}

Enqueue(p) ==
    /\ post[p].pc = "enqueue"
    /\ \E due \in Jittered(post[p].due) :
          post' = [post EXCEPT ![p].pc = "queued", ![p].due = Later(due, now)]
    /\ UNCHANGED <<platform, faults, now, count, users, slots>>

-----------------------------------------------------------------------------
(* handleJob, and the end of createPost and of retryPostTarget *)

InFlight == {p \in Posts : post[p].pc \in {"publish", "count"}}

\* A worker takes the job and asks the limits; a job they refuse fails.
StartJob(p) ==
    /\ post[p].pc = "queued" /\ post[p].due <= now
    /\ Cardinality({q \in InFlight : post[q].kind = "scheduled"}) < platform.maxConcurrency
    /\ post' = [post EXCEPT
          ![p].pc = IF Refusals(AccountOf[p], UserOf[AccountOf[p]]) = {}
                    THEN "publish" ELSE "refused",
          ![p].due = NoTime, ![p].resets = NoTime]
    /\ UNCHANGED <<platform, faults, now, count, users, slots>>

\* retryPostTarget asks no limit.
Retry(p) ==
    /\ post[p].pc = "failed" /\ "retry" \in faults
    /\ post' = [post EXCEPT ![p].pc = "publish", ![p].kind = "retry"]
    /\ UNCHANGED <<platform, faults, now, count, users, slots>>

\* What a success is counted by: sendPost's callback, then the job or
\* createPost; a retry has replaced the callback by one that does not count.
Counting(kind) ==
    IF kind = "retry" THEN <<"usage", "app">> ELSE <<"usage", "app", "usage", "app">>

\* sendPost; the platform accepts or rejects.
Publish(p) ==
    /\ post[p].pc = "publish"
    /\ post[p].kind = "now" => post[p].slot = "reserved"
    /\ \/ post' = [post EXCEPT ![p].pc = "count", ![p].sentAt = now,
                               ![p].left = Counting(post[p].kind)]
       \/ post' = [post EXCEPT ![p].pc = "failed"]
    /\ UNCHANGED <<platform, faults, now, count, users, slots>>

\* post after the head of left is done with.
Advanced(p, end) ==
    [post EXCEPT ![p].left = Tail(@),
                 ![p].pc = IF Len(post[p].left) = 1 THEN end ELSE @]

\* Mutant: the tenant's counters are incremented, not the account's.
IncrementUsersUsage(p) ==
    /\ post[p].pc = "count" /\ Head(post[p].left) = "usage"
    /\ count' = Moved(UsageCounters, UserOf[AccountOf[p]], now, 1)
    /\ post' = Advanced(p, "done")
    /\ UNCHANGED <<platform, faults, now, users, slots>>

IncrementUsage(p) ==
    /\ post[p].pc = "count" /\ Head(post[p].left) = "usage"
    /\ count' = Moved(UsageCounters, AccountOf[p], now, 1)
    /\ post' = Advanced(p, "done")
    /\ UNCHANGED <<platform, faults, now, users, slots>>

IncrementAppUsage(p) ==
    LET today == StartOf("day", now)
    IN /\ post[p].pc = "count" /\ Head(post[p].left) = "app"
       /\ count' = Moved(AppCounters, App, now, 1)
       /\ users' = IF limits.appDailyLimit = 0 THEN users
                   ELSE [d \in DOMAIN users \cup {today} |->
                           IF d = today THEN UsersOf(d) \cup {UserOf[AccountOf[p]]}
                           ELSE users[d]]
       /\ post' = Advanced(p, "done")
       /\ UNCHANGED <<platform, faults, now, slots>>

-----------------------------------------------------------------------------
(* deletePost *)

Deleting == {p \in Posts : post[p].pc \in {"delete", "decrement"}}

\* A post that is not DONE gives its usage back twice, although no post counts
\* before it is sent.
Delete(p) ==
    /\ "delete" \in faults
    /\ post[p].pc \in {"queued", "failed", "refused", "done"}
    /\ post[p].slot = "reserved"
    /\ "together" \in faults \/ Deleting = {}
    /\ post' = [post EXCEPT ![p].pc = "delete", ![p].left =
                  IF post[p].pc = "done" THEN <<"slots", "usage", "app">>
                  ELSE <<"usage", "slots", "usage", "app">>]
    /\ UNCHANGED <<platform, faults, now, count, users, slots>>

ReleaseSlots(p) ==
    /\ post[p].pc = "delete" /\ Head(post[p].left) = "slots"
    /\ slots' = WithSlots(StartOf("day", post[p].at), -1)
    /\ post' = Advanced(p, "deleted")
    /\ UNCHANGED <<platform, faults, now, count, users>>

\* decrementUsage gets the counters that must not fall below 0, and then
\* decrements those that were above.
DecrementRead(p) ==
    /\ post[p].pc = "delete" /\ Head(post[p].left) = "usage"
    /\ post' = [post EXCEPT ![p].pc = "decrement", ![p].key = <<now>>, ![p].seen =
         {c \in UsageCounters : c.clamped => Value(Key(c, AccountOf[p], now)) > 0}]
    /\ UNCHANGED <<platform, faults, now, count, users, slots>>

\* Mutant: the counters are decremented whatever they were.
DecrementAll(p) ==
    /\ post[p].pc = "decrement"
    /\ count' = Moved(UsageCounters, AccountOf[p], post[p].key[1], -1)
    /\ post' = [Advanced(p, "delete") EXCEPT ![p].pc = "delete", ![p].key = NoKey,
                                              ![p].seen = {}]
    /\ UNCHANGED <<platform, faults, now, users, slots>>

Decrement(p) ==
    /\ post[p].pc = "decrement"
    /\ count' = Moved(post[p].seen, AccountOf[p], post[p].key[1], -1)
    /\ post' = [Advanced(p, "delete") EXCEPT ![p].pc = "delete", ![p].key = NoKey,
                                              ![p].seen = {}]
    /\ UNCHANGED <<platform, faults, now, users, slots>>

DecrementApp(p) ==
    /\ post[p].pc = "delete" /\ Head(post[p].left) = "app"
    /\ count' = Moved(AppDaily \cup AppQuota, App, now, -1)
    /\ post' = Advanced(p, "deleted")
    /\ UNCHANGED <<platform, faults, now, users, slots>>

-----------------------------------------------------------------------------
Next ==
    \/ Tick
    \/ \E p \in Posts :
          \/ \E at \in 1 .. (MaxTime + 1) : Validate(p, at)
          \/ CheckNow(p) \/ ReserveSlots(p)
          \/ ScheduleCheck(p) \/ ReadBudget(p) \/ ReserveQuota(p) \/ RollBack(p)
          \/ Enqueue(p) \/ StartJob(p) \/ Retry(p) \/ Publish(p)
          \/ IncrementUsage(p) \/ IncrementAppUsage(p)
          \/ Delete(p) \/ ReleaseSlots(p) \/ DecrementRead(p) \/ Decrement(p)
          \/ DecrementApp(p)

Spec == Init /\ [][Next]_vars

-----------------------------------------------------------------------------
(* Type invariant *)
TypeOK ==
    /\ platform \in Platforms /\ faults \subseteq Kinds
    /\ now \in 0 .. MaxTime
    /\ \A k \in DOMAIN count : count[k] \in Int
    /\ \A d \in DOMAIN users : users[d] \subseteq {UserOf[a] : a \in Accounts}
    /\ \A d \in DOMAIN slots : slots[d] \in Nat
    /\ \A p \in Posts :
          /\ post[p].pc \in
                {"new", "schedule", "budget", "multi", "rollback", "enqueue", "queued",
                 "publish", "count", "done", "failed", "refused", "delete",
                 "decrement", "deleted"}
          /\ post[p].slot \in {"none", "validated", "reserved"}

\* What the platform took in the window of c that begins at start.
SentIn(c, holder, start) ==
    {p \in Posts :
        /\ post[p].sentAt # NoTime /\ StartOf(c.unit, post[p].sentAt) = start
        /\ c.per = "app" \/ AccountOf[p] = holder}

\* Those that may be between a check and its count at a time.
Concurrent ==
    platform.maxConcurrency + Cardinality({p \in Posts : post[p].kind = "now"})

(* Checks and counts are apart, and so a window may get more than its      *)
(* limit: by as many posts as are under way at a time, less one, and no    *)
(* more, wherever windows end in between (posts that are not retried and   *)
(* not deleted).                                                           *)
OvershootBounded ==
    faults \cap {"retry", "delete"} = {} =>
        \A c \in UsageCounters \cup AppCounters, a \in Accounts, t \in 0 .. MaxTime :
            c.cost * Cardinality(SentIn(c, a, StartOf(c.unit, t)))
                <= Later(0, c.limit + (Concurrent - 1) * c.cost)

(* No more quota is promised to the posts scheduled on a day than YouTube  *)
(* grants, however many reservations, rollbacks and uploads run at once.   *)
ReservedWithinQuota ==
    "delete" \notin faults =>
        \A d \in Days :
            limits.costPerPost * Cardinality({p \in Posts : post[p].reserved = d})
                <= limits.appDailyLimit

(* The slots of a day exceed the platform's daily limit only by requests   *)
(* that were validated together, less one (posts sent at once take a slot  *)
(* without asking).                                                        *)
SlotsBounded ==
    "now" \notin faults /\ limits.postsPerDay # 0 =>
        \A d \in DOMAIN slots : slots[d] <= limits.postsPerDay + Requests - 1

\* How many deletions may read a counter before one of them writes it.
Readers == IF "together" \in faults THEN Cardinality(Posts) ELSE 1

(* A deletion gives back more than was counted for its post, but a count   *)
(* of posts does not fall below zero, or below by no more than deletions   *)
(* that overlap, each of which may have seen the last unit.                *)
ClampedCount ==
    \A c \in UsageCounters, a \in Accounts, t \in 0 .. now :
        c.clamped => Value(Key(c, a, t)) >= 1 - Readers

===============================================================================
