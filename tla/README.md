# A TLA+ model of the Orbit Reach back end

Orbit Reach publishes posts to nine social platforms, at once or at a scheduled
time, within the limits of a paid plan. This directory holds TLA+ modules
translated from the code (paths below are relative to the repository; `PS` is
`src/services/posts-service/posts.service.ts`), TLC configurations that check
them on small instances, and proofs that TLAPS checks for every instance.
`PROJECT.json` maps every definition to the lines it models.

## 1. The system

| Part | State it keeps | Operations | Talks to |
|---|---|---|---|
| Post service (`PS`) | rows of `posts`, `post_targets` | `createPost`, `editPost`, `deletePost`, `retryPostTarget`, the status callbacks `checkAndUpdateBasePostStatus[WithoutCounters]` | scheduler, sender, quotas, plan usage, media |
| Post sender | none (reads and writes the same rows) | `sendPost` | publishers, the status callbacks, error handler |
| Scheduler and worker (BullMQ) | one delayed job per target in Redis | `schedulePost`, `cancelScheduledPost`, `reschedulePost`; `handleJob` | sender, rate limiter, failure callback |
| Publishers, error handler | the target's row | `sendPostTo…` of nine platforms, `handleSocialMediaError` | platform APIs |
| Rate limiter, quotas | Redis counters, the YouTube quota, `platform_usage` rows | `checkRateLimit`, `incrementUsage`, `reserveQuota`, `validatePlatformQuotas`, `reservePlatformSlots` | post service, scheduler, worker |
| Payments | `payment_tokens`, `promo_codes` | checkout, synchronisation, webhook, fulfilment | users, plans |
| Users, plans, usage | `tenants`, `user_plans`, `user_plan_usage`, one-time tokens | `updateUserPlanUsage`, `updateCustomerPlan`, `processExpiredPlans`, password reset, magic links | Stripe webhooks, payments, posts, accounts |
| Accounts, connectors | `social_accounts` | connect, delete, refresh tokens | OAuth APIs, post service, users |
| Database connections | a pool of connections, the transaction each is in | `connect`, `query`, BEGIN to COMMIT or ROLLBACK, `release` | every repository, PostgreSQL |
| Controllers, middleware, media, AI, e-mail, time zones | none that matters here | HTTP, files, external services | everything |

What is hard: every `await` lets another handler, job or callback run. The rows
of a post are written by the request that creates it, by one job per target, by
the callbacks of each of them, and by retries, mostly from rows read some steps
earlier and never under a lock; jobs are fired before the rows they need exist;
workers die and their jobs run again; replies of the platforms are lost. Limits
are asked in one call and counted in another, by several parties. Stripe's events
come late, twice and in any order, next to requests that change the same plan.
A refresh job carries tokens from one await to the next while a reconnection or
a deletion replaces the row. The pool's connections pass from call to call with
whatever transaction was left on them. What makes the parts correct:

* posts: a target is published at most once and stored DONE only if it was; a
  post ends in the state its targets call for, and it ends; usage is counted
  only for what was published;
* publishers: DONE means that the platform shows all of the post, FAILED that
  something outside went wrong; temporary copies are deleted, and not before they were pulled;
* limits: what is sent, promised or reserved exceeds a limit by no more than
  overlaps; what is given back was taken;
* payments: what a report calls successful is fulfilled, exactly once if reports
  come one at a time, and nothing else is;
* plans: the plan is the one bought that the latest event asks for, it ends, and
  the count of accounts covers the accounts;
* accounts: the stored token works, it is renewed in time, and a deletion takes
  along the posts that have no other account;
* limits of a plan: a counter never exceeds its row's limit, what is used stays
  within the allowances, and add-ons add up;
* magic links: a link promotes no more tenants than it may, and a tenant
  answered for has the plan it was promised;
* database connections: a transaction is atomic and stored when it is reported,
  every connection comes back.

`PROJECT.json` lists every hazard at its line, with the properties that address
it or the reason why none does.

## 2. Modules

| Module | What it is |
|---|---|
| `PostPublishing` | one post from the request that creates it to its last published target |
| `TargetLifecycle` | the abstract specification of the rows of the targets, implemented by `PostPublishing` |
| `MCPostPublishing` | the instance TLC checks (symmetry) |
| `PostPublishing_proofs` | the theorems and their proofs |
| `PostEditing` | a stored post that is edited, rescheduled and deleted, against its jobs and daily slots |
| `MCPostEditing` | the scenarios and placements TLC explores |
| `PostEditing_proofs` | the theorems and their proofs |
| `Payments` | the checkouts of the Secure Processor and the reports that fulfil them |
| `MCPayments` | the scenarios TLC explores |
| `Payments_proofs` | the theorems about `Payments` and `SignUp` and their proofs |
| `ConnectionPool` | the calls of the repositories on the shared pool and their transactions |
| `MCConnectionPool` | the combinations of programs TLC explores |
| `PlanUsage`, `MCPlanUsage` | a tenant's plan and its count of accounts between Stripe's events, requests, the expiry job and connections; the scenarios |
| `PlanUsage_proofs` | the theorems and their proofs |
| `RateLimits`, `MCRateLimits` | the Redis counters, YouTube's quota and the daily slots of a platform, and the requests and jobs that ask and move them; the cases |
| `RateLimits_proofs` | the theorems and their proofs |
| `Publishers`, `MCPublishers` | one publication by each of the nine publishers, step by step; the limits |
| `Publishers_proofs` | the theorems about `Publishers` and `ConnectionPool` and their proofs |
| `Accounts`, `MCAccounts` | connecting, refreshing and deleting accounts; the pages and platforms |
| `Accounts_proofs` | the theorems and their proofs |
| `UsageLimits`, `MCUsageLimits` | the counter of posts or of AI requests, its limits, add-ons and plan changes; the limits and scenarios |
| `UsageLimits_proofs` | the theorems and their proofs |
| `SignUp`, `MCSignUp` | creating a tenant with its plan, and the magic link redeemed for it; the scenarios |

How they fit together: `PostPublishing` takes a publication for one step that is
accepted or refused, `Publishers` is the inside of that step; `PostPublishing`
and `PostEditing` follow the rows of one post, `RateLimits` the counters that
many posts share; `PlanUsage` counts the accounts that `Accounts` stores;
`UsageLimits` takes up the other counters of the plan that `PlanUsage` changes, and
the add-ons that `Payments` grants; `SignUp` is how the plan comes to be. Where the
proofs of two modules share a file, the one that is extended second prefixes its
general names (`SignUpInit`, `PoolNext`, `PoolTypeOK`); nothing else joins them. What
two modules both touch, each abstracts to what its own properties need: whether a
limit refuses is a free choice in `PostPublishing` (`limited`), which covers every
state of the counters that `RateLimits` keeps; a post is a set of targets in
`Accounts`; and `PlanUsage` knows of accounts only how many there are.

### PostPublishing

The state: `post` is the row of `posts` (status, and whether `scheduled_time`
is set, which is all the code asks of it) and `target` the rows of
`post_targets`; `create` is how far the `createPost` handler has come; `call` is
a frame for every execution of `sendPost`, with its program counter and the
local variables it carries over an `await` (the status it read, the DONE
targets it read, the status it is about to write, what the callback returns
to); `stalled` are the jobs BullMQ has re-queued; `sent` and `rate` are the
increments of this post to the `sent` usage and to the rate-limit counters;
`accepted` is a history variable, the times the platform took the target.

The call of an account is the target's job when the post is scheduled and
`createPost`'s own `sendPost` when it is published at once; the calls in
`Retries` are requests to retry. They share the steps of `sendPost` and of the
callbacks and differ in what comes before (`AddJob`, `StartJob`, `Preflight`;
`StartSends`; `RetrySelect`, `RetryUpdate`) and after (`CountUsage`;
`AwaitSends` to `CountSuccesses`; `RetryRead`, `RetryMark`). Steps are cut at the
awaits between which another handler can observe or change the rows: reading
`posts` and reading `post_targets` in `getPostDetails` are two steps, the
derivation of the status and its write are two, the two statements of
`retryPostTarget` are two.

| Code | Actions |
|---|---|
| `createPost` | `CreateBasePost`, `FireSchedules`, `CreatePostTargets`, `ReserveSlots`, `StartSends`, `AwaitSends`, `MarkFailures`, `MarkSuccesses`, `FinishBasePost`, `CountSuccesses`; `CreateThrows` for its errors |
| `schedulePost`, `handleJob` | `AddJob`, `StartJob`, `Preflight`, `CountUsage`; `Stall` for a worker's death |
| `sendPost`, publishers, `handleSocialMediaError` | `ReadPost`, `ReadTargets`, `MarkPosting`, `PublishAccepted`, `PublishRejected`, `SetDone`, `SetFailed`, `MarkError` |
| the status callbacks | `CallbackReadPost`, `CallbackReadTargets` (with `Decide`), `CallbackWrite`, `CallbackCount` |
| `retryPostTarget` | `RetrySelect` or `RetryRefused`, `RetryUpdate`, `RetryRead`, `RetryMark` |

Adverse events are enabled by the constant `Faults`, so that a run can say which
of them its properties survive:

| Fault | Event | Why it is possible |
|---|---|---|
| `early` | a job starts before `createPostTargets` | `schedulePost` is not awaited (PS:1011); time and media uploads are not bounded |
| `schedule` | `schedulePost` rejects, unnoticed | no queue for the platform, Redis down |
| `abort` | `createPost` throws before its targets exist | upload or database error |
| `limited` | a rate limit or the slot reservation refuses | PS:1039, PS:1024, `handleJob`'s pre-flight check |
| `lostReply` | the platform accepts and the publisher sees an error | network |
| `stall`, `stallTwice` | the worker dies; its second worker dies too | BullMQ's stalled-job check, `maxStalledCount` 1 |
| `hastyRetry` | a retry arrives while another send is running | nothing in the code prevents it |
| `staleRetry` | a retry names a target that is not FAILED | a double click, a stale page |

Left out: validation before the row is created, media and captions, the
`scheduled` usage counter, database errors in the middle of `sendPost`, and the
cap of `used_count` at the plan's limit (`sent` and `rate` are the increments).
The parallel updates of `MarkFailures` and `MarkSuccesses` are one step each:
they write different rows, and no other step of the same request runs between.

### PostEditing

One post that `createPost` has stored: `post`, `target` and the clock `now`; `job`,
every BullMQ job the post ever gets, named by the request that added it (0 for
`createPost`) and the account it was added for; `req`, a frame per edit or delete
with what it read at its start (`old`, `oldTime`) and the accounts its loop has
left; `slots`, the
`scheduled_count` of `platform_daily_usage` for a user who has this post only; `accepted`, the
copies on the platforms. A job that an edit adds carries no account
(`AccountOf`), so `sendPost` takes the first target of the platform
(`Candidates`). Times are numbers, each on a day of its own.

| Code | Actions |
|---|---|
| `editPost`, `handlePostLimitChanges` | `EditRead`, `Refuse`, `UpdateBasePost`, `UpdatePostTargets` |
| `handlePlatformUsageUpdate` | `FirstStep` chooses among its cases; `Release`, `Reserve`, `Adjust`; `NextTarget` is the loop over the targets |
| `cancelScheduledPost`, `cleanupJobsForDeletedPost` | `FindDelayedJob`, `RemoveJob`, `Cleanup` |
| `schedulePost`, `findExistingJob` | `FindExisting` (three lists, three steps), `AddJob` |
| `deletePost`, `cancelPostTarget` | `DeleteRead`, `Release`, `CancelTarget`, `DeleteRows` |
| the job | `Due`, `Start`, `ReadPost`, `MarkPosting`, `Publish`, `Record`, `Settle`, `MarkError` |

An edit through the controller is a draft or has a time in the future
(`parseEditPostRequest` passes no `postNow`), so the case "scheduled and now
immediate" cannot be reached and is left out. The job's reads of `posts` and
`post_targets` are one step here, its status callback is one step, and it meets
neither rate limits nor crashes: that is `PostPublishing`. Left out: media, the
plan's `scheduled` counter and the rate-limit counters of a deleted post.

A scenario names the circumstances that may occur in a behaviour: `single` (one
target instead of two), `shared` (two accounts of one platform), `overlap` (a
request meets a due job or another request), `retarget` (an edit changes the
accounts), `still` (it keeps the time), `draft`, `resent` (an edit of a post that
was sent in part, or failed), `full` (a quota refuses).

### Payments

A token is one checkout. `checkout[t]` is how far `createCheckoutToken` has come,
`row[t]` the status in `payment_tokens`, `gateway[t]` the truth at the payment
gateway (external; `told[t]` all it has ever said), and `call[t][h]` the frame of
a webhook or browser return being handled: what was reported (`says`) and the
status of the row as read at the start (`seen`), from which `shouldActivate` is
decided after the row has been overwritten. `granted[t]` counts the runs of
`incrementUsageLimits`, `uses[t]` the increments of the promo code. The rest is
history or bound: `acked`, `lost`, `crashed`, and `claimed`, the tokens that a
return called successful while the gateway did not.

| Code (`secure-processor.service.ts`) | Actions |
|---|---|
| `createCheckoutToken` and its three kinds | `StartCheckout`, `AskGateway`, `StoreToken`, `CheckoutFails` |
| `processWebhook` | `Webhook`, `Update`, `Grant`, `RecordPromo` |
| `handleReturn` | `Return` (any status under `claims`), `Query` for none or "pending", `Update`, `Grant`, `RecordPromo` |
| `ensurePayloadConsistency` | `AfterCheck`, `MarkError` |
| `applyFulfillment` | `ShouldActivate`, `Grant`, `GrantFails`, `RecordPromo` |

The adverse events are chosen in the initial state, one scenario per behaviour,
so that one run checks what holds under each of them: `overlap` (two handlers of
a token at once), `late` (a report of an earlier status), `claims` (a return with
a status that the gateway has not given: `handleReturn` takes it from the query
string and asks the gateway only if it is missing or "pending"), `mismatch`,
`grantFails`, `promoFails` and `crash`. "Calm" means none of the first four.

Left out: amounts and currencies (a mismatch is an event), the calculator of the
flexible top-up, the limits row itself (`incrementUsageLimits` is one
transaction that locks its row with its first statement), database errors before
the update, and the promo code's `max_uses`, which the code checks at the
checkout and counts at the fulfilment, so that checkouts in flight may exceed it.

### ConnectionPool

Every repository uses the pool of `db-connection.ts`. What a method does there is
its *program*: its kind and the rows its statements write, in order. The kinds
are those the repositories have: `query` (`pool.query`), `single` (a client and
one statement, no BEGIN: `createBasePost`, `updateBasePost`), `transaction`
(`createPostTargets`, `deleteAccount`, `ensurePlan`, ...) and `openRead`, a BEGIN
and a SELECT without a COMMIT (`findUserPlanByUserId`, `getPostsFailedCount`,
`getFailedPostTargets`, `findAccountsWithExpiringAccessTokens`). `at`, `conn`,
`next` and `result` say where a call is, on which connection, after how many
statements and with which answer; `tx` is the transaction of a connection,
`pending` what was written in it, `committed` what is stored.

| Code | Actions |
|---|---|
| `client.connect()` | `Connect` (it waits while every connection is in use) |
| BEGIN, COMMIT, ROLLBACK | `Begin`, `Commit`, `Rollback` (in the catch block) |
| INSERT, UPDATE, DELETE | `Execute` |
| the SELECT of an `openRead` | `OpenRead` |
| a statement or the method throws | `StatementThrows`, `CodeThrows` |
| `client.release()` in the finally block | `Release` |

External, modelled from how the code uses them: PostgreSQL's row locks, which last
until the transaction ends, its deadlock detection, its aborted transactions, and
BEGIN inside a transaction being a mere warning; pg-pool, which closes a
connection that has been idle for ten seconds (`IdleTimeout`) and one on which
`pool.query` failed. Left out: what statements compute and the rows they match.

The other modules take a statement as stored and visible when it returns. That is
an assumption, and one the code does not meet everywhere: a single statement on a
connection whose user before left a read's transaction open joins that transaction
(see "What the code does not do" below). For a `transaction` `AnswerIsTrue` says as
much; for single statements nothing here discharges it, so those modules describe
the code with the four reads ended properly.

### RateLimits

One platform with its configuration (`platform`), the clock `now` and `post`: for
every post a frame that follows it through `createPost`, `schedulePost`, its job,
a retry and `deletePost`. `count` are the Redis keys (name, holder, start of the
window), `users` the sets of tenants of a day, `slots` the `scheduled_count` of
`platform_daily_usage`. The counters of a platform come from its configuration
(`UsageCounters`, `AppCounters`), with the limit, the cost and the window of each;
a limit that is not configured is 0, as the code takes it. Every limit is read in
one step and counted in a later one; `decrementUsage` reads in `DecrementRead` and
writes in `Decrement`.

| Code | Actions and operators |
|---|---|
| `checkRateLimit` and the checks it makes | `Refusals`, `UsersRefuse`, `LastReset` |
| `incrementUsage`, `incrementAppUsage`, `decrementUsage`, `decrementAppUsage` | `Moved` in `IncrementUsage`, `IncrementAppUsage`, `DecrementRead` and `Decrement`, `DecrementApp` |
| `YouTubeQuotaManager.reserveQuota` | `ReadBudget`, `ReserveQuota` (MULTI), `RollBack` |
| `PlatformQuotaService` | `Validate`, `ReserveSlots`, `ReleaseSlots` |
| `createPost`, `schedulePost`, `applyJitter` | `Validate` or `CheckNow`, `ScheduleCheck`, `Enqueue` |
| `handleJob`, `retryPostTarget`, `deletePost` | `StartJob`, `Publish`, `Retry`; `Delete` and what it gives back |

The code is translated as it is, which shows in the model: `schedulePost` passes
the post's id where `checkRateLimit` expects an account, so the account's windows
are not seen at scheduling (`ScheduleCheck`); a scheduled upload takes its quota
at the reservation and again when it is published; `retryPostTarget` asks no
limit; a deleted post that is not DONE gives its usage back twice (`Delete`);
posts sent at once take a slot unvalidated. `releaseQuota` has no caller, and X
has no configuration, for which `getConfig` throws. Left out: statistics, TTLs
(a key is named by its window, so expiry only frees memory), posts of several
targets, and what becomes of a deleted post's job.

### PlanUsage

`plan` is the row of `user_plans`, `rows` the rows of `user_plan_usage` for the
counter "accounts", the one whose count outlives a period; `stripe` and `inbox`
are Stripe's subscriptions and the events it has not got a 200 for (external);
`frame` the webhooks, requests and runs of the job under way, with the row they
read (`seen`) and the one they will write (`next`); `connected` the number of
`social_accounts`, `conn` the requests about them. Every handler writes the plan
in one transaction and moves the counters in another, so the process may die
between them, and another handler may come.

| Code | Actions |
|---|---|
| `processCheckoutSessionCompleted`, `processInvoicePaid`, `processInvoiceUpcoming`, `processSubscriptionDeleted` | `DeliverCheckout`, `DeliverPaid`, `DeliverUpcoming`, `DeliverDeleted`; `FindCancelled` |
| `updateSubscription`, `cancelSubscription` | `StartUpdate`, `CallUpdate`; `StartCancel`, `CallCancel` |
| `ensurePlan`, `resetUsageCountersForPlan`, `syncStripeCustomerId` | `EnsurePlan`; `ResetRead`, `ResetWrite`; `SyncCustomer` |
| `processExpiredPlans` | `FindExpired`, then `EnsurePlan` and the reset |
| `ensureAccountLimit`, `adjustUsage`, `updateUserPlanUsage` | `EnsureAccountLimit`, `AdjustUsage`, `UpdateUserPlanUsage`; `SaveAccount`, `DeleteAccount` for the row counted |
| Stripe | `Checkout`, `StripeRenews`, `StripeAnnounces`, `StripeEnds` |

A scenario names what may occur (`Kinds`): overlap, parallel requests, late and
repeated events, a crash, a second subscription, two paid plans, requests,
accounts. `forgot` marks the behaviours in which one of the known ways to lose the
count was taken, `crashed = "cut"` those in which a request died after Stripe had
changed the subscription and before the row was written.

What the code does that a reader may not expect: a checkout and
`invoice.upcoming` zero the count of accounts; a cancellation writes Stripe's
period and leaves the counters in the old one; a change to a plan too small for
its count violates a CHECK after `ensurePlan` has committed; a late deletion of an
old subscription ends the newer plan, through the tenant's id in its metadata;
`handleSubscriptionCancelled` stores the tenant's id as the Stripe customer
(`users.service.ts:1164`); `processExpiredPlans` may end a plan shortly before
the renewal is reported, which the report repairs; the period of a FREE plan is
never renewed. The counters of one plan are
reset in one transaction, so that another counter may refuse the reset of this one
(`others`). Left out: the counters of sent posts, scheduled posts and AI requests
(`UsageLimits`), add-ons bought through Stripe, and signatures.

### Publishers

A publisher is a list of steps, one per `await`, built from the post the way its
method is written (`BlueskySteps` to `YouTubeSteps`); a `Loop` repeats some of the
steps and numbers them by the pass, for each of the media (`Each`) or of the
replies; `todo` is what is left of the list. `held` are the ids collected for the media, `temps` the copies it has to delete,
`store` those in S3, `remote` the containers at the platform, `public` what users
see, `target` the row. A step that throws leaves for the method's catch and
finally (`Unwound`).

| Code | Actions |
|---|---|
| reading and checking the post | `Start`, `Pick`, `CheckMedia` (with `BlueskyAccepts` to `PinterestAccepts`), `CheckFields`, `MeasureVideo`, `FindLocation`, `AskCreator`, `EmbedLink` |
| resizing, processing, uploading, deleting media | `Resize`, `ProcessVideo`, `Upload`, `OpenUpload`, `UploadUrl`, `Put`, `Cleanup` |
| containers and polling | `CreateContainer`, `CreateCarousel`, `PollAgain`, `PollEnds`, `GiveUp` |
| publishing and the row | `Publish`, `MediaPublish`, `FetchStatus`, `MarkDone`, `Details`, `MarkFailed` |
| the platform (external) | `ProcessContainer`, `RefuseContainer` |

Adverse events (`Faults`) may hit at every step: a request without effect or
with its reply lost, media the platform cannot process, a copy that cannot be
deleted, a failing query, the death of the worker. The exceptions the properties
make are what the code does: YouTube's publisher can never publish, since it reads
a header that the client does not return (`UploadUrl`); TikTok's deletes its copies
when TikTok has accepted them and not yet pulled them, takes "processing" for
success, asks for the status once, and marks FAILED if that request fails;
Threads' polls without bound, and a reply that fails marks a visible thread
FAILED; Instagram's and Threads' query after DONE may mark a published target
FAILED; Pinterest's and YouTube's take any one of the post's media (LIMIT 1
without ORDER BY). Left out: payload fields, what resizing does, and the
parallelism of uploads in one `Promise.all`, which is an order here.

### Accounts

`rows` are the `social_accounts` of the pages; `tokens[p]` the tokens of a page
that its platform accepts, each as the set of those who hold it: the row, refresh
jobs and requests. So a token is lost when nobody holds it, and a stale copy is
one that is in no set. `task` says where each refresh job stands with each page,
`req` is the frame of a connection or a deletion, `former` who still refers by id
to a row deleted since; `posts` the targets of each post.

| Code | Actions |
|---|---|
| the nine connectors | `ConnectStart`, `Read`, `Page`, `Grant` in the order of `BlueskyConnect` to `YouTubeConnect` |
| `upsertAccount`, the repository's save and update | `Find`, `Store` |
| the refresh job, `findAccountsWithExpiringAccessTokens` | `BatchStart`, `Expiring` |
| the nine refresh methods, `updateAccessTokenByAccountId` | `Ask` (with `BlueskyRefresh` to `YouTubeRefresh`), `Refused`, `Write` |
| `deleteAccount`, `deletePostsOrphanedByAccount` | `DeleteStart`, `ListOrphans`, `DeleteOrphan`, `OrphansDone`, `DeleteRow` |
| failures | `ConnectFails`, `RefreshFails`, `BatchDies`, `RequestDies` |
| others | `Ages`, `Withdrawn`, `TargetPost` (a post is created or edited) |

External: what the platforms do with tokens (`Exchanging` ones leave the old token
valid, `Rotating` ones void it when it is shown, a new grant may void the older
ones). What the code does beside the properties: LinkedIn's accounts are never
selected for a refresh; YouTube's refresh stores NULL for the token that Google
does not send again, or fails for want of an expiry; Pinterest's connector stores
no expiry and its accounts are not refreshed; a refresh overwrites the newer token
of an account that was reconnected meanwhile (both may work); one account that
cannot be decrypted or refreshed fails the job, which runs again a minute later;
the find and the insert of `upsertAccount` race into a UNIQUE violation; an
orphan that cannot be deleted spares the account although other posts are gone.
Left out: boards, pictures, decryption, and the OAuth state, which is signed and
checked for its age but never recorded.

### UsageLimits

One counter of one tenant, `posts` or `ai`: `plan` is the row of `user_plans`,
`rows` the counter's rows of `user_plan_usage` in the order of their creation,
`frame` the requests, jobs and webhooks under way with what they have read. The
counter of accounts has rules of its own and is in `PlanUsage`. Posts are counted
in a row of the calendar month (`MonthOf`), AI requests in the row of the plan's
period, and add-ons and resets write the plan's row, so that one table holds both.

| Code | Actions and operators |
|---|---|
| `checkIfUserLimitsReached`, `getCurrentUsageQuota` | `CheckPosts` with `CheckPasses`, `QuotaUsed`, `QuotaLimit` |
| publishing, `incrementSentPostsLimit` | `Publish` |
| `handlePostLimitChanges` | case 4: `CheckPosts` and `Publish`; cases 2 and 3, which ask for nothing: `UseUnasked`; the halves that take away: `GiveBack`; case 1 writes no counter |
| jobs, `retryPostTarget`, repeated callbacks; `deletePost` | `UseUnasked`; `GiveBack` |
| `ensureUserHasAiAccess`, `adjustUsage` | `AskAi`, `ReadPeriod`, `CheckAi` |
| `updateUserPlanUsage` | `Count` with `Countable`, `Added`, `Counted`, `Upsert` |
| `applyAddonPurchase`, `incrementUsageLimits` | `BuyAddon`, `FindRow`, `Raise` with `RaisedLimit` |
| `ensurePlan`, `resetUsageCountersForPlan` | `EnsurePlan` (from `ChangePlan`), `ResetRead`, `ResetWrite` |

A plan changes in one way here, to any plan with a period the handlers could give
it; which handler does it, and how they overlap, is in `PlanUsage`. Which counters
are reset with it depends on the handler (`Resets`): those of
`getUsageCountersForPlan`, which has AI for PRO only; AI as well in `applyFreePlan`;
none in `cancelSubscription`, which renews the row of a paid plan. An edit reaches
`UseUnasked` with a draft: without a time its post was created unchecked, and given
one it is counted as scheduled and queued; a scheduled post that is sent at once
is counted as sent. What the code
does that a reader may not expect: giving back counts nothing (`Added` clamps a
negative delta to 0); counting writes the plan's limit over the one that add-ons
raised; under STARTER the AI counter is not reset, so an add-on inserts a second
row; the newest row is the one a reset moves, whatever its period, so that a
month's row may be moved over the plan's own, and UNIQUE refuses. Left out: posts
of several targets (a use counts one).

### SignUp

`count`, `dated` and `expired` are the rows of `magic_links` (`redeemed_count`,
`redeemed_at`, `expires_at`); `creator`, `plan` and `counters` the tenant of an
address with the plan in its row of `user_plans` and the plan its counters were
made for; `frame` the requests. The form (`signup`) and Google's sign-in
(`findOrCreateUser`) share their steps and differ in the look-up before and in
what becomes of a failed promotion (`Fallback`).

| Code | Actions |
|---|---|
| `signup`, `findOrCreateUser`, `findByEmail` | `Request`, `FindByEmail` |
| `validateMagicToken` | `ValidateMagicToken` with `Fresh` |
| `save` | `Save` |
| `redeemMagicLink` | `RedeemMagicLink` with `Redeemable` |
| `applyStarterPromo`, `applyFreePlan` | `EnsurePlan`, `ResetCounters`; `PlanFails` and `Fallback` for their errors |

Left out: passwords, sessions, the length of the promotion, and sign-in with a
password, which only reads.

## 3. Runs

| Run | Asks | Bounds and faults | States |
|---|---|---|---|
| `publish_calm` | Does the path do what it should when nothing overlaps a retry, no worker dies and no reply is lost? | 3 accounts, 1 retry; `limited`, `schedule`, `early`, `abort`; symmetry | 427,566 |
| `publish_races` | What survives every other adversity at once? | 2 accounts, 1 retry; all but the crashes; symmetry | 2,449,812 |
| `publish_crashes` | What do crashes cost, and does the post settle? | 2 accounts, 1 retry; `stall`, `stallTwice`; `FairSpec` | 127,201 |
| `publishers` | Does each publisher do what its result says, clean up and end? | all 9 platforms, posts of up to 3 media (limits scaled to 2), 2 replies, 2 polls; all faults; `FairSpec` | 142,158 |
| `post_editing` | Do the jobs and the slots follow a post that is edited and deleted, and is it sent once, and in the end? | 2 accounts, 2 platforms, 2 times, 2 requests, 8 scenarios; `FairSpec` | 462,443 |
| `rate_limits` | By how much are limits exceeded, and what is given back? | 3 posts, 2 accounts, 5 platforms, days of 3 steps, time to 3, 2 requests at once, 19 cases | 350,218 |
| `payments` | What survives repeated, late, overlapping and wrong reports, failures and a crash? | 1 token, 2 handlers, 5 scenarios, 2 grants; `FairSpec` | 503,418 |
| `plan_usage` | Is the plan the one Stripe's events ask for, does it end, and are the accounts counted? | 2 handlers, 2 requests about accounts, 2 subscriptions, 2 events, 2 accounts, time to 3 with months of 2, 7 scenarios; `FairSpec` | 440,408 |
| `accounts` | Does the stored token work, is it renewed, and which posts does a deletion leave without targets? | 1 page of any platform, 1 post, 1 request, 2 refresh jobs, 2 faults; `FairSpec` | 181,104 |
| `connection_pool` | Are transactions atomic and answers true on connections that come with leftovers, and is every call answered? | 2 connections, 3 calls, 2 rows, all mixes of the kinds; statements, calls and the process fail; `PoolFairSpec` | 333,242 |
| `usage_limits` | Do the rows stay within their limits, the uses within the allowances, and do add-ons add up? | 2 processes, 3 uses, 2 plan changes and add-ons, time to 3 with months of 2, both counters, 5 scenarios | 1,273,102 |
| `sign_up` | Who gets a link's promotion, and which tenant is left without a plan? | 2 people, 3 requests, 1 link of one use, 3 scenarios | 507,133 |

Every module has a type invariant `TypeOK` (`PoolTypeOK`, `SignUpTypeOK`). The runs'
lists leave it out: it holds on the same instances, and section 4 proves it in every
module, as a theorem (`TypeCorrect`, `PoolTypeCorrect`, `PublicationTyped`) or as a
part of the inductive invariant.

The properties of `PostPublishing`:

* `StatusSettled`: once nothing runs and every target is DONE or FAILED, the
  base post is DONE, FAILED or PARTIALLY_DONE as the targets call for. It holds
  although each callback writes from rows it read earlier: the last target to be
  written is read by its own callback, and a callback that read fewer settled
  targets decides "keep". It needs the calm: a retry that overlaps a send, or a
  worker that dies between a target's write and its callback, breaks it.
* `CopiesBounded`: the platform gets a target once, and once more after a crash
  that made its job run again. `sendPost` does not check the target's status, so
  the bound rests on who calls it.
* `FollowsLifecycle`: the rows and the copies on the platform implement
  `TargetLifecycle` under the mapping `row <- target`, `copies <- accepted`,
  so that a target is published once and DONE is final;
  every step inserts all the rows, publishes, settles or retries one target in
  the order the abstract specification allows, or changes neither. (The
  targets of `MarkFailures` and `MarkSuccesses` have been written by their own
  sends before, so those steps stutter.)
* `DoneWasPublished`, `CountedWasPublished`: nothing is stored DONE or counted
  that no platform accepted; true under every fault, and proved.
* `EventuallySettled`: a PENDING target of a post that is not a draft becomes
  DONE or FAILED, or its job was given up after two crashes.

Two accounts are the fewest for which the base status depends on more than one
target, three let two callbacks race while a third target is pending; one retry
suffices to overlap with each send, and to follow a crash. There is one post:
posts share only counters. Deadlock is not checked: a settled post asks for
nothing more.

Fairness (`FairSpec`): weak fairness of `CreateStep` and of the steps of each
call, that is, the Node event loop, the BullMQ workers and the database go on
and every HTTP call to a platform ends (they have timeouts). Users' requests and
the faults are not fair.

The properties of `Publishers`:

* `DoneIsPublic`: a target marked DONE is public: one post with all its media in
  their order, and its replies (TikTok: everything it needs was sent).
* `FailedForCause`: without an adverse event, a post the platform takes is not
  marked FAILED: no step comes too early or too late for another. YouTube and
  resized photos on TikTok are excepted.
* `TempsCleaned`: however it ends, the copies in S3 are deleted.
* `PublisherEnds`: it ends, even if the platform never finishes a container;
  Threads' is excepted.

The media are the sequences of images and videos up to three, which exceed the
limit (2), mix kinds and have an order to lose; two polls let one fail to be the
last. `FairSpec` is weak fairness of the publisher's steps without an adverse event:
the job's promise chain goes on. Nothing is assumed of the platform.

The properties of `PostEditing`:

* `EventuallySent`: every target of a scheduled post is sent, refused or taken
  back in the end, whatever sequence of edits, accepted and refused. It needs what
  the code was written for: an account per platform, no drafts, and not both the
  same time and new accounts. Of two accounts of one platform the second finds the
  job of the first, or cancels it (`bullmq-post-scheduler.ts:199`, `:430` get no
  account).
* `SlotsFollow`: the daily count holds the post's targets on its day only. A
  refusal (`full`) comes after the release and leaves it too low; and a post that
  a worker has taken up has the time of that moment as its `scheduled_time`, so
  that an edit of it (`resent`) releases the slots of the day it was sent, not of
  the day they were reserved for.
* `AtMostOnce`: rescheduling does not send twice; claimed without `overlap`
  (an edit that reads the post before its job settles it resets the targets) and
  `resent` (an edit resets the targets that were already sent).
* `DeletedForGood`: under every circumstance a deleted post stays deleted, and
  the foreign key keeps an edit in flight from giving it targets.

The properties name the circumstances they exclude; the other combinations, which
the scenarios of the run pick from, were all checked with a longer horizon too.
Two accounts and two requests let an edit follow or overlap another and meet its
leftovers; two times let a post move either way. The `overlap` scenario has one
target, which is what keeps it small. `FairSpec`: the clock goes on, workers take
due jobs and a request that has begun is carried on; requests are not fair.

The properties of `RateLimits`:

* `OvershootBounded`: checks and counts are apart, so a window may get more than
  its limit, by as many posts as may be under way at a time, less one
  (`Concurrent`: the worker's concurrency and the posts sent at once), and no more,
  wherever windows end in between. Without retries, which ask no limit, and
  deletions, which give back too much.
* `SlotsBounded`: the slots of a day exceed the daily limit by at most the
  requests validated together, less one. Posts sent at once do not ask.
* `ReservedWithinQuota`: the uploads promised for a day never cost more than
  YouTube's quota, whatever reservations, rollbacks and uploads overlap: a
  reservation reads its own increment in MULTI's answer, so an overshoot refuses
  it, and may refuse another with it, but never admits one.
* `ClampedCount`: a count of posts does not fall below zero, or below by no more
  than deletions that overlap.

The cases pair platforms of each shape (a limit per minute, a quota with a cost,
points, an application's limit of posts, of users, of requests per second) with
what may occur on them (`Kinds`), because a post takes the same steps on all of
them. The limits are scaled so that two or three posts reach them, the windows so
that a behaviour crosses one of each length. There is no liveness to claim: a job
that a limit refuses fails for good.

The properties of `Payments`:

* `GrantedWasReported`: in every scenario the limits are raised only for an add-on,
  and only if the gateway says that it is paid or a return has said so (`claimed`).
  Webhooks and queries carry what the gateway says or once said, and a success is
  the last thing it says, so that without `claims` a granted add-on is a paid one.
  A return is taken at its word, so that with them it need not be.
* `SuccessIsGranted`: the row says `successful` only if the add-on is granted,
  being granted, or its fulfilment failed. Were it stored some other way, no
  later report would activate it. `lost` is that one known way: the update
  commits before `applyFulfillment` runs, and no report repeats it.
* `CalmGrantsOnce`: reports repeated one at a time fulfil once. Overlapping ones
  may fulfil twice, and so may late ones: a late "pending" makes the row forget the
  success.
* `PromoCounted`: the promo code's counter follows the fulfilments.
* `EventuallyGranted`: a paid add-on is granted, or its fulfilment failed.

One token suffices, since tokens share only the promo code's counter; two
handlers are the fewest that overlap. A token granted twice (`MaxGrants`) gets no
more reports. `FairSpec` has weak fairness of the handlers' steps and strong
fairness of `NotifyPaid`, the gateway's success webhook, which is repeated until
it is answered with 200; it does not assume that the customer's browser returns.

The properties of `PlanUsage`:

* `PaidWasBought`: whatever order of events, requests, jobs and crashes, a paid
  plan in the row is one the tenant bought, under the subscription the row names.
* `PlanFollowsStripe`: if nothing overlaps and events come in order, the row is what
  Stripe says once all events and expiries are dealt with; a process that dies in a
  handler or the job does no harm, because the event comes again. One that dies
  between Stripe's answer and `ensurePlan` in a request leaves the row behind, and
  late events, overlaps and second subscriptions may, which is why they are not
  claimed.
* `AccountsCounted`: the count of the plan's period has all of the accounts, up to
  the limit, across renewals, changes and expiries and with parallel connections -
  unless a handler that drops the count has run (`forgot`). With parallel connections
  only if the plans on offer allow as many accounts as FREE: they may store more accounts than FREE allows, of which
  one is not counted, and PRO has room for both. (That it has no more cannot be
  claimed: a deletion does not lower it, and parallel connections exceed the limit.)
* `PaidPlanEnds`: a paid plan whose period has ended is renewed or becomes FREE.

Two subscriptions let one follow the other or exist beside it, two events overtake
each other, two months of two steps contain a renewal, a trial and an expiry. The
limits have the proportions of `PLAN_LIMITS`. `FairSpec` has weak fairness of the
steps of what runs, and strong fairness of `FindExpired`: the worker process runs it
at an interval, and finds a free frame again and again.

The properties of `Accounts`:

* `StoredTokenWorks`: the row of an account holds a token that its platform
  accepts, or the one that replaced it is about to be stored, however connections,
  overlapping refreshes and deletions interleave. Excused are the cases out of
  the code's hands (`excused`) and YouTube.
* `Renewed`: an account about to expire is renewed, reconnected or deleted, as long
  as its token works: what one run fails to do the next one does. LinkedIn and
  YouTube are left out.
* `EmptyPostRaced`: a post loses its last target only when it changed between a
  deletion's listing of orphans and that deletion's end, whichever step failed.

One page suffices for the token, since pages share nothing but the job; two
refresh jobs and a request are the fewest that overlap with a connection in
between. The post is created, edited and deleted with its page; that several pages
and concurrent deletions add nothing is proved. Deadlock is checked here:
the refresher never runs out of work. `FairSpec`: the repeated job comes, and
requests, HTTP calls and queries go on.

The properties of `UsageLimits`:

* `UsedWithinLimit`: no order of counting, raising and resetting stores a count
  above its row's limit, which a CHECK would refuse, although each writes a limit
  it read at another time. True in every scenario, and proved.
* `WithinAllowances`: handled one at a time, the uses of a month (for AI, of all
  plans so far) stay within what the plans in force in it allow together, and those
  that nobody asked for although a check would have refused them (`excess`). A
  change of plan may hand out one allowance more. What is used unasked is counted,
  so that no check admits it once more. Overlapping requests, which check before
  either has counted, exceed it, and so does a request after a crash that lost a count.
* `CountedOrClamped`: a month without a change of plan ends with all uses
  counted, up to the limit, whatever overlaps. Outside it is a count whose statement
  fails: `incrementSentPostsLimit` logs the error and goes on (`posts.service.ts:781`).
* `PurchasesAddUp`: add-ons bought at the same time add up in the plan's row until
  something else writes it.

Two processes are the fewest that overlap, a limit of one or two is reached by three
uses; months of two steps and a clock to three let a plan's period straddle a month
and follow another. An add-on after a change, or two add-ons, need two moves.

The properties of `SignUp`:

* `PromoWithinUses`: however many requests read a link as fresh, at most
  `max_uses` of them get its promotion; the condition in the UPDATE sees to that.
* `PlanLeftOut`: a tenant is left without a plan, or with another plan's counters,
  only by a failed statement, a crash, or Google's sign-in with a link that was used
  up or expired meanwhile; nothing repairs that tenant later.
* `CreatedAsAsked`: a request that answers with a new tenant has given it the plan and
  the counters asked for, whichever statements failed under way.

Two people and three requests let one address be asked for twice while another
uses up the link.

The properties of `ConnectionPool`:

* `AllOrNothing`: the rows of a transaction are committed together or not at all.
  Its COMMIT also commits what others left in the transaction it joined, and its
  BEGIN fails in one that is aborted.
* `AnswerIsTrue`: an error means that nothing was written or ever will be, a
  success of a transaction that all of it is committed.
* `Answered`: every call returns or dies with the process. A lock on a row is given
  up, also by an idle connection in a forgotten transaction, because the pool
  closes it; a deadlock is broken; every connection comes back.

Three calls are the fewest for one to wait for a connection while two others wait
for each other's rows; two rows allow a deadlock. A transaction writes one or two
rows; longer ones repeat the same steps, and the proofs cover them. `PoolFairSpec` has
weak fairness of the steps of a call, of the refusal of a statement in an aborted
or deadlocked transaction, and of the idle timeout of a connection nobody takes.

### What the code does not do

The models show some behaviours that a reader of the docs and tests would not expect.

Deleting an account does not lower the count: the upsert of `updateUserPlanUsage`
(`user.repository.ts:629`) adds `EXCLUDED.used_count`, which is the delta clamped to
zero, while the repository double of
`tests/usage-limits.test.ts:22` has the count fall. A tenant who replaces accounts
runs into the limit of a plan that has room.

An add-on cannot be used: `incrementUsageLimits` raises `limit_count` in the row of
the plan's period, and `getCurrentUsageQuota`, which every check asks, takes the limit from `user_plans` (`user.repository.ts:888`). Even for AI
requests, whose row is the one that was raised, the limit asked is the plan's.
`FRONTEND_SECURE_PROCESSOR_TASK.md:27` calls add-ons "one-time bumps for the current
period", bought "when a limit is reached" (`:33`).

A link minted for two uses (`scripts/mint-magic-link.ts:21`) turns the second person
down, unless the two overlap: the first redemption sets `redeemed_at`, and
`validateMagicToken` refuses a link that has one (`users.service.ts:360`).

Other disagreements that the models meet, each the reason for a condition in a
property above:

* the catch block of `retryPostTarget` (PS:1690-1727) treats a refusal like a failed
  publication: `handleSocialMediaError` stores FAILED over DONE, and the next
  retry would publish again (`FollowsLifecycle` is claimed without `staleRetry`);
* PS:1872 tells immediate posts by an empty `scheduled_time`, which `sendPost` has
  already filled in (`social-media-post-sender.service.ts:76`), so both the callback
  and `createPost` count them; a job of a scheduled post counts a second time too;
* a job refused by a rate limit is thrown "for BullMQ to handle retries", of which
  the default configuration has none: the target stays PENDING (`EventuallySettled`
  is claimed without `limited`);
* a draft with a time counts as "scheduled before" (PS:657): saved as PENDING at
  the same time it gets no job and no slot;
* the webhook and the browser's return both read the payment's row before either
  updates it, and each raises the limits;
* `handleReturn` believes the status in the browser's query string: "successful" is
  stored and fulfilled without asking the gateway
  (`secure-processor.service.ts:128`), which is why `GrantedWasReported` does not say
  that a granted add-on was paid;
* an edit that gives a draft its time, or sends a scheduled post at once, counts
  without a check of the limits (cases 3 and 2 of `handlePostLimitChanges`), so that
  requests one at a time exceed an allowance (`excess` in `WithinAllowances`);
* a read that does not end its transaction (`user.repository.ts:353`) releases its
  connection inside it; the next `createBasePost` on that connection writes into
  that transaction and returns the post's id, and the row is rolled back when the
  pool closes the connection;
* jitter may move a job before the reset it waits for
  (`bullmq-post-scheduler.ts:102`), so that it is refused.

## 4. Proofs

`PostPublishing_proofs` proves, for every set of accounts, retries, request
kinds and faults that `PublishingAssumption` allows, and checked to the last
leaf by TLAPS:

* `TypeCorrect`: `Spec => []TypeOK`;
* `DoneMeansPublished`: `Spec => []DoneWasPublished`;
* `CountedMeansPublished`: `Spec => []CountedWasPublished`.

None of the last two is inductive. The inductive invariant is `IInv`, the two
properties and `TypeOK` with

* `FrameInv`: for every frame, that a call past its publisher's success
  (`setDone`, the success callback, `count`, an own call that resolved) acts for
  an account whose platform accepted the target; that the DONE targets a
  callback read were published (it will count them later, from what it read);
  that an account's own call is about that account and never takes the steps of
  a retry; that what a callback is about to write is not DRAFT;
* `DraftInv`: only a draft request has a DRAFT row. It is needed because
  `sendPost` of a draft returns without an error, which `createPost` and
  `handleJob` take for success: the invariant says that no job or immediate send
  meets a draft, and a retry, which may, looks at the target before it counts.

There is one lemma per action, on top of a few about what a step does to the
frames (`GotoEffect`, `CallbackEffect`, `OthersKept`); `IInvStep` combines them
and the theorems follow with PTL. `IInv` was checked with TLC before it was
proved.

Three more theorems say what the path does when no reply is lost and no retry
overlaps a send or names a target that is not FAILED. They are proved under the
assumption `Orderly`, which excludes these three faults and admits the crashes, or
under `Calm`, `Orderly` without the crashes. `publish_crashes` and `publish_calm`
are instances of them. No assumption can be dropped: TLC finds each property violated
when any one of the faults it excludes is added (the retries among them break
`CopiesBounded` only if there are two).

* `PublishedOnceOrTwice` (`Orderly`): `Spec => []CopiesBounded`;
* `ImplementsLifecycle` (`Calm`): `Spec => FollowsLifecycle`, the refinement of
  `TargetLifecycle`: initial states map to initial states, and every action, on the
  state it starts in, to one step of the abstract specification or to a stutter;
* `StatusFollowsTargets` (`Calm`): `Spec => []StatusSettled`.

The bound needs `CopyInv`, because nothing in `sendPost` looks at the target's
status. It says what a call knows of its target at each step (`CopyFrame`: before
it publishes there is at most the copy of a worker that died, `Extra`), that
an account's own call is started once (`OwnCall`, `Started`), that a retry acts
while no other call does (`RetryCall`), and that the rows appear together
(`TargetsInserted`). So two calls that run never share a target (`RunsAlone`), and
a step of one leaves what the others know (`OtherCopies`). The status needs
`SettleInv` on top of that. While a call will still derive the status (`Owes`, and
`CreateOwes` for `createPost`) nothing is claimed. Afterwards it is what the targets
call for, or a final callback is about to write it (`StatusDue`): what a callback
decided from rows read earlier is right also for the rows of now (`WriteApt`,
`DecideRight`), since a DONE target stays DONE and a FAILED one waits for a retry
that derives the status anew. Both invariants were checked with TLC before they were
proved. `EventuallySettled` is left to TLC: fairness and ENABLED are out of the
prover's reach.

`Payments_proofs` proves for every set of tokens, every finite set of handlers
and every set of scenarios:

* `TypeCorrect`, `OnlyReportedGranted` (`GrantedWasReported`), `SuccessServed`
  (`SuccessIsGranted`), `CalmFulfilsOnce` (`CalmGrantsOnce`);
* `CalmSuccessFinal`: the action property `SuccessIsFinal`, that such reports never
  take a stored success back (only proved; late reports may do it);
* `PromoCountedOnce` (`PromoCounted`).

Its inductive invariant is `TypeOK` with three parts. `PaidInv`: whoever was told
"successful", or is past the update, was told so by a gateway that says it still, or
by a return that is on record for it.
`SuccessInv`: a frame that read `successful` belongs to a token that has been
served, so that its update may store the success again without granting.
`CalmInv`: in the calm a token has one busy handler, whose copy of the row is the
row, and a grant is pending or done only where the row says `successful`; this is
what makes the stale copy harmless, and what an overlap destroys. `PromoInv`,
a count over the handlers, is inductive given `TypeOK` and needs facts about
cardinalities; it has a proof of its own. `EventuallyGranted` is left to TLC.

`Publishers_proofs` also proves, of `ConnectionPool`, for every pool, every set of calls and every
combination of programs, with transactions of any length:

* `PoolTypeCorrect`, `TransactionsAtomic` (`AllOrNothing`), `AnswersTrue`
  (`AnswerIsTrue`).

The inductive invariant `PoolInv` is `PoolTypeOK` with four parts: `Exclusive` (a connection has
one user), `WriteInv` (what is pending or committed was executed, only an open
transaction has pending statements, and those of a `transaction` are on the
connection it still holds), `CourseInv` (a call's result fits how far it is) and
`TransactionInv` (while it runs its transaction is open and holds all it has
executed; it has committed everything or nothing). `TransactionInv` is
what a leftover transaction could break: a BEGIN may join it, and must not be rolled
back or committed with it before its own end. The steps of the other calls are handled once, by `CourseKept` and
`TransactionKept`. `Answered` is left to TLC.

`PostEditing_proofs` proves for every set of accounts, every placement on
platforms and any number of requests and times:

* `TypeCorrect`; it needs `FrameInv`, that a request that is still moving slots or
  jobs has a time for them (`editPost` refuses to schedule without one, and
  `deletePost` cancels only with one), since a job is added with that time;
* `DeletedStaysDeleted`: the action property `DeletedForGood`, from the invariant
  that a deleted post has no targets (`DeletedInv`);
* `SentOnce` (`AtMostOnce`), the property for which `reschedulePost` cancels before
  it adds. Its invariant `QuietInv` holds where the property does (`Quiet`): one
  request runs at a time (`AloneInv`), and while it runs every job rests, so that
  what it has searched for stays as it was (`RestInv`: at `findActive` and `add` no
  job of the platform is left); two jobs of one platform are both `createPost`'s and
  carry different accounts (`OneJobInv`); and a job that has not been sent has only
  targets to send that were not (`FreshInv`). `OneTaker` joins the last two: a target
  is sent by the one job that may take it.

One lemma each covers the steps on the slots, the queue and the rows (`SlotsKeep`,
`JobsKeep`, `RowsKeep`), which leave the others' state alone; `JobKeeps` covers the
workers. For `QuietInv` the steps are grouped by what they do to the jobs: none
(`OtherStepsKeepQuiet`, `JobSearchKeepsQuiet`), removal, and `AddJob`.

* `SlotsFollowPost` (`SlotsFollow`): the daily counts are those of the post. Its
  invariant `PlainInv` builds on `QuietInv` and holds where the property does
  (`Plain`). `ServedInv` follows a request: as long as an edit is served the post is
  what the edit has read (`EditFrame`), and the counts are those of its old time and
  accounts before the release, none after it, and those of its new ones after the
  reservation (`Counts`). `BookedInv` says the same of a scheduled post that no
  request is about. That an edit only reads a post that is still scheduled needs
  `StoredInv`, `HeldInv` and `TouchedInv`: a status that has moved on has left its
  trace on a target, which `editPost` refuses. TLC checked `PlainInv` first; the
  scenario `retarget` alone was added to the run with it.

`EventuallySent`, a liveness property, is left to TLC.

`RateLimits_proofs` proves for every set of posts, accounts and cases, every limit
and every clock:

* `SlotsStayBounded` (`SlotsBounded`), `QuotaIsNotOversold` (`ReservedWithinQuota`).

Both are counting arguments. `SlotsInv` adds to the reserved slots of a day the
posts that are validated and not reserved yet: a validation sees fewer than the
limit reserved and fewer than `Requests` validated, and a reservation moves a post
from one to the other. `QuotaInv` says that the counter of a day's quota is at
least the cost of what is reserved on it and of what is about to be rolled back,
while what is reserved stays within the quota; it is needed because a counter seen
low in MULTI's answer must mean that little is reserved, in spite of the rollbacks.
It holds where nothing is deleted, since a deletion gives back what it did not
take. `MovedType`, `SlotsMoved` and `QuotaMoved` say what increments do to the
counters, `ToFrame` and the lemmas after it what the actions do to a frame.

* `CountsStayClamped` (`ClampedCount`). `decrementUsage` reads a counter and takes
  from it later, so `ClampInv` counts the deletions in between (`Pending`): a counter
  is so far above zero that all of them may take their unit and it still stays at the
  bound.
* `OvershootIsBounded` (`OvershootBounded`). Its invariant `OverInv` has four parts:
  where a post can be that is neither retried nor deleted, and that a post is only sent
  if every limit has room for one (`FrameOK`); no more jobs run than the worker has
  places (`FlightInv`); a counter holds at least the cost of what was sent in its
  window and counted, and of the reservations about to be rolled back, and the windows
  to come are not negative (`CountInv`); what was sent in a window and what is about to
  be sent in this one costs no more than the bound (`BoundInv`). The argument is about
  the post whose check comes last (`CheckBounds`): its check has seen the counter, and
  whatever was sent and is not in the counter is under way, and so one of
  `Concurrent`. A window that begins has counted nothing, and what is about to be sent
  in it was checked in an earlier one, so only the places bound it (`TickKeepsOver`).
  A reservation that overshoots and its rollback move a counter that the checks ask
  too, hence `Over`.

* `TypeCorrect` (`TypeOK`). `RestInv` says what the other invariants do not: at which
  steps a post can be, that the users, the clock and the histories have their types, and
  that a day never has fewer than zero scheduled posts.

TLC checked these invariants first, on the cases of the run. `ClampedCount` needs a post
(`Posts # {}` in `RateLimitsAssumption`): with none its bound would be 1.

`Accounts_proofs` proves for any pages, platforms, posts, requests and refresh jobs:

* `OrphansGoWithAccount` (`EmptyPostRaced`), `StoredTokensWork` (`StoredTokenWorks`).

The invariant of the first is `TypeInv`, the shapes a frame can have (a deletion that
is about to delete the row has no orphans left), and `Covered`: a post that only the
account being deleted targets is on the list of its orphans, unless it changed since.

The invariant of the second, `TokInv`, is about one page at a time. What it needs of a
page is gathered in a record (`View`): its tokens and who holds each, the refresh
jobs that are busy with it or about to write it, the connections that carry a token
they will store, and who refers to a row that is gone. The record is `Sound` if a
token that a connection carries is held by nobody else (`SoleIn`), if a refresh job
that holds one is busy with the page, and all who hold a token with the row refer to
that row (`HeldIn`), if whoever is about to store a token still has it, and if
(`Backed`) the row's token works, or its replacement is in the hands of a job that
refers to the row or of a connection that found it, or the page is excused. So each
step is first a fact about two such records (a job asks, writes or fails, a connection
stores, the platform voids a token) and then one about the action. TLC checked
`TokInv` first, and looking for it two mistakes were found in the model: a job that
fails lets go of the token of that account, and Bluesky's answer had two cases that
both applied. `Renewed`, a liveness property, is left to TLC.

`TypeCorrect` (`TypeOK`) needs both invariants, for the lists of steps a request can
have before it, and `Typed`: nobody holds two tokens of a page, whatever is issued,
copied and dropped (`TokenSets`), and a frame refers to pages and posts there are.

`PlanUsage_proofs` proves for any numbers of handlers, requests, subscriptions and
events, any periods and limits and every scenario:

* `PaidPlanWasBought` (`PaidWasBought`), `RowFollowsStripe` (`PlanFollowsStripe`),
  `AccountsAreCounted` (`AccountsCounted`).

For the first: a handler reads a plan or an event in one step and writes a row in a later one, so
the invariant follows the plan's name on its whole way: it is `Backed` by a purchase
in Stripe's subscription (`StripeInv`), in every event that waits, the repeated ones
included (`InboxInv`), in what a frame has read, in the row it is about to write
and in the event it handles (`FramesInv`), and in the row itself (`PlanInv`). Of a
row that `StartUpdate` prepares nothing is claimed until `CallUpdate` has replaced
it, because until then it pairs the new name with the old subscription. Purchases
only grow, so that what a step leaves alone stays backed (`Kept`); `FrameEnters`,
`FrameContinues`, `FrameNotes` and `FrameReturns` cover what steps do to a frame,
and `EventAnswered` what an answer does to Stripe's queue.

The second is about the scenarios in which nothing overlaps, no event is late and no
second subscription is bought, up to a crash that cuts a request off (`InOrder`).
`FollowInv` adds there: at most one subscription is live (`OneLive`); at most one
handler, request or job runs; between them, with no event waiting, the row is what
Stripe says, or it is FREE because the job has come before a renewal that is due
(`FollowsSoon`); an event that waits is the only one and what it says still holds
(`EventApt`); and whoever runs (`FrameApt`) either is about to write what Stripe says
or has written it (`WebhookApt`, `RequestApt`), or is the job, which may write FREE
only if an event or a renewal will repair that (`JobApt`). The parts are operators of
the rows, subscriptions and times they speak of, so that a step can be asked what it
does to each: `StepFollows` is the frame rule, and there is a lemma per action. That a
webhook may die anywhere and a request only before it has changed the subscription
or after it has written the row is `CrashFollows`. TLC checked `FollowInv` first, with
wider bounds than the run's.

The third is about the scenarios in which handlers do not overlap with each other or
with requests about accounts, while those may run in parallel (`Calm`), and lasts until a handler drops the
count (`forgot`); events may be late and a second subscription bought. `TallyInv`,
also checked with TLC first: there is one row of the counter (`OneRow`); it has the
plan's period and a count within its limit, except between the write of the plan and
the write of the counter (`RowFits`, `FrameTally`); a request that has passed the
limit counts in the period of the plan, which has not ended (`ConnTally`); and the
count with the accounts still to be counted is that of the accounts stored, up to
the limit if requests are parallel (`Covers`). That `updateUserPlanUsage` finds the
plan meeting the period it counts in needs periods that do not end before they start
(`Timely`), which therefore goes with `Backed` into every event, subscription and
frame, and with it the clock and what is asked for at the desk (`DeskInv`). The
property had to be said anew for this: parallel requests store more accounts than
the limit, so that it needs plans on offer that allow as many accounts as FREE, and
not only the absence of PRO. The liveness property is left to TLC.

`TypeCorrect` (`TypeOK`) has an invariant of its own, `Typed`, since those of the other
theorems say of a field no more than they need. It gives every field its type, and
what a step relies on to write a value of it: a webhook's frame has an event, a change
is to a paid plan, a cancellation of a subscription that there is, and a counter never
loses its last row.

`UsageLimits_proofs` proves for any number of processes, any limits, add-ons and
lengths of months and every scenario:

* `TypeCorrect`, `NeverOverLimit` (`UsedWithinLimit`), `AddonsAddUp`
  (`PurchasesAddUp`), `MonthIsCounted` (`CountedOrClamped`), `AllowancesHold`
  (`WithinAllowances`).

The first two are inductive together: every write of a row bounds the count by the limit
it writes with it - counting by clamping the sum (`CountKeepsIInv`), an add-on by
raising what it finds (`RaiseKeepsIInv`), a reset by the CHECK that refuses the rest
(`ResetWriteKeepsIInv`) - and the types say that what a frame has read is a number.
`RowAdded`, `RowReplaced` and `RowsRewritten` are the three ways to write. The others
have an invariant each, all checked with TLC first:

* `AddonInv`: while the plan's row is `fresh` it is there, so that no second one is
  inserted beside it, and the row an add-on has found is still where it was found
  (`RowRefs`), so that the raise adds to it;
* `MonthInv`, for the first plan: the month's row counts the uses without those that
  are in the hands of a frame (`Pending`), up to the limit. It is a count over the
  processes, which are assumed to be finite in number, and rests on dates: no row and
  no frame is about a month to come (`DatesInv`), so that a new month starts at none;
* `TurnInv`: one handler at a time, so that a check still holds when what it admitted
  is counted. The uses, without the `excess`, are within what all plans so far allow,
  less what is left of the one in force (`Slack`). The exception is a use that the
  check admits and that is not counted yet (`Owing`), asked for or not; one that the
  check refuses adds to both sides and finds the row at its limit, so that its count
  changes nothing.

`Payments_proofs` also proves, of `SignUp`, for any number of people, links and
requests, every `max_uses` and every scenario:

* `PromotionsBounded` (`PromoWithinUses`), `NobodyLeftOut` (`PlanLeftOut`),
  `AnsweredAsAsked` (`CreatedAsAsked`).

They share an inductive invariant, `SignUpInv`. `Counted` is the argument about the
promotion: the requests that have redeemed a link and will give the promotion or have
given it (`Holders`) are no more than its `redeemed_count`, and that is no more than
`max_uses`. A redemption adds one to both sides; a plan that is written is written
for a holder, so no other step adds to the left one (`NoNewHolders`). `RowsInv` says
whose a tenant is (`Owner`, `Made`), what a request has promised (`Given`) and what it
has written (`Written`): the request that stored a tenant is the only one that ever
writes its rows. `NobodyForgotten`, for the scenarios without failing statements and
crashes: a request that failed has left its tenant a plan with its counters, or was
turned down with a link that is used up or expired, and stays so.

`Publishers_proofs` proves for every platform, every post with any number of media and
replies, all limits and numbers of polls, and every set of faults:

* `PublicationTyped` (`TypeOK`), `MarkedWhenPublic` (`DoneIsPublic`),
  `FailuresHaveCauses` (`FailedForCause`), `CopiesDeleted` (`TempsCleaned`).

A publisher's list of steps has any length here, so the invariant cannot name the
place in the list. It says of the steps that are left which may come before which
(`Follows`), and that the steps for the media, or those that show something, are
taken in turn and completely (`Covered`). The lists of the nine publishers are shown to
be such lists, their loops first (`LoopOne` to `LoopThree`); from then on a proof about
a step knows only that it is the first of an ordered list. `PublishersInv` is `TypeOK`
and

* `Basis`: the steps left fit the publisher and are in order, and before `start`
  nothing has been done;
* `GateInv`: past its check, a publisher has a post that the platform takes;
* `HeldInv`: the ids held are those of the media so far, in their order, and the
  others are still to be collected before the ids are used;
* `ReadyInv`: what `media_publish` shows is the newest container, it has the ids of all
  media or belongs to the reply, and it was waited for;
* `PublicInv`, `TikTokInv`: what is public, or sent, is what was to be shown so far,
  and the rest is still to come;
* `DoneInv`: a target marked DONE is complete, and only the query of the details and
  the cleanup are left;
* `TempsInv`: where a copy is or may be made the cleanup is left, and unless an event
  prevents it every copy in the store is on the list of copies to delete;
* `CauseInv`: a publisher that has thrown has a cause;
* `SmoothInv`, which makes that true: while nothing adverse has happened, no container
  is refused, each that is still to be pulled finds its copies in the store, a
  carousel is asked for when its items are finished, and the copies are deleted only
  when nothing is to be pulled any more.

TLC checked `PublishersInv` first, on the run's instance; `FlattenSeq` in the model gave
way to a function of the index (`Loop`), which the provers can reason about, and the
steps of Threads' replies are numbered since. Ending (`PublisherEnds`) is left to TLC.

## 5. What is left

Proofs: every invariant and action property that the runs check is a theorem. The
seven liveness properties (`EventuallySettled`, `EventuallySent`, `EventuallyGranted`,
`PaidPlanEnds`, `Renewed`, `Answered`, `PublisherEnds`) stay with TLC: fairness and
ENABLED are out of the prover's reach.

Modules: the tokens that reset a password (two statements without a transaction,
which two requests with one token may both run); tenant settings and Pinterest's boards (rows that nothing else acts on),
and the add-on checkout of Stripe, whose webhook raises the same limits as
`UsageLimits`.

Not modelled: controllers, validation, schemas and routing, media and video
processing, AI texts, e-mail, time zones, settings, logging and configuration.
They keep no state that another part acts on, and their failures appear where they
are called.
