--------------------------- MODULE PostPublishing ---------------------------
(***************************************************************************)
(* The life of ONE post from POST /posts to its last published target:     *)
(* createPost, the BullMQ job of each target, the worker's handleJob, the  *)
(* sender's sendPost, the success and failure callbacks that derive the    *)
(* base post's status from its targets, and retryPostTarget.               *)
(*                                                                         *)
(* Every await of the code that lets another handler run is a step.  The   *)
(* rows posts / post_targets are post and target; every execution of       *)
(* sendPost is a call.  The call of account a is the target's BullMQ job   *)
(* when the post is scheduled, and createPost's own parallel sendPost when *)
(* it is published at once; a call in Retries is a retry request.          *)
(***************************************************************************)
EXTENDS Naturals, FiniteSets

CONSTANTS
    Accounts,   \* the social accounts the request targets (unique, posts.schemas.ts)
    Retries,    \* bound: the retry requests users may send
    NoAccount,  \* what a retry request targets before it is sent
    Modes,      \* the kinds of request explored: "draft", "scheduled", "now"
    Faults      \* the adverse events explored

(* "early"      a job comes due before createPost has inserted the targets *)
(* "schedule"   the un-awaited schedulePost rejects (no queue, Redis down) *)
(* "abort"      an await of createPost after the base post throws          *)
(* "limited"    checkRateLimit or reservePlatformSlots refuses             *)
(* "lostReply"  the platform accepts a post and the reply is lost          *)
(* "stall"      a worker dies and BullMQ queues its job again              *)
(* "stallTwice" a job's second worker dies too and BullMQ fails the job    *)
(* "hastyRetry" a retry arrives while another send of the post is running  *)
(* "staleRetry" a retry names a target that is not FAILED (any more)       *)
FaultKinds ==
    {"early", "schedule", "abort", "limited", "lostReply", "stall", "stallTwice",
     "hastyRetry", "staleRetry"}

ASSUME PublishingAssumption ==
    /\ Accounts # {} /\ IsFiniteSet(Accounts)
    /\ Accounts \cap Retries = {}
    /\ NoAccount \notin Accounts
    /\ Modes \subseteq {"draft", "scheduled", "now"}
    /\ Faults \subseteq FaultKinds

VARIABLES
    create,    \* how far the createPost handler has come
    mode,      \* the kind of request it serves
    post,      \* the row of posts: status, and whether scheduled_time is set
    target,    \* the rows of post_targets
    call,      \* the frame of every sendPost execution
    stalled,   \* the jobs BullMQ has already re-queued once
    sent,      \* used_count of the 'sent' usage, as increments of this post
    rate,      \* the per-account Redis rate-limit counter, likewise
    accepted   \* history: how often the platform accepted the target

vars == <<create, mode, post, target, call, stalled, sent, rate, accepted>>

-----------------------------------------------------------------------------
PostStatus ==
    {"none", "DRAFT", "PENDING", "POSTING", "DONE", "FAILED", "PARTIALLY_DONE"}

TargetStatus == {"none", "PENDING", "DONE", "FAILED"}

Calls == Accounts \cup Retries

CreateSteps ==
    {"start", "media", "targets", "check", "await", "markFailed", "markDone",
     "base", "count", "done", "failed"}

SendSteps ==
    {"preflight", "retryUpdate", "readPost", "readTargets", "mark", "publish",
     "setDone", "setFailed", "errMark", "cbPost", "cbTargets", "cbWrite",
     "cbCount", "count", "retryRead", "retryMark"}

\* What the status callback returns to: sendPost after a success or an error,
\* the worker's catch, or the two ends of retryPostTarget.
Returns == {"sent", "error", "worker", "retryOk", "retryErr"}

Ended == {"idle", "lost", "completed", "failed", "resolved", "rejected"}

Steps == SendSteps \cup Ended \cup {"adding", "queued"}

Frame ==
    [pc : Steps, ret : Returns, acct : Accounts \cup {NoAccount},
     status : PostStatus, scheduled : BOOLEAN,
     next : PostStatus \cup {"keep"}, done : SUBSET Accounts]

IdleFrame(c) ==
    [pc |-> "idle", ret |-> "sent",
     acct |-> IF c \in Accounts THEN c ELSE NoAccount,
     status |-> "none", scheduled |-> FALSE, next |-> "keep", done |-> {}]

Init ==
    /\ create = "start"
    /\ mode \in Modes
    /\ post = [status |-> "none", scheduled |-> FALSE]
    /\ target = [a \in Accounts |-> "none"]
    /\ call = [c \in Calls |-> IdleFrame(c)]
    /\ stalled = {}
    /\ sent = 0
    /\ rate = [a \in Accounts |-> 0]
    /\ accepted = [a \in Accounts |-> 0]

-----------------------------------------------------------------------------
(* How the callbacks derive the base post's status from a read of the rows *)

Rows == {a \in Accounts : target[a] # "none"}
DoneTargets == {a \in Accounts : target[a] = "DONE"}
FailedTargets == {a \in Accounts : target[a] = "FAILED"}

\* Mutants of Decide: FAILED is never derived; `some` instead of `every`.
DecideNeverFailed(status) ==
    IF DoneTargets = Rows /\ status # "DONE"
    THEN "DONE"
    ELSE IF DoneTargets # {} /\ FailedTargets # {} /\ status # "PARTIALLY_DONE"
         THEN "PARTIALLY_DONE"
         ELSE "keep"

\* What checkAndUpdateBasePostStatus, and its twin without counters, writes
\* for a post whose row it read with this status, or "keep"; `every` holds
\* vacuously when there is no target.
Decide(status) ==
    IF DoneTargets = Rows /\ status # "DONE"
    THEN "DONE"
    ELSE IF /\ DoneTargets # {} /\ FailedTargets # {}
            /\ status # "PARTIALLY_DONE"
         THEN "PARTIALLY_DONE"
         ELSE IF FailedTargets = Rows /\ status # "FAILED"
              THEN "FAILED"
              ELSE "keep"

\* updateBasePost always writes scheduled_time, and every caller of the
\* publishing path passes new Date().
BasePost(status) == [status |-> status, scheduled |-> TRUE]

\* updatePostTarget: an UPDATE that matches no row leaves the table alone.
WithTarget(a, status) ==
    IF a \in Rows THEN [target EXCEPT ![a] = status] ELSE target

Goto(c, step) == call' = [call EXCEPT ![c].pc = step]

\* The frame enters the status callback and will return to ret.
Callback(c, ret) ==
    call' = [call EXCEPT ![c] = [@ EXCEPT !.pc = "cbPost", !.ret = ret]]

IsJob(c) == c \in Accounts /\ mode = "scheduled"

\* sendPost returned: handleJob counts usage, createPost collects the result,
\* retryPostTarget reads the post again.
AfterSend(c) ==
    IF IsJob(c) THEN "count" ELSE IF c \in Accounts THEN "resolved" ELSE "retryRead"

AfterCallback(c) ==
    CASE call[c].ret = "sent" -> AfterSend(c)
      [] call[c].ret = "error" -> "errMark"
      [] call[c].ret = "worker" -> "failed"
      [] call[c].ret = "retryOk" -> "resolved"
      [] call[c].ret = "retryErr" -> "retryMark"

-----------------------------------------------------------------------------
(* createPost *)

\* With postNow the row gets the client's postStatus: explored are the two a
\* client that asks for publication sends, of those the schema accepts.
InitialStatus ==
    CASE mode = "draft" -> {"DRAFT"}
      [] mode = "scheduled" -> {"PENDING"}
      [] mode = "now" -> {"PENDING", "POSTING"}

\* Validation is done; createBasePost inserts the row.
CreateBasePost ==
    /\ create = "start"
    /\ \E s \in InitialStatus, t \in BOOLEAN :
          /\ mode = "scheduled" => t
          /\ post' = [status |-> s, scheduled |-> t]
    /\ create' = "media"
    /\ UNCHANGED <<mode, target, call, stalled, sent, rate, accepted>>

\* The media are uploaded; a scheduled post's schedulePost calls are fired
\* and not awaited.
FireSchedules ==
    /\ create = "media"
    /\ create' = "targets"
    /\ call' = IF mode = "scheduled"
               THEN [c \in Calls |->
                       IF c \in Accounts THEN [call[c] EXCEPT !.pc = "adding"]
                                         ELSE call[c]]
               ELSE call
    /\ UNCHANGED <<mode, post, target, stalled, sent, rate, accepted>>

\* createPostTargets, one transaction.  A draft is complete.
CreatePostTargets ==
    /\ create = "targets"
    /\ target' = [a \in Accounts |-> "PENDING"]
    /\ create' = IF mode = "draft" THEN "done" ELSE "check"
    /\ UNCHANGED <<mode, post, call, stalled, sent, rate, accepted>>

\* reservePlatformSlots has room for a scheduled post, which is then complete.
ReserveSlots ==
    /\ create = "check" /\ mode = "scheduled"
    /\ create' = "done"
    /\ UNCHANGED <<mode, post, target, call, stalled, sent, rate, accepted>>

\* Every checkRateLimit and reservePlatformSlots allowed an immediate post: one
\* sendPost per target, in parallel.
StartSends ==
    /\ create = "check" /\ mode = "now"
    /\ create' = "await"
    /\ call' = [c \in Calls |->
                  IF c \in Accounts THEN [call[c] EXCEPT !.pc = "readPost"]
                                    ELSE call[c]]
    /\ UNCHANGED <<mode, post, target, stalled, sent, rate, accepted>>

\* The handler throws and leaves behind what it has already written.
CreateThrows ==
    /\ \/ create \in {"media", "targets"} /\ "abort" \in Faults
       \/ create = "check" /\ "limited" \in Faults
    /\ create' = "failed"
    /\ UNCHANGED <<mode, post, target, call, stalled, sent, rate, accepted>>

Resolved == {a \in Accounts : call[a].pc = "resolved"}
Rejected == {a \in Accounts : call[a].pc = "rejected"}

\* Promise.allSettled: every send has ended one way or the other.
AwaitSends ==
    /\ create = "await"
    /\ Resolved \cup Rejected = Accounts
    /\ create' = "markFailed"
    /\ UNCHANGED <<mode, post, target, call, stalled, sent, rate, accepted>>

\* updatePostTarget of every rejected send, in parallel; taken as one step.
MarkFailures ==
    /\ create = "markFailed"
    /\ target' = [a \in Accounts |-> IF a \in Rejected THEN "FAILED" ELSE target[a]]
    /\ create' = "markDone"
    /\ UNCHANGED <<mode, post, call, stalled, sent, rate, accepted>>

\* ... and of every fulfilled one.
MarkSuccesses ==
    /\ create = "markDone"
    /\ target' = [a \in Accounts |-> IF a \in Resolved THEN "DONE" ELSE target[a]]
    /\ create' = "base"
    /\ UNCHANGED <<mode, post, call, stalled, sent, rate, accepted>>

\* The base post's status is what the sends of this request returned.
FinishBasePost ==
    /\ create = "base"
    /\ post' = BasePost(IF Resolved = {} THEN "FAILED"
                        ELSE IF Rejected = {} THEN "DONE" ELSE "PARTIALLY_DONE")
    /\ create' = "count"
    /\ UNCHANGED <<mode, target, call, stalled, sent, rate, accepted>>

CountSuccesses ==
    /\ create = "count"
    /\ sent' = sent + Cardinality(Resolved)
    /\ rate' = [a \in Accounts |-> rate[a] + (IF a \in Resolved THEN 1 ELSE 0)]
    /\ create' = "done"
    /\ UNCHANGED <<mode, post, target, call, stalled, accepted>>

CreateStep ==
    \/ FireSchedules \/ CreatePostTargets \/ ReserveSlots \/ StartSends
    \/ CreateThrows \/ AwaitSends \/ MarkFailures \/ MarkSuccesses
    \/ FinishBasePost \/ CountSuccesses

-----------------------------------------------------------------------------
(* The queue and the worker *)

\* The un-awaited schedulePost adds the target's job, or rejects unnoticed.
AddJob(c) ==
    /\ call[c].pc = "adding"
    /\ \/ Goto(c, "queued")
       \/ "schedule" \in Faults /\ Goto(c, "lost")
    /\ UNCHANGED <<create, mode, post, target, stalled, sent, rate, accepted>>

\* The delay is over and handleJob starts.
StartJob(c) ==
    /\ call[c].pc = "queued"
    /\ create \in {"done", "failed"} \/ "early" \in Faults
    /\ Goto(c, "preflight")
    /\ UNCHANGED <<create, mode, post, target, stalled, sent, rate, accepted>>

\* The pre-flight checkRateLimit; a refusal only runs the failure callback.
Preflight(c) ==
    /\ call[c].pc = "preflight"
    /\ \/ Goto(c, "readPost")
       \/ "limited" \in Faults /\ Callback(c, "worker")
    /\ UNCHANGED <<create, mode, post, target, stalled, sent, rate, accepted>>

\* After sendPost handleJob increments the rate limits itself.
CountUsage(c) ==
    /\ call[c].pc = "count"
    /\ rate' = [rate EXCEPT ![call[c].acct] = @ + 1]
    /\ Goto(c, "completed")
    /\ UNCHANGED <<create, mode, post, target, stalled, sent, accepted>>

\* The worker dies inside handleJob: BullMQ queues the job once more
\* (maxStalledCount, default 1), then fails it without running any handler.
Stall(c) ==
    /\ (IF c \in stalled THEN "stallTwice" ELSE "stall") \in Faults
    /\ IsJob(c) /\ call[c].pc \in SendSteps
    /\ call' = [call EXCEPT ![c] =
                  [IdleFrame(c) EXCEPT !.pc = IF c \in stalled THEN "failed" ELSE "queued"]]
    /\ stalled' = stalled \cup {c}
    /\ UNCHANGED <<create, mode, post, target, sent, rate, accepted>>

-----------------------------------------------------------------------------
(* sendPost *)

\* getPostDetails reads the row of posts, then the rows of post_targets,
\* outside any transaction.
ReadPost(c) ==
    /\ call[c].pc = "readPost"
    /\ call' = [call EXCEPT ![c] =
                  [@ EXCEPT !.pc = "readTargets", !.status = post.status]]
    /\ UNCHANGED <<create, mode, post, target, stalled, sent, rate, accepted>>

\* A target that is not there is an error, a draft is skipped, and the status
\* read before decides whether the post is marked POSTING.  The target's own
\* status is not looked at.
ReadTargets(c) ==
    /\ call[c].pc = "readTargets"
    /\ IF call[c].acct \notin Rows
       THEN Callback(c, "error")
       ELSE Goto(c, CASE call[c].status = "DRAFT" -> AfterSend(c)
                      [] call[c].status = "POSTING" -> "publish"
                      [] OTHER -> "mark")
    /\ UNCHANGED <<create, mode, post, target, stalled, sent, rate, accepted>>

MarkPosting(c) ==
    /\ call[c].pc = "mark"
    /\ post' = BasePost("POSTING")
    /\ Goto(c, "publish")
    /\ UNCHANGED <<create, mode, target, stalled, sent, rate, accepted>>

\* Mutants: an accepted post is reported as an error, a rejected one is not.
PublishMisread(c) ==
    /\ call[c].pc = "publish"
    /\ accepted' = [accepted EXCEPT ![call[c].acct] = @ + 1]
    /\ Goto(c, "setFailed")
    /\ UNCHANGED <<create, mode, post, target, stalled, sent, rate>>

RejectionSwallowed(c) ==
    /\ call[c].pc = "publish"
    /\ Goto(c, "setDone")
    /\ UNCHANGED <<create, mode, post, target, stalled, sent, rate, accepted>>

\* The platform's API accepts the post; the publisher learns it, or does not.
PublishAccepted(c) ==
    /\ call[c].pc = "publish"
    /\ accepted' = [accepted EXCEPT ![call[c].acct] = @ + 1]
    /\ \/ Goto(c, "setDone")
       \/ "lostReply" \in Faults /\ Goto(c, "setFailed")
    /\ UNCHANGED <<create, mode, post, target, stalled, sent, rate>>

PublishRejected(c) ==
    /\ call[c].pc = "publish"
    /\ Goto(c, "setFailed")
    /\ UNCHANGED <<create, mode, post, target, stalled, sent, rate, accepted>>

\* The publisher's updatePostTarget(DONE).
SetDone(c) ==
    /\ call[c].pc = "setDone"
    /\ target' = WithTarget(call[c].acct, "DONE")
    /\ Callback(c, "sent")
    /\ UNCHANGED <<create, mode, post, stalled, sent, rate, accepted>>

\* The publisher's own handleSocialMediaError.
SetFailed(c) ==
    /\ call[c].pc = "setFailed"
    /\ target' = WithTarget(call[c].acct, "FAILED")
    /\ Callback(c, "error")
    /\ UNCHANGED <<create, mode, post, stalled, sent, rate, accepted>>

\* sendPost's handleSocialMediaError, after its failure callback; the error
\* goes to handleJob, createPost or retryPostTarget.
MarkError(c) ==
    /\ call[c].pc = "errMark"
    /\ target' = WithTarget(call[c].acct, "FAILED")
    /\ IF c \in Accounts /\ ~IsJob(c)
       THEN Goto(c, "rejected")
       ELSE Callback(c, IF IsJob(c) THEN "worker" ELSE "retryErr")
    /\ UNCHANGED <<create, mode, post, stalled, sent, rate, accepted>>

-----------------------------------------------------------------------------
(* checkAndUpdateBasePostStatus, and its variant without counters *)

CallbackReadPost(c) ==
    /\ call[c].pc = "cbPost"
    /\ call' = [call EXCEPT ![c] =
                  [@ EXCEPT !.pc = "cbTargets", !.status = post.status,
                            !.scheduled = post.scheduled]]
    /\ UNCHANGED <<create, mode, post, target, stalled, sent, rate, accepted>>

CallbackReadTargets(c) ==
    /\ call[c].pc = "cbTargets"
    /\ LET next == Decide(call[c].status) IN
         call' = [call EXCEPT ![c] =
                    [@ EXCEPT !.pc = IF next = "keep" THEN AfterCallback(c)
                                                      ELSE "cbWrite",
                              !.next = next, !.done = DoneTargets]]
    /\ UNCHANGED <<create, mode, post, target, stalled, sent, rate, accepted>>

\* Counters grow when a post that had a scheduled_time becomes (partially) done.
Counts(c) ==
    /\ call[c].ret \in {"sent", "error", "worker"}
    /\ call[c].next \in {"DONE", "PARTIALLY_DONE"}
    /\ call[c].scheduled /\ call[c].done # {}

CallbackWrite(c) ==
    /\ call[c].pc = "cbWrite"
    /\ post' = BasePost(call[c].next)
    /\ Goto(c, IF Counts(c) THEN "cbCount" ELSE AfterCallback(c))
    /\ UNCHANGED <<create, mode, target, stalled, sent, rate, accepted>>

\* Mutant: the callback counts every target of the post.
CallbackCountAll(c) ==
    /\ call[c].pc = "cbCount"
    /\ sent' = sent + Cardinality(Rows)
    /\ rate' = [a \in Accounts |-> rate[a] + (IF a \in Rows THEN 1 ELSE 0)]
    /\ Goto(c, AfterCallback(c))
    /\ UNCHANGED <<create, mode, post, target, stalled, accepted>>

CallbackCount(c) ==
    /\ call[c].pc = "cbCount"
    /\ sent' = sent + Cardinality(call[c].done)
    /\ rate' = [a \in Accounts |-> rate[a] + (IF a \in call[c].done THEN 1 ELSE 0)]
    /\ Goto(c, AfterCallback(c))
    /\ UNCHANGED <<create, mode, post, target, stalled, accepted>>

-----------------------------------------------------------------------------
(* retryPostTarget *)

\* No handler of the post is running.
Quiet ==
    /\ create \in {"done", "failed"}
    /\ \A c \in Calls : call[c].pc \in Ended

\* Mutant: the SELECT does not ask for FAILED.
RetrySelectAny(r, a) ==
    /\ call[r].pc = "idle"
    /\ Quiet \/ "hastyRetry" \in Faults
    /\ target[a] # "none"
    /\ call' = [call EXCEPT ![r] = [@ EXCEPT !.pc = "retryUpdate", !.acct = a]]
    /\ UNCHANGED <<create, mode, post, target, stalled, sent, rate, accepted>>

\* The repository's SELECT finds the target FAILED; it takes no lock.
RetrySelect(r, a) ==
    /\ call[r].pc = "idle"
    /\ Quiet \/ "hastyRetry" \in Faults
    /\ target[a] = "FAILED"
    /\ call' = [call EXCEPT ![r] = [@ EXCEPT !.pc = "retryUpdate", !.acct = a]]
    /\ UNCHANGED <<create, mode, post, target, stalled, sent, rate, accepted>>

\* ... or does not, and the 404 goes to the service's catch block.
RetryRefused(r, a) ==
    /\ "staleRetry" \in Faults
    /\ call[r].pc = "idle"
    /\ target[a] \in {"PENDING", "DONE"}
    /\ call' = [call EXCEPT ![r] =
                  [@ EXCEPT !.pc = "cbPost", !.ret = "retryErr", !.acct = a]]
    /\ UNCHANGED <<create, mode, post, target, stalled, sent, rate, accepted>>

\* Mutant: the target is reset and never sent.
RetryUpdateOnly(r) ==
    /\ call[r].pc = "retryUpdate"
    /\ target' = WithTarget(call[r].acct, "PENDING")
    /\ Goto(r, "resolved")
    /\ UNCHANGED <<create, mode, post, stalled, sent, rate, accepted>>

\* The UPDATE names the row, not the status the SELECT saw.
RetryUpdate(r) ==
    /\ call[r].pc = "retryUpdate"
    /\ target' = WithTarget(call[r].acct, "PENDING")
    /\ Goto(r, "readPost")
    /\ UNCHANGED <<create, mode, post, stalled, sent, rate, accepted>>

\* A retried target that is DONE is counted here, then the status is derived
\* again without counters.
RetryRead(r) ==
    /\ call[r].pc = "retryRead"
    /\ LET n == IF target[call[r].acct] = "DONE" THEN 1 ELSE 0 IN
         /\ sent' = sent + n
         /\ rate' = [rate EXCEPT ![call[r].acct] = @ + n]
    /\ Callback(r, "retryOk")
    /\ UNCHANGED <<create, mode, post, target, stalled, accepted>>

\* The catch block ends in handleSocialMediaError, whatever the error was.
RetryMark(r) ==
    /\ call[r].pc = "retryMark"
    /\ target' = WithTarget(call[r].acct, "FAILED")
    /\ Goto(r, "rejected")
    /\ UNCHANGED <<create, mode, post, stalled, sent, rate, accepted>>

-----------------------------------------------------------------------------
SendStep(c) ==
    \/ ReadPost(c) \/ ReadTargets(c) \/ MarkPosting(c)
    \/ PublishAccepted(c) \/ PublishRejected(c) \/ SetDone(c) \/ SetFailed(c)
    \/ MarkError(c)

CallbackStep(c) ==
    \/ CallbackReadPost(c) \/ CallbackReadTargets(c) \/ CallbackWrite(c)
    \/ CallbackCount(c)

JobStep(c) == AddJob(c) \/ StartJob(c) \/ Preflight(c) \/ CountUsage(c)

RetryStep(c) == RetryUpdate(c) \/ RetryRead(c) \/ RetryMark(c)

\* What the runtime does with a call without being asked.
CallStep(c) == SendStep(c) \/ CallbackStep(c) \/ JobStep(c) \/ RetryStep(c)

RetryRequest(r) == \E a \in Accounts : RetrySelect(r, a) \/ RetryRefused(r, a)

Next ==
    \/ CreateBasePost
    \/ CreateStep
    \/ \E c \in Calls : CallStep(c)
    \/ \E c \in Accounts : Stall(c)
    \/ \E r \in Retries : RetryRequest(r)

Spec == Init /\ [][Next]_vars

\* The event loop, the workers and the database do not stop; users and
\* faults are not obliged to do anything.
FairSpec ==
    /\ Spec
    /\ WF_vars(CreateStep)
    /\ \A c \in Calls : WF_vars(CallStep(c))

-----------------------------------------------------------------------------
(* Type invariant *)
TypeOK ==
    /\ create \in CreateSteps
    /\ mode \in Modes
    /\ post \in [status : PostStatus, scheduled : BOOLEAN]
    /\ target \in [Accounts -> TargetStatus]
    /\ call \in [Calls -> Frame]
    /\ stalled \subseteq Accounts
    /\ sent \in Nat
    /\ rate \in [Accounts -> Nat]
    /\ accepted \in [Accounts -> Nat]

(* A target is stored DONE only if its platform accepted it: no order of   *)
(* handlers, callbacks, crashes and retries marks as published what never  *)
(* left the system (publishers' updatePostTarget, createPost's settling).  *)
DoneWasPublished ==
    \A a \in Accounts : target[a] = "DONE" => accepted[a] > 0

(* Usage is counted against an account only if its platform accepted the   *)
(* target, whichever of createPost, handleJob, the callback and the retry  *)
(* does the counting and however stale the rows it counts from.            *)
CountedWasPublished ==
    \A a \in Accounts : rate[a] > 0 => accepted[a] > 0

Terminal == Rows = Accounts /\ DoneTargets \cup FailedTargets = Accounts

Summary ==
    IF FailedTargets = {} THEN "DONE"
    ELSE IF DoneTargets = {} THEN "FAILED" ELSE "PARTIALLY_DONE"

(* When nothing runs any more and every target is settled, the base post's *)
(* status is the one its targets call for, although every callback wrote   *)
(* from rows it had read earlier (checkAndUpdateBasePostStatus).           *)
StatusSettled == Quiet /\ Terminal => post.status = Summary

(* Without crashes, lost replies and overlapping retries the whole path of *)
(* createPost, jobs, senders, callbacks and retries does to each target    *)
(* what TargetLifecycle allows, one step at a time: its platform gets it   *)
(* once at most, although sendPost never looks at the target's status, and *)
(* DONE is for ever.                                                       *)
Lifecycle == INSTANCE TargetLifecycle WITH
                 Targets <- Accounts, row <- target, copies <- accepted

FollowsLifecycle == Lifecycle!TLSpec

(* The platform gets a target at most once, and once more after a worker's *)
(* death, a retry after the crash included (handleJob re-run).             *)
CopiesBounded ==
    \A a \in Accounts : accepted[a] <= 1 + (IF a \in stalled THEN 1 ELSE 0)

\* The two deaths of a's workers that make BullMQ give its job up.
GivenUp(a) == a \in stalled /\ call[a].pc = "failed"

(* A PENDING target of a post that is no draft, freshly created or taken   *)
(* up again by a retry, ends DONE or FAILED unless its job was given up:   *)
(* no path through createPost, handleJob, sendPost and their handlers      *)
(* leaves it PENDING.                                                      *)
EventuallySettled ==
    \A a \in Accounts :
        (target[a] = "PENDING" /\ mode # "draft") ~>
            (target[a] \in {"DONE", "FAILED"} \/ GivenUp(a))
=============================================================================
