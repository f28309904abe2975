----------------------------- MODULE PostEditing -----------------------------
(***************************************************************************)
(* Editing, rescheduling and deleting ONE stored post against its BullMQ   *)
(* jobs: editPost, deletePost, handlePlatformUsageUpdate, the scheduler's  *)
(* cancel/reschedule/cleanup, the daily slots, and the jobs that may run   *)
(* meanwhile.  How a job's sends and callbacks interleave with each other  *)
(* is PostPublishing's subject: here the callback is one step.             *)
(***************************************************************************)
EXTENDS Integers, FiniteSets

CONSTANTS
    Accounts, Platforms,
    Placements,   \* the platforms the accounts may be of: [Accounts -> Platforms]
    Horizon,      \* bound: the times of the model are 0..Horizon
    MaxRequests,  \* bound: the edit and delete requests users may send
    NoAccount,    \* the socialAccountId of a job that schedulePost got none for
    NoTime,       \* scheduled_time IS NULL
    Scenarios     \* sets of circumstances explored

(* "single"   a post of one account, instead of one of all of them         *)
(* "shared"   two accounts of one platform                                 *)
(* "overlap"  a request meets a job that is due, or another request        *)
(* "retarget" an edit changes the accounts                                 *)
(* "still"    an edit keeps the time                                       *)
(* "draft"    the post is, or an edit makes it, a draft                    *)
(* "resent"   an edit of a post of which a target was sent or has failed   *)
(* "full"     the quota of the plan or the platform refuses an edit        *)
Circumstances ==
    {"single", "shared", "overlap", "retarget", "still", "draft", "resent", "full"}

ASSUME EditingAssumption ==
    /\ IsFiniteSet(Accounts) /\ Horizon \in Nat /\ MaxRequests \in Nat
    /\ Placements \subseteq [Accounts -> Platforms]
    /\ NoAccount \notin Accounts /\ NoTime \notin Nat
    /\ Scenarios \subseteq SUBSET Circumstances

VARIABLES
    scenario,  \* the circumstances of this behaviour
    platform,  \* the platform of each account
    now,       \* the clock
    post,      \* the row of posts
    target,    \* the rows of post_targets
    job,       \* the BullMQ jobs: those of createPost and of each request
    req,       \* the frame of every request
    slots,     \* scheduled_count, of a user who has this post only
    accepted   \* history: how often the account's platform got the post

vars == <<scenario, platform, now, post, target, job, req, slots, accepted>>

Times == 1 .. Horizon

\* platform_daily_usage has a row for every day and platform.
Days == Times \X Platforms

\* Requests in their order of arrival; the first jobs are createPost's.
Requests == 1 .. MaxRequests
Create == 0
Jobs == (Requests \cup {Create}) \X Accounts

\* The jobs of an edit carry no socialAccountId, those of createPost do.
AccountOf(j) == IF j[1] = Create THEN j[2] ELSE NoAccount
PlatformOf(j) == platform[j[2]]

Rows == {a \in Accounts : target[a] # "none"}
On(p, accounts) == {a \in accounts : platform[a] = p}

PostStatus == {"DRAFT", "PENDING", "POSTING", "DONE", "FAILED", "PARTIALLY_DONE", "deleted"}

\* Where BullMQ has a job: getDelayed, getWaiting, getActive or none of them.
Active == {"reading", "marking", "publishing", "recordDone", "recordFailed",
           "settleDone", "settleFailed", "markError", "settleError"}
Queue == {"delayed", "waiting"}
Gone == {"none", "removed", "ended"}

NoJob == [at |-> "none", time |-> 0, acct |-> NoAccount]

IdleRequest ==
    [at |-> "idle", kind |-> "edit", status |-> "PENDING", time |-> NoTime, new |-> {},
     oldTime |-> NoTime, old |-> {}, left |-> {}, acct |-> NoAccount, victim |-> {}]

Running(r) == req[r].at \notin {"idle", "ok", "failed"}

\* A scheduled post with its jobs and slots, or a draft with none of them.
Init ==
    /\ scenario \in Scenarios
    /\ platform \in Placements
    /\ "shared" \notin scenario =>
          \A a, b \in Accounts : platform[a] = platform[b] => a = b
    /\ now = 0
    /\ \E status \in {"PENDING", "DRAFT"}, t \in Times \cup {NoTime} :
          /\ status = "DRAFT" => "draft" \in scenario
          /\ status = "PENDING" => t # NoTime
          /\ post = [status |-> status, time |-> t]
          /\ \E accounts \in (SUBSET Accounts) \ {{}} :
                /\ IF "single" \in scenario THEN Cardinality(accounts) = 1
                                            ELSE accounts = Accounts
                /\ target = [a \in Accounts |-> IF a \in accounts THEN "PENDING" ELSE "none"]
          /\ job = [j \in Jobs |->
                      IF status = "PENDING" /\ j[1] = Create /\ j[2] \in Rows
                      THEN [at |-> "delayed", time |-> t, acct |-> NoAccount]
                      ELSE NoJob]
          /\ slots = [s \in Days |-> IF status = "PENDING" /\ s[1] = t
                                     THEN Cardinality(On(s[2], Rows)) ELSE 0]
    /\ req = [r \in Requests |-> IdleRequest]
    /\ accepted = [a \in Accounts |-> 0]

-----------------------------------------------------------------------------
(* editPost and deletePost up to the first change *)

Ended == {"ok", "failed"}

\* A request that has ended needs its frame no more.
Goto(r, step) ==
    req' = [req EXCEPT ![r] = IF step \in Ended THEN [IdleRequest EXCEPT !.at = step]
                                                ELSE [@ EXCEPT !.at = step, !.victim = {}]]

JobsUnchanged == UNCHANGED <<scenario, platform, now, job, accepted>>

\* A request arrives while no job is due and no other request is served.
Calm ==
    /\ \A r \in Requests : ~Running(r)
    /\ \A j \in Jobs : job[j].at \in Gone \/ (job[j].at = "delayed" /\ job[j].time > now)

Untouched == \A a \in Accounts : accepted[a] = 0 /\ target[a] \in {"none", "PENDING"}

MayRequest(r) ==
    /\ req[r].at = "idle"
    /\ \A q \in 1 .. (r - 1) : req[q].at # "idle"
    /\ Calm \/ "overlap" \in scenario

\* handlePlatformUsageUpdate: a draft changes nothing, a new time moves jobs
\* and slots, the same time moves slots only, a post without one gets both.
FirstStep(status, t) ==
    CASE status = "DRAFT" -> "base"
      [] status # "DRAFT" /\ post.time = NoTime -> "reserve"
      [] status # "DRAFT" /\ post.time = t -> "adjust"
      [] OTHER -> "release"

\* editPost reads the post, refuses a published one, wants a time in the
\* future unless a draft is saved, and asks for the plan's limits.
EditRead(r, status, t, accounts) ==
    /\ MayRequest(r)
    /\ post.status \notin {"deleted", "DONE"}
    /\ IF t = NoTime THEN status = "DRAFT" ELSE t > now
    /\ status = "DRAFT" => "draft" \in scenario
    /\ t = post.time => "still" \in scenario
    /\ accounts # Rows => "retarget" \in scenario
    /\ ~Untouched => scenario \cap {"resent", "overlap"} # {}
    /\ req' = [req EXCEPT ![r] =
                 [IdleRequest EXCEPT !.at = FirstStep(status, t), !.status = status,
                    !.time = t, !.new = accounts, !.left = accounts,
                    !.oldTime = post.time, !.old = Rows]]
    /\ UNCHANGED <<post, target, slots>> /\ JobsUnchanged

\* Only a post with a time has its slots released and its jobs cancelled.
DeleteRead(r) ==
    /\ MayRequest(r)
    /\ post.status # "deleted"
    /\ req' = [req EXCEPT ![r] =
                 [IdleRequest EXCEPT !.at = IF post.time = NoTime THEN "rows" ELSE "release",
                    !.kind = "delete", !.oldTime = post.time, !.old = Rows, !.left = Rows]]
    /\ UNCHANGED <<post, target, slots>> /\ JobsUnchanged

\* The request is refused before anything has changed.
Refuse(r) ==
    /\ MayRequest(r)
    /\ "full" \in scenario \/ post.status \in {"deleted", "DONE"}
    /\ Goto(r, "failed")
    /\ UNCHANGED <<post, target, slots>> /\ JobsUnchanged

-----------------------------------------------------------------------------
(* The daily slots *)

\* incrementScheduledCount: GREATEST(scheduled_count + count, 0).
AtLeastZero(n) == IF n < 0 THEN 0 ELSE n

WithSlots(t, accounts, sign) ==
    [s \in Days |-> IF s[1] = t THEN AtLeastZero(slots[s] + sign * Cardinality(On(s[2], accounts)))
                                ELSE slots[s]]

\* releasePlatformSlots of the old targets at the old time.
Release(r) ==
    /\ req[r].at = "release"
    /\ slots' = WithSlots(req[r].oldTime, req[r].old, -1)
    /\ Goto(r, IF req[r].kind = "edit" THEN "reserve" ELSE "next")
    /\ UNCHANGED <<post, target>> /\ JobsUnchanged

\* Mutant: the slots are reserved at the old time.
ReserveOld(r) ==
    /\ req[r].at = "reserve"
    /\ slots' = WithSlots(req[r].oldTime, req[r].new, 1)
    /\ Goto(r, "next")
    /\ UNCHANGED <<post, target>> /\ JobsUnchanged

\* validatePlatformQuotas and reservePlatformSlots of the new targets: a refusal
\* comes after the release.
Reserve(r) ==
    /\ req[r].at = "reserve"
    /\ \/ slots' = WithSlots(req[r].time, req[r].new, 1) /\ Goto(r, "next")
       \/ "full" \in scenario /\ slots' = slots /\ Goto(r, "failed")
    /\ UNCHANGED <<post, target>> /\ JobsUnchanged

\* The same time: the difference on every platform the post was on, one after
\* the other, each with a quota check that may refuse.
Adjust(r) ==
    /\ req[r].at = "adjust"
    /\ LET was(p) == Cardinality(On(p, req[r].old))
           is(p) == Cardinality(On(p, req[r].new))
           changed == {p \in Platforms : was(p) \notin {0, is(p)}}
           Adjusted(done) ==
              [s \in Days |-> IF s[1] = req[r].time /\ s[2] \in done
                              THEN AtLeastZero(slots[s] + (is(s[2]) - was(s[2]))) ELSE slots[s]]
       IN
         \/ slots' = Adjusted(changed) /\ Goto(r, "base")
         \/ /\ "full" \in scenario
            /\ \E done \in (SUBSET changed) \ {changed} : slots' = Adjusted(done)
            /\ Goto(r, "failed")
    /\ UNCHANGED <<post, target>> /\ JobsUnchanged

-----------------------------------------------------------------------------
(* The jobs, account by account *)

RowsUnchanged == UNCHANGED <<scenario, platform, now, post, target, slots, accepted>>

\* The jobs of the post on the platform the loop is at, in a list of its queue.
InQueue(r, list) ==
    {j \in Jobs : PlatformOf(j) = platform[req[r].acct] /\ job[j].at \in list}

\* reschedulePost cancels and schedules, schedulePost only schedules.
NextTarget(r) ==
    /\ req[r].at = "next"
    /\ \/ \E a \in req[r].left :
            req' = [req EXCEPT ![r].left = @ \ {a}, ![r].acct = a,
                               ![r].at = IF req[r].oldTime = NoTime THEN "findWaiting"
                                                                    ELSE "cancel"]
       \/ /\ req[r].left = {}
          /\ Goto(r, IF req[r].kind = "edit" THEN "base" ELSE "rows")
    /\ UNCHANGED job /\ RowsUnchanged

AfterCancel(r) == IF req[r].kind = "edit" THEN "findWaiting" ELSE "cancelTarget"

\* cancelScheduledPost: the first delayed job of the post on the platform.
FindDelayedJob(r) ==
    /\ req[r].at = "cancel"
    /\ LET found == InQueue(r, {"delayed"}) IN
         IF found = {}
         THEN Goto(r, AfterCancel(r))
         ELSE \E j \in found :
                /\ \A k \in found : job[j].time <= job[k].time
                /\ req' = [req EXCEPT ![r].at = "remove", ![r].victim = {j}]
    /\ UNCHANGED job /\ RowsUnchanged

\* job.remove() throws if a worker has taken the job meanwhile: the edit fails,
\* the delete goes on to cleanupJobsForDeletedPost.
RemoveJob(r) ==
    /\ req[r].at = "remove"
    /\ \E j \in req[r].victim :
          IF job[j].at \in Active
          THEN /\ Goto(r, IF req[r].kind = "edit" THEN "failed" ELSE "cleanup")
               /\ UNCHANGED job
          ELSE /\ job' = [job EXCEPT ![j] = [NoJob EXCEPT !.at = "removed"]]
               /\ Goto(r, AfterCancel(r))
    /\ RowsUnchanged

\* Every job of the post on the platform that is not running.
Cleanup(r) ==
    /\ req[r].at = "cleanup"
    /\ job' = [j \in Jobs |-> IF j \in InQueue(r, Queue) THEN [NoJob EXCEPT !.at = "removed"]
                                                          ELSE job[j]]
    /\ Goto(r, "cancelTarget")
    /\ RowsUnchanged

\* cancelPostTarget; an error, the row being gone, is not an error of deletePost.
CancelTarget(r) ==
    /\ req[r].at = "cancelTarget"
    /\ target' = [a \in Accounts |->
                    IF a = req[r].acct /\ a \in Rows THEN "FAILED" ELSE target[a]]
    /\ Goto(r, "next")
    /\ UNCHANGED <<post, slots>> /\ JobsUnchanged

\* Mutants: an error of the queue is taken for "no job"; a job that ran counts.
FindExistingNone(r) ==
    /\ req[r].at = "findWaiting"
    /\ Goto(r, "add")
    /\ UNCHANGED job /\ RowsUnchanged

FindExistingEnded(r) ==
    /\ req[r].at = "findWaiting"
    /\ Goto(r, IF InQueue(r, {"removed", "ended"}) # {} THEN "next" ELSE "add")
    /\ UNCHANGED job /\ RowsUnchanged

\* findExistingJob asks for the waiting, the delayed and the active jobs, one
\* list after the other; a job of any account of the platform will do.
FindExisting(r) ==
    \E step \in {"findWaiting", "findDelayed", "findActive"} :
       /\ req[r].at = step
       /\ LET list == CASE step = "findWaiting" -> {"waiting"}
                        [] step = "findDelayed" -> {"delayed"}
                        [] step = "findActive" -> Active
              onward == CASE step = "findWaiting" -> "findDelayed"
                          [] step = "findDelayed" -> "findActive"
                          [] step = "findActive" -> "add"
          IN Goto(r, IF InQueue(r, list) # {} THEN "next" ELSE onward)
       /\ UNCHANGED job /\ RowsUnchanged

AddJob(r) ==
    /\ req[r].at = "add"
    /\ job' = [job EXCEPT ![<<r, req[r].acct>>] =
                 [NoJob EXCEPT !.at = "delayed", !.time = req[r].time]]
    /\ Goto(r, "next")
    /\ RowsUnchanged

-----------------------------------------------------------------------------
(* The rows *)

\* updateBasePost: no row, no effect.
UpdateBasePost(r) ==
    /\ req[r].at = "base"
    /\ post' = IF post.status = "deleted" THEN post
               ELSE [status |-> req[r].status, time |-> req[r].time]
    /\ Goto(r, "targets")
    /\ UNCHANGED <<target, slots>> /\ JobsUnchanged

\* Mutant: the targets are written even if the post is gone.
UpdateTargetsUnchecked(r) ==
    /\ req[r].at = "targets"
    /\ target' = [a \in Accounts |-> IF a \in req[r].new THEN "PENDING" ELSE "none"]
    /\ Goto(r, "ok")
    /\ UNCHANGED <<post, slots>> /\ JobsUnchanged

\* updatePostTargets replaces them in one transaction, whatever their status
\* was; the foreign key refuses targets of a deleted post.
UpdatePostTargets(r) ==
    /\ req[r].at = "targets"
    /\ IF post.status = "deleted"
       THEN target' = target /\ Goto(r, "failed")
       ELSE /\ target' = [a \in Accounts |-> IF a \in req[r].new THEN "PENDING" ELSE "none"]
            /\ Goto(r, "ok")
    /\ UNCHANGED <<post, slots>> /\ JobsUnchanged

\* The transaction of deletePost.
DeleteRows(r) ==
    /\ req[r].at = "rows"
    /\ post' = [post EXCEPT !.status = "deleted"]
    /\ target' = [a \in Accounts |-> "none"]
    /\ Goto(r, IF post.status = "deleted" THEN "failed" ELSE "ok")
    /\ UNCHANGED slots /\ JobsUnchanged

RequestStep(r) ==
    \/ Release(r) \/ Reserve(r) \/ Adjust(r)
    \/ NextTarget(r) \/ FindDelayedJob(r) \/ RemoveJob(r) \/ Cleanup(r)
    \/ CancelTarget(r) \/ FindExisting(r) \/ AddJob(r)
    \/ UpdateBasePost(r) \/ UpdatePostTargets(r) \/ DeleteRows(r)

Request(r) ==
    \/ \E status \in {"PENDING", "DRAFT"}, t \in Times \cup {NoTime},
          accounts \in (SUBSET Accounts) \ {{}} : EditRead(r, status, t, accounts)
    \/ DeleteRead(r)
    \/ Refuse(r)

-----------------------------------------------------------------------------
(* The jobs run *)

JobGoto(j, step) ==
    job' = [job EXCEPT ![j] = IF step = "ended" THEN [NoJob EXCEPT !.at = "ended"]
                                                ELSE [@ EXCEPT !.at = step]]

QueueOnly == UNCHANGED <<scenario, platform, now, post, target, req, slots, accepted>>

\* Requests are given the time to end before the clock goes on, unless they
\* overlap with jobs.
Tick ==
    /\ now < Horizon
    /\ "overlap" \in scenario \/ \A r \in Requests : ~Running(r)
    /\ now' = now + 1
    /\ UNCHANGED <<scenario, platform, post, target, job, req, slots, accepted>>

\* The job's delay is over, and a worker takes it.
Due(j) ==
    /\ job[j].at = "delayed" /\ job[j].time <= now
    /\ JobGoto(j, "waiting")
    /\ QueueOnly

Start(j) ==
    /\ job[j].at = "waiting"
    /\ JobGoto(j, "reading")
    /\ QueueOnly

\* The target sendPost finds: of the job's account, or any of its platform.
Candidates(j) ==
    {a \in Rows : platform[a] = PlatformOf(j) /\ AccountOf(j) \in {a, NoAccount}}

\* A draft is left alone, a post without the target is an error.
ReadPost(j) ==
    /\ job[j].at = "reading"
    /\ IF Candidates(j) = {}
       THEN JobGoto(j, "settleFailed")
       ELSE IF post.status = "DRAFT"
            THEN JobGoto(j, "ended")
            ELSE \E a \in Candidates(j) :
                   job' = [job EXCEPT ![j].acct = a,
                              ![j].at = IF post.status = "POSTING" THEN "publishing"
                                                                   ELSE "marking"]
    /\ QueueOnly

\* updateBasePost(POSTING, new Date()).
BasePost(status) ==
    IF post.status = "deleted" THEN post ELSE [status |-> status, time |-> now]

MarkPosting(j) ==
    /\ job[j].at = "marking"
    /\ post' = BasePost("POSTING")
    /\ JobGoto(j, "publishing")
    /\ UNCHANGED <<scenario, platform, now, target, req, slots, accepted>>

Publish(j) ==
    /\ job[j].at = "publishing"
    /\ \/ /\ JobGoto(j, "recordDone")
          /\ accepted' = [accepted EXCEPT ![job[j].acct] = @ + 1]
       \/ JobGoto(j, "recordFailed") /\ accepted' = accepted
    /\ UNCHANGED <<scenario, platform, now, post, target, req, slots>>

\* The publisher's updatePostTarget; DONE of a row that is gone is an error.
Record(j) ==
    /\ job[j].at \in {"recordDone", "recordFailed"}
    /\ LET a == job[j].acct
           ok == job[j].at = "recordDone" /\ a \in Rows
       IN
         /\ target' = IF a \in Rows THEN [target EXCEPT ![a] = IF ok THEN "DONE" ELSE "FAILED"]
                                    ELSE target
         /\ JobGoto(j, IF ok THEN "settleDone" ELSE "settleFailed")
    /\ UNCHANGED <<scenario, platform, now, post, req, slots, accepted>>

\* checkAndUpdateBasePostStatus, which fails without effect if the post is gone.
Summary ==
    LET done == {a \in Rows : target[a] = "DONE"}
        failed == {a \in Rows : target[a] = "FAILED"}
    IN IF done = Rows /\ post.status # "DONE" THEN BasePost("DONE")
       ELSE IF done # {} /\ failed # {} /\ post.status # "PARTIALLY_DONE"
            THEN BasePost("PARTIALLY_DONE")
            ELSE IF failed = Rows /\ post.status # "FAILED" THEN BasePost("FAILED") ELSE post

Settle(j) ==
    /\ job[j].at \in {"settleDone", "settleFailed", "settleError"}
    /\ post' = Summary
    /\ JobGoto(j, IF job[j].at = "settleFailed" THEN "markError" ELSE "ended")
    /\ UNCHANGED <<scenario, platform, now, target, req, slots, accepted>>

\* sendPost's error handler names the job's account, which may be none.
MarkError(j) ==
    /\ job[j].at = "markError"
    /\ target' = [a \in Accounts |->
                    IF a = AccountOf(j) /\ a \in Rows THEN "FAILED" ELSE target[a]]
    /\ JobGoto(j, "settleError")
    /\ UNCHANGED <<scenario, platform, now, post, req, slots, accepted>>

JobStep(j) ==
    \/ Due(j) \/ Start(j) \/ ReadPost(j) \/ MarkPosting(j) \/ Publish(j)
    \/ Record(j) \/ Settle(j) \/ MarkError(j)

-----------------------------------------------------------------------------
Next ==
    \/ Tick
    \/ \E r \in Requests : Request(r) \/ RequestStep(r)
    \/ \E j \in Jobs : JobStep(j)

Spec == Init /\ [][Next]_vars

\* Time passes, the workers work and a request that has begun goes on.
FairSpec ==
    /\ Spec
    /\ WF_vars(Tick)
    /\ \A r \in Requests : WF_vars(RequestStep(r))
    /\ \A j \in Jobs : WF_vars(JobStep(j))

-----------------------------------------------------------------------------
(* Type invariant *)
RequestSteps ==
    {"idle", "ok", "failed", "release", "reserve", "adjust", "next", "cancel", "remove",
     "cleanup", "cancelTarget", "findWaiting", "findDelayed", "findActive", "add",
     "base", "targets", "rows"}

TypeOK ==
    /\ scenario \in Scenarios
    /\ platform \in [Accounts -> Platforms]
    /\ now \in 0 .. Horizon
    /\ post \in [status : PostStatus, time : (0 .. Horizon) \cup {NoTime}]
    /\ target \in [Accounts -> {"none", "PENDING", "DONE", "FAILED"}]
    /\ job \in [Jobs -> [at : Active \cup Queue \cup Gone, time : 0 .. Horizon,
                         acct : Accounts \cup {NoAccount}]]
    /\ req \in [Requests -> [at : RequestSteps, kind : {"edit", "delete"},
                             status : {"PENDING", "DRAFT"}, time : Times \cup {NoTime},
                             new : SUBSET Accounts, oldTime : (0 .. Horizon) \cup {NoTime},
                             old : SUBSET Accounts, left : SUBSET Accounts,
                             acct : Accounts \cup {NoAccount}, victim : SUBSET Jobs]]
    /\ slots \in [Days -> Nat]
    /\ accepted \in [Accounts -> Nat]

Without(circumstances) == scenario \cap circumstances = {}

\* Edits as reschedulePost is written for: see the README for what the others do.
Sound == Without({"shared", "overlap", "draft"}) /\ ~({"still", "retarget"} \subseteq scenario)

(* The platform's daily count holds exactly the post's targets, on the day *)
(* it is scheduled for and on no other (release, reserve and adjust).      *)
SlotsFollow ==
    /\ Without({"overlap", "draft", "full", "resent"}) /\ ~({"still", "retarget"} \subseteq scenario)
    /\ Calm /\ post.status = "PENDING"
    => \A d \in Times, p \in Platforms :
          slots[<<d, p>>] = IF d = post.time THEN Cardinality(On(p, Rows)) ELSE 0

(* A post is sent to a platform once, however often it was rescheduled     *)
(* (the old job is cancelled before another is added).                     *)
AtMostOnce ==
    Without({"overlap", "resent"}) => \A a \in Accounts : accepted[a] <= 1

(* A deleted post stays deleted and gets no targets, even from an edit or  *)
(* a job that read it before.                                              *)
DeletedForGood ==
    [][post.status = "deleted" => post'.status = "deleted" /\ Rows' = {}]_vars

(* A target of a scheduled post is sent, refused or taken back in the end: *)
(* no edit loses its job.                                                  *)
EventuallySent ==
    \A a \in Accounts :
       (Sound /\ post.status = "PENDING" /\ target[a] = "PENDING") ~> target[a] # "PENDING"
=============================================================================
