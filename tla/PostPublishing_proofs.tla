----------------------- MODULE PostPublishing_proofs -----------------------
(***************************************************************************)
(* Proofs about PostPublishing for every set of accounts, retries, modes   *)
(* and faults.  Three inductive invariants build on each other.            *)
(*                                                                         *)
(* IInv holds whatever goes wrong.  Besides the properties themselves it   *)
(* says what every frame on its way owes to the database, in particular    *)
(* that a call past its publisher acts for an account whose platform       *)
(* accepted the target, and that the DONE rows a callback has read were    *)
(* published.                                                              *)
(*                                                                         *)
(* CopyInv holds when no reply is lost and no retry overlaps (Orderly): a  *)
(* call that runs shares its target with no other, and its step bounds how *)
(* often the platform has had the target.  It bounds the publications and, *)
(* without crashes (Calm), gives the refinement of TargetLifecycle.        *)
(*                                                                         *)
(* SettleInv, on top of it, follows the base post's status: as long as a   *)
(* call will still derive it nothing is claimed, and afterwards it is      *)
(* right or a callback is about to write the right one.                    *)
(***************************************************************************)
EXTENDS PostPublishing, FiniteSetTheorems, TLAPS

CallbackSteps == {"cbPost", "cbTargets", "cbWrite", "cbCount"}
RetrySteps == {"retryUpdate", "retryRead", "retryMark"}

Published(a) == a \in Accounts /\ accepted[a] > 0

\* The frame of an account's own call never does what only retries do.
OwnFrame(c) ==
    /\ call[c].acct = c
    /\ call[c].pc \notin RetrySteps
    /\ call[c].ret \notin {"retryOk", "retryErr"}
    /\ mode = "draft" => call[c].pc = "idle"

\* The call is past its publisher's success.
Succeeded(c) ==
    \/ call[c].pc \in {"setDone", "count"}
    \/ call[c].pc \in CallbackSteps /\ call[c].ret = "sent"
    \/ c \in Accounts /\ call[c].pc = "resolved"

FrameOK(c) ==
    /\ c \in Accounts => OwnFrame(c)
    /\ call[c].pc = "idle" \/ call[c].acct \in Accounts
    /\ call[c].status = "DRAFT" => mode = "draft"
    /\ call[c].next # "DRAFT"
    /\ call[c].pc = "cbWrite" => call[c].next # "keep"
    /\ \A a \in call[c].done : Published(a)
    /\ Succeeded(c) => Published(call[c].acct)

FrameInv == \A c \in Calls : FrameOK(c)

\* Only a draft request has a draft row, so no job takes sendPost's early return.
DraftInv == post.status = "DRAFT" => mode = "draft"

IInv == TypeOK /\ DraftInv /\ FrameInv /\ DoneWasPublished /\ CountedWasPublished

-----------------------------------------------------------------------------
(* What a step does to the frames *)

OnlyCall(c) ==
    /\ call' \in [Calls -> Frame]
    /\ \A d \in Calls \ {c} : call'[d] = call[d]

SameData(c) ==
    /\ call'[c].acct = call[c].acct
    /\ call'[c].status = call[c].status
    /\ call'[c].scheduled = call[c].scheduled
    /\ call'[c].next = call[c].next
    /\ call'[c].done = call[c].done

LEMMA GotoEffect ==
  ASSUME call \in [Calls -> Frame], NEW c \in Calls, NEW s \in Steps, Goto(c, s)
  PROVE  /\ OnlyCall(c) /\ SameData(c)
         /\ call'[c].pc = s /\ call'[c].ret = call[c].ret
  BY DEF Goto, OnlyCall, SameData, Frame

LEMMA CallbackEffect ==
  ASSUME call \in [Calls -> Frame], NEW c \in Calls, NEW r \in Returns, Callback(c, r)
  PROVE  /\ OnlyCall(c) /\ SameData(c)
         /\ call'[c].pc = "cbPost" /\ call'[c].ret = r
  BY DEF Callback, OnlyCall, SameData, Frame, Steps, SendSteps

LEMMA AfterSendType ==
  ASSUME NEW c \in Calls
  PROVE  /\ AfterSend(c) \in {"count", "resolved", "retryRead"}
         /\ AfterSend(c) = "count" => c \in Accounts
         /\ AfterSend(c) = "resolved" => c \in Accounts
         /\ AfterSend(c) = "retryRead" <=> c \notin Accounts
  BY DEF AfterSend, IsJob

\* A step of one call disturbs no other: the history of accepted posts grows.
LEMMA OthersKept ==
  ASSUME IInv, NEW c \in Calls, OnlyCall(c), mode' = mode,
         \A a \in Accounts : accepted[a] > 0 => accepted'[a] > 0,
         FrameOK(c)'
  PROVE  FrameInv'
<1>1. ASSUME NEW d \in Calls, d # c PROVE FrameOK(d)'
  <2>1. FrameOK(d) /\ call'[d] = call[d]
    BY <1>1 DEF IInv, FrameInv, OnlyCall
  <2>2. \A a : Published(a) => Published(a)'
    BY DEF Published
  <2>. QED
    BY <2>1, <2>2, <1>1 DEF FrameOK, OwnFrame, Succeeded
<1>. QED
  BY <1>1 DEF FrameInv

-----------------------------------------------------------------------------
(* sendPost *)

LEMMA ReadPostStep ==
  ASSUME IInv, NEW c \in Calls, ReadPost(c) PROVE IInv'
<1>. DEFINE f == [call[c] EXCEPT !.pc = "readTargets", !.status = post.status]
<1>0. f \in Frame /\ call' = [call EXCEPT ![c] = f]
  BY DEF ReadPost, IInv, TypeOK, Frame, Steps, SendSteps
<1>1. OnlyCall(c) /\ call'[c] = f
  BY <1>0 DEF IInv, TypeOK, OnlyCall
<1>2. FrameOK(c) /\ call[c] \in Frame
  BY DEF IInv, FrameInv, TypeOK
<1>3. FrameOK(c)'
  BY <1>1, <1>2 DEF ReadPost, IInv, DraftInv, FrameOK, OwnFrame, Succeeded,
     Published, CallbackSteps, RetrySteps, Frame
<1>4. FrameInv'
  BY <1>1, <1>3, OthersKept DEF ReadPost
<1>. QED
  BY <1>1, <1>4 DEF ReadPost, IInv, TypeOK, DraftInv, DoneWasPublished,
     CountedWasPublished, OnlyCall

LEMMA ReadTargetsStep ==
  ASSUME IInv, NEW c \in Calls, ReadTargets(c) PROVE IInv'
<1>1. FrameOK(c) /\ call[c] \in Frame /\ call[c].pc = "readTargets"
  BY DEF IInv, FrameInv, TypeOK, ReadTargets
<1>2. OnlyCall(c) /\ FrameOK(c)'
  <2>1. CASE call[c].acct \notin Rows
    BY <2>1, <1>1, CallbackEffect DEF ReadTargets, IInv, TypeOK, Returns, FrameOK,
       OwnFrame, Succeeded, Published, CallbackSteps, RetrySteps, SameData
  <2>2. CASE call[c].acct \in Rows /\ call[c].status = "DRAFT"
    <3>1. c \notin Accounts
      BY <2>2, <1>1 DEF FrameOK, OwnFrame
    <3>2. Goto(c, "retryRead")
      BY <2>2, <3>1, AfterSendType DEF ReadTargets
    <3>. QED
      BY <3>1, <3>2, <1>1, GotoEffect DEF ReadTargets, IInv, TypeOK, Steps, SendSteps,
         FrameOK, OwnFrame, Succeeded, Published, CallbackSteps, RetrySteps, SameData
  <2>3. CASE call[c].acct \in Rows /\ call[c].status # "DRAFT"
    <3>1. PICK s \in {"publish", "mark"} : Goto(c, s)
      BY <2>3 DEF ReadTargets
    <3>. QED
      BY <3>1, <1>1, GotoEffect DEF ReadTargets, IInv, TypeOK, Steps, SendSteps,
         FrameOK, OwnFrame, Succeeded, Published, CallbackSteps, RetrySteps, SameData
  <2>. QED
    BY <2>1, <2>2, <2>3
<1>3. FrameInv'
  BY <1>2, OthersKept DEF ReadTargets
<1>. QED
  BY <1>2, <1>3 DEF ReadTargets, IInv, TypeOK, DraftInv, DoneWasPublished,
     CountedWasPublished, OnlyCall

LEMMA MarkPostingStep ==
  ASSUME IInv, NEW c \in Calls, MarkPosting(c) PROVE IInv'
<1>1. FrameOK(c) /\ call[c] \in Frame /\ call[c].pc = "mark"
  BY DEF IInv, FrameInv, TypeOK, MarkPosting
<1>2. OnlyCall(c) /\ FrameOK(c)'
  BY <1>1, GotoEffect DEF MarkPosting, IInv, TypeOK, Steps, SendSteps, FrameOK,
     OwnFrame, Succeeded, Published, CallbackSteps, RetrySteps, SameData
<1>3. FrameInv'
  BY <1>2, OthersKept DEF MarkPosting
<1>. QED
  BY <1>2, <1>3 DEF MarkPosting, IInv, TypeOK, DraftInv, DoneWasPublished,
     CountedWasPublished, OnlyCall, BasePost, PostStatus

LEMMA PublishAcceptedStep ==
  ASSUME IInv, NEW c \in Calls, PublishAccepted(c) PROVE IInv'
<1>1. FrameOK(c) /\ call[c] \in Frame /\ call[c].pc = "publish"
  BY DEF IInv, FrameInv, TypeOK, PublishAccepted
<1>2. call[c].acct \in Accounts
  BY <1>1 DEF FrameOK
<1>3. /\ accepted' \in [Accounts -> Nat]
      /\ accepted'[call[c].acct] > 0
      /\ \A a \in Accounts : accepted[a] > 0 => accepted'[a] > 0
  BY <1>2 DEF PublishAccepted, IInv, TypeOK
<1>4. PICK s \in {"setDone", "setFailed"} : Goto(c, s)
  BY DEF PublishAccepted
<1>5. OnlyCall(c) /\ SameData(c) /\ call'[c].pc = s /\ call'[c].ret = call[c].ret
  BY <1>4, GotoEffect DEF IInv, TypeOK, Steps, SendSteps
<1>6. FrameOK(c)'
  BY <1>1, <1>2, <1>3, <1>5 DEF PublishAccepted, FrameOK,
     OwnFrame, Succeeded, Published, CallbackSteps, RetrySteps, SameData
<1>7. FrameInv'
  BY <1>3, <1>5, <1>6, OthersKept DEF PublishAccepted
<1>. QED
  BY <1>3, <1>5, <1>7 DEF PublishAccepted, IInv, TypeOK, DraftInv, DoneWasPublished,
     CountedWasPublished, OnlyCall

LEMMA PublishRejectedStep ==
  ASSUME IInv, NEW c \in Calls, PublishRejected(c) PROVE IInv'
<1>1. FrameOK(c) /\ call[c] \in Frame /\ call[c].pc = "publish"
  BY DEF IInv, FrameInv, TypeOK, PublishRejected
<1>2. OnlyCall(c) /\ FrameOK(c)'
  BY <1>1, GotoEffect DEF PublishRejected, IInv, TypeOK, Steps, SendSteps, FrameOK,
     OwnFrame, Succeeded, Published, CallbackSteps, RetrySteps, SameData
<1>3. FrameInv'
  BY <1>2, OthersKept DEF PublishRejected
<1>. QED
  BY <1>2, <1>3 DEF PublishRejected, IInv, TypeOK, DraftInv, DoneWasPublished,
     CountedWasPublished, OnlyCall

\* A target row is written for an account of the request only, with a status
\* a target may have, and not DONE unless the account's platform accepted it.
LEMMA WithTargetEffect ==
  ASSUME IInv, NEW a \in Accounts, NEW s \in TargetStatus, target' = WithTarget(a, s),
         s = "DONE" => accepted[a] > 0, accepted' = accepted
  PROVE  target' \in [Accounts -> TargetStatus] /\ DoneWasPublished'
  BY DEF WithTarget, IInv, TypeOK, DoneWasPublished, Rows

LEMMA SetDoneStep ==
  ASSUME IInv, NEW c \in Calls, SetDone(c) PROVE IInv'
<1>1. FrameOK(c) /\ call[c] \in Frame /\ call[c].pc = "setDone"
  BY DEF IInv, FrameInv, TypeOK, SetDone
<1>2. OnlyCall(c) /\ FrameOK(c)'
  BY <1>1, CallbackEffect DEF SetDone, IInv, TypeOK, Returns, FrameOK,
     OwnFrame, Succeeded, Published, CallbackSteps, RetrySteps, SameData
<1>3. FrameInv'
  BY <1>2, OthersKept DEF SetDone
<1>4. target' \in [Accounts -> TargetStatus] /\ DoneWasPublished'
  BY <1>1, WithTargetEffect DEF SetDone, FrameOK, Succeeded, Published, TargetStatus
<1>. QED
  BY <1>2, <1>3, <1>4 DEF SetDone, IInv, TypeOK, DraftInv, CountedWasPublished, OnlyCall

LEMMA SetFailedStep ==
  ASSUME IInv, NEW c \in Calls, SetFailed(c) PROVE IInv'
<1>1. FrameOK(c) /\ call[c] \in Frame /\ call[c].pc = "setFailed"
  BY DEF IInv, FrameInv, TypeOK, SetFailed
<1>2. OnlyCall(c) /\ FrameOK(c)'
  BY <1>1, CallbackEffect DEF SetFailed, IInv, TypeOK, Returns, FrameOK,
     OwnFrame, Succeeded, Published, CallbackSteps, RetrySteps, SameData
<1>3. FrameInv'
  BY <1>2, OthersKept DEF SetFailed
<1>4. target' \in [Accounts -> TargetStatus] /\ DoneWasPublished'
  BY <1>1, WithTargetEffect DEF SetFailed, FrameOK, TargetStatus
<1>. QED
  BY <1>2, <1>3, <1>4 DEF SetFailed, IInv, TypeOK, DraftInv, CountedWasPublished, OnlyCall

LEMMA MarkErrorStep ==
  ASSUME IInv, NEW c \in Calls, MarkError(c) PROVE IInv'
<1>1. FrameOK(c) /\ call[c] \in Frame /\ call[c].pc = "errMark"
  BY DEF IInv, FrameInv, TypeOK, MarkError
<1>2. OnlyCall(c) /\ FrameOK(c)'
  <2>1. CASE c \in Accounts /\ ~IsJob(c)
    BY <2>1, <1>1, GotoEffect DEF MarkError, IInv, TypeOK, Steps, Ended, FrameOK,
       OwnFrame, Succeeded, Published, CallbackSteps, RetrySteps, SameData
  <2>2. CASE ~(c \in Accounts /\ ~IsJob(c))
    <3>1. PICK r \in {"worker", "retryErr"} :
            Callback(c, r) /\ (r = "retryErr" => c \notin Accounts)
      BY <2>2 DEF MarkError
    <3>. QED
      BY <3>1, <1>1, CallbackEffect DEF IInv, TypeOK, Returns, MarkError, FrameOK,
         OwnFrame, Succeeded, Published, CallbackSteps, RetrySteps, SameData
  <2>. QED
    BY <2>1, <2>2
<1>3. FrameInv'
  BY <1>2, OthersKept DEF MarkError
<1>4. target' \in [Accounts -> TargetStatus] /\ DoneWasPublished'
  BY <1>1, WithTargetEffect DEF MarkError, FrameOK, TargetStatus
<1>. QED
  BY <1>2, <1>3, <1>4 DEF MarkError, IInv, TypeOK, DraftInv, CountedWasPublished, OnlyCall

-----------------------------------------------------------------------------
(* checkAndUpdateBasePostStatus *)

LEMMA DecideType ==
  ASSUME NEW s
  PROVE  Decide(s) \in {"DONE", "PARTIALLY_DONE", "FAILED", "keep"}
  BY DEF Decide

\* The status callback of an account's own call ends the call, or goes on to
\* count its usage after a success; that of a retry stays within the retry.
LEMMA AfterCallbackType ==
  ASSUME NEW c \in Calls, call[c] \in Frame, FrameOK(c)
  PROVE  /\ AfterCallback(c) \in Steps \ CallbackSteps
         /\ AfterCallback(c) \notin {"setDone", "idle"}
         /\ AfterCallback(c) = "count" => call[c].ret = "sent"
         /\ c \in Accounts => AfterCallback(c) \notin RetrySteps
         /\ c \in Accounts /\ AfterCallback(c) = "resolved" => call[c].ret = "sent"
<1>1. call[c].ret \in Returns
  BY DEF Frame
<1>2. CASE call[c].ret = "sent"
  BY <1>2, AfterSendType DEF AfterCallback, Steps, SendSteps, Ended, CallbackSteps, RetrySteps
<1>3. CASE call[c].ret = "error"
  BY <1>3 DEF AfterCallback, Steps, SendSteps, CallbackSteps, RetrySteps
<1>4. CASE call[c].ret = "worker"
  BY <1>4 DEF AfterCallback, Steps, Ended, CallbackSteps, RetrySteps
<1>5. CASE call[c].ret \in {"retryOk", "retryErr"}
  BY <1>5 DEF AfterCallback, Steps, SendSteps, Ended, CallbackSteps, RetrySteps,
     FrameOK, OwnFrame
<1>. QED
  BY <1>1, <1>2, <1>3, <1>4, <1>5 DEF Returns

LEMMA CallbackReadPostStep ==
  ASSUME IInv, NEW c \in Calls, CallbackReadPost(c) PROVE IInv'
<1>. DEFINE f == [call[c] EXCEPT !.pc = "cbTargets", !.status = post.status,
                                 !.scheduled = post.scheduled]
<1>0. f \in Frame /\ call' = [call EXCEPT ![c] = f]
  <2>1. call[c] \in Frame /\ post.status \in PostStatus /\ post.scheduled \in BOOLEAN
    BY DEF IInv, TypeOK
  <2>. QED
    BY <2>1 DEF CallbackReadPost, Frame, Steps, SendSteps
<1>1. OnlyCall(c) /\ call'[c] = f
  BY <1>0 DEF IInv, TypeOK, OnlyCall
<1>2. FrameOK(c) /\ call[c] \in Frame /\ call[c].pc = "cbPost"
  BY DEF IInv, FrameInv, TypeOK, CallbackReadPost
<1>3. FrameOK(c)'
  BY <1>1, <1>2 DEF CallbackReadPost, IInv, DraftInv, FrameOK, OwnFrame, Succeeded,
     Published, CallbackSteps, RetrySteps, Frame
<1>4. FrameInv'
  BY <1>1, <1>3, OthersKept DEF CallbackReadPost
<1>. QED
  BY <1>1, <1>4 DEF CallbackReadPost, IInv, TypeOK, DraftInv, DoneWasPublished,
     CountedWasPublished, OnlyCall

LEMMA CallbackReadTargetsStep ==
  ASSUME IInv, NEW c \in Calls, CallbackReadTargets(c) PROVE IInv'
<1>. DEFINE next == Decide(call[c].status)
            step == IF next = "keep" THEN AfterCallback(c) ELSE "cbWrite"
            f == [call[c] EXCEPT !.pc = step, !.next = next, !.done = DoneTargets]
<1>1. FrameOK(c) /\ call[c] \in Frame /\ call[c].pc = "cbTargets"
  BY DEF IInv, FrameInv, TypeOK, CallbackReadTargets
<1>2. /\ next \in {"DONE", "PARTIALLY_DONE", "FAILED", "keep"}
      /\ step \in Steps \ {"setDone", "idle"}
      /\ c \in Accounts => step \notin RetrySteps
      /\ step = "count" => call[c].ret = "sent"
      /\ c \in Accounts /\ step = "resolved" => call[c].ret = "sent"
  BY <1>1, DecideType, AfterCallbackType DEF Steps, SendSteps, RetrySteps
<1>3. /\ DoneTargets \subseteq Accounts
      /\ \A a \in DoneTargets : Published(a)
  BY DEF DoneTargets, IInv, DoneWasPublished, Published
<1>. HIDE DEF next, step
<1>4. f \in Frame /\ call' = [call EXCEPT ![c] = f]
  BY <1>1, <1>2, <1>3 DEF CallbackReadTargets, Frame, PostStatus, next, step
<1>5. OnlyCall(c) /\ call'[c] = f
  BY <1>4 DEF IInv, TypeOK, OnlyCall
<1>6. FrameOK(c)'
  <2>1. /\ call'[c].pc = step /\ call'[c].next = next /\ call'[c].done = DoneTargets
        /\ call'[c].acct = call[c].acct /\ call'[c].ret = call[c].ret
        /\ call'[c].status = call[c].status
    BY <1>1, <1>5 DEF Frame
  <2>2. step = "cbWrite" => next # "keep"
    BY <1>1, AfterCallbackType DEF step, CallbackSteps
  <2>3. mode' = mode /\ accepted' = accepted
    BY DEF CallbackReadTargets
  <2>. QED
    BY <1>1, <1>2, <1>3, <2>1, <2>2, <2>3 DEF FrameOK, OwnFrame, Succeeded,
       Published, CallbackSteps, RetrySteps
<1>7. FrameInv'
  BY <1>5, <1>6, OthersKept DEF CallbackReadTargets
<1>. QED
  BY <1>5, <1>7 DEF CallbackReadTargets, IInv, TypeOK, DraftInv, DoneWasPublished,
     CountedWasPublished, OnlyCall

LEMMA CallbackWriteStep ==
  ASSUME IInv, NEW c \in Calls, CallbackWrite(c) PROVE IInv'
<1>1. FrameOK(c) /\ call[c] \in Frame /\ call[c].pc = "cbWrite"
  BY DEF IInv, FrameInv, TypeOK, CallbackWrite
<1>2. OnlyCall(c) /\ FrameOK(c)'
  <2>1. CASE Counts(c)
    BY <2>1, <1>1, GotoEffect DEF CallbackWrite, IInv, TypeOK, Steps, SendSteps, FrameOK,
       OwnFrame, Succeeded, Published, CallbackSteps, RetrySteps, SameData
  <2>2. CASE ~Counts(c)
    <3>1. Goto(c, AfterCallback(c))
      BY <2>2 DEF CallbackWrite
    <3>. QED
      BY <3>1, <1>1, AfterCallbackType, GotoEffect DEF CallbackWrite, IInv, TypeOK,
         FrameOK, OwnFrame, Succeeded, Published, CallbackSteps, RetrySteps, SameData
  <2>. QED
    BY <2>1, <2>2
<1>3. FrameInv'
  BY <1>2, OthersKept DEF CallbackWrite
<1>4. PICK s \in PostStatus \ {"DRAFT"} : post' = BasePost(s)
  BY <1>1 DEF CallbackWrite, FrameOK, Frame
<1>. QED
  BY <1>2, <1>3, <1>4 DEF CallbackWrite, IInv, TypeOK, DraftInv, DoneWasPublished,
     CountedWasPublished, OnlyCall, BasePost

LEMMA CallbackCountStep ==
  ASSUME IInv, NEW c \in Calls, CallbackCount(c) PROVE IInv'
<1>1. FrameOK(c) /\ call[c] \in Frame /\ call[c].pc = "cbCount"
  BY DEF IInv, FrameInv, TypeOK, CallbackCount
<1>2. OnlyCall(c) /\ FrameOK(c)'
  <2>1. Goto(c, AfterCallback(c))
    BY DEF CallbackCount
  <2>. QED
    BY <2>1, <1>1, AfterCallbackType, GotoEffect DEF CallbackCount, IInv, TypeOK,
       FrameOK, OwnFrame, Succeeded, Published, CallbackSteps, RetrySteps, SameData
<1>3. FrameInv'
  BY <1>2, OthersKept DEF CallbackCount
<1>4. sent' \in Nat
  <2>1. Cardinality(call[c].done) \in Nat
    BY <1>1, PublishingAssumption, FS_Subset, FS_CardinalityType DEF Frame
  <2>. QED
    BY <2>1 DEF CallbackCount, IInv, TypeOK
<1>5. rate' \in [Accounts -> Nat] /\ CountedWasPublished'
  BY <1>1 DEF CallbackCount, IInv, TypeOK, CountedWasPublished, FrameOK, Published
<1>. QED
  BY <1>2, <1>3, <1>4, <1>5 DEF CallbackCount, IInv, TypeOK, DraftInv,
     DoneWasPublished, OnlyCall

-----------------------------------------------------------------------------
(* The queue and the worker *)

LEMMA AddJobStep ==
  ASSUME IInv, NEW c \in Calls, AddJob(c) PROVE IInv'
<1>1. FrameOK(c) /\ call[c] \in Frame /\ call[c].pc = "adding"
  BY DEF IInv, FrameInv, TypeOK, AddJob
<1>2. PICK s \in {"queued", "lost"} : Goto(c, s)
  BY DEF AddJob
<1>3. OnlyCall(c) /\ FrameOK(c)'
  BY <1>1, <1>2, GotoEffect DEF AddJob, IInv, TypeOK, Steps, Ended, FrameOK,
     OwnFrame, Succeeded, Published, CallbackSteps, RetrySteps, SameData
<1>4. FrameInv'
  BY <1>3, OthersKept DEF AddJob
<1>. QED
  BY <1>3, <1>4 DEF AddJob, IInv, TypeOK, DraftInv, DoneWasPublished,
     CountedWasPublished, OnlyCall

LEMMA StartJobStep ==
  ASSUME IInv, NEW c \in Calls, StartJob(c) PROVE IInv'
<1>1. FrameOK(c) /\ call[c] \in Frame /\ call[c].pc = "queued"
  BY DEF IInv, FrameInv, TypeOK, StartJob
<1>2. OnlyCall(c) /\ FrameOK(c)'
  BY <1>1, GotoEffect DEF StartJob, IInv, TypeOK, Steps, SendSteps, FrameOK,
     OwnFrame, Succeeded, Published, CallbackSteps, RetrySteps, SameData
<1>3. FrameInv'
  BY <1>2, OthersKept DEF StartJob
<1>. QED
  BY <1>2, <1>3 DEF StartJob, IInv, TypeOK, DraftInv, DoneWasPublished,
     CountedWasPublished, OnlyCall

LEMMA PreflightStep ==
  ASSUME IInv, NEW c \in Calls, Preflight(c) PROVE IInv'
<1>1. FrameOK(c) /\ call[c] \in Frame /\ call[c].pc = "preflight"
  BY DEF IInv, FrameInv, TypeOK, Preflight
<1>2. OnlyCall(c) /\ FrameOK(c)'
  <2>1. CASE Goto(c, "readPost")
    BY <2>1, <1>1, GotoEffect DEF Preflight, IInv, TypeOK, Steps, SendSteps, FrameOK,
       OwnFrame, Succeeded, Published, CallbackSteps, RetrySteps, SameData
  <2>2. CASE Callback(c, "worker")
    BY <2>2, <1>1, CallbackEffect DEF Preflight, IInv, TypeOK, Returns, FrameOK,
       OwnFrame, Succeeded, Published, CallbackSteps, RetrySteps, SameData
  <2>. QED
    BY <2>1, <2>2 DEF Preflight
<1>3. FrameInv'
  BY <1>2, OthersKept DEF Preflight
<1>. QED
  BY <1>2, <1>3 DEF Preflight, IInv, TypeOK, DraftInv, DoneWasPublished,
     CountedWasPublished, OnlyCall

LEMMA CountUsageStep ==
  ASSUME IInv, NEW c \in Calls, CountUsage(c) PROVE IInv'
<1>1. FrameOK(c) /\ call[c] \in Frame /\ call[c].pc = "count"
  BY DEF IInv, FrameInv, TypeOK, CountUsage
<1>2. OnlyCall(c) /\ FrameOK(c)'
  BY <1>1, GotoEffect DEF CountUsage, IInv, TypeOK, Steps, Ended, FrameOK,
     OwnFrame, Succeeded, Published, CallbackSteps, RetrySteps, SameData
<1>3. FrameInv'
  BY <1>2, OthersKept DEF CountUsage
<1>4. rate' \in [Accounts -> Nat] /\ CountedWasPublished'
  BY <1>1 DEF CountUsage, IInv, TypeOK, CountedWasPublished, FrameOK, Succeeded, Published
<1>. QED
  BY <1>2, <1>3, <1>4 DEF CountUsage, IInv, TypeOK, DraftInv, DoneWasPublished, OnlyCall

LEMMA StallStep ==
  ASSUME IInv, NEW c \in Accounts, Stall(c) PROVE IInv'
<1>. DEFINE step == IF c \in stalled THEN "failed" ELSE "queued"
            f == [IdleFrame(c) EXCEPT !.pc = step]
<1>1. c \in Calls /\ FrameOK(c) /\ mode = "scheduled"
  BY DEF IInv, FrameInv, Calls, Stall, IsJob
<1>2. f \in Frame /\ call' = [call EXCEPT ![c] = f]
  BY DEF Stall, IdleFrame, Frame, Steps, Ended, Returns, PostStatus
<1>3. OnlyCall(c) /\ call'[c] = f
  BY <1>1, <1>2 DEF IInv, TypeOK, OnlyCall
<1>4. FrameOK(c)'
  BY <1>1, <1>3 DEF Stall, IdleFrame, FrameOK, OwnFrame, Succeeded,
     Published, CallbackSteps, RetrySteps
<1>5. FrameInv'
  BY <1>1, <1>3, <1>4, OthersKept DEF Stall
<1>. QED
  BY <1>3, <1>5 DEF Stall, IInv, TypeOK, DraftInv, DoneWasPublished,
     CountedWasPublished, OnlyCall

-----------------------------------------------------------------------------
(* retryPostTarget *)

LEMMA RetrySelectStep ==
  ASSUME IInv, NEW r \in Retries, NEW a \in Accounts, RetrySelect(r, a) PROVE IInv'
<1>. DEFINE f == [call[r] EXCEPT !.pc = "retryUpdate", !.acct = a]
<1>1. r \in Calls /\ r \notin Accounts
  BY PublishingAssumption DEF Calls
<1>2. FrameOK(r) /\ call[r] \in Frame /\ call[r].pc = "idle"
  BY <1>1 DEF IInv, FrameInv, TypeOK, RetrySelect
<1>3. f \in Frame /\ call' = [call EXCEPT ![r] = f]
  BY <1>2 DEF RetrySelect, Frame, Steps, SendSteps
<1>4. OnlyCall(r) /\ call'[r] = f
  BY <1>1, <1>3 DEF IInv, TypeOK, OnlyCall
<1>5. FrameOK(r)'
  BY <1>1, <1>2, <1>4 DEF RetrySelect, FrameOK, Succeeded, Published, CallbackSteps, Frame
<1>6. FrameInv'
  BY <1>1, <1>4, <1>5, OthersKept DEF RetrySelect
<1>. QED
  BY <1>4, <1>6 DEF RetrySelect, IInv, TypeOK, DraftInv, DoneWasPublished,
     CountedWasPublished, OnlyCall

LEMMA RetryRefusedStep ==
  ASSUME IInv, NEW r \in Retries, NEW a \in Accounts, RetryRefused(r, a) PROVE IInv'
<1>. DEFINE f == [call[r] EXCEPT !.pc = "cbPost", !.ret = "retryErr", !.acct = a]
<1>1. r \in Calls /\ r \notin Accounts
  BY PublishingAssumption DEF Calls
<1>2. FrameOK(r) /\ call[r] \in Frame /\ call[r].pc = "idle"
  BY <1>1 DEF IInv, FrameInv, TypeOK, RetryRefused
<1>3. f \in Frame /\ call' = [call EXCEPT ![r] = f]
  BY <1>2 DEF RetryRefused, Frame, Steps, SendSteps, Returns
<1>4. OnlyCall(r) /\ call'[r] = f
  BY <1>1, <1>3 DEF IInv, TypeOK, OnlyCall
<1>5. FrameOK(r)'
  BY <1>1, <1>2, <1>4 DEF RetryRefused, FrameOK, Succeeded, Published, CallbackSteps, Frame
<1>6. FrameInv'
  BY <1>1, <1>4, <1>5, OthersKept DEF RetryRefused
<1>. QED
  BY <1>4, <1>6 DEF RetryRefused, IInv, TypeOK, DraftInv, DoneWasPublished,
     CountedWasPublished, OnlyCall

LEMMA RetryUpdateStep ==
  ASSUME IInv, NEW c \in Calls, RetryUpdate(c) PROVE IInv'
<1>1. FrameOK(c) /\ call[c] \in Frame /\ call[c].pc = "retryUpdate"
  BY DEF IInv, FrameInv, TypeOK, RetryUpdate
<1>2. OnlyCall(c) /\ FrameOK(c)'
  BY <1>1, GotoEffect DEF RetryUpdate, IInv, TypeOK, Steps, SendSteps, FrameOK,
     OwnFrame, Succeeded, Published, CallbackSteps, RetrySteps, SameData
<1>3. FrameInv'
  BY <1>2, OthersKept DEF RetryUpdate
<1>4. target' \in [Accounts -> TargetStatus] /\ DoneWasPublished'
  BY <1>1, WithTargetEffect DEF RetryUpdate, FrameOK, TargetStatus
<1>. QED
  BY <1>2, <1>3, <1>4 DEF RetryUpdate, IInv, TypeOK, DraftInv, CountedWasPublished,
     OnlyCall

LEMMA RetryReadStep ==
  ASSUME IInv, NEW c \in Calls, RetryRead(c) PROVE IInv'
<1>1. /\ FrameOK(c) /\ call[c] \in Frame /\ call[c].pc = "retryRead"
      /\ c \notin Accounts
  BY DEF IInv, FrameInv, TypeOK, RetryRead, FrameOK, OwnFrame, RetrySteps
<1>2. OnlyCall(c) /\ FrameOK(c)'
  BY <1>1, CallbackEffect DEF RetryRead, IInv, TypeOK, Returns, FrameOK,
     OwnFrame, Succeeded, Published, CallbackSteps, RetrySteps, SameData
<1>3. FrameInv'
  BY <1>2, OthersKept DEF RetryRead
<1>. DEFINE n == IF target[call[c].acct] = "DONE" THEN 1 ELSE 0
<1>4. /\ n \in {0, 1}
      /\ sent' = sent + n
      /\ rate' = [rate EXCEPT ![call[c].acct] = @ + n]
      /\ n = 1 => target[call[c].acct] = "DONE"
  BY DEF RetryRead
<1>. HIDE DEF n
<1>5. /\ sent' \in Nat /\ rate' \in [Accounts -> Nat]
      /\ CountedWasPublished'
  <2>1. PICK a \in Accounts : a = call[c].acct
    BY <1>1 DEF FrameOK
  <2>2. /\ sent \in Nat /\ rate \in [Accounts -> Nat]
        /\ \A b \in Accounts : rate[b] > 0 => accepted[b] > 0
        /\ n = 1 => accepted[a] > 0
    BY <1>4, <2>1 DEF IInv, TypeOK, DoneWasPublished, CountedWasPublished
  <2>3. sent' \in Nat /\ rate' \in [Accounts -> Nat]
    BY <1>4, <2>1, <2>2
  <2>4. \A b \in Accounts : rate'[b] = IF b = a THEN rate[b] + n ELSE rate[b]
    BY <1>4, <2>1, <2>2
  <2>5. accepted' = accepted
    BY DEF RetryRead
  <2>6. \A b \in Accounts : rate'[b] > 0 => accepted'[b] > 0
    BY <1>4, <2>2, <2>4, <2>5
  <2>. QED
    BY <2>3, <2>6 DEF CountedWasPublished
<1>. QED
  BY <1>2, <1>3, <1>5 DEF RetryRead, IInv, TypeOK, DraftInv, DoneWasPublished, OnlyCall

LEMMA RetryMarkStep ==
  ASSUME IInv, NEW c \in Calls, RetryMark(c) PROVE IInv'
<1>1. FrameOK(c) /\ call[c] \in Frame /\ call[c].pc = "retryMark"
  BY DEF IInv, FrameInv, TypeOK, RetryMark
<1>2. OnlyCall(c) /\ FrameOK(c)'
  BY <1>1, GotoEffect DEF RetryMark, IInv, TypeOK, Steps, Ended, FrameOK,
     OwnFrame, Succeeded, Published, CallbackSteps, RetrySteps, SameData
<1>3. FrameInv'
  BY <1>2, OthersKept DEF RetryMark
<1>4. target' \in [Accounts -> TargetStatus] /\ DoneWasPublished'
  BY <1>1, WithTargetEffect DEF RetryMark, FrameOK, TargetStatus
<1>. QED
  BY <1>2, <1>3, <1>4 DEF RetryMark, IInv, TypeOK, DraftInv, CountedWasPublished,
     OnlyCall

-----------------------------------------------------------------------------
(* createPost *)

\* The steps of createPost that touch no call leave the frames as they are.
LEMMA FramesKept ==
  ASSUME IInv, call' = call, mode' = mode, accepted' = accepted
  PROVE  FrameInv'
  BY DEF IInv, FrameInv, FrameOK, OwnFrame, Succeeded, Published

LEMMA CreateBasePostStep ==
  ASSUME IInv, CreateBasePost PROVE IInv'
<1>1. /\ post' \in [status : PostStatus, scheduled : BOOLEAN]
      /\ post'.status = "DRAFT" => mode = "draft"
  <2>1. PICK s \in InitialStatus, t \in BOOLEAN :
          post' = [status |-> s, scheduled |-> t]
    BY DEF CreateBasePost
  <2>2. s \in {"DRAFT", "PENDING", "POSTING"} /\ (s = "DRAFT" => mode = "draft")
    BY PublishingAssumption DEF InitialStatus, IInv, TypeOK
  <2>. QED
    BY <2>1, <2>2 DEF PostStatus
<1>2. UNCHANGED <<mode, call, accepted>>
  BY DEF CreateBasePost
<1>3. FrameInv'
  BY <1>2, FramesKept
<1>. QED
  BY <1>1, <1>3 DEF CreateBasePost, IInv, TypeOK, DraftInv, DoneWasPublished,
     CountedWasPublished, CreateSteps

\* createPost starts the call of every account at the same step.
LEMMA StartAll ==
  ASSUME IInv, NEW s \in {"adding", "readPost"}, mode # "draft",
         mode' = mode, accepted' = accepted,
         call' = [c \in Calls |-> IF c \in Accounts THEN [call[c] EXCEPT !.pc = s]
                                                    ELSE call[c]]
  PROVE  call' \in [Calls -> Frame] /\ FrameInv'
<1>1. ASSUME NEW c \in Calls PROVE call'[c] \in Frame /\ FrameOK(c)'
  <2>1. FrameOK(c) /\ call[c] \in Frame
    BY DEF IInv, FrameInv, TypeOK
  <2>2. CASE c \in Accounts
    <3>1. call'[c] = [call[c] EXCEPT !.pc = s]
      BY <2>2, <1>1
    <3>. QED
      BY <2>1, <2>2, <3>1 DEF FrameOK, OwnFrame, Succeeded, Published, CallbackSteps,
         RetrySteps, Frame, Steps, SendSteps
  <2>3. CASE c \notin Accounts
    <3>1. call'[c] = call[c]
      BY <2>3, <1>1
    <3>. QED
      BY <2>1, <2>3, <3>1 DEF FrameOK, OwnFrame, Succeeded, Published
  <2>. QED
    BY <2>2, <2>3
<1>. QED
  BY <1>1 DEF FrameInv

LEMMA FireSchedulesStep ==
  ASSUME IInv, FireSchedules PROVE IInv'
<1>1. call' \in [Calls -> Frame] /\ FrameInv'
  <2>1. CASE mode = "scheduled"
    BY <2>1, StartAll DEF FireSchedules
  <2>2. CASE mode # "scheduled"
    BY <2>2 DEF FireSchedules, IInv, TypeOK, FrameInv, FrameOK, OwnFrame, Succeeded,
       Published
  <2>. QED
    BY <2>1, <2>2
<1>. QED
  BY <1>1 DEF FireSchedules, IInv, TypeOK, DraftInv, DoneWasPublished,
     CountedWasPublished, CreateSteps

LEMMA StartSendsStep ==
  ASSUME IInv, StartSends PROVE IInv'
<1>1. call' \in [Calls -> Frame] /\ FrameInv'
  BY StartAll DEF StartSends
<1>. QED
  BY <1>1 DEF StartSends, IInv, TypeOK, DraftInv, DoneWasPublished,
     CountedWasPublished, CreateSteps

LEMMA CreatePostTargetsStep ==
  ASSUME IInv, CreatePostTargets PROVE IInv'
  BY FramesKept DEF CreatePostTargets, IInv, TypeOK, DraftInv, DoneWasPublished,
     CountedWasPublished, CreateSteps, TargetStatus

LEMMA WaitStep ==
  ASSUME IInv, ReserveSlots \/ CreateThrows \/ AwaitSends PROVE IInv'
  BY FramesKept DEF ReserveSlots, CreateThrows, AwaitSends, IInv, TypeOK, DraftInv,
     DoneWasPublished, CountedWasPublished, CreateSteps

LEMMA MarkFailuresStep ==
  ASSUME IInv, MarkFailures PROVE IInv'
  BY FramesKept DEF MarkFailures, IInv, TypeOK, DraftInv, DoneWasPublished,
     CountedWasPublished, CreateSteps, TargetStatus

\* A send that resolved was accepted by its platform.
LEMMA ResolvedPublished ==
  ASSUME IInv PROVE Resolved \subseteq Accounts /\ \A a \in Resolved : accepted[a] > 0
  BY DEF IInv, FrameInv, FrameOK, OwnFrame, Succeeded, Published, Resolved, Calls

LEMMA MarkSuccessesStep ==
  ASSUME IInv, MarkSuccesses PROVE IInv'
  BY FramesKept, ResolvedPublished DEF MarkSuccesses, IInv, TypeOK, DraftInv,
     DoneWasPublished, CountedWasPublished, CreateSteps, TargetStatus

LEMMA FinishBasePostStep ==
  ASSUME IInv, FinishBasePost PROVE IInv'
<1>1. PICK s \in PostStatus \ {"DRAFT"} : post' = BasePost(s)
  BY DEF FinishBasePost, PostStatus
<1>. QED
  BY <1>1, FramesKept DEF FinishBasePost, IInv, TypeOK, DraftInv, DoneWasPublished,
     CountedWasPublished, CreateSteps, BasePost

LEMMA CountSuccessesStep ==
  ASSUME IInv, CountSuccesses PROVE IInv'
<1>1. sent' \in Nat
  <2>1. Cardinality(Resolved) \in Nat
    BY ResolvedPublished, PublishingAssumption, FS_Subset, FS_CardinalityType
  <2>. QED
    BY <2>1 DEF CountSuccesses, IInv, TypeOK
<1>2. rate' \in [Accounts -> Nat] /\ CountedWasPublished'
  BY ResolvedPublished DEF CountSuccesses, IInv, TypeOK, CountedWasPublished
<1>. QED
  BY <1>1, <1>2, FramesKept DEF CountSuccesses, IInv, TypeOK, DraftInv,
     DoneWasPublished, CreateSteps

-----------------------------------------------------------------------------
(* The theorems *)

LEMMA InitIInv == Init => IInv
<1>. SUFFICES ASSUME Init PROVE IInv
  OBVIOUS
<1>1. \A c \in Calls : call[c] = IdleFrame(c)
  BY DEF Init
<1>2. \A c \in Calls : IdleFrame(c) \in Frame
  BY DEF IdleFrame, Frame, Steps, Ended, Returns, PostStatus
<1>3. ASSUME NEW c \in Calls PROVE FrameOK(c)
  <2>0. call[c] = IdleFrame(c)
    BY <1>1
  <2>1. /\ call[c].pc = "idle" /\ call[c].ret = "sent" /\ call[c].status = "none"
        /\ call[c].next = "keep" /\ call[c].done = {}
        /\ c \in Accounts => call[c].acct = c
    BY <2>0 DEF IdleFrame
  <2>. QED
    BY <2>1 DEF FrameOK, OwnFrame, Succeeded, Published, CallbackSteps, RetrySteps
<1>4. TypeOK
  BY <1>2 DEF Init, TypeOK, CreateSteps, PostStatus, TargetStatus
<1>. QED
  BY <1>3, <1>4 DEF Init, IInv, FrameInv, DraftInv, DoneWasPublished, CountedWasPublished

LEMMA NextIInv == IInv /\ [Next]_vars => IInv'
<1>. SUFFICES ASSUME IInv, [Next]_vars PROVE IInv'
  OBVIOUS
<1>1. CASE CreateBasePost
  BY <1>1, CreateBasePostStep
<1>2. CASE CreateStep
  BY <1>2, FireSchedulesStep, CreatePostTargetsStep, WaitStep, StartSendsStep,
     MarkFailuresStep, MarkSuccessesStep, FinishBasePostStep, CountSuccessesStep
     DEF CreateStep
<1>3. ASSUME NEW c \in Calls, SendStep(c) PROVE IInv'
  BY <1>3, ReadPostStep, ReadTargetsStep, MarkPostingStep, PublishAcceptedStep,
     PublishRejectedStep, SetDoneStep, SetFailedStep, MarkErrorStep DEF SendStep
<1>4. ASSUME NEW c \in Calls, CallbackStep(c) PROVE IInv'
  BY <1>4, CallbackReadPostStep, CallbackReadTargetsStep, CallbackWriteStep,
     CallbackCountStep DEF CallbackStep
<1>5. ASSUME NEW c \in Calls, JobStep(c) PROVE IInv'
  BY <1>5, AddJobStep, StartJobStep, PreflightStep, CountUsageStep DEF JobStep
<1>6. ASSUME NEW c \in Calls, RetryStep(c) PROVE IInv'
  BY <1>6, RetryUpdateStep, RetryReadStep, RetryMarkStep DEF RetryStep
<1>7. ASSUME NEW c \in Accounts, Stall(c) PROVE IInv'
  BY <1>7, StallStep
<1>8. ASSUME NEW r \in Retries, RetryRequest(r) PROVE IInv'
  BY <1>8, RetrySelectStep, RetryRefusedStep DEF RetryRequest
<1>9. CASE UNCHANGED vars
  BY <1>9, FramesKept DEF vars, IInv, TypeOK, DraftInv, DoneWasPublished,
     CountedWasPublished
<1>. QED
  BY <1>1, <1>2, <1>3, <1>4, <1>5, <1>6, <1>7, <1>8, <1>9 DEF Next, CallStep

LEMMA Invariance == Spec => []IInv
  BY InitIInv, NextIInv, PTL DEF Spec

(* Every variable keeps its type: among others no callback writes a base   *)
(* post status it has not derived, and no handler acts for an account the  *)
(* request does not name (post, target, call of the publishing path).      *)
THEOREM TypeCorrect == Spec => []TypeOK
<1>1. IInv => TypeOK
  BY DEF IInv
<1>. QED
  BY <1>1, Invariance, PTL

(* Whatever workers, retries and faults do, and for any number of accounts *)
(* and retries, a target is stored DONE only if its platform accepted it   *)
(* (the publishers' updatePostTarget and createPost's settling).           *)
THEOREM DoneMeansPublished == Spec => []DoneWasPublished
<1>1. IInv => DoneWasPublished
  BY DEF IInv
<1>. QED
  BY <1>1, Invariance, PTL

(* Likewise usage is counted only for accounts whose platform accepted the *)
(* post, however stale the rows a callback counts from                     *)
(* (checkAndUpdateBasePostStatus, handleJob, createPost, retryPostTarget). *)
THEOREM CountedMeansPublished == Spec => []CountedWasPublished
<1>1. IInv => CountedWasPublished
  BY DEF IInv
<1>. QED
  BY <1>1, Invariance, PTL

-----------------------------------------------------------------------------
(* Without lost replies and overlapping retries *)

\* A reply that is lost or a retry that overlaps makes the path publish what
\* it has already published: the theorems below are about the rest.
Orderly == Faults \cap {"lostReply", "hastyRetry", "staleRetry"} = {}

Calm == Orderly /\ Faults \cap {"stall", "stallTwice"} = {}

Active(c) == call[c].pc \notin Ended

BeforePublish ==
    {"adding", "queued", "preflight", "readPost", "readTargets", "mark", "publish"}

InCallback(c, rets) == call[c].pc \in CallbackSteps /\ call[c].ret \in rets

InError(c) ==
    call[c].pc \in {"setFailed", "errMark"} \/ InCallback(c, {"error", "worker"})

InRetryError(c) == call[c].pc = "retryMark" \/ InCallback(c, {"retryErr"})

CreateSettles == create \in {"await", "markFailed", "markDone", "base"}

Unpublished(a) == target[a] \in {"none", "PENDING"}

\* A worker's death leaves at most one publication unaccounted for.
Extra(a) == IF a \in stalled THEN 1 ELSE 0

\* What a frame knows of the target it acts for.
CopyFrame(c) ==
    LET a == call[c].acct IN
    /\ call[c].pc \in BeforePublish =>
          /\ accepted[a] <= Extra(a)
          /\ (target[a] = "FAILED" => accepted[a] < Extra(a))
    /\ call[c].pc \in {"mark", "publish", "setDone", "setFailed"} => target[a] # "none"
    /\ call[c].pc = "retryUpdate" => target[a] = "FAILED"
    /\ InError(c) => accepted[a] <= Extra(a)
    /\ InRetryError(c) => target[a] = "FAILED"
    /\ InCallback(c, {"sent"}) => target[a] = "DONE"

\* An account's own call is idle until createPost starts it, and never again;
\* what it returned is what createPost settles the target with.
OwnCall(c) ==
    /\ call[c].pc = "idle" => accepted[c] = 0 /\ Unpublished(c)
    /\ CreateSettles /\ call[c].pc = "rejected" => target[c] = "FAILED"
    /\ CreateSettles /\ call[c].pc = "resolved" => target[c] = "DONE"

\* createPost starts the own calls, and those of an immediate post run while
\* it waits for them.
Started(a) ==
    /\ create \in {"start", "media"} => call[a].pc = "idle"
    /\ mode = "now" =>
          /\ create \in {"targets", "check", "failed"} => call[a].pc = "idle"
          /\ create \in {"markFailed", "markDone", "base", "count", "done"} =>
                call[a].pc \in {"resolved", "rejected"}

\* A retry acts alone, for a target whose own call has been started.
RetryCall(r) ==
    /\ Active(r) =>
          create \in {"done", "failed"} /\ \A c \in Calls \ {r} : ~Active(c)
    /\ call[r].pc # "idle" => call[call[r].acct].pc # "idle" /\ target[call[r].acct] # "none"

CopiesAt(a) ==
    /\ accepted[a] <= 1 + Extra(a)
    /\ target[a] = "FAILED" => accepted[a] <= Extra(a)

\* The targets of the post are inserted together.
TargetsInserted ==
    /\ create \in {"start", "media", "targets"} => Rows = {}
    /\ create \in {"check", "done"} \/ create = "count" \/ CreateSettles => Rows = Accounts
    /\ Rows = {} \/ Rows = Accounts

CopyInv ==
    /\ \A c \in Calls : CopyFrame(c)
    /\ \A a \in Accounts : OwnCall(a) /\ Started(a) /\ CopiesAt(a)
    /\ \A r \in Retries : RetryCall(r)
    /\ TargetsInserted
    /\ Calm => stalled = {}

-----------------------------------------------------------------------------
(* CopyInv is inductive *)

\* A call that runs shares its target with no other call that runs.
LEMMA RunsAlone ==
  ASSUME IInv, CopyInv, NEW c \in Calls, Active(c), NEW d \in Calls \ {c}, Active(d)
  PROVE  /\ c \in Accounts /\ d \in Accounts
         /\ call[c].acct = c /\ call[d].acct = d
  BY DEF IInv, FrameInv, FrameOK, OwnFrame, CopyInv, RetryCall, Calls

LEMMA ActiveAccount ==
  ASSUME IInv, NEW c \in Calls, Active(c)
  PROVE  call[c].acct \in Accounts
  BY DEF IInv, FrameInv, FrameOK, Active, Ended

\* A step of one call changes the target it acts for only, so that the other
\* frames keep what they know.
LEMMA OtherCopies ==
  ASSUME IInv, CopyInv, NEW c \in Calls, Active(c), OnlyCall(c),
         call'[c].acct = call[c].acct, call'[c].pc # "idle", UNCHANGED <<create, mode>>,
         stalled \subseteq stalled', Calm => stalled' = {},
         \A a \in Accounts \ {call[c].acct} :
            /\ target'[a] = target[a] /\ accepted'[a] = accepted[a]
            /\ a \in stalled' <=> a \in stalled,
         target'[call[c].acct] = "none" <=> target[call[c].acct] = "none",
         CopyFrame(c)', c \in Accounts => OwnCall(c)', CopiesAt(call[c].acct)'
  PROVE  CopyInv'
<1>. DEFINE a == call[c].acct
<1>0. a \in Accounts
  BY ActiveAccount
<1>1. ASSUME NEW d \in Calls, d # c PROVE CopyFrame(d)'
  <2>1. call'[d] = call[d] /\ CopyFrame(d)
    BY <1>1 DEF OnlyCall, CopyInv
  <2>2. CASE Active(d)
    <3>1. call[d].acct \in Accounts \ {a}
      BY <2>2, <1>1, RunsAlone DEF Calls
    <3>. QED
      BY <2>1, <3>1 DEF CopyFrame, Extra, InError, InRetryError, InCallback
  <2>3. CASE ~Active(d)
    BY <2>1, <2>3 DEF CopyFrame, Active, Ended, BeforePublish, InError, InRetryError,
       InCallback, CallbackSteps
  <2>. QED
    BY <2>2, <2>3
<1>2. ASSUME NEW b \in Accounts, b # c PROVE OwnCall(b)'
  <2>1. b \in Calls /\ call'[b] = call[b] /\ OwnCall(b)
    BY <1>2 DEF OnlyCall, CopyInv, Calls
  <2>2. CASE c \in Accounts
    <3>1. b # a
      BY <2>2, <1>2 DEF IInv, FrameInv, FrameOK, OwnFrame
    <3>. QED
      BY <2>1, <3>1 DEF OwnCall, Unpublished, CreateSettles
  <2>3. CASE c \in Retries
    <3>1. create \in {"done", "failed"} /\ call[a].pc # "idle"
      BY <2>3 DEF CopyInv, RetryCall, Active, Ended
    <3>2. b = a => call'[b].pc # "idle"
      BY <2>1, <3>1
    <3>3. b # a => target'[b] = target[b] /\ accepted'[b] = accepted[b]
      OBVIOUS
    <3>. QED
      BY <2>1, <3>1, <3>2, <3>3 DEF OwnCall, Unpublished, CreateSettles
  <2>. QED
    BY <2>2, <2>3 DEF Calls
<1>3. ASSUME NEW b \in Accounts PROVE CopiesAt(b)' /\ Started(b)'
  <2>1. CopiesAt(b)'
    BY DEF CopyInv, CopiesAt, Extra
  <2>2. Started(b) /\ (b # c => call'[b] = call[b])
    BY DEF CopyInv, OnlyCall, Calls
  <2>. QED
    BY <2>1, <2>2 DEF Started, Active, Ended
<1>4. ASSUME NEW r \in Retries PROVE RetryCall(r)'
  <2>1. RetryCall(r) /\ r \in Calls
    BY DEF CopyInv, Calls
  <2>2. Active(r)' => create \in {"done", "failed"} /\ \A d \in Calls \ {r} : ~Active(d)'
    <3>1. CASE r = c
      BY <2>1, <3>1 DEF RetryCall, OnlyCall, Active
    <3>2. CASE r # c
      BY <2>1, <3>2 DEF RetryCall, OnlyCall, Active
    <3>. QED
      BY <3>1, <3>2
  <2>3. ASSUME call'[r].pc # "idle"
        PROVE  /\ call'[call'[r].acct].pc # "idle"
               /\ target'[call'[r].acct] # "none"
    <3>1. call[r].pc # "idle" /\ call'[r].acct = call[r].acct
      BY <2>1, <2>3 DEF OnlyCall, Active, Ended
    <3>2. call[r].acct \in Accounts
      BY <2>1, <3>1 DEF IInv, FrameInv, FrameOK
    <3>3. call[call[r].acct].pc # "idle" /\ target[call[r].acct] # "none"
      BY <2>1, <3>1 DEF RetryCall
    <3>4. call'[call[r].acct].pc # "idle"
      BY <3>2, <3>3 DEF OnlyCall, Calls
    <3>. QED
      BY <3>1, <3>2, <3>3, <3>4
  <2>. QED
    BY <2>2, <2>3 DEF RetryCall
<1>5. TargetsInserted'
  <2>1. Rows' = Rows
    BY DEF Rows
  <2>. QED
    BY <2>1 DEF CopyInv, TargetsInserted, CreateSettles
<1>. QED
  BY <1>1, <1>2, <1>3, <1>4, <1>5 DEF CopyInv

\* What a step that changes no target may make of a frame.
Proceeds(c) ==
    /\ call'[c].pc \notin {"idle", "retryUpdate", "rejected"}
    /\ call'[c].pc \in BeforePublish => call[c].pc \in BeforePublish
    /\ call'[c].pc \in {"mark", "publish", "setDone", "setFailed"} =>
          target[call[c].acct] # "none"
    /\ InError(c)' => InError(c) \/ call[c].pc \in BeforePublish
    /\ InRetryError(c)' => InRetryError(c)
    /\ InCallback(c, {"sent"})' => InCallback(c, {"sent"})
    /\ c \in Accounts /\ call'[c].pc = "resolved" => InCallback(c, {"sent"})

LEMMA ProceedsKeepsCopies ==
  ASSUME IInv, CopyInv, NEW c \in Calls, Active(c), OnlyCall(c),
         call'[c].acct = call[c].acct, Proceeds(c),
         UNCHANGED <<create, mode, target, stalled, accepted>>
  PROVE  CopyInv'
<1>0. call[c].acct \in Accounts /\ CopyFrame(c) /\ CopiesAt(call[c].acct)
  BY ActiveAccount DEF CopyInv
<1>1. CopyFrame(c)'
  BY <1>0 DEF CopyFrame, Proceeds, Extra
<1>2. c \in Accounts => OwnCall(c)'
  <2>. SUFFICES ASSUME c \in Accounts PROVE OwnCall(c)'
    OBVIOUS
  <2>1. call[c].acct = c /\ OwnCall(c)
    BY DEF IInv, FrameInv, FrameOK, OwnFrame, CopyInv
  <2>. QED
    BY <1>0, <2>1 DEF OwnCall, Proceeds, CopyFrame, CreateSettles
<1>3. CopiesAt(call[c].acct)'
  BY <1>0 DEF CopiesAt, Extra
<1>4. Calm => stalled' = {}
  BY DEF CopyInv
<1>. QED
  BY <1>1, <1>2, <1>3, <1>4, OtherCopies DEF Proceeds

\* The status callback returns to the steps that follow it.
LEMMA CallbackReturns ==
  ASSUME IInv, NEW c \in Calls, call[c].pc \in CallbackSteps,
         call'[c].pc = AfterCallback(c), call'[c].ret = call[c].ret
  PROVE  Proceeds(c)
<1>1. FrameOK(c) /\ call[c] \in Frame
  BY DEF IInv, FrameInv, TypeOK
<1>2. call[c].ret \in Returns
  BY <1>1 DEF Frame
<1>. USE DEF Proceeds, InError, InRetryError, InCallback, CallbackSteps, BeforePublish
<1>3. CASE call[c].ret = "sent"
  BY <1>3, AfterSendType DEF AfterCallback
<1>4. CASE call[c].ret = "error"
  BY <1>4 DEF AfterCallback
<1>5. CASE call[c].ret = "worker"
  BY <1>5 DEF AfterCallback
<1>6. CASE call[c].ret \in {"retryOk", "retryErr"}
  BY <1>1, <1>6 DEF AfterCallback, FrameOK, OwnFrame
<1>. QED
  BY <1>2, <1>3, <1>4, <1>5, <1>6 DEF Returns

LEMMA CallbackContinues ==
  ASSUME NEW c \in Calls, call[c].pc \in CallbackSteps,
         call'[c].pc \in CallbackSteps, call'[c].ret = call[c].ret
  PROVE  Proceeds(c)
  BY DEF Proceeds, InError, InRetryError, InCallback, CallbackSteps, BeforePublish

\* What the callback's steps do to the frame.
LEMMA CallbackFrame ==
  ASSUME IInv, NEW c \in Calls, CallbackStep(c)
  PROVE  /\ OnlyCall(c) /\ Active(c) /\ call[c].pc \in CallbackSteps
         /\ call'[c].acct = call[c].acct /\ call'[c].ret = call[c].ret
         /\ call'[c].pc \in CallbackSteps \/ call'[c].pc = AfterCallback(c)
         /\ UNCHANGED <<create, mode, target, stalled, accepted>>
<1>0. IInv' /\ call[c] \in Frame /\ FrameOK(c) /\ call \in [Calls -> Frame]
  BY CallbackReadPostStep, CallbackReadTargetsStep, CallbackWriteStep, CallbackCountStep
     DEF CallbackStep, IInv, TypeOK, FrameInv
<1>1. call' \in [Calls -> Frame]
  BY <1>0 DEF IInv, TypeOK
<1>. USE DEF CallbackSteps, Active, Ended, OnlyCall
<1>2. CASE CallbackReadPost(c)
  BY <1>0, <1>1, <1>2 DEF CallbackReadPost, Frame
<1>3. CASE CallbackReadTargets(c)
  BY <1>0, <1>1, <1>3 DEF CallbackReadTargets, Frame
<1>4. CASE CallbackWrite(c)
  BY <1>0, <1>1, <1>4 DEF CallbackWrite, Goto, Frame
<1>5. CASE CallbackCount(c)
  BY <1>0, <1>1, <1>5 DEF CallbackCount, Goto, Frame
<1>. QED
  BY <1>2, <1>3, <1>4, <1>5 DEF CallbackStep

LEMMA CallbackCopies ==
  ASSUME IInv, CopyInv, NEW c \in Calls, CallbackStep(c) PROVE CopyInv'
  BY CallbackFrame, CallbackReturns, CallbackContinues, ProceedsKeepsCopies

\* Steps of a job and of sendPost that change no target.
LEMMA JobCopies ==
  ASSUME IInv, CopyInv, NEW c \in Calls, JobStep(c) PROVE CopyInv'
<1>0. call[c] \in Frame /\ FrameOK(c) /\ call \in [Calls -> Frame]
  BY DEF IInv, TypeOK, FrameInv
<1>. USE DEF Proceeds, InError, InRetryError, InCallback, CallbackSteps, BeforePublish,
             Active, Ended, SameData
<1>1. CASE AddJob(c)
  <2>1. PICK s \in {"queued", "lost"} : Goto(c, s)
    BY <1>1 DEF AddJob
  <2>. QED
    BY <2>1, <1>0, <1>1, GotoEffect, ProceedsKeepsCopies DEF AddJob, Steps
<1>2. CASE StartJob(c)
  BY <1>2, <1>0, GotoEffect, ProceedsKeepsCopies DEF StartJob, Steps, SendSteps
<1>3. CASE Preflight(c)
  <2>1. CASE Goto(c, "readPost")
    BY <2>1, <1>3, <1>0, GotoEffect, ProceedsKeepsCopies DEF Preflight, Steps, SendSteps
  <2>2. CASE Callback(c, "worker")
    BY <2>2, <1>3, <1>0, CallbackEffect, ProceedsKeepsCopies DEF Preflight, Returns
  <2>. QED
    BY <2>1, <2>2, <1>3 DEF Preflight
<1>4. CASE CountUsage(c)
  BY <1>4, <1>0, GotoEffect, ProceedsKeepsCopies DEF CountUsage, Steps
<1>. QED
  BY <1>1, <1>2, <1>3, <1>4 DEF JobStep

LEMMA ReadCopies ==
  ASSUME IInv, CopyInv, NEW c \in Calls,
         ReadPost(c) \/ ReadTargets(c) \/ MarkPosting(c) \/ PublishRejected(c)
  PROVE  CopyInv'
<1>0. call[c] \in Frame /\ FrameOK(c) /\ CopyFrame(c) /\ call \in [Calls -> Frame]
  BY DEF IInv, TypeOK, FrameInv, CopyInv
<1>. USE DEF Proceeds, InError, InRetryError, InCallback, CallbackSteps, BeforePublish,
             Active, Ended, SameData
<1>1. CASE ReadPost(c)
  <2>1. OnlyCall(c)
    BY <1>1, ReadPostStep DEF ReadPost, OnlyCall, IInv, TypeOK
  <2>2. /\ call[c].pc = "readPost" /\ call'[c].pc = "readTargets"
        /\ call'[c].acct = call[c].acct
    BY <1>0, <1>1 DEF ReadPost, Frame
  <2>. QED
    BY <2>1, <2>2, <1>1, ProceedsKeepsCopies DEF ReadPost
<1>2. CASE ReadTargets(c)
  <2>1. CASE call[c].acct \notin Rows
    BY <2>1, <1>2, <1>0, CallbackEffect, ProceedsKeepsCopies DEF ReadTargets, Returns
  <2>2. CASE call[c].acct \in Rows /\ call[c].status = "DRAFT"
    <3>1. c \notin Accounts
      BY <2>2, <1>0, <1>2 DEF FrameOK, OwnFrame, ReadTargets
    <3>2. Goto(c, "retryRead")
      BY <1>2, <2>2, <3>1, AfterSendType DEF ReadTargets
    <3>. QED
      BY <3>2, <1>0, <1>2, GotoEffect, ProceedsKeepsCopies
         DEF ReadTargets, Steps, SendSteps
  <2>3. CASE call[c].acct \in Rows /\ call[c].status # "DRAFT"
    <3>1. PICK s \in {"publish", "mark"} : Goto(c, s)
      BY <2>3, <1>2 DEF ReadTargets
    <3>. QED
      BY <2>3, <3>1, <1>0, <1>2, GotoEffect, ProceedsKeepsCopies
         DEF ReadTargets, Steps, SendSteps, Rows
  <2>. QED
    BY <2>1, <2>2, <2>3
<1>3. CASE MarkPosting(c)
  BY <1>3, <1>0, GotoEffect, ProceedsKeepsCopies
     DEF MarkPosting, Steps, SendSteps, CopyFrame
<1>4. CASE PublishRejected(c)
  BY <1>4, <1>0, GotoEffect, ProceedsKeepsCopies
     DEF PublishRejected, Steps, SendSteps, CopyFrame
<1>. QED
  BY <1>1, <1>2, <1>3, <1>4

LEMMA PublishAcceptedCopies ==
  ASSUME Orderly, IInv, CopyInv, NEW c \in Calls, PublishAccepted(c) PROVE CopyInv'
<1>. DEFINE a == call[c].acct
<1>0. /\ call[c] \in Frame /\ CopyFrame(c) /\ CopiesAt(a) /\ a \in Accounts
      /\ call \in [Calls -> Frame] /\ accepted \in [Accounts -> Nat]
      /\ Active(c) /\ call[c].pc = "publish"
  BY ActiveAccount DEF IInv, TypeOK, CopyInv, PublishAccepted, Active, Ended
<1>1. Goto(c, "setDone")
  BY DEF PublishAccepted, Orderly
<1>2. /\ OnlyCall(c) /\ call'[c].acct = a /\ call'[c].pc = "setDone"
  BY <1>0, <1>1, GotoEffect DEF SameData, Steps, SendSteps
<1>3. /\ accepted'[a] = accepted[a] + 1 /\ accepted[a] \in Nat
      /\ \A b \in Accounts \ {a} : accepted'[b] = accepted[b]
      /\ UNCHANGED <<create, mode, target, stalled>>
  BY <1>0 DEF PublishAccepted
<1>4. CopiesAt(a)'
  BY <1>0, <1>2, <1>3 DEF CopyFrame, CopiesAt, Extra, BeforePublish
<1>5. CopyFrame(c)'
  BY <1>0, <1>2, <1>3 DEF CopyFrame, BeforePublish, InError, InRetryError, InCallback,
     CallbackSteps
<1>6. c \in Accounts => OwnCall(c)'
  BY <1>2 DEF OwnCall
<1>7. Calm => stalled' = {}
  BY <1>3 DEF CopyInv
<1>. HIDE DEF a
<1>. QED
  BY <1>0, <1>2, <1>3, <1>4, <1>5, <1>6, <1>7, OtherCopies DEF a

\* What WithTarget does to the row of a target, and that it inserts none.
LEMMA WithTargetRow ==
  ASSUME target \in [Accounts -> TargetStatus], NEW a \in Accounts,
         NEW s \in TargetStatus \ {"none"}, target' = WithTarget(a, s)
  PROVE  /\ target[a] = "none" => target'[a] = "none"
         /\ target[a] # "none" => target'[a] = s
         /\ \A b \in Accounts \ {a} : target'[b] = target[b]
  BY DEF WithTarget, Rows

LEMMA SetDoneCopies ==
  ASSUME IInv, CopyInv, NEW c \in Calls, SetDone(c) PROVE CopyInv'
<1>. DEFINE a == call[c].acct
<1>0. /\ call[c] \in Frame /\ CopyFrame(c) /\ CopiesAt(a) /\ a \in Accounts
      /\ call \in [Calls -> Frame] /\ target \in [Accounts -> TargetStatus]
      /\ Active(c) /\ call[c].pc = "setDone"
  BY ActiveAccount DEF IInv, TypeOK, CopyInv, SetDone, Active, Ended
<1>1. /\ OnlyCall(c) /\ call'[c].acct = a
      /\ call'[c].pc = "cbPost" /\ call'[c].ret = "sent"
  BY <1>0, CallbackEffect DEF SetDone, SameData, Returns
<1>2. /\ target[a] # "none" /\ target'[a] = "DONE"
      /\ \A b \in Accounts \ {a} : target'[b] = target[b]
      /\ UNCHANGED <<create, mode, accepted, stalled>>
  BY <1>0, WithTargetRow DEF SetDone, CopyFrame, TargetStatus
<1>3. CopyFrame(c)' /\ CopiesAt(a)' /\ OwnCall(c)'
  BY <1>0, <1>1, <1>2 DEF CopyFrame, CopiesAt, OwnCall, Extra, BeforePublish, InError,
     InRetryError, InCallback, CallbackSteps
<1>4. Calm => stalled' = {}
  BY <1>2 DEF CopyInv
<1>. HIDE DEF a
<1>. QED
  BY <1>0, <1>1, <1>2, <1>3, <1>4, OtherCopies DEF a

LEMMA SetFailedCopies ==
  ASSUME IInv, CopyInv, NEW c \in Calls, SetFailed(c) PROVE CopyInv'
<1>. DEFINE a == call[c].acct
<1>0. /\ call[c] \in Frame /\ CopyFrame(c) /\ CopiesAt(a) /\ a \in Accounts
      /\ call \in [Calls -> Frame] /\ target \in [Accounts -> TargetStatus]
      /\ Active(c) /\ call[c].pc = "setFailed"
  BY ActiveAccount DEF IInv, TypeOK, CopyInv, SetFailed, Active, Ended
<1>1. /\ OnlyCall(c) /\ call'[c].acct = a
      /\ call'[c].pc = "cbPost" /\ call'[c].ret = "error"
  BY <1>0, CallbackEffect DEF SetFailed, SameData, Returns
<1>2. /\ target[a] # "none" /\ target'[a] = "FAILED"
      /\ \A b \in Accounts \ {a} : target'[b] = target[b]
      /\ UNCHANGED <<create, mode, accepted, stalled>>
  BY <1>0, WithTargetRow DEF SetFailed, CopyFrame, TargetStatus
<1>3. CopyFrame(c)' /\ CopiesAt(a)' /\ OwnCall(c)'
  BY <1>0, <1>1, <1>2 DEF CopyFrame, CopiesAt, OwnCall, Extra, BeforePublish, InError,
     InRetryError, InCallback, CallbackSteps
<1>4. Calm => stalled' = {}
  BY <1>2 DEF CopyInv
<1>. HIDE DEF a
<1>. QED
  BY <1>0, <1>1, <1>2, <1>3, <1>4, OtherCopies DEF a

LEMMA MarkErrorCopies ==
  ASSUME IInv, CopyInv, NEW c \in Calls, MarkError(c) PROVE CopyInv'
<1>. DEFINE a == call[c].acct
<1>0. /\ call[c] \in Frame /\ CopyFrame(c) /\ CopiesAt(a) /\ a \in Accounts
      /\ call \in [Calls -> Frame] /\ target \in [Accounts -> TargetStatus]
      /\ Active(c) /\ call[c].pc = "errMark" /\ TargetsInserted
      /\ c \in Accounts => a = c
      /\ c \notin Accounts => target[a] # "none"
  BY ActiveAccount DEF IInv, TypeOK, CopyInv, MarkError, Active, Ended, FrameInv,
     FrameOK, OwnFrame, RetryCall, Calls
<1>1. /\ OnlyCall(c) /\ call'[c].acct = a
      /\ \/ c \in Accounts /\ call'[c].pc = "rejected"
         \/ call'[c].pc = "cbPost" /\ call'[c].ret = "worker"
         \/ c \notin Accounts /\ call'[c].pc = "cbPost" /\ call'[c].ret = "retryErr"
  <2>1. CASE c \in Accounts /\ ~IsJob(c)
    BY <2>1, <1>0, GotoEffect DEF MarkError, SameData, Steps, Ended
  <2>2. CASE IsJob(c)
    BY <2>2, <1>0, CallbackEffect DEF MarkError, SameData, Returns
  <2>3. CASE c \notin Accounts
    <3>1. Callback(c, "retryErr")
      BY <2>3 DEF MarkError, IsJob
    <3>. QED
      BY <2>3, <3>1, <1>0, CallbackEffect DEF SameData, Returns
  <2>. QED
    BY <2>1, <2>2, <2>3
<1>2. /\ target[a] = "none" => target'[a] = "none"
      /\ target[a] # "none" => target'[a] = "FAILED"
      /\ \A b \in Accounts \ {a} : target'[b] = target[b]
      /\ UNCHANGED <<create, mode, accepted, stalled>>
  BY <1>0, WithTargetRow DEF MarkError, TargetStatus
<1>3. CopyFrame(c)' /\ CopiesAt(a)'
  BY <1>0, <1>1, <1>2 DEF CopyFrame, CopiesAt, Extra, BeforePublish, InError,
     InRetryError, InCallback, CallbackSteps
<1>4. c \in Accounts => OwnCall(c)'
  <2>1. CreateSettles => target[a] # "none"
    BY <1>0 DEF TargetsInserted, Rows
  <2>. QED
    BY <2>1, <1>0, <1>1, <1>2 DEF OwnCall, CreateSettles
<1>5. Calm => stalled' = {}
  BY <1>2 DEF CopyInv
<1>6. call'[c].pc # "idle" /\ (target'[a] = "none" <=> target[a] = "none")
  BY <1>0, <1>1, <1>2
<1>. HIDE DEF a
<1>. QED
  BY <1>0, <1>1, <1>2, <1>3, <1>4, <1>5, <1>6, OtherCopies DEF a

LEMMA SendCopies ==
  ASSUME Orderly, IInv, CopyInv, NEW c \in Calls, SendStep(c) PROVE CopyInv'
  BY ReadCopies, PublishAcceptedCopies, SetDoneCopies, SetFailedCopies, MarkErrorCopies
     DEF SendStep

LEMMA StallCopies ==
  ASSUME IInv, CopyInv, NEW c \in Accounts, Stall(c) PROVE CopyInv'
<1>. DEFINE step == IF c \in stalled THEN "failed" ELSE "queued"
<1>0. /\ c \in Calls /\ call[c] \in Frame /\ call[c].acct = c /\ CopiesAt(c)
      /\ call \in [Calls -> Frame] /\ Active(c) /\ mode = "scheduled"
      /\ accepted \in [Accounts -> Nat] /\ stalled \subseteq Accounts
  BY DEF IInv, TypeOK, CopyInv, Stall, Active, Ended, SendSteps, FrameInv, FrameOK,
     OwnFrame, IsJob, Calls
<1>1. /\ OnlyCall(c) /\ call'[c].acct = c /\ call'[c].pc = step
      /\ call'[c].ret = "sent"
  <2>1. call' = [call EXCEPT ![c] = [IdleFrame(c) EXCEPT !.pc = step]]
    BY DEF Stall
  <2>2. call' \in [Calls -> Frame]
    BY StallStep DEF IInv, TypeOK
  <2>. QED
    BY <1>0, <2>1, <2>2 DEF OnlyCall, IdleFrame
<1>2. /\ UNCHANGED <<create, mode, target, accepted>>
      /\ stalled' = stalled \cup {c}
  BY DEF Stall
<1>3. CopyFrame(c)'
  BY <1>0, <1>1, <1>2 DEF CopyFrame, CopiesAt, Extra, BeforePublish, InError,
     InRetryError, InCallback, CallbackSteps
<1>4. CopiesAt(c)' /\ OwnCall(c)'
  BY <1>0, <1>1, <1>2 DEF CopiesAt, Extra, OwnCall
<1>5. ~Calm
  BY DEF Calm, Stall
<1>. QED
  BY <1>0, <1>1, <1>2, <1>3, <1>4, <1>5, OtherCopies

LEMMA RetryCopies ==
  ASSUME IInv, CopyInv, NEW c \in Calls, RetryStep(c) PROVE CopyInv'
<1>. DEFINE a == call[c].acct
<1>0. /\ call[c] \in Frame /\ CopyFrame(c) /\ CopiesAt(a) /\ a \in Accounts
      /\ call \in [Calls -> Frame] /\ target \in [Accounts -> TargetStatus]
      /\ accepted \in [Accounts -> Nat] /\ Active(c) /\ c \notin Accounts
  BY ActiveAccount DEF IInv, TypeOK, CopyInv, RetryStep, RetryUpdate, RetryRead,
     RetryMark, Active, Ended, FrameInv, FrameOK, OwnFrame, RetrySteps
<1>. USE DEF BeforePublish, InError, InRetryError, InCallback, CallbackSteps
<1>1. CASE RetryUpdate(c)
  <2>1. /\ OnlyCall(c) /\ call'[c].acct = a /\ call'[c].pc = "readPost"
    BY <1>0, <1>1, GotoEffect DEF RetryUpdate, SameData, Steps, SendSteps
  <2>2. /\ target[a] = "FAILED" /\ target'[a] = "PENDING"
        /\ \A b \in Accounts \ {a} : target'[b] = target[b]
        /\ UNCHANGED <<create, mode, accepted, stalled>>
    BY <1>0, <1>1, WithTargetRow DEF RetryUpdate, CopyFrame, TargetStatus
  <2>3. CopyFrame(c)' /\ CopiesAt(a)'
    BY <1>0, <2>1, <2>2 DEF CopyFrame, CopiesAt, Extra
  <2>4. Calm => stalled' = {}
    BY <2>2 DEF CopyInv
  <2>. HIDE DEF a
  <2>. QED
    BY <1>0, <2>1, <2>2, <2>3, <2>4, OtherCopies DEF a
<1>2. CASE RetryRead(c)
  <2>1. /\ OnlyCall(c) /\ call'[c].acct = a
        /\ call'[c].pc = "cbPost" /\ call'[c].ret = "retryOk"
        /\ call[c].pc = "retryRead"
    BY <1>0, <1>2, CallbackEffect DEF RetryRead, SameData, Returns
  <2>2. Proceeds(c)
    BY <2>1 DEF Proceeds
  <2>. QED
    BY <1>0, <1>2, <2>1, <2>2, ProceedsKeepsCopies DEF RetryRead
<1>3. CASE RetryMark(c)
  <2>1. /\ OnlyCall(c) /\ call'[c].acct = a /\ call'[c].pc = "rejected"
    BY <1>0, <1>3, GotoEffect DEF RetryMark, SameData, Steps, Ended
  <2>2. /\ target[a] = "FAILED" /\ target'[a] = "FAILED"
        /\ \A b \in Accounts \ {a} : target'[b] = target[b]
        /\ UNCHANGED <<create, mode, accepted, stalled>>
    BY <1>0, <1>3, WithTargetRow DEF RetryMark, CopyFrame, TargetStatus
  <2>3. CopyFrame(c)' /\ CopiesAt(a)'
    BY <1>0, <2>1, <2>2 DEF CopyFrame, CopiesAt, Extra
  <2>4. Calm => stalled' = {}
    BY <2>2 DEF CopyInv
  <2>. HIDE DEF a
  <2>. QED
    BY <1>0, <2>1, <2>2, <2>3, <2>4, OtherCopies DEF a
<1>. QED
  BY <1>1, <1>2, <1>3 DEF RetryStep

\* A retry starts when nothing else of the post runs, for a FAILED target.
LEMMA RetrySelectCopies ==
  ASSUME Orderly, IInv, CopyInv, NEW r \in Retries, NEW a \in Accounts,
         RetrySelect(r, a)
  PROVE  CopyInv'
<1>1. /\ r \in Calls /\ r \notin Accounts /\ a \in Calls /\ call[r] \in Frame
      /\ Quiet /\ target[a] = "FAILED" /\ call[r].pc = "idle"
  BY PublishingAssumption DEF Calls, RetrySelect, Orderly, IInv, TypeOK
<1>2. /\ UNCHANGED <<create, mode, target, accepted, stalled>>
      /\ \A d \in Calls \ {r} : call'[d] = call[d]
      /\ call'[r].pc = "retryUpdate" /\ call'[r].acct = a
  BY <1>1 DEF RetrySelect, IInv, TypeOK, Frame
<1>3. call[a].pc # "idle"
  BY <1>1 DEF CopyInv, OwnCall, Unpublished
<1>4. \A c \in Calls : CopyFrame(c)'
  <2>1. CopyFrame(r)'
    BY <1>1, <1>2 DEF CopyFrame, BeforePublish, InError, InRetryError, InCallback,
       CallbackSteps
  <2>2. ASSUME NEW c \in Calls \ {r} PROVE CopyFrame(c)'
    BY <1>2, <2>2 DEF CopyInv, CopyFrame, Extra, InError, InRetryError, InCallback
  <2>. QED
    BY <2>1, <2>2
<1>5. \A b \in Accounts : OwnCall(b)' /\ Started(b)' /\ CopiesAt(b)'
  BY <1>1, <1>2 DEF CopyInv, OwnCall, Started, CopiesAt, Extra, Unpublished,
     CreateSettles, Calls
<1>6. ASSUME NEW q \in Retries PROVE RetryCall(q)'
  <2>1. q \in Calls /\ ~Active(q) /\ RetryCall(q) /\ FrameOK(q)
    BY <1>1 DEF Calls, Quiet, Active, CopyInv, IInv, FrameInv
  <2>2. \A d \in Calls \ {r} : ~Active(d)'
    BY <1>1, <1>2 DEF Quiet, Active
  <2>3. create' \in {"done", "failed"}
    BY <1>1, <1>2 DEF Quiet
  <2>4. CASE q = r
    BY <1>1, <1>2, <1>3, <2>2, <2>3, <2>4 DEF RetryCall
  <2>5. CASE q # r
    <3>1. call'[q] = call[q] /\ ~Active(q)'
      BY <1>2, <2>1, <2>2, <2>5
    <3>2. call[q].pc # "idle" => call[q].acct \in Calls \ {r}
      BY <1>1, <2>1 DEF FrameOK, Calls
    <3>. QED
      BY <1>2, <2>1, <3>1, <3>2 DEF RetryCall
  <2>. QED
    BY <2>4, <2>5
<1>7. TargetsInserted' /\ (Calm => stalled' = {})
  BY <1>2 DEF CopyInv, TargetsInserted, Rows, CreateSettles
<1>. QED
  BY <1>4, <1>5, <1>6, <1>7 DEF CopyInv

\* While createPost runs no retry is active.
LEMMA NoRetryYet ==
  ASSUME IInv, CopyInv, create \notin {"done", "failed"}, NEW r \in Retries
  PROVE  /\ ~Active(r) /\ r \in Calls /\ r \notin Accounts
         /\ call[r].pc # "idle" => call[r].acct \in Accounts
  BY PublishingAssumption DEF CopyInv, RetryCall, IInv, FrameInv, FrameOK, Calls

\* Steps of createPost that leave the calls and the targets as they are.
LEMMA CreateKeepsCopies ==
  ASSUME IInv, CopyInv, create \notin {"done", "failed"},
         UNCHANGED <<mode, call, target, stalled, accepted>>,
         CreateSettles' => CreateSettles,
         \A a \in Accounts : Started(a)', TargetsInserted'
  PROVE  CopyInv'
<1>1. ASSUME NEW c \in Calls PROVE CopyFrame(c)'
  BY DEF CopyInv, CopyFrame, Extra, InError, InRetryError, InCallback
<1>2. \A b \in Accounts : OwnCall(b)' /\ CopiesAt(b)'
  BY DEF CopyInv, OwnCall, CopiesAt, Extra, Unpublished
<1>3. ASSUME NEW r \in Retries PROVE RetryCall(r)'
  BY NoRetryYet DEF RetryCall, CopyInv, Active
<1>. QED
  BY <1>1, <1>2, <1>3 DEF CopyInv

LEMMA CreatePostTargetsCopies ==
  ASSUME IInv, CopyInv, CreatePostTargets PROVE CopyInv'
<1>1. /\ UNCHANGED <<mode, call, stalled, accepted>> /\ create = "targets"
      /\ create' \in {"done", "check"} /\ (create' = "done" => mode = "draft")
      /\ \A a \in Accounts : target[a] = "none" /\ target'[a] = "PENDING"
  BY DEF CreatePostTargets, CopyInv, TargetsInserted, Rows
<1>2. ASSUME NEW c \in Calls PROVE CopyFrame(c)'
  <2>1. CopyFrame(c)
    BY DEF CopyInv
  <2>2. CASE Active(c)
    <3>1. call[c].acct \in Accounts
      BY <2>2, ActiveAccount
    <3>. QED
      BY <1>1, <2>1, <3>1 DEF CopyFrame, Extra, InError, InRetryError, InCallback
  <2>3. CASE ~Active(c)
    BY <1>1, <2>3 DEF CopyFrame, Active, Ended, BeforePublish, InError, InRetryError,
       InCallback, CallbackSteps
  <2>. QED
    BY <2>2, <2>3
<1>3. \A b \in Accounts : OwnCall(b)' /\ CopiesAt(b)' /\ Started(b)'
  BY <1>1 DEF CopyInv, OwnCall, CopiesAt, Extra, Unpublished, CreateSettles, Started
<1>4. ASSUME NEW r \in Retries PROVE RetryCall(r)'
  <2>1. RetryCall(r)
    BY DEF CopyInv
  <2>. QED
    BY <1>1, <2>1, NoRetryYet DEF RetryCall, Active
<1>5. TargetsInserted'
  BY <1>1 DEF TargetsInserted, Rows, CreateSettles
<1>. QED
  BY <1>1, <1>2, <1>3, <1>4, <1>5 DEF CopyInv

\* createPost starts the calls of all accounts, none of which has run.
LEMMA StartAllCopies ==
  ASSUME IInv, CopyInv, NEW s \in {"adding", "readPost"},
         create \in {"media", "check"}, \A a \in Accounts : call[a].pc = "idle",
         UNCHANGED <<mode, target, stalled, accepted>>,
         call' = [c \in Calls |-> IF c \in Accounts THEN [call[c] EXCEPT !.pc = s]
                                                    ELSE call[c]],
         \A a \in Accounts : Started(a)', TargetsInserted'
  PROVE  CopyInv'
<1>1. ASSUME NEW a \in Accounts
      PROVE  call'[a].pc = s /\ call'[a].ret = call[a].ret /\ call'[a].acct = a
  BY DEF IInv, TypeOK, Frame, Calls, FrameInv, FrameOK, OwnFrame
<1>2. \A r \in Calls \ Accounts : call'[r] = call[r] /\ r \in Retries
  BY DEF Calls
<1>3. ASSUME NEW c \in Calls PROVE CopyFrame(c)'
  <2>1. CASE c \in Accounts
    <3>1. accepted[c] = 0 /\ Unpublished(c)
      BY <2>1 DEF CopyInv, OwnCall
    <3>2. /\ call'[c].acct = c /\ call'[c].pc \in {"adding", "readPost"}
          /\ accepted'[c] = 0 /\ target'[c] # "FAILED"
      BY <1>1, <2>1, <3>1 DEF Unpublished
    <3>3. ~InError(c)' /\ ~InRetryError(c)' /\ ~InCallback(c, {"sent"})'
      BY <3>2 DEF InError, InRetryError, InCallback, CallbackSteps
    <3>. QED
      BY <3>2, <3>3 DEF CopyFrame, Extra
  <2>2. CASE c \notin Accounts
    BY <1>2, <2>2 DEF CopyInv, CopyFrame, Extra, InError, InRetryError, InCallback
  <2>. QED
    BY <2>1, <2>2
<1>4. \A b \in Accounts : OwnCall(b)' /\ CopiesAt(b)'
  BY <1>1 DEF CopyInv, OwnCall, CopiesAt, Extra, Unpublished
<1>5. ASSUME NEW r \in Retries PROVE RetryCall(r)'
  <2>1. ~Active(r) /\ r \in Calls \ Accounts /\ RetryCall(r)
        /\ (call[r].pc # "idle" => call[r].acct \in Accounts)
    BY NoRetryYet DEF CopyInv
  <2>2. call'[r] = call[r]
    BY <1>2, <2>1
  <2>. QED
    BY <1>1, <2>1, <2>2 DEF RetryCall, Active
<1>. QED
  BY <1>3, <1>4, <1>5 DEF CopyInv

\* What createPost settles the targets with is what the sends have stored.
LEMMA SettlingChangesNothing ==
  ASSUME IInv, CopyInv, MarkFailures \/ MarkSuccesses
  PROVE  target' = target
<1>1. \A a \in Accounts : (a \in Rejected => target[a] = "FAILED")
                         /\ (a \in Resolved => target[a] = "DONE")
  BY DEF MarkFailures, MarkSuccesses, CopyInv, OwnCall, CreateSettles, Rejected, Resolved
<1>2. target \in [Accounts -> TargetStatus]
  BY DEF IInv, TypeOK
<1>3. CASE MarkFailures
  BY <1>1, <1>2, <1>3 DEF MarkFailures
<1>4. CASE MarkSuccesses
  BY <1>1, <1>2, <1>4 DEF MarkSuccesses
<1>. QED
  BY <1>3, <1>4

LEMMA CreateCopies ==
  ASSUME IInv, CopyInv, CreateBasePost \/ CreateStep PROVE CopyInv'
<1>0. /\ \A a \in Accounts : Started(a)
      /\ TargetsInserted
      /\ mode = "draft" => \A a \in Accounts : call[a].pc = "idle"
  BY DEF CopyInv, IInv, FrameInv, FrameOK, OwnFrame, Calls
<1>1. CASE CreateBasePost
  BY <1>0, <1>1, CreateKeepsCopies DEF CreateBasePost, Started, TargetsInserted, Rows,
     CreateSettles
<1>2. CASE FireSchedules
  <2>1. TargetsInserted'
    BY <1>0, <1>2 DEF FireSchedules, TargetsInserted, Rows, CreateSettles
  <2>2. CASE mode = "scheduled"
    <3>1. \A a \in Accounts : call[a].pc = "idle"
      BY <1>0, <1>2 DEF FireSchedules, Started
    <3>2. \A a \in Accounts : Started(a)'
      BY <1>2, <2>2 DEF FireSchedules, Started
    <3>. QED
      BY <1>2, <2>1, <2>2, <3>1, <3>2, StartAllCopies DEF FireSchedules
  <2>3. CASE mode # "scheduled"
    BY <1>0, <1>2, <2>1, <2>3, CreateKeepsCopies DEF FireSchedules, Started, CreateSettles
  <2>. QED
    BY <2>2, <2>3
<1>3. CASE CreatePostTargets
  BY <1>3, CreatePostTargetsCopies
<1>4. CASE ReserveSlots \/ CreateThrows
  BY <1>0, <1>4, CreateKeepsCopies DEF ReserveSlots, CreateThrows, Started,
     TargetsInserted, Rows, CreateSettles
<1>5. CASE StartSends
  <2>1. TargetsInserted' /\ \A a \in Accounts : Started(a)'
    BY <1>0, <1>5 DEF StartSends, TargetsInserted, Rows, CreateSettles, Started
  <2>2. \A a \in Accounts : call[a].pc = "idle"
    BY <1>0, <1>5 DEF StartSends, Started
  <2>. QED
    BY <1>5, <2>1, <2>2, StartAllCopies DEF StartSends
<1>6. CASE AwaitSends
  BY <1>0, <1>6, CreateKeepsCopies DEF AwaitSends, Started, TargetsInserted, Rows,
     CreateSettles, Resolved, Rejected
<1>7. CASE MarkFailures \/ MarkSuccesses
  BY <1>0, <1>7, SettlingChangesNothing, CreateKeepsCopies DEF MarkFailures,
     MarkSuccesses, Started, TargetsInserted, Rows, CreateSettles
<1>8. CASE FinishBasePost \/ CountSuccesses
  BY <1>0, <1>8, CreateKeepsCopies DEF FinishBasePost, CountSuccesses, Started,
     TargetsInserted, Rows, CreateSettles
<1>. QED
  BY <1>1, <1>2, <1>3, <1>4, <1>5, <1>6, <1>7, <1>8 DEF CreateStep

LEMMA InitCopyInv == Init => CopyInv
<1>. SUFFICES ASSUME Init PROVE CopyInv
  OBVIOUS
<1>1. ASSUME NEW c \in Calls PROVE call[c].pc = "idle" /\ call[c].ret = "sent"
  BY DEF Init, IdleFrame
<1>2. ASSUME NEW c \in Calls PROVE CopyFrame(c)
  BY <1>1 DEF CopyFrame, BeforePublish, InError, InRetryError, InCallback, CallbackSteps
<1>3. ASSUME NEW a \in Accounts PROVE OwnCall(a) /\ Started(a) /\ CopiesAt(a)
  BY <1>1 DEF Init, OwnCall, Started, CopiesAt, Extra, Unpublished, CreateSettles, Calls
<1>4. ASSUME NEW r \in Retries PROVE RetryCall(r)
  BY <1>1 DEF RetryCall, Active, Ended, Calls
<1>. QED
  BY <1>2, <1>3, <1>4 DEF Init, CopyInv, TargetsInserted, Rows, CreateSettles

LEMMA NextCopyInv == ASSUME Orderly, IInv, CopyInv, [Next]_vars PROVE CopyInv'
<1>1. CASE CreateBasePost \/ CreateStep
  BY <1>1, CreateCopies
<1>2. ASSUME NEW c \in Calls, CallStep(c) PROVE CopyInv'
  BY <1>2, SendCopies, CallbackCopies, JobCopies, RetryCopies DEF CallStep
<1>3. ASSUME NEW c \in Accounts, Stall(c) PROVE CopyInv'
  BY <1>3, StallCopies
<1>4. ASSUME NEW r \in Retries, RetryRequest(r) PROVE CopyInv'
  BY <1>4, RetrySelectCopies DEF RetryRequest, RetryRefused, Orderly
<1>5. CASE UNCHANGED vars
  BY <1>5 DEF vars, CopyInv, CopyFrame, OwnCall, CopiesAt, Started, RetryCall,
     TargetsInserted, Rows, Extra, Unpublished, Active, InError, InRetryError,
     InCallback, CreateSettles
<1>. QED
  BY <1>1, <1>2, <1>3, <1>4, <1>5 DEF Next

LEMMA CopyInvariance == ASSUME Orderly PROVE Spec => []CopyInv
  BY Invariance, InitCopyInv, NextCopyInv, PTL DEF Spec

(* Without lost replies and overlapping retries a platform gets a target   *)
(* at most once, and at most twice if a worker died in between, whatever   *)
(* the order of createPost, jobs, callbacks and later retries              *)
(* (handleJob re-run by BullMQ, retryPostTarget).                          *)
THEOREM PublishedOnceOrTwice == ASSUME Orderly PROVE Spec => []CopiesBounded
<1>1. CopyInv => CopiesBounded
  BY DEF CopyInv, CopiesAt, CopiesBounded, Extra
<1>. QED
  BY <1>1, CopyInvariance, PTL

-----------------------------------------------------------------------------
(* Without crashes too, the path implements TargetLifecycle *)

\* A call before its publisher has a target that was never accepted; what a
\* frame writes is what TargetLifecycle allows.
LEMMA CalmFrame ==
  ASSUME Calm, IInv, CopyInv, NEW c \in Calls, Active(c)
  PROVE  /\ call[c].acct \in Accounts
         /\ call[c].pc \in BeforePublish =>
               accepted[call[c].acct] = 0 /\ Unpublished(call[c].acct)
         /\ call[c].pc = "setDone" =>
               /\ accepted[call[c].acct] = 1
               /\ target[call[c].acct] \in {"PENDING", "DONE"}
         /\ InError(c) => accepted[call[c].acct] = 0
<1>. DEFINE a == call[c].acct
<1>1. /\ a \in Accounts /\ CopyFrame(c) /\ CopiesAt(a) /\ FrameOK(c)
      /\ accepted[a] \in Nat /\ target[a] \in TargetStatus
  BY ActiveAccount DEF CopyInv, IInv, TypeOK, FrameInv
<1>2. Extra(a) = 0
  BY DEF CopyInv, Extra
<1>3. target[a] = "DONE" => accepted[a] > 0
  BY <1>1 DEF IInv, DoneWasPublished
<1>. HIDE DEF a
<1>4. call[c].pc \in BeforePublish => accepted[a] = 0 /\ Unpublished(a)
  BY <1>1, <1>2, <1>3 DEF CopyFrame, Unpublished, TargetStatus, a
<1>5. call[c].pc = "setDone" => accepted[a] = 1 /\ target[a] \in {"PENDING", "DONE"}
  <2>. SUFFICES ASSUME call[c].pc = "setDone"
                PROVE  accepted[a] = 1 /\ target[a] \in {"PENDING", "DONE"}
    OBVIOUS
  <2>1. accepted[a] > 0 /\ target[a] # "none"
    BY <1>1 DEF FrameOK, Succeeded, Published, CopyFrame, a
  <2>. QED
    BY <2>1, <1>1, <1>2 DEF CopiesAt, TargetStatus
<1>6. InError(c) => accepted[a] = 0
  BY <1>1, <1>2 DEF CopyFrame, a
<1>. QED
  BY <1>1, <1>4, <1>5, <1>6 DEF a

LEMMA SendLifecycle ==
  ASSUME Calm, IInv, CopyInv, NEW c \in Calls, SendStep(c)
  PROVE  [Lifecycle!TLNext]_(Lifecycle!TLvars)
<1>. DEFINE a == call[c].acct
<1>0. /\ target \in [Accounts -> TargetStatus] /\ accepted \in [Accounts -> Nat]
      /\ CopyFrame(c)
      /\ a = call[c].acct
  BY DEF IInv, TypeOK, CopyInv
<1>. HIDE DEF a
<1>1. CASE ReadPost(c) \/ ReadTargets(c) \/ MarkPosting(c) \/ PublishRejected(c)
  BY <1>1 DEF ReadPost, ReadTargets, MarkPosting, PublishRejected, Lifecycle!TLvars
<1>2. CASE PublishAccepted(c)
  <2>1. a \in Accounts /\ accepted[a] = 0 /\ target[a] = "PENDING"
    BY <1>0, <1>2, CalmFrame DEF PublishAccepted, Active, Ended, BeforePublish, CopyFrame,
       Unpublished
  <2>2. Lifecycle!Publish(a)
    BY <1>0, <1>2, <2>1 DEF PublishAccepted, Lifecycle!Publish
  <2>. QED
    BY <2>1, <2>2 DEF Lifecycle!TLNext
<1>3. CASE SetDone(c)
  <2>1. a \in Accounts /\ accepted[a] = 1 /\ target[a] \in {"PENDING", "DONE"}
    BY <1>0, <1>3, CalmFrame DEF SetDone, Active, Ended
  <2>2. target' = [target EXCEPT ![a] = "DONE"] /\ accepted' = accepted
    BY <1>0, <1>3, <2>1 DEF SetDone, WithTarget, Rows
  <2>3. CASE target[a] = "PENDING"
    <3>1. Lifecycle!Succeed(a)
      BY <2>1, <2>2, <2>3 DEF Lifecycle!Succeed
    <3>. QED
      BY <2>1, <3>1 DEF Lifecycle!TLNext
  <2>4. CASE target[a] = "DONE"
    BY <1>0, <2>1, <2>2, <2>4 DEF Lifecycle!TLvars
  <2>. QED
    BY <2>1, <2>3, <2>4
<1>4. CASE SetFailed(c) \/ MarkError(c)
  <2>1. /\ a \in Accounts /\ accepted[a] = 0 /\ accepted' = accepted
        /\ target' = WithTarget(a, "FAILED")
    BY <1>0, <1>4, CalmFrame DEF SetFailed, MarkError, Active, Ended, InError
  <2>2. target[a] # "DONE" /\ target[a] \in TargetStatus
    BY <1>0, <2>1 DEF IInv, DoneWasPublished
  <2>3. CASE target[a] = "PENDING"
    <3>1. Lifecycle!Fail(a)
      BY <2>1, <2>3 DEF WithTarget, Rows, Lifecycle!Fail
    <3>. QED
      BY <2>1, <3>1 DEF Lifecycle!TLNext
  <2>4. CASE target[a] \in {"none", "FAILED"}
    <3>1. target' = target
      BY <1>0, <2>1, <2>4 DEF WithTarget, Rows
    <3>. QED
      BY <2>1, <3>1 DEF Lifecycle!TLvars
  <2>. QED
    BY <2>2, <2>3, <2>4 DEF TargetStatus
<1>. QED
  BY <1>1, <1>2, <1>3, <1>4 DEF SendStep

LEMMA RetryLifecycle ==
  ASSUME Calm, IInv, CopyInv, NEW c \in Calls, RetryStep(c)
  PROVE  [Lifecycle!TLNext]_(Lifecycle!TLvars)
<1>. DEFINE a == call[c].acct
<1>0. /\ target \in [Accounts -> TargetStatus] /\ CopyFrame(c) /\ a \in Accounts
      /\ a = call[c].acct
  BY ActiveAccount DEF IInv, TypeOK, CopyInv, RetryStep, RetryUpdate, RetryRead,
     RetryMark, Active, Ended
<1>. HIDE DEF a
<1>1. CASE RetryUpdate(c)
  <2>1. target[a] = "FAILED" /\ target' = WithTarget(a, "PENDING") /\ accepted' = accepted
    BY <1>0, <1>1 DEF RetryUpdate, CopyFrame
  <2>2. Lifecycle!Retry(a)
    BY <1>0, <2>1 DEF WithTarget, Rows, Lifecycle!Retry
  <2>. QED
    BY <1>0, <2>2 DEF Lifecycle!TLNext
<1>2. CASE RetryRead(c)
  BY <1>2 DEF RetryRead, Lifecycle!TLvars
<1>3. CASE RetryMark(c)
  <2>1. target[a] = "FAILED" /\ target' = WithTarget(a, "FAILED") /\ accepted' = accepted
    BY <1>0, <1>3 DEF RetryMark, CopyFrame, InRetryError
  <2>2. target' = target
    BY <1>0, <2>1 DEF WithTarget, Rows
  <2>. QED
    BY <2>1, <2>2 DEF Lifecycle!TLvars
<1>. QED
  BY <1>1, <1>2, <1>3 DEF RetryStep

LEMMA CreateLifecycle ==
  ASSUME Calm, IInv, CopyInv, CreateBasePost \/ CreateStep
  PROVE  [Lifecycle!TLNext]_(Lifecycle!TLvars)
<1>1. CASE CreatePostTargets
  <2>1. \A a \in Accounts : target[a] = "none"
    BY <1>1 DEF CreatePostTargets, CopyInv, TargetsInserted, Rows
  <2>2. Lifecycle!Insert
    BY <1>1, <2>1 DEF CreatePostTargets, Lifecycle!Insert
  <2>. QED
    BY <2>2 DEF Lifecycle!TLNext
<1>2. CASE MarkFailures \/ MarkSuccesses
  BY <1>2, SettlingChangesNothing DEF MarkFailures, MarkSuccesses, Lifecycle!TLvars
<1>3. CASE CreateBasePost \/ FireSchedules \/ ReserveSlots \/ StartSends \/ CreateThrows
           \/ AwaitSends \/ FinishBasePost \/ CountSuccesses
  BY <1>3 DEF CreateBasePost, FireSchedules, ReserveSlots, StartSends, CreateThrows,
     AwaitSends, FinishBasePost, CountSuccesses, Lifecycle!TLvars
<1>. QED
  BY <1>1, <1>2, <1>3 DEF CreateStep

(* Without crashes, lost replies and overlapping retries the whole path of *)
(* createPost, jobs, senders, callbacks and retries implements             *)
(* TargetLifecycle: a PENDING target is published once at most, DONE is    *)
(* for ever, and only a FAILED target is taken up again (posts.service.ts, *)
(* post-worker.ts, social-media-post-sender).                              *)
THEOREM ImplementsLifecycle == ASSUME Calm PROVE Spec => FollowsLifecycle
<1>1. Init => Lifecycle!TLInit
  BY DEF Init, Lifecycle!TLInit
<1>2. ASSUME IInv, CopyInv, [Next]_vars
      PROVE  [Lifecycle!TLNext]_(Lifecycle!TLvars)
  <2>1. CASE CreateBasePost \/ CreateStep
    BY <1>2, <2>1, CreateLifecycle
  <2>2. ASSUME NEW c \in Calls, CallStep(c)
        PROVE  [Lifecycle!TLNext]_(Lifecycle!TLvars)
    <3>1. CASE CallbackStep(c) \/ JobStep(c)
      BY <3>1 DEF CallbackStep, CallbackReadPost, CallbackReadTargets, CallbackWrite,
         CallbackCount, JobStep, AddJob, StartJob, Preflight, CountUsage, Lifecycle!TLvars
    <3>. QED
      BY <1>2, <2>2, <3>1, SendLifecycle, RetryLifecycle DEF CallStep
  <2>3. CASE \E c \in Accounts : Stall(c)
    BY <2>3 DEF Calm, Stall
  <2>4. CASE \E r \in Retries : RetryRequest(r)
    BY <2>4 DEF RetryRequest, RetrySelect, RetryRefused, Lifecycle!TLvars
  <2>5. CASE UNCHANGED vars
    BY <2>5 DEF vars, Lifecycle!TLvars
  <2>. QED
    BY <1>2, <2>1, <2>2, <2>3, <2>4, <2>5 DEF Next
<1>3. Orderly
  BY DEF Calm
<1>. QED
  BY <1>1, <1>2, <1>3, Invariance, CopyInvariance, PTL
     DEF Spec, FollowsLifecycle, Lifecycle!TLSpec

-----------------------------------------------------------------------------
(* ... and the base post's status follows its targets *)

\* A callback that no further callback of the call follows; for an immediate
\* post createPost itself derives the status last.
FinalCallback(c) ==
    \/ IsJob(c) /\ InCallback(c, {"sent", "worker"})
    \/ InCallback(c, {"retryOk", "retryErr"})

\* The call will still read the post's row and derive its status.
Owes(c) ==
    \/ call[c].pc \in BeforePublish
    \/ call[c].pc \in {"retryUpdate", "setDone", "setFailed", "errMark", "retryRead", "cbPost"}
    \/ call[c].pc \in CallbackSteps /\ ~FinalCallback(c)

CreateOwes ==
    mode = "now" /\ (CreateSettles \/ create \in {"start", "media", "targets", "check"})

\* The status is the one all targets call for, and will go on to do so.
Apt(status) ==
    \/ status = "DONE" /\ DoneTargets = Accounts
    \/ status = "FAILED" /\ FailedTargets = Accounts
    \/ status = "PARTIALLY_DONE" /\ DoneTargets # {} /\ FailedTargets # {}

\* What a final callback is about to write is apt, unless its own target has
\* not been settled: then the post is not settled by this request at all.
WriteApt(c) ==
    call[c].pc = "cbWrite" /\ FinalCallback(c) =>
        Apt(call[c].next) \/ Unpublished(call[c].acct)

\* The call is about to correct the status.
Corrects(c) ==
    /\ FinalCallback(c)
    /\ \/ call[c].pc = "cbWrite"
       \/ call[c].pc = "cbTargets" /\ call[c].status # Summary

\* A retry is never a job.
RetryFrame(r) ==
    /\ call[r].pc \notin {"adding", "queued", "preflight", "count"}
    /\ call[r].ret # "worker"

\* Once nothing is owed any more the status is right or about to be.
StatusDue ==
    Terminal /\ ~CreateOwes /\ (\A c \in Calls : ~Owes(c)) =>
        post.status = Summary \/ \E c \in Calls : Corrects(c)

SettleInv ==
    /\ \A c \in Calls : WriteApt(c)
    /\ \A r \in Retries : RetryFrame(r)
    /\ CreateSettles => mode = "now"
    /\ StatusDue

\* The status is derived as the targets call for.
LEMMA DecideRight ==
  ASSUME IInv, CopyInv, NEW s \in PostStatus
  PROVE  /\ Terminal => Decide(s) = IF s = Summary THEN "keep" ELSE Summary
         /\ Rows = Accounts /\ Decide(s) # "keep" => Apt(Decide(s))
         /\ Terminal /\ Apt(s) => s = Summary
<1>1. /\ Accounts # {} /\ DoneTargets \subseteq Accounts /\ FailedTargets \subseteq Accounts
      /\ DoneTargets \cap FailedTargets = {}
  BY PublishingAssumption DEF DoneTargets, FailedTargets
<1>2. Terminal => Decide(s) = IF s = Summary THEN "keep" ELSE Summary
  <2>. SUFFICES ASSUME Terminal
                PROVE  Decide(s) = IF s = Summary THEN "keep" ELSE Summary
    OBVIOUS
  <2>1. Rows = Accounts /\ DoneTargets \cup FailedTargets = Accounts
    BY DEF Terminal
  <2>2. CASE FailedTargets = {}
    <3>1. DoneTargets = Accounts
      BY <2>1, <2>2
    <3>. QED
      BY <1>1, <2>1, <2>2, <3>1 DEF Decide, Summary
  <2>3. CASE DoneTargets = {}
    <3>1. FailedTargets = Accounts
      BY <2>1, <2>3
    <3>. QED
      BY <1>1, <2>1, <2>3, <3>1 DEF Decide, Summary
  <2>4. CASE DoneTargets # {} /\ FailedTargets # {}
    <3>1. DoneTargets # Accounts /\ FailedTargets # Accounts
      BY <1>1, <2>4
    <3>. QED
      BY <1>1, <2>1, <2>4, <3>1 DEF Decide, Summary
  <2>. QED
    BY <2>2, <2>3, <2>4
<1>3. Rows = Accounts /\ Decide(s) # "keep" => Apt(Decide(s))
  BY DEF Decide, Apt
<1>4. Terminal /\ Apt(s) => s = Summary
  BY <1>1 DEF Terminal, Apt, Summary
<1>. QED
  BY <1>2, <1>3, <1>4

LEMMA AptKept ==
  ASSUME NEW s, Apt(s), \A a \in Accounts :
            target[a] \in {"DONE", "FAILED"} => target'[a] = target[a]
  PROVE  Apt(s)'
  BY DEF Apt, DoneTargets, FailedTargets

\* A step of a call leaves apt what the others are about to write.
LEMMA OtherWrites ==
  ASSUME IInv, CopyInv, SettleInv, NEW c \in Calls, Active(c), OnlyCall(c), mode' = mode,
         \A a \in Accounts \ {call[c].acct} : target'[a] = target[a],
         c \in Accounts =>
            (target[c] \in {"DONE", "FAILED"} => target'[c] = target[c]),
         NEW d \in Calls \ {c}
  PROVE  WriteApt(d)'
<1>1. call'[d] = call[d] /\ WriteApt(d)
  BY DEF OnlyCall, SettleInv
<1>2. CASE Active(d)
  <2>1. /\ c \in Accounts /\ call[c].acct = c
        /\ call[d].acct \in Accounts \ {c}
    BY <1>2, RunsAlone
  <2>2. \A a \in Accounts : target[a] \in {"DONE", "FAILED"} => target'[a] = target[a]
    BY <2>1
  <2>3. \A n : Apt(n) => Apt(n)'
    BY <2>2, AptKept
  <2>4. /\ FinalCallback(d)' <=> FinalCallback(d)
        /\ Unpublished(call[d].acct) => Unpublished(call[d].acct)'
    BY <1>1, <2>1 DEF FinalCallback, InCallback, IsJob, Unpublished
  <2>. QED
    BY <1>1, <2>3, <2>4 DEF WriteApt, Apt, Unpublished
<1>3. CASE ~Active(d)
  BY <1>1, <1>3 DEF WriteApt, Active, Ended
<1>. QED
  BY <1>2, <1>3

\* The calls of an immediate post run while createPost still owes the status.
LEMMA NowOwes ==
  ASSUME CopyInv, NEW a \in Accounts, Active(a), mode = "now", TypeOK
  PROVE  CreateOwes
  BY DEF CopyInv, Started, CreateOwes, CreateSettles, Active, Ended, TypeOK, CreateSteps

\* After a step that leaves the call owing, the rest of the invariant holds
\* if the other frames keep what they know.
LEMMA OwingStep ==
  ASSUME IInv, CopyInv, SettleInv, NEW c \in Calls, Active(c), OnlyCall(c),
         UNCHANGED <<create, mode>>,
         \A a \in Accounts \ {call[c].acct} : target'[a] = target[a],
         c \in Accounts =>
            (target[c] \in {"DONE", "FAILED"} => target'[c] = target[c]),
         WriteApt(c)', c \in Retries => RetryFrame(c)',
         Owes(c)' \/ CreateOwes
  PROVE  SettleInv'
<1>1. \A d \in Calls : WriteApt(d)'
  BY OtherWrites
<1>2. \A r \in Retries : RetryFrame(r)'
  BY DEF SettleInv, RetryFrame, OnlyCall, Calls
<1>3. StatusDue'
  BY DEF StatusDue, CreateOwes, CreateSettles
<1>. QED
  BY <1>1, <1>2, <1>3 DEF SettleInv, CreateSettles

\* A step that neither writes nor reads the post is not noticed.
LEMMA UnnoticedStep ==
  ASSUME IInv, CopyInv, SettleInv, NEW c \in Calls, Active(c), OnlyCall(c),
         UNCHANGED <<create, mode, target, post>>,
         WriteApt(c)', c \in Retries => RetryFrame(c)',
         ~Owes(c), Corrects(c) => Corrects(c)'
  PROVE  SettleInv'
<1>1. \A d \in Calls : WriteApt(d)'
  BY OtherWrites
<1>2. \A r \in Retries : RetryFrame(r)'
  BY DEF SettleInv, RetryFrame, OnlyCall, Calls
<1>3. \A d \in Calls \ {c} : (Owes(d)' <=> Owes(d)) /\ (Corrects(d)' <=> Corrects(d))
  BY DEF OnlyCall, Owes, Corrects, FinalCallback, InCallback, IsJob, Summary,
     FailedTargets, DoneTargets
<1>4. (Terminal' <=> Terminal) /\ (CreateOwes' <=> CreateOwes) /\ Summary' = Summary
  BY DEF Terminal, CreateOwes, CreateSettles, Summary, Rows, DoneTargets, FailedTargets
<1>5. StatusDue'
  BY <1>3, <1>4 DEF StatusDue, SettleInv
<1>. QED
  BY <1>1, <1>2, <1>5 DEF SettleInv, CreateSettles

LEMMA ReadSettles ==
  ASSUME IInv, CopyInv, SettleInv, NEW c \in Calls,
         ReadPost(c) \/ ReadTargets(c) \/ MarkPosting(c) \/ PublishAccepted(c)
            \/ PublishRejected(c)
  PROVE  SettleInv'
<1>0. /\ call[c] \in Frame /\ FrameOK(c) /\ call \in [Calls -> Frame]
      /\ c \in Retries => RetryFrame(c)
  BY DEF IInv, TypeOK, FrameInv, SettleInv
<1>1. Active(c) /\ UNCHANGED <<create, mode, target>>
  BY DEF ReadPost, ReadTargets, MarkPosting, PublishAccepted, PublishRejected, Active, Ended
<1>2. /\ OnlyCall(c)
      /\ \/ call'[c].pc \in {"readTargets", "publish", "mark", "setDone", "setFailed",
                             "retryRead"} /\ call'[c].ret = call[c].ret
         \/ call'[c].pc = "cbPost" /\ call'[c].ret = "error"
  <2>1. CASE ReadPost(c)
    <3>1. call' \in [Calls -> Frame]
      BY <2>1, ReadPostStep DEF IInv, TypeOK
    <3>. QED
      BY <1>0, <2>1, <3>1 DEF ReadPost, OnlyCall, Frame
  <2>2. CASE ReadTargets(c)
    <3>1. CASE call[c].acct \notin Rows
      BY <1>0, <2>2, <3>1, CallbackEffect DEF ReadTargets, Returns
    <3>2. CASE call[c].acct \in Rows
      <4>1. call[c].status = "DRAFT" => c \notin Accounts
        BY <1>0, <2>2 DEF FrameOK, OwnFrame, ReadTargets
      <4>2. PICK s \in {"retryRead", "publish", "mark"} : Goto(c, s)
        BY <2>2, <3>2, <4>1, AfterSendType DEF ReadTargets
      <4>. QED
        BY <1>0, <4>2, GotoEffect DEF Steps, SendSteps
    <3>. QED
      BY <3>1, <3>2
  <2>3. CASE MarkPosting(c)
    BY <1>0, <2>3, GotoEffect DEF MarkPosting, Steps, SendSteps
  <2>4. CASE PublishAccepted(c)
    <3>1. PICK s \in {"setDone", "setFailed"} : Goto(c, s)
      BY <2>4 DEF PublishAccepted
    <3>. QED
      BY <1>0, <3>1, GotoEffect DEF Steps, SendSteps
  <2>5. CASE PublishRejected(c)
    BY <1>0, <2>5, GotoEffect DEF PublishRejected, Steps, SendSteps
  <2>. QED
    BY <2>1, <2>2, <2>3, <2>4, <2>5
<1>3. WriteApt(c)' /\ Owes(c)' /\ (c \in Retries => RetryFrame(c)')
  BY <1>0, <1>2 DEF WriteApt, Owes, RetryFrame, BeforePublish
<1>. QED
  BY <1>1, <1>2, <1>3, OwingStep

LEMMA SetSettles ==
  ASSUME Calm, IInv, CopyInv, SettleInv, NEW c \in Calls,
         SetDone(c) \/ SetFailed(c) \/ MarkError(c)
  PROVE  SettleInv'
<1>. DEFINE a == call[c].acct
<1>0. /\ call[c] \in Frame /\ FrameOK(c) /\ call \in [Calls -> Frame]
      /\ target \in [Accounts -> TargetStatus] /\ CopyFrame(c)
      /\ c \in Retries => RetryFrame(c)
      /\ Active(c) /\ a \in Accounts /\ UNCHANGED <<create, mode, accepted>>
      /\ c \in Accounts => a = c
      /\ c \in Accounts \/ c \in Retries
  BY ActiveAccount DEF IInv, TypeOK, FrameInv, FrameOK, OwnFrame, SettleInv, CopyInv,
     SetDone, SetFailed, MarkError, Active, Ended, Calls
<1>1. /\ OnlyCall(c)
      /\ \/ call'[c].pc = "cbPost" /\ (call'[c].ret = "worker" => c \in Accounts)
         \/ call'[c].pc = "rejected" /\ CreateOwes /\ c \in Accounts
  <2>1. CASE SetDone(c) \/ SetFailed(c)
    BY <1>0, <2>1, CallbackEffect DEF SetDone, SetFailed, Returns
  <2>2. CASE MarkError(c) /\ c \in Accounts /\ ~IsJob(c)
    <3>1. mode = "now"
      BY <1>0, <2>2, PublishingAssumption DEF MarkError, IsJob, FrameOK, OwnFrame, IInv,
         TypeOK
    <3>2. CreateOwes
      BY <1>0, <2>2, <3>1, NowOwes DEF IInv
    <3>. QED
      BY <1>0, <2>2, <3>2, GotoEffect DEF MarkError, Steps, Ended
  <2>3. CASE MarkError(c) /\ IsJob(c)
    BY <1>0, <2>3, CallbackEffect DEF MarkError, Returns, IsJob
  <2>4. CASE MarkError(c) /\ c \notin Accounts
    <3>1. Callback(c, "retryErr")
      BY <2>4 DEF MarkError, IsJob
    <3>. QED
      BY <1>0, <3>1, CallbackEffect DEF Returns
  <2>. QED
    BY <2>1, <2>2, <2>3, <2>4
<1>2. /\ \A b \in Accounts \ {a} : target'[b] = target[b]
      /\ target[a] \in {"DONE", "FAILED"} => target'[a] = target[a]
  <2>1. CASE SetDone(c)
    <3>1. target[a] \in {"PENDING", "DONE"}
      BY <1>0, <2>1, CalmFrame DEF SetDone
    <3>. QED
      BY <1>0, <2>1, <3>1 DEF SetDone, WithTarget, Rows
  <2>2. CASE SetFailed(c) \/ MarkError(c)
    <3>1. accepted[a] = 0
      BY <1>0, <2>2, CalmFrame DEF SetFailed, MarkError, InError
    <3>2. target[a] # "DONE"
      BY <1>0, <3>1 DEF IInv, DoneWasPublished
    <3>. QED
      BY <1>0, <2>2, <3>2 DEF SetFailed, MarkError, WithTarget, Rows
  <2>. QED
    BY <2>1, <2>2
<1>3. WriteApt(c)' /\ (c \in Retries => RetryFrame(c)') /\ (Owes(c)' \/ CreateOwes)
  <2>1. c \in Retries => c \notin Accounts
    BY PublishingAssumption
  <2>. QED
    BY <1>0, <1>1, <2>1 DEF WriteApt, Owes, RetryFrame
<1>. HIDE DEF a
<1>. QED
  BY <1>0, <1>1, <1>2, <1>3, OwingStep DEF a

LEMMA JobSettles ==
  ASSUME Calm, IInv, CopyInv, SettleInv, NEW c \in Calls, JobStep(c) PROVE SettleInv'
<1>0. /\ call[c] \in Frame /\ FrameOK(c) /\ call \in [Calls -> Frame]
      /\ c \in Retries => RetryFrame(c)
      /\ Active(c) /\ UNCHANGED <<create, mode, post, target>>
      /\ c \in Accounts
  BY DEF IInv, TypeOK, FrameInv, SettleInv, RetryFrame, Calls, JobStep, AddJob, StartJob,
     Preflight, CountUsage, Active, Ended
<1>a. c \notin Retries
  BY <1>0, PublishingAssumption
<1>1. CASE AddJob(c)
  <2>1. PICK s \in {"queued", "lost"} : Goto(c, s)
    BY <1>1 DEF AddJob
  <2>2. OnlyCall(c) /\ call'[c].pc = s /\ call[c].pc = "adding"
    BY <1>0, <1>1, <2>1, GotoEffect DEF Steps, Ended, AddJob
  <2>3. WriteApt(c)'
    BY <2>2 DEF WriteApt
  <2>4. \A d \in Calls : WriteApt(d)'
    BY <1>0, <2>2, <2>3, OtherWrites
  <2>5. ~Terminal'
    <3>1. call[c].acct = c /\ Unpublished(c)
      BY <1>0, <2>2, CalmFrame DEF FrameOK, OwnFrame, BeforePublish
    <3>. QED
      BY <1>0, <3>1 DEF Unpublished, Terminal, Rows, DoneTargets, FailedTargets
  <2>6. \A r \in Retries : RetryFrame(r)'
    BY <1>a, <2>2 DEF SettleInv, RetryFrame, OnlyCall, Calls
  <2>. QED
    BY <1>0, <2>4, <2>5, <2>6 DEF SettleInv, StatusDue, CreateSettles
<1>2. CASE StartJob(c)
  <2>1. OnlyCall(c) /\ call'[c].pc = "preflight"
    BY <1>0, <1>2, GotoEffect DEF StartJob, Steps, SendSteps
  <2>2. WriteApt(c)' /\ Owes(c)'
    BY <2>1 DEF WriteApt, Owes, BeforePublish
  <2>. QED
    BY <1>0, <1>a, <2>1, <2>2, OwingStep
<1>3. CASE Preflight(c)
  <2>1. OnlyCall(c) /\ call'[c].pc \in {"readPost", "cbPost"}
    BY <1>0, <1>3, GotoEffect, CallbackEffect DEF Preflight, Steps, SendSteps, Returns
  <2>2. WriteApt(c)' /\ Owes(c)'
    BY <2>1 DEF WriteApt, Owes, BeforePublish
  <2>. QED
    BY <1>0, <1>a, <2>1, <2>2, OwingStep
<1>4. CASE CountUsage(c)
  <2>1. OnlyCall(c) /\ call[c].pc = "count" /\ call'[c].pc = "completed"
    BY <1>0, <1>4, GotoEffect DEF CountUsage, Steps, Ended
  <2>2. WriteApt(c)' /\ ~Owes(c) /\ ~Corrects(c)
    BY <2>1 DEF WriteApt, Owes, Corrects, BeforePublish, CallbackSteps
  <2>. QED
    BY <1>0, <1>a, <2>1, <2>2, UnnoticedStep
<1>. QED
  BY <1>1, <1>2, <1>3, <1>4 DEF JobStep

LEMMA RetrySettles ==
  ASSUME Calm, IInv, CopyInv, SettleInv, NEW c \in Calls, RetryStep(c) PROVE SettleInv'
<1>. DEFINE a == call[c].acct
<1>0. /\ call[c] \in Frame /\ CopyFrame(c) /\ call \in [Calls -> Frame]
      /\ target \in [Accounts -> TargetStatus]
      /\ Active(c) /\ UNCHANGED <<create, mode>>
      /\ c \notin Accounts /\ c \in Retries /\ RetryFrame(c)
      /\ a \in Accounts
  BY ActiveAccount DEF IInv, TypeOK, FrameInv, FrameOK, OwnFrame, SettleInv, CopyInv,
     RetryStep, RetryUpdate, RetryRead, RetryMark, Active, Ended, RetrySteps, Calls
<1>1. CASE RetryUpdate(c)
  <2>1. /\ OnlyCall(c) /\ call'[c].pc = "readPost" /\ call'[c].ret = call[c].ret
        /\ \A b \in Accounts \ {a} : target'[b] = target[b]
    BY <1>0, <1>1, GotoEffect DEF RetryUpdate, Steps, SendSteps, WithTarget
  <2>2. WriteApt(c)' /\ Owes(c)' /\ RetryFrame(c)'
    BY <1>0, <2>1 DEF WriteApt, Owes, BeforePublish, RetryFrame
  <2>. HIDE DEF a
  <2>. QED
    BY <1>0, <2>1, <2>2, OwingStep DEF a
<1>2. CASE RetryRead(c)
  <2>1. OnlyCall(c) /\ call'[c].pc = "cbPost" /\ call'[c].ret = "retryOk"
    BY <1>0, <1>2, CallbackEffect DEF RetryRead, Returns
  <2>2. WriteApt(c)' /\ Owes(c)' /\ RetryFrame(c)'
    BY <2>1 DEF WriteApt, Owes, RetryFrame
  <2>3. target' = target
    BY <1>2 DEF RetryRead
  <2>. QED
    BY <1>0, <2>1, <2>2, <2>3, OwingStep
<1>3. CASE RetryMark(c)
  <2>1. /\ OnlyCall(c) /\ call[c].pc = "retryMark" /\ call'[c].pc = "rejected"
        /\ call'[c].ret = call[c].ret
    BY <1>0, <1>3, GotoEffect DEF RetryMark, Steps, Ended
  <2>2. WriteApt(c)' /\ ~Owes(c) /\ ~Corrects(c) /\ RetryFrame(c)'
    BY <1>0, <2>1 DEF WriteApt, Owes, Corrects, BeforePublish, CallbackSteps, RetryFrame
  <2>3. target' = target /\ post' = post
    <3>1. target[a] = "FAILED"
      BY <1>0, <2>1 DEF CopyFrame, InRetryError
    <3>. QED
      BY <1>0, <1>3, <3>1 DEF RetryMark, WithTarget, Rows
  <2>. QED
    BY <1>0, <2>1, <2>2, <2>3, UnnoticedStep
<1>. QED
  BY <1>1, <1>2, <1>3 DEF RetryStep

\* A callback that is not the last of its call is followed by another.
LEMMA EarlyCallbackSettles ==
  ASSUME Calm, IInv, CopyInv, SettleInv, NEW c \in Calls, CallbackStep(c),
         ~FinalCallback(c)
  PROVE  SettleInv'
<1>0. /\ call[c] \in Frame /\ FrameOK(c)
      /\ c \in Retries => RetryFrame(c)
      /\ OnlyCall(c) /\ Active(c) /\ call[c].pc \in CallbackSteps
      /\ call'[c].acct = call[c].acct /\ call'[c].ret = call[c].ret
      /\ call'[c].pc \in CallbackSteps \/ call'[c].pc = AfterCallback(c)
      /\ UNCHANGED <<create, mode, target>>
      /\ call[c].ret \in Returns
      /\ c \in Accounts \/ c \in Retries
  BY CallbackFrame DEF IInv, TypeOK, FrameInv, SettleInv, Frame, Calls
<1>1. ~FinalCallback(c)'
  BY <1>0 DEF FinalCallback, InCallback, IsJob, CallbackSteps
<1>2. WriteApt(c)'
  BY <1>1 DEF WriteApt
<1>3. CASE call'[c].pc \in CallbackSteps
  <2>1. Owes(c)' /\ (c \in Retries => RetryFrame(c)')
    BY <1>0, <1>1, <1>3 DEF Owes, RetryFrame, CallbackSteps
  <2>. QED
    BY <1>0, <1>2, <2>1, OwingStep
<1>4. CASE call'[c].pc = AfterCallback(c) /\ IsJob(c)
  <2>1. call[c].ret = "error"
    BY <1>0, <1>4 DEF FinalCallback, InCallback, Returns, FrameOK, OwnFrame, IsJob
  <2>2. Owes(c)' /\ c \notin Retries
    BY <1>4, <2>1, PublishingAssumption DEF AfterCallback, Owes, IsJob
  <2>. QED
    BY <1>0, <1>2, <2>2, OwingStep
<1>5. CASE c \in Accounts /\ ~IsJob(c)
  <2>1. mode = "now"
    BY <1>0, <1>5, PublishingAssumption DEF IsJob, FrameOK, OwnFrame, IInv, TypeOK,
       CallbackSteps
  <2>2. CreateOwes /\ c \notin Retries
    BY <1>0, <1>5, <2>1, NowOwes, PublishingAssumption DEF IInv
  <2>. QED
    BY <1>0, <1>2, <2>2, OwingStep
<1>6. CASE call'[c].pc = AfterCallback(c) /\ c \in Retries
  <2>1. call[c].ret \in {"sent", "error"}
    BY <1>0, <1>6 DEF FinalCallback, InCallback, Returns, RetryFrame
  <2>2. c \notin Accounts
    BY <1>6, PublishingAssumption
  <2>3. call'[c].pc \in {"retryRead", "errMark"}
    BY <1>6, <2>1, <2>2, AfterSendType DEF AfterCallback
  <2>4. Owes(c)' /\ RetryFrame(c)'
    BY <1>0, <1>6, <2>3 DEF Owes, RetryFrame
  <2>. QED
    BY <1>0, <1>2, <2>4, OwingStep
<1>. QED
  BY <1>0, <1>3, <1>4, <1>5, <1>6

\* What follows the last callback of a call writes the post no more.
LEMMA AfterFinalCallback ==
  ASSUME IInv, NEW c \in Calls, c \in Retries => RetryFrame(c), FinalCallback(c)
  PROVE  /\ AfterCallback(c) \in {"count", "failed", "resolved", "retryMark"}
         /\ c \notin Accounts => AfterCallback(c) # "count"
<1>1. CASE IsJob(c) /\ call[c].ret \in {"sent", "worker"}
  BY <1>1 DEF AfterCallback, AfterSend, IsJob
<1>2. CASE call[c].ret \in {"retryOk", "retryErr"}
  BY <1>2 DEF AfterCallback
<1>. QED
  BY <1>1, <1>2 DEF FinalCallback, InCallback

\* What the last callback does to its frame, step by step.
LEMMA FinalFrame ==
  ASSUME IInv, CopyInv, SettleInv, NEW c \in Calls, CallbackStep(c), FinalCallback(c)
  PROVE  /\ OnlyCall(c) /\ Active(c) /\ UNCHANGED <<create, mode, target>>
         /\ call[c].acct \in Accounts /\ call'[c].acct = call[c].acct
         /\ c \in Retries => RetryFrame(c)'
         /\ call'[c].pc \in CallbackSteps => FinalCallback(c)'
         /\ call'[c].pc \in CallbackSteps
            \/ call'[c].pc \in {"count", "failed", "resolved", "retryMark"}
         /\ ~Owes(c)'
         /\ ~Owes(c) \/ call[c].pc = "cbPost"
<1>1. /\ OnlyCall(c) /\ Active(c) /\ call[c].pc \in CallbackSteps
      /\ call'[c].acct = call[c].acct /\ call'[c].ret = call[c].ret
      /\ call'[c].pc \in CallbackSteps \/ call'[c].pc = AfterCallback(c)
      /\ UNCHANGED <<create, mode, target>>
  BY CallbackFrame
<1>2. c \in Retries => RetryFrame(c) /\ c \notin Accounts
  BY PublishingAssumption DEF SettleInv
<1>3. /\ AfterCallback(c) \in {"count", "failed", "resolved", "retryMark"}
      /\ c \notin Accounts => AfterCallback(c) # "count"
  BY <1>2, AfterFinalCallback
<1>4. call'[c].pc \in CallbackSteps \ {"cbPost"} \/ call'[c].pc = AfterCallback(c)
  <2>1. call[c] \in Frame
    BY DEF IInv, TypeOK
  <2>2. CASE CallbackReadPost(c) \/ CallbackReadTargets(c)
    <3>1. CASE CallbackReadPost(c)
      BY <2>1, <3>1 DEF CallbackReadPost, Frame, CallbackSteps, IInv, TypeOK
    <3>2. CASE CallbackReadTargets(c)
      BY <2>1, <3>2 DEF CallbackReadTargets, Frame, CallbackSteps, IInv, TypeOK
    <3>. QED
      BY <2>2, <3>1, <3>2
  <2>3. CASE CallbackWrite(c) \/ CallbackCount(c)
    BY <2>1, <2>3 DEF CallbackWrite, CallbackCount, Goto, Frame, CallbackSteps, IInv,
       TypeOK
  <2>. QED
    BY <2>2, <2>3 DEF CallbackStep
<1>5. call'[c].pc \in CallbackSteps => FinalCallback(c)'
  BY <1>1 DEF FinalCallback, InCallback, IsJob
<1>6. c \in Retries => RetryFrame(c)'
  BY <1>1, <1>2, <1>3 DEF RetryFrame, CallbackSteps
<1>7. ~Owes(c)' /\ (~Owes(c) \/ call[c].pc = "cbPost")
  BY <1>1, <1>3, <1>4, <1>5 DEF Owes, BeforePublish, CallbackSteps
<1>. QED
  BY <1>1, <1>3, <1>5, <1>6, <1>7, ActiveAccount

\* The last callback leaves the status right, or itself about to correct it.
LEMMA FinalCallbackSettles ==
  ASSUME Calm, IInv, CopyInv, SettleInv, NEW c \in Calls, CallbackStep(c),
         FinalCallback(c)
  PROVE  SettleInv'
<1>0. /\ OnlyCall(c) /\ Active(c) /\ UNCHANGED <<create, mode, target>>
      /\ call[c].acct \in Accounts /\ call'[c].acct = call[c].acct
      /\ c \in Retries => RetryFrame(c)'
      /\ call'[c].pc \in CallbackSteps => FinalCallback(c)'
      /\ ~Owes(c)' /\ (~Owes(c) \/ call[c].pc = "cbPost")
      /\ call[c] \in Frame /\ call \in [Calls -> Frame]
      /\ post.status \in PostStatus /\ FrameOK(c)
  BY FinalFrame DEF IInv, TypeOK, FrameInv
<1>1. \A r \in Retries : RetryFrame(r)'
  BY <1>0 DEF SettleInv, RetryFrame, OnlyCall, Calls
<1>2. /\ \A d \in Calls \ {c} : (Owes(d)' <=> Owes(d)) /\ (Corrects(d)' <=> Corrects(d))
      /\ (Terminal' <=> Terminal) /\ (CreateOwes' <=> CreateOwes) /\ Summary' = Summary
      /\ Rows' = Rows
  BY <1>0 DEF OnlyCall, Owes, Corrects, FinalCallback, InCallback, IsJob, Terminal,
     Summary, CreateOwes, CreateSettles, Rows, FailedTargets, DoneTargets
<1>3. \A d \in Calls \ {c} : WriteApt(d)'
  BY <1>0, OtherWrites
<1>4. CASE CallbackReadPost(c)
  <2>1. call'[c].pc = "cbTargets" /\ call'[c].status = post.status /\ post' = post
    BY <1>0, <1>4 DEF CallbackReadPost, Frame
  <2>2. WriteApt(c)' /\ (Corrects(c)' <=> post.status # Summary)
    BY <1>0, <1>2, <2>1 DEF WriteApt, Corrects, CallbackSteps
  <2>3. StatusDue'
    BY <1>2, <2>1, <2>2 DEF StatusDue
  <2>. QED
    BY <1>0, <1>1, <1>3, <2>2, <2>3 DEF SettleInv, CreateSettles
<1>5. CASE CallbackReadTargets(c)
  <2>. DEFINE next == Decide(call[c].status)
  <2>1. /\ call[c].pc = "cbTargets" /\ post' = post
        /\ call'[c].next = next
        /\ call'[c].pc = IF next = "keep" THEN AfterCallback(c) ELSE "cbWrite"
    BY <1>0, <1>5 DEF CallbackReadTargets, Frame
  <2>2. call[c].status \in PostStatus
    BY <1>0 DEF Frame
  <2>3. c \in Retries => RetryFrame(c)
    BY DEF SettleInv
  <2>4. AfterCallback(c) \notin CallbackSteps
    BY <2>3, AfterFinalCallback DEF CallbackSteps
  <2>5. /\ Terminal => next = IF call[c].status = Summary THEN "keep" ELSE Summary
        /\ Rows = Accounts /\ next # "keep" => Apt(next)
    BY <2>2, DecideRight
  <2>. HIDE DEF next
  <2>6. WriteApt(c)'
    <3>1. SUFFICES ASSUME call'[c].pc = "cbWrite"
                   PROVE  (Apt(call[c].next) \/ Unpublished(call[c].acct))'
      BY DEF WriteApt
    <3>2. next # "keep"
      BY <2>1, <2>4, <3>1 DEF CallbackSteps
    <3>3. CASE Rows = Accounts
      BY <1>0, <2>1, <2>5, <3>2, <3>3 DEF Apt, DoneTargets, FailedTargets
    <3>4. CASE Rows # Accounts
      <4>1. Rows = {}
        BY <3>4 DEF CopyInv, TargetsInserted
      <4>2. target[call[c].acct] = "none"
        BY <1>0, <4>1 DEF Rows
      <4>. QED
        BY <1>0, <4>2 DEF Unpublished
    <3>. QED
      BY <3>3, <3>4
  <2>7. StatusDue'
    <3>1. SUFFICES ASSUME Terminal, ~CreateOwes, \A d \in Calls \ {c} : ~Owes(d)
                   PROVE  post.status = Summary \/ \E d \in Calls : Corrects(d)'
      BY <1>2, <2>1 DEF StatusDue
    <3>2. ~Owes(c)
      BY <1>0, <2>1
    <3>3. post.status = Summary \/ \E d \in Calls : Corrects(d)
      BY <3>1, <3>2 DEF SettleInv, StatusDue
    <3>4. CASE Corrects(c)
      <4>1. call[c].status # Summary
        BY <2>1, <3>4 DEF Corrects
      <4>2. next # "keep"
        BY <2>5, <3>1, <4>1 DEF Summary
      <4>3. call'[c].pc = "cbWrite" /\ FinalCallback(c)'
        BY <1>0, <2>1, <4>2 DEF CallbackSteps
      <4>. QED
        BY <4>3 DEF Corrects
    <3>5. CASE ~Corrects(c)
      BY <1>2, <3>3, <3>5
    <3>. QED
      BY <3>4, <3>5
  <2>. QED
    BY <1>0, <1>1, <1>3, <2>6, <2>7 DEF SettleInv, CreateSettles
<1>6. CASE CallbackWrite(c)
  <2>1. /\ call[c].pc = "cbWrite" /\ call'[c].pc # "cbWrite"
        /\ post'.status = call[c].next
    <3>1. c \in Retries => RetryFrame(c)
      BY DEF SettleInv
    <3>. QED
      BY <1>0, <1>6, <3>1, AfterFinalCallback DEF CallbackWrite, BasePost, Goto
  <2>2. WriteApt(c)' /\ WriteApt(c)
    BY <2>1 DEF WriteApt, SettleInv
  <2>3. Terminal => post'.status = Summary
    <3>1. SUFFICES ASSUME Terminal PROVE call[c].next = Summary
      BY <2>1
    <3>2. ~Unpublished(call[c].acct)
      BY <1>0, <3>1 DEF Terminal, Unpublished, DoneTargets, FailedTargets
    <3>3. Apt(call[c].next)
      BY <2>1, <2>2, <3>2 DEF WriteApt
    <3>. QED
      BY <3>1, <3>3, DecideRight DEF Apt, PostStatus
  <2>4. StatusDue'
    BY <1>2, <2>3 DEF StatusDue
  <2>. QED
    BY <1>0, <1>1, <1>3, <2>2, <2>4 DEF SettleInv, CreateSettles
<1>7. CASE CallbackCount(c)
  <2>1. call[c].pc = "cbCount" /\ post' = post /\ call'[c].pc = AfterCallback(c)
    BY <1>0, <1>7 DEF CallbackCount, Goto
  <2>2. AfterCallback(c) \in {"count", "failed", "resolved", "retryMark"}
    BY AfterFinalCallback DEF SettleInv
  <2>3. WriteApt(c)' /\ ~Owes(c) /\ ~Corrects(c)
    BY <1>0, <2>1, <2>2 DEF WriteApt, Corrects
  <2>. QED
    BY <1>0, <2>1, <2>3, UnnoticedStep
<1>. QED
  BY <1>4, <1>5, <1>6, <1>7 DEF CallbackStep

LEMMA RetrySelectSettles ==
  ASSUME Calm, IInv, CopyInv, SettleInv, NEW r \in Retries, NEW a \in Accounts,
         RetrySelect(r, a)
  PROVE  SettleInv'
<1>1. /\ r \in Calls /\ call[r] \in Frame /\ RetryFrame(r)
      /\ UNCHANGED <<create, mode, post, target>>
      /\ \A d \in Calls \ {r} : call'[d] = call[d]
      /\ call'[r].pc = "retryUpdate" /\ call'[r].ret = call[r].ret
  BY DEF Calls, RetrySelect, IInv, TypeOK, Frame, SettleInv
<1>2. ASSUME NEW d \in Calls PROVE WriteApt(d)'
  <2>1. WriteApt(d)
    BY DEF SettleInv
  <2>2. CASE d = r
    BY <1>1, <2>2 DEF WriteApt
  <2>3. CASE d # r
    BY <1>1, <2>1, <2>3 DEF WriteApt, FinalCallback, InCallback, IsJob, Apt, Unpublished,
       DoneTargets, FailedTargets
  <2>. QED
    BY <2>2, <2>3
<1>3. \A q \in Retries : RetryFrame(q)'
  BY <1>1 DEF RetryFrame, SettleInv, Calls
<1>4. Owes(r)'
  BY <1>1 DEF Owes
<1>. QED
  BY <1>1, <1>2, <1>3, <1>4 DEF SettleInv, StatusDue, CreateSettles

\* A step of createPost writes no callback's frame.
LEMMA CreateWrites ==
  ASSUME IInv, CopyInv, SettleInv, CreateBasePost \/ CreateStep
  PROVE  /\ \A c \in Calls : WriteApt(c)'
         /\ \A r \in Retries : RetryFrame(r)'
<1>1. /\ mode' = mode
      /\ \A c \in Calls : \/ call'[c] = call[c]
                          \/ c \in Accounts /\ call'[c].pc \in {"adding", "readPost"}
  BY DEF CreateBasePost, CreateStep, FireSchedules, CreatePostTargets, ReserveSlots,
     StartSends, CreateThrows, AwaitSends, MarkFailures, MarkSuccesses, FinishBasePost,
     CountSuccesses, IInv, TypeOK, Frame
<1>2. target' = target \/ CreatePostTargets
  BY SettlingChangesNothing DEF CreateBasePost, CreateStep, FireSchedules, ReserveSlots,
     StartSends, CreateThrows, AwaitSends, FinishBasePost, CountSuccesses
<1>3. ASSUME NEW c \in Calls PROVE WriteApt(c)'
  <2>1. CASE call'[c].pc \in {"adding", "readPost"}
    BY <2>1 DEF WriteApt
  <2>2. CASE call'[c] = call[c] /\ target' = target
    BY <1>1, <2>2 DEF SettleInv, WriteApt, FinalCallback, InCallback, IsJob, Apt,
       Unpublished, DoneTargets, FailedTargets
  <2>3. CASE call'[c] = call[c] /\ CreatePostTargets
    <3>1. SUFFICES ASSUME call[c].pc = "cbWrite" PROVE WriteApt(c)'
      BY <2>3 DEF WriteApt
    <3>2. call[c].acct \in Accounts
      BY <3>1, ActiveAccount DEF Active, Ended
    <3>3. target'[call[c].acct] = "PENDING"
      BY <2>3, <3>2 DEF CreatePostTargets
    <3>. QED
      BY <2>3, <3>3 DEF WriteApt, Unpublished
  <2>. QED
    BY <1>1, <1>2, <2>1, <2>2, <2>3
<1>4. \A r \in Retries : RetryFrame(r)'
  BY <1>1, PublishingAssumption DEF SettleInv, RetryFrame, Calls
<1>. QED
  BY <1>3, <1>4

\* createPost's own summary is the one the stored targets call for.
LEMMA SummaryRight ==
  ASSUME IInv, CopyInv, create = "base", mode = "now"
  PROVE  Summary = IF Resolved = {} THEN "FAILED"
                   ELSE IF Rejected = {} THEN "DONE" ELSE "PARTIALLY_DONE"
<1>1. \A a \in Accounts : call[a].pc \in {"resolved", "rejected"}
  BY DEF CopyInv, Started
<1>2. /\ \A a \in Accounts : call[a].pc = "rejected" => target[a] = "FAILED"
      /\ \A a \in Accounts : call[a].pc = "resolved" => target[a] = "DONE"
  BY DEF CopyInv, OwnCall, CreateSettles
<1>3. DoneTargets = Resolved /\ FailedTargets = Rejected
  BY <1>1, <1>2 DEF DoneTargets, FailedTargets, Resolved, Rejected
<1>4. Resolved \cup Rejected = Accounts /\ Accounts # {}
  BY <1>1, PublishingAssumption DEF Resolved, Rejected
<1>. QED
  BY <1>3, <1>4 DEF Summary

LEMMA CreateSettlesStatus ==
  ASSUME Calm, IInv, CopyInv, SettleInv, CreateBasePost \/ CreateStep
  PROVE  SettleInv'
<1>0. /\ Accounts # {} /\ TargetsInserted
      /\ \A a \in Accounts : Started(a) /\ OwnCall(a)
      /\ mode \in {"draft", "scheduled", "now"}
      /\ CreateSettles => mode = "now"
  BY PublishingAssumption DEF CopyInv, IInv, TypeOK, SettleInv
<1>. SUFFICES (CreateSettles => mode = "now")' /\ StatusDue'
  BY CreateWrites DEF SettleInv
<1>1. CASE CreateBasePost \/ FireSchedules
  <2>1. ~Terminal'
    BY <1>0, <1>1 DEF CreateBasePost, FireSchedules, TargetsInserted, Terminal, Rows
  <2>. QED
    BY <1>1, <2>1 DEF CreateBasePost, FireSchedules, StatusDue, CreateSettles
<1>2. CASE CreatePostTargets
  <2>1. ~Terminal'
    BY <1>0, <1>2 DEF CreatePostTargets, Terminal, Rows, DoneTargets, FailedTargets
  <2>. QED
    BY <1>2, <2>1 DEF CreatePostTargets, StatusDue, CreateSettles
<1>3. CASE StartSends \/ ((AwaitSends \/ MarkFailures \/ MarkSuccesses) /\ mode = "now")
  BY <1>3 DEF StartSends, AwaitSends, MarkFailures, MarkSuccesses, StatusDue, CreateOwes,
     CreateSettles
<1>4. CASE FinishBasePost
  <2>1. mode = "now" /\ create = "base"
    BY <1>0, <1>4 DEF FinishBasePost, CreateSettles
  <2>2. post'.status = Summary
    BY <1>4, <2>1, SummaryRight DEF FinishBasePost, BasePost
  <2>3. Summary' = Summary /\ create' = "count"
    BY <1>4 DEF FinishBasePost, Summary, DoneTargets, FailedTargets
  <2>. QED
    BY <2>2, <2>3 DEF StatusDue, CreateSettles
<1>5. CASE (ReserveSlots \/ CreateThrows \/ CountSuccesses) /\ ~(mode = "now" /\ CreateThrows)
  <2>1. /\ UNCHANGED <<mode, post, target, call>>
        /\ create' \in {"done", "failed"}
        /\ ~CreateOwes /\ ~CreateOwes'
    BY <1>5 DEF ReserveSlots, CreateThrows, CountSuccesses, CreateOwes, CreateSettles
  <2>2. StatusDue /\ (Terminal' <=> Terminal) /\ Summary' = Summary
    BY <2>1 DEF SettleInv, Terminal, Rows, Summary, DoneTargets, FailedTargets
  <2>3. \A c \in Calls : (Owes(c)' <=> Owes(c)) /\ (Corrects(c)' <=> Corrects(c))
    BY <2>1, <2>2 DEF Owes, Corrects, FinalCallback, InCallback, IsJob
  <2>. QED
    BY <2>1, <2>2, <2>3 DEF StatusDue, CreateSettles
<1>6. CASE CreateThrows /\ mode = "now"
  <2>1. \A a \in Accounts : Unpublished(a)
    BY <1>0, <1>6 DEF CreateThrows, Started, OwnCall, TargetsInserted, Rows, Unpublished
  <2>2. ~Terminal'
    BY <1>0, <1>6, <2>1 DEF CreateThrows, Unpublished, Terminal, Rows, DoneTargets,
       FailedTargets
  <2>. QED
    BY <1>6, <2>2 DEF CreateThrows, StatusDue, CreateSettles
<1>7. CASE (AwaitSends \/ MarkFailures \/ MarkSuccesses) /\ mode # "now"
  BY <1>0, <1>7 DEF AwaitSends, MarkFailures, MarkSuccesses, CreateSettles
<1>. QED
  BY <1>1, <1>2, <1>3, <1>4, <1>5, <1>6, <1>7 DEF CreateStep

LEMMA InitSettleInv == Init => SettleInv
<1>. SUFFICES ASSUME Init PROVE SettleInv
  OBVIOUS
<1>1. ASSUME NEW c \in Calls PROVE call[c].pc = "idle" /\ call[c].ret = "sent"
  BY DEF Init, IdleFrame
<1>2. ~Terminal
  BY PublishingAssumption DEF Init, Terminal, Rows
<1>. QED
  BY <1>1, <1>2 DEF SettleInv, StatusDue, WriteApt, RetryFrame, Calls, Init, CreateSettles

LEMMA NextSettleInv ==
  ASSUME Calm, IInv, CopyInv, SettleInv, [Next]_vars PROVE SettleInv'
<1>1. CASE CreateBasePost \/ CreateStep
  BY <1>1, CreateSettlesStatus
<1>2. ASSUME NEW c \in Calls, CallStep(c) PROVE SettleInv'
  BY <1>2, ReadSettles, SetSettles, JobSettles, RetrySettles, EarlyCallbackSettles,
     FinalCallbackSettles DEF CallStep, SendStep
<1>3. ASSUME NEW c \in Accounts, Stall(c) PROVE SettleInv'
  BY <1>3 DEF Calm, Stall
<1>4. ASSUME NEW r \in Retries, RetryRequest(r) PROVE SettleInv'
  BY <1>4, RetrySelectSettles DEF RetryRequest, RetryRefused, Calm, Orderly
<1>5. CASE UNCHANGED vars
  BY <1>5 DEF vars, SettleInv, WriteApt, RetryFrame, StatusDue, FinalCallback, InCallback,
     IsJob, Apt, Unpublished, Terminal, Rows, DoneTargets, FailedTargets, Summary, Owes,
     Corrects, CreateOwes, CreateSettles
<1>. QED
  BY <1>1, <1>2, <1>3, <1>4, <1>5 DEF Next

(* ... and when nothing runs any more and all targets are settled, the base *)
(* post has the status they call for, for any number of targets whose       *)
(* callbacks read and write it in any order, and after any retries          *)
(* (checkAndUpdateBasePostStatus, createPost, retryPostTarget).             *)
THEOREM StatusFollowsTargets == ASSUME Calm PROVE Spec => []StatusSettled
<1>1. ASSUME CopyInv, SettleInv PROVE StatusSettled
  <2>1. SUFFICES ASSUME Quiet, Terminal PROVE post.status = Summary
    BY DEF StatusSettled
  <2>2. ~CreateOwes
    BY <2>1 DEF Quiet, CreateOwes, CreateSettles
  <2>3. \A c \in Calls : ~Owes(c) /\ ~Corrects(c)
    BY <2>1 DEF Quiet, Ended, Owes, Corrects, BeforePublish, CallbackSteps
  <2>. QED
    BY <1>1, <2>1, <2>2, <2>3 DEF SettleInv, StatusDue
<1>2. Orderly
  BY DEF Calm
<1>. QED
  BY <1>1, <1>2, Invariance, CopyInvariance, InitSettleInv, NextSettleInv, PTL DEF Spec

=============================================================================
