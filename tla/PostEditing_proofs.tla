------------------------- MODULE PostEditing_proofs -------------------------
(***************************************************************************)
(* Proofs about PostEditing for any accounts, placements, horizon, number  *)
(* of requests and scenarios.  IInv is inductive: a request that is about  *)
(* to queue a job has a time for it, and a deleted post has no targets.    *)
(* QuietInv (no request overlaps with a job) carries SentOnce, and on top  *)
(* of it PlainInv (no draft, no refusal) carries SlotsFollowPost.          *)
(***************************************************************************)
EXTENDS PostEditing, FiniteSetTheorems, TLAPS

\* Where a request still has slots or jobs to move.
Moving ==
    {"release", "reserve", "adjust", "next", "cancel", "remove", "cleanup",
     "cancelTarget", "findWaiting", "findDelayed", "findActive", "add"}

Adding == {"findWaiting", "findDelayed", "findActive", "add"}

WellFormed(f) ==
    /\ f.at \in Moving =>
          /\ f.kind = "edit" => f.time \in Times
          /\ f.kind = "delete" => f.oldTime # NoTime
    /\ f.at \in Adding => f.kind = "edit"

FrameInv == \A r \in Requests : WellFormed(req[r])

DeletedInv == post.status = "deleted" => Rows = {}

IInv == TypeOK /\ FrameInv /\ DeletedInv

\* The type of a frame and of a job.
Frames ==
    [at : RequestSteps, kind : {"edit", "delete"}, status : {"PENDING", "DRAFT"},
     time : Times \cup {NoTime}, new : SUBSET Accounts,
     oldTime : (0 .. Horizon) \cup {NoTime}, old : SUBSET Accounts,
     left : SUBSET Accounts, acct : Accounts \cup {NoAccount}, victim : SUBSET Jobs]

JobRecords ==
    [at : Active \cup Queue \cup Gone, time : 0 .. Horizon, acct : Accounts \cup {NoAccount}]

-----------------------------------------------------------------------------
(* What the helpers keep *)

\* A count of accounts is a number.
LEMMA CountType ==
  ASSUME NEW p, NEW accounts \in SUBSET Accounts
  PROVE  Cardinality(On(p, accounts)) \in Nat
<1>1. On(p, accounts) \in SUBSET Accounts
  BY DEF On
<1>2. IsFiniteSet(On(p, accounts))
  BY <1>1, FS_Subset, EditingAssumption DEF EditingAssumption
<1>. QED
  BY <1>2, FS_CardinalityType

\* A frame is replaced by a well formed one.
LEMMA FrameUpdate ==
  ASSUME TypeOK, FrameInv, NEW r \in Requests,
         NEW f \in Frames, WellFormed(f), req' = [req EXCEPT ![r] = f]
  PROVE  req' \in [Requests -> Frames] /\ FrameInv'
<1>1. req \in [Requests -> Frames]
  BY DEF TypeOK, Frames
<1>2. \A q \in Requests : req'[q] = IF q = r THEN f ELSE req[q]
  BY <1>1
<1>3. \A q \in Requests : WellFormed(req'[q])
  BY <1>2 DEF FrameInv
<1>4. FrameInv'
  BY <1>3 DEF FrameInv, WellFormed, Requests, Times
<1>. QED
  BY <1>1, <1>4

\* A request that ends, or goes on to a step at which it may be, keeps its
\* frame well formed.
LEMMA GotoKeepsFrames ==
  ASSUME TypeOK, FrameInv, NEW r \in Requests, NEW step \in RequestSteps, Goto(r, step),
         step \in Moving => req[r].at \in Moving,
         step \in Adding => req[r].kind = "edit"
  PROVE  req' \in [Requests -> Frames] /\ FrameInv'
<1>1. req \in [Requests -> Frames] /\ IdleRequest \in Frames
  BY DEF TypeOK, Frames, IdleRequest, RequestSteps
<1>2. CASE step \in Ended
  <2>. DEFINE f == [IdleRequest EXCEPT !.at = step]
  <2>1. f \in Frames /\ f.at = step
    BY <1>1 DEF Frames
  <2>2. step \notin Moving /\ step \notin Adding
    BY <1>2 DEF Ended, Moving, Adding
  <2>3. WellFormed(f)
    BY <2>1, <2>2 DEF WellFormed
  <2>4. req' = [req EXCEPT ![r] = f]
    BY <1>2 DEF Goto
  <2>. HIDE DEF f
  <2>. QED
    BY <2>1, <2>3, <2>4, FrameUpdate
<1>3. CASE step \notin Ended
  <2>. DEFINE f == [req[r] EXCEPT !.at = step, !.victim = {}]
  <2>1. f \in Frames
    BY <1>1 DEF Frames
  <2>2. f.at = step /\ f.kind = req[r].kind /\ f.time = req[r].time /\ f.oldTime = req[r].oldTime
    BY <1>1 DEF Frames
  <2>3. WellFormed(f)
    BY <2>2 DEF FrameInv, WellFormed
  <2>4. req' = [req EXCEPT ![r] = f]
    BY <1>3 DEF Goto
  <2>. HIDE DEF f
  <2>. QED
    BY <2>1, <2>3, <2>4, FrameUpdate
<1>. QED
  BY <1>2, <1>3

\* The slots stay numbers.
LEMMA SlotsType ==
  ASSUME TypeOK, NEW t, NEW accounts \in SUBSET Accounts, NEW sign \in {-1, 1}
  PROVE  WithSlots(t, accounts, sign) \in [Days -> Nat]
<1>. SUFFICES ASSUME NEW s \in Days
              PROVE  AtLeastZero(slots[s] + sign * Cardinality(On(s[2], accounts))) \in Nat
  BY DEF WithSlots, TypeOK
<1>. DEFINE x == slots[s]
            n == Cardinality(On(s[2], accounts))
<1>1. x \in Int
  BY DEF TypeOK
<1>2. n \in Int
  BY CountType
<1>. HIDE DEF x, n
<1>3. sign = 1 => x + sign * n \in Int
  BY <1>1, <1>2
<1>4. sign = -1 => x + sign * n \in Int
  BY <1>1, <1>2
<1>5. AtLeastZero(x + sign * n) \in Nat
  BY <1>3, <1>4 DEF AtLeastZero
<1>. QED
  BY <1>5 DEF x, n

-----------------------------------------------------------------------------
(* The initial states *)

LEMMA InitIInv == Init => IInv
<1>. SUFFICES ASSUME Init PROVE IInv
  OBVIOUS
<1>1. Rows \in SUBSET Accounts
  BY DEF Rows
<1>2. ASSUME NEW s \in Days PROVE Cardinality(On(s[2], Rows)) \in Nat
  BY <1>1, CountType
<1>3. slots \in [Days -> Nat]
  BY <1>2 DEF Init
<1>4. post \in [status : {"PENDING", "DRAFT"}, time : Times \cup {NoTime}]
       /\ (post.status = "PENDING" => post.time \in Times)
  BY DEF Init
<1>5. target \in [Accounts -> {"none", "PENDING", "DONE", "FAILED"}]
  BY DEF Init
<1>6. job \in [Jobs -> JobRecords]
  <2>1. NoJob \in JobRecords
    BY EditingAssumption DEF EditingAssumption, NoJob, JobRecords, Gone
  <2>2. \A t \in Times : [at |-> "delayed", time |-> t, acct |-> NoAccount] \in JobRecords
    BY EditingAssumption DEF EditingAssumption, JobRecords, Queue, Times
  <2>. QED
    BY <2>1, <2>2 DEF Init
<1>7. req \in [Requests -> Frames]
  BY DEF Init, IdleRequest, Frames, RequestSteps
<1>8. TypeOK
  BY <1>3, <1>4, <1>5, <1>6, <1>7, EditingAssumption
     DEF Init, TypeOK, EditingAssumption, PostStatus, Times, JobRecords, Frames
<1>9. FrameInv
  BY DEF Init, FrameInv, WellFormed, IdleRequest, Moving, Adding
<1>10. DeletedInv
  BY <1>4 DEF DeletedInv
<1>. QED
  BY <1>8, <1>9, <1>10 DEF IInv

-----------------------------------------------------------------------------
(* The requests *)

\* What a step of a request on the queue alone has to show.
LEMMA QueueStep ==
  ASSUME IInv, RowsUnchanged, req' \in [Requests -> Frames], FrameInv',
         job' \in [Jobs -> JobRecords]
  PROVE  IInv'
<1>1. TypeOK'
  BY DEF IInv, TypeOK, RowsUnchanged, Frames, JobRecords, Times, Days, Requests, Jobs,
         RequestSteps,          Active, Queue, Gone, PostStatus
<1>2. DeletedInv'
  BY DEF IInv, DeletedInv, RowsUnchanged, Rows
<1>. QED
  BY <1>1, <1>2 DEF IInv

\* What a step of a request on the slots alone has to show.
LEMMA SlotStep ==
  ASSUME IInv, JobsUnchanged, UNCHANGED <<post, target>>, req' \in [Requests -> Frames],
         FrameInv', slots' \in [Days -> Nat]
  PROVE  IInv'
<1>1. TypeOK'
  BY DEF IInv, TypeOK, JobsUnchanged, Frames, Times, Days, Requests, Jobs, RequestSteps,
         Active, Queue, Gone, PostStatus
<1>2. DeletedInv'
  BY DEF IInv, DeletedInv, Rows
<1>. QED
  BY <1>1, <1>2 DEF IInv

LEMMA RequestKeeps ==
  ASSUME IInv, NEW r \in Requests, Request(r)
  PROVE  IInv'
<1>1. ASSUME NEW status \in {"PENDING", "DRAFT"}, NEW t \in Times \cup {NoTime},
             NEW accounts \in (SUBSET Accounts) \ {{}}, EditRead(r, status, t, accounts)
      PROVE  IInv'
  <2>. DEFINE f == [IdleRequest EXCEPT !.at = FirstStep(status, t), !.status = status,
                       !.time = t, !.new = accounts, !.left = accounts,
                       !.oldTime = post.time, !.old = Rows]
  <2>1. FirstStep(status, t) \in {"base", "reserve", "adjust", "release"}
         /\ (FirstStep(status, t) # "base" => status # "DRAFT")
    BY DEF FirstStep
  <2>2. f.at = FirstStep(status, t) /\ f.kind = "edit" /\ f.time = t
    BY DEF IdleRequest
  <2>3. post.time \in (0 .. Horizon) \cup {NoTime} /\ Rows \in SUBSET Accounts
    BY DEF IInv, TypeOK, Rows
  <2>4. f \in Frames
    BY <2>1, <2>3 DEF IdleRequest, Frames, RequestSteps
  <2>5. status # "DRAFT" => t \in Times
    BY <1>1 DEF EditRead
  <2>6. WellFormed(f)
    BY <2>1, <2>2, <2>5 DEF WellFormed, Moving, Adding
  <2>7. req' = [req EXCEPT ![r] = f] /\ UNCHANGED <<post, target, slots>> /\ JobsUnchanged
    BY <1>1 DEF EditRead
  <2>. HIDE DEF f
  <2>8. req' \in [Requests -> Frames] /\ FrameInv'
    BY <2>4, <2>6, <2>7, FrameUpdate DEF IInv
  <2>. QED
    BY <2>7, <2>8, SlotStep DEF IInv, TypeOK
<1>2. CASE DeleteRead(r)
  <2>. DEFINE f == [IdleRequest EXCEPT !.at = IF post.time = NoTime THEN "rows" ELSE "release",
                       !.kind = "delete", !.oldTime = post.time, !.old = Rows, !.left = Rows]
  <2>1. f.at = (IF post.time = NoTime THEN "rows" ELSE "release") /\ f.kind = "delete"
         /\ f.oldTime = post.time
    BY DEF IdleRequest
  <2>2. post.time \in (0 .. Horizon) \cup {NoTime} /\ Rows \in SUBSET Accounts
    BY DEF IInv, TypeOK, Rows
  <2>3. f \in Frames
    BY <2>2 DEF IdleRequest, Frames, RequestSteps
  <2>4. WellFormed(f)
    BY <2>1 DEF WellFormed, Moving, Adding
  <2>5. req' = [req EXCEPT ![r] = f] /\ UNCHANGED <<post, target, slots>> /\ JobsUnchanged
    BY <1>2 DEF DeleteRead
  <2>. HIDE DEF f
  <2>6. req' \in [Requests -> Frames] /\ FrameInv'
    BY <2>3, <2>4, <2>5, FrameUpdate DEF IInv
  <2>. QED
    BY <2>5, <2>6, SlotStep DEF IInv, TypeOK
<1>3. CASE Refuse(r)
  <2>1. req' \in [Requests -> Frames] /\ FrameInv'
    BY <1>3, GotoKeepsFrames DEF Refuse, IInv, RequestSteps, Moving, Adding
  <2>. QED
    BY <1>3, <2>1, SlotStep DEF Refuse, IInv, TypeOK
<1>. QED
  BY <1>1, <1>2, <1>3 DEF Request

\* The steps on the daily slots.
LEMMA SlotsKeep ==
  ASSUME IInv, NEW r \in Requests, Release(r) \/ Reserve(r) \/ Adjust(r)
  PROVE  IInv'
<1>1. req[r] \in Frames
  BY DEF IInv, TypeOK, Frames
<1>2. req[r].at \in Moving
  BY DEF Release, Reserve, Adjust, Moving
<1>3. \E step \in {"reserve", "next", "base", "failed"} : Goto(r, step)
  BY DEF Release, Reserve, Adjust
<1>4. req' \in [Requests -> Frames] /\ FrameInv'
  BY <1>2, <1>3, GotoKeepsFrames DEF IInv, RequestSteps, Moving, Adding
<1>5. UNCHANGED <<post, target>> /\ JobsUnchanged
  BY DEF Release, Reserve, Adjust
<1>6. slots \in [Days -> Nat]
  BY DEF IInv, TypeOK
<1>7. CASE Release(r)
  <2>1. slots' \in [Days -> Nat]
    BY <1>1, <1>7, SlotsType DEF Release, IInv, Frames
  <2>. QED
    BY <1>4, <1>5, <2>1, SlotStep
<1>8. CASE Reserve(r)
  <2>1. slots' \in [Days -> Nat]
    BY <1>1, <1>6, <1>8, SlotsType DEF Reserve, IInv, Frames
  <2>. QED
    BY <1>4, <1>5, <2>1, SlotStep
<1>9. CASE Adjust(r)
  <2>1. ASSUME NEW s \in Days
        PROVE  AtLeastZero(slots[s] + (Cardinality(On(s[2], req[r].new))
                                         - Cardinality(On(s[2], req[r].old)))) \in Nat
    <3>. DEFINE x == slots[s]
                m == Cardinality(On(s[2], req[r].new))
                n == Cardinality(On(s[2], req[r].old))
    <3>1. x \in Int
      BY <1>6
    <3>2. m \in Int /\ n \in Int
      BY <1>1, CountType DEF Frames
    <3>. HIDE DEF x, m, n
    <3>3. AtLeastZero(x + (m - n)) \in Nat
      BY <3>1, <3>2 DEF AtLeastZero
    <3>. QED
      BY <3>3 DEF x, m, n
  <2>2. slots' \in [Days -> Nat]
    BY <1>6, <1>9, <2>1 DEF Adjust
  <2>. QED
    BY <1>4, <1>5, <2>2, SlotStep
<1>. QED
  BY <1>7, <1>8, <1>9

\* The steps on the jobs.
LEMMA JobsKeep ==
  ASSUME IInv, NEW r \in Requests,
         NextTarget(r) \/ FindDelayedJob(r) \/ RemoveJob(r) \/ Cleanup(r)
           \/ FindExisting(r) \/ AddJob(r)
  PROVE  IInv'
<1>1. req \in [Requests -> Frames] /\ job \in [Jobs -> JobRecords]
  BY DEF IInv, TypeOK, Frames, JobRecords
<1>2. WellFormed(req[r])
  BY DEF IInv, FrameInv
<1>3. [NoJob EXCEPT !.at = "removed"] \in JobRecords
  BY EditingAssumption DEF EditingAssumption, NoJob, JobRecords, Gone
<1>4. AfterCancel(r) \in {"findWaiting", "cancelTarget"}
       /\ (AfterCancel(r) \in Adding => req[r].kind = "edit")
  BY DEF AfterCancel, Adding
<1>5. CASE NextTarget(r)
  <2>1. CASE \E a \in req[r].left :
                req' = [req EXCEPT ![r].left = @ \ {a}, ![r].acct = a,
                                   ![r].at = IF req[r].oldTime = NoTime THEN "findWaiting"
                                                                        ELSE "cancel"]
    <3>1. PICK a \in req[r].left :
                req' = [req EXCEPT ![r].left = @ \ {a}, ![r].acct = a,
                                   ![r].at = IF req[r].oldTime = NoTime THEN "findWaiting"
                                                                        ELSE "cancel"]
      BY <2>1
    <3>. DEFINE f == [req[r] EXCEPT !.left = @ \ {a}, !.acct = a,
                         !.at = IF req[r].oldTime = NoTime THEN "findWaiting" ELSE "cancel"]
    <3>2. f \in Frames
      <4>1. req[r] \in Frames /\ a \in Accounts /\ req[r].left \ {a} \in SUBSET Accounts
        BY <1>1 DEF Frames
      <4>2. f.at \in RequestSteps
        BY <4>1 DEF Frames, RequestSteps
      <4>. QED
        BY <4>1, <4>2 DEF Frames
    <3>3. f.at = (IF req[r].oldTime = NoTime THEN "findWaiting" ELSE "cancel")
           /\ f.kind = req[r].kind /\ f.time = req[r].time /\ f.oldTime = req[r].oldTime
      BY <1>1 DEF Frames
    <3>4. WellFormed(f)
      <4>1. req[r].at \in Moving /\ req[r].kind \in {"edit", "delete"}
        BY <1>1, <1>5 DEF NextTarget, Moving, Frames
      <4>2. /\ req[r].kind = "edit" => req[r].time \in Times
            /\ req[r].oldTime = NoTime => req[r].kind = "edit"
        BY <1>2, <4>1 DEF WellFormed
      <4>3. f.at \in Adding => req[r].oldTime = NoTime
        BY <3>3 DEF Adding
      <4>. HIDE DEF f
      <4>. QED
        BY <3>3, <4>1, <4>2, <4>3 DEF WellFormed
    <3>5. req' = [req EXCEPT ![r] = f]
      BY <1>1, <3>1 DEF Frames
    <3>. HIDE DEF f
    <3>6. req' \in [Requests -> Frames] /\ FrameInv'
      BY <3>2, <3>4, <3>5, FrameUpdate DEF IInv
    <3>. QED
      BY <1>1, <1>5, <3>6, QueueStep DEF NextTarget
  <2>2. CASE Goto(r, IF req[r].kind = "edit" THEN "base" ELSE "rows")
    <3>1. req' \in [Requests -> Frames] /\ FrameInv'
      BY <2>2, GotoKeepsFrames DEF IInv, RequestSteps, Moving, Adding
    <3>. QED
      BY <1>1, <1>5, <3>1, QueueStep DEF NextTarget
  <2>. QED
    BY <1>5, <2>1, <2>2 DEF NextTarget
<1>6. CASE FindDelayedJob(r)
  <2>1. CASE Goto(r, AfterCancel(r))
    <3>1. req' \in [Requests -> Frames] /\ FrameInv'
      BY <1>4, <1>6, <2>1, GotoKeepsFrames DEF FindDelayedJob, IInv, RequestSteps, Moving
    <3>. QED
      BY <1>1, <1>6, <3>1, QueueStep DEF FindDelayedJob
  <2>2. CASE \E j \in Jobs : req' = [req EXCEPT ![r].at = "remove", ![r].victim = {j}]
    <3>1. PICK j \in Jobs : req' = [req EXCEPT ![r].at = "remove", ![r].victim = {j}]
      BY <2>2
    <3>. DEFINE f == [req[r] EXCEPT !.at = "remove", !.victim = {j}]
    <3>2. f \in Frames
      <4>1. req[r] \in Frames /\ {j} \in SUBSET Jobs /\ "remove" \in RequestSteps
        BY <1>1 DEF RequestSteps
      <4>. QED
        BY <4>1 DEF Frames
    <3>3. f.at = "remove" /\ f.kind = req[r].kind /\ f.time = req[r].time
           /\ f.oldTime = req[r].oldTime
      BY <1>1 DEF Frames
    <3>4. WellFormed(f)
      BY <1>2, <1>6, <3>3 DEF FindDelayedJob, WellFormed, Moving, Adding
    <3>5. req' = [req EXCEPT ![r] = f]
      BY <1>1, <3>1 DEF Frames
    <3>. HIDE DEF f
    <3>6. req' \in [Requests -> Frames] /\ FrameInv'
      BY <3>2, <3>4, <3>5, FrameUpdate DEF IInv
    <3>. QED
      BY <1>1, <1>6, <3>6, QueueStep DEF FindDelayedJob
  <2>. QED
    BY <1>6, <2>1, <2>2 DEF FindDelayedJob, InQueue
<1>7. CASE RemoveJob(r)
  <2>1. PICK step \in {"failed", "cleanup", "findWaiting", "cancelTarget"} :
           Goto(r, step) /\ (step \in Adding => req[r].kind = "edit")
    BY <1>4, <1>7 DEF RemoveJob, Adding
  <2>2. req' \in [Requests -> Frames] /\ FrameInv'
    BY <1>7, <2>1, GotoKeepsFrames DEF RemoveJob, IInv, RequestSteps, Moving
  <2>3. job' \in [Jobs -> JobRecords]
    BY <1>1, <1>3, <1>7 DEF RemoveJob
  <2>. QED
    BY <1>7, <2>2, <2>3, QueueStep DEF RemoveJob
<1>8. CASE Cleanup(r)
  <2>1. req' \in [Requests -> Frames] /\ FrameInv'
    BY <1>8, GotoKeepsFrames DEF Cleanup, IInv, RequestSteps, Moving, Adding
  <2>2. job' \in [Jobs -> JobRecords]
    BY <1>1, <1>3, <1>8 DEF Cleanup
  <2>. QED
    BY <1>8, <2>1, <2>2, QueueStep DEF Cleanup
<1>9. CASE FindExisting(r)
  <2>1. PICK step \in {"next", "findDelayed", "findActive", "add"} : Goto(r, step)
    BY <1>9 DEF FindExisting
  <2>2. req[r].at \in Moving /\ req[r].at \in Adding
    BY <1>9 DEF FindExisting, Moving, Adding
  <2>3. req' \in [Requests -> Frames] /\ FrameInv'
    BY <1>2, <2>1, <2>2, GotoKeepsFrames DEF WellFormed, IInv, RequestSteps
  <2>. QED
    BY <1>1, <1>9, <2>3, QueueStep DEF FindExisting
<1>10. CASE AddJob(r)
  <2>1. req' \in [Requests -> Frames] /\ FrameInv'
    BY <1>10, GotoKeepsFrames DEF AddJob, IInv, RequestSteps, Moving, Adding
  <2>2. req[r].time \in Times
    BY <1>2, <1>10 DEF AddJob, WellFormed, Moving, Adding
  <2>3. NoJob \in JobRecords /\ req[r].time \in 0 .. Horizon
    BY <2>2, EditingAssumption DEF EditingAssumption, NoJob, JobRecords, Gone, Times
  <2>4. \A n \in JobRecords, t \in 0 .. Horizon :
           [n EXCEPT !.at = "delayed", !.time = t] \in JobRecords
    BY DEF JobRecords, Queue
  <2>5. job' \in [Jobs -> JobRecords]
    BY <1>1, <1>10, <2>3, <2>4 DEF AddJob
  <2>. QED
    BY <1>10, <2>1, <2>5, QueueStep DEF AddJob
<1>. QED
  BY <1>5, <1>6, <1>7, <1>8, <1>9, <1>10

\* The steps on the rows: what they write is typed, and nothing that is
\* deleted comes back.
LEMMA RowStep ==
  ASSUME IInv, JobsUnchanged, UNCHANGED slots, req' \in [Requests -> Frames], FrameInv',
         post' \in [status : PostStatus, time : (0 .. Horizon) \cup {NoTime}],
         target' \in [Accounts -> {"none", "PENDING", "DONE", "FAILED"}],
         DeletedInv'
  PROVE  IInv'
<1>1. TypeOK'
  BY DEF IInv, TypeOK, JobsUnchanged, Frames, Times, Days, Requests, Jobs, RequestSteps,
         Active, Queue, Gone, PostStatus
<1>. QED
  BY <1>1 DEF IInv

LEMMA RowsKeep ==
  ASSUME IInv, NEW r \in Requests,
         CancelTarget(r) \/ UpdateBasePost(r) \/ UpdatePostTargets(r) \/ DeleteRows(r)
  PROVE  IInv'
<1>1. req[r] \in Frames
       /\ post \in [status : PostStatus, time : (0 .. Horizon) \cup {NoTime}]
       /\ target \in [Accounts -> {"none", "PENDING", "DONE", "FAILED"}]
  BY DEF IInv, TypeOK, Frames
<1>2. DeletedInv
  BY DEF IInv
<1>3. \E step \in {"next", "targets", "ok", "failed"} :
         Goto(r, step) /\ (step = "next" => req[r].at = "cancelTarget")
  BY DEF CancelTarget, UpdateBasePost, UpdatePostTargets, DeleteRows
<1>4. req' \in [Requests -> Frames] /\ FrameInv'
  BY <1>3, GotoKeepsFrames DEF IInv, RequestSteps, Moving, Adding
<1>5. UNCHANGED slots /\ JobsUnchanged
  BY DEF CancelTarget, UpdateBasePost, UpdatePostTargets, DeleteRows
<1>6. CASE CancelTarget(r)
  <2>1. DeletedInv'
    BY <1>1, <1>2, <1>6 DEF CancelTarget, DeletedInv, Rows
  <2>. QED
    BY <1>1, <1>4, <1>5, <1>6, <2>1, RowStep DEF CancelTarget
<1>7. CASE UpdateBasePost(r)
  <2>1. post' \in [status : PostStatus, time : (0 .. Horizon) \cup {NoTime}]
    BY <1>1, <1>7, EditingAssumption
       DEF EditingAssumption, UpdateBasePost, Frames, PostStatus, Times
  <2>2. DeletedInv'
    BY <1>1, <1>2, <1>7 DEF UpdateBasePost, DeletedInv, Rows, Frames
  <2>. QED
    BY <1>1, <1>4, <1>5, <1>7, <2>1, <2>2, RowStep DEF UpdateBasePost
<1>8. CASE UpdatePostTargets(r)
  <2>1. target' \in [Accounts -> {"none", "PENDING", "DONE", "FAILED"}]
    BY <1>1, <1>8 DEF UpdatePostTargets
  <2>2. DeletedInv'
    BY <1>1, <1>2, <1>8 DEF UpdatePostTargets, DeletedInv, Rows
  <2>. QED
    BY <1>1, <1>4, <1>5, <1>8, <2>1, <2>2, RowStep DEF UpdatePostTargets
<1>9. CASE DeleteRows(r)
  <2>1. post' \in [status : PostStatus, time : (0 .. Horizon) \cup {NoTime}]
    BY <1>1, <1>9 DEF DeleteRows, PostStatus
  <2>2. target' \in [Accounts -> {"none", "PENDING", "DONE", "FAILED"}] /\ DeletedInv'
    BY <1>9 DEF DeleteRows, DeletedInv, Rows
  <2>. QED
    BY <1>4, <1>5, <1>9, <2>1, <2>2, RowStep DEF DeleteRows
<1>. QED
  BY <1>6, <1>7, <1>8, <1>9

-----------------------------------------------------------------------------
(* The jobs *)

\* A job writes the base post of a post that exists, and the rows it finds.
LEMMA JobKeeps ==
  ASSUME IInv, NEW j \in Jobs, JobStep(j)
  PROVE  IInv'
<1>1. job \in [Jobs -> JobRecords] /\ now \in 0 .. Horizon
       /\ post \in [status : PostStatus, time : (0 .. Horizon) \cup {NoTime}]
       /\ target \in [Accounts -> {"none", "PENDING", "DONE", "FAILED"}]
       /\ accepted \in [Accounts -> Nat]
  BY DEF IInv, TypeOK, JobRecords
<1>2. \A step \in Active \cup Queue \cup Gone : JobGoto(j, step) => job' \in [Jobs -> JobRecords]
  <2>1. [NoJob EXCEPT !.at = "ended"] \in JobRecords
    BY EditingAssumption DEF EditingAssumption, NoJob, JobRecords, Gone
  <2>. QED
    BY <1>1, <2>1 DEF JobGoto, JobRecords
<1>3. Rows \in SUBSET Accounts
  BY DEF Rows
<1>4. job' \in [Jobs -> JobRecords]
  <2>1. CASE ReadPost(j)
    <3>1. CASE \E step \in {"settleFailed", "ended"} : JobGoto(j, step)
      BY <1>2, <3>1 DEF Active, Gone
    <3>2. CASE \E a \in Accounts, step \in {"publishing", "marking"} :
                 job' = [job EXCEPT ![j].acct = a, ![j].at = step]
      <4>1. \A n \in JobRecords, a \in Accounts, step \in {"publishing", "marking"} :
               [n EXCEPT !.acct = a, !.at = step] \in JobRecords
        BY DEF JobRecords, Active
      <4>2. PICK a \in Accounts, step \in {"publishing", "marking"} :
               job' = [job EXCEPT ![j].acct = a, ![j].at = step]
        BY <3>2
      <4>3. job' = [job EXCEPT ![j] = [@ EXCEPT !.acct = a, !.at = step]]
        BY <1>1, <4>2
      <4>. QED
        BY <1>1, <4>1, <4>3
    <3>. QED
      BY <1>3, <2>1, <3>1, <3>2 DEF ReadPost, Candidates
  <2>2. CASE Due(j) \/ Start(j) \/ MarkPosting(j) \/ Publish(j) \/ Record(j) \/ Settle(j)
               \/ MarkError(j)
    <3>1. \E step \in {"waiting", "reading", "publishing", "recordDone", "recordFailed",
                       "settleDone", "settleFailed", "markError", "ended", "settleError"} :
             JobGoto(j, step)
      BY <2>2 DEF Due, Start, MarkPosting, Publish, Record, Settle, MarkError
    <3>. QED
      BY <1>2, <3>1 DEF Active, Queue, Gone
  <2>. QED
    BY <2>1, <2>2 DEF JobStep
<1>5. post' \in [status : PostStatus, time : (0 .. Horizon) \cup {NoTime}]
       /\ (post'.status = "deleted" <=> post.status = "deleted")
  <2>1. \A status \in {"POSTING", "DONE", "FAILED", "PARTIALLY_DONE"} :
           /\ BasePost(status) \in [status : PostStatus, time : (0 .. Horizon) \cup {NoTime}]
           /\ BasePost(status).status = "deleted" <=> post.status = "deleted"
    BY <1>1 DEF BasePost, PostStatus
  <2>2. Summary = post \/ \E status \in {"DONE", "FAILED", "PARTIALLY_DONE"} :
                             Summary = BasePost(status)
    BY DEF Summary
  <2>3. post' = post \/ post' = Summary \/ post' = BasePost("POSTING")
    BY DEF JobStep, Due, Start, ReadPost, MarkPosting, Publish, Record, Settle, MarkError,
           QueueOnly
  <2>. QED
    BY <1>1, <2>1, <2>2, <2>3
<1>6. target' \in [Accounts -> {"none", "PENDING", "DONE", "FAILED"}] /\ Rows' \subseteq Rows
  <2>1. CASE Record(j)
    BY <1>1, <2>1 DEF Record, Rows
  <2>2. CASE MarkError(j)
    BY <1>1, <2>2 DEF MarkError, Rows
  <2>3. CASE target' = target
    BY <1>1, <2>3 DEF Rows
  <2>. QED
    BY <2>1, <2>2, <2>3
       DEF JobStep, Due, Start, ReadPost, MarkPosting, Publish, Settle, QueueOnly
<1>7. accepted' \in [Accounts -> Nat]
  <2>1. CASE Publish(j)
    BY <1>1, <2>1 DEF Publish
  <2>2. CASE accepted' = accepted
    BY <1>1, <2>2
  <2>. QED
    BY <2>1, <2>2
       DEF JobStep, Due, Start, ReadPost, MarkPosting, Record, Settle, MarkError, QueueOnly
<1>8. UNCHANGED <<scenario, platform, now, req, slots>>
  BY DEF JobStep, Due, Start, ReadPost, MarkPosting, Publish, Record, Settle, MarkError, QueueOnly
<1>9. TypeOK'
  BY <1>4, <1>5, <1>6, <1>7, <1>8
     DEF IInv, TypeOK, JobRecords, Times, Days, Requests, Jobs, RequestSteps,
         Active, Queue, Gone, PostStatus
<1>10. FrameInv'
  BY <1>8 DEF IInv, FrameInv, WellFormed, Requests, Times
<1>11. DeletedInv'
  BY <1>5, <1>6 DEF IInv, DeletedInv
<1>. QED
  BY <1>9, <1>10, <1>11 DEF IInv

-----------------------------------------------------------------------------
(* The invariant *)

LEMMA NextKeeps == IInv /\ [Next]_vars => IInv'
<1>. SUFFICES ASSUME IInv, [Next]_vars PROVE IInv'
  OBVIOUS
<1>1. CASE Tick
  <2>1. now' \in 0 .. Horizon
    BY <1>1, EditingAssumption DEF Tick, IInv, TypeOK, EditingAssumption
  <2>2. TypeOK'
    BY <1>1, <2>1 DEF Tick, IInv, TypeOK, Times, Days, Requests, Jobs, RequestSteps,
                      Active, Queue, Gone, PostStatus
  <2>. QED
    BY <1>1, <2>2 DEF Tick, IInv, FrameInv, WellFormed, Requests, Times, DeletedInv, Rows
<1>2. ASSUME NEW r \in Requests, Request(r) PROVE IInv'
  BY <1>2, RequestKeeps
<1>3. ASSUME NEW r \in Requests, RequestStep(r) PROVE IInv'
  BY <1>3, SlotsKeep, JobsKeep, RowsKeep DEF RequestStep
<1>4. ASSUME NEW j \in Jobs, JobStep(j) PROVE IInv'
  BY <1>4, JobKeeps
<1>5. CASE UNCHANGED vars
  BY <1>5 DEF vars, IInv, TypeOK, FrameInv, WellFormed, DeletedInv, Rows, Times, Days, Requests,
              Jobs, RequestSteps, Active, Queue, Gone, PostStatus
<1>. QED
  BY <1>1, <1>2, <1>3, <1>4, <1>5 DEF Next

LEMMA Invariance == Spec => []IInv
<1>. QED
  BY InitIInv, NextKeeps, PTL DEF Spec

(* Every request and every job keeps the rows, the jobs and its own frame  *)
(* well typed: in particular a job is only added with a time, which needs  *)
(* editPost's refusal of a scheduled post without one.                     *)
THEOREM TypeCorrect == Spec => []TypeOK
<1>1. IInv => TypeOK
  BY DEF IInv
<1>. QED
  BY <1>1, Invariance, PTL

(* Whatever edits and jobs had read it before, a deleted post never comes  *)
(* back and gets no targets: updateBasePost and the status callbacks find  *)
(* no row, and the foreign key refuses updatePostTargets.                  *)
THEOREM DeletedStaysDeleted == Spec => DeletedForGood
<1>1. IInv /\ IInv' /\ [Next]_vars
        => [post.status = "deleted" => post'.status = "deleted" /\ Rows' = {}]_vars
  <2>. SUFFICES ASSUME IInv, IInv', Next, post.status = "deleted"
                PROVE  post'.status = "deleted"
    BY DEF IInv, DeletedInv
  <2>1. CASE Tick
    BY <2>1 DEF Tick
  <2>2. ASSUME NEW r \in Requests, Request(r) \/ RequestStep(r)
        PROVE  post'.status = "deleted"
    <3>1. CASE Request(r)
      BY <3>1 DEF Request, EditRead, DeleteRead, Refuse
    <3>2. CASE DeleteRows(r)
      BY <3>2 DEF DeleteRows, IInv, TypeOK
    <3>3. CASE post' = post
      BY <3>3
    <3>4. RequestStep(r) => DeleteRows(r) \/ post' = post
      BY DEF RequestStep, Release, Reserve, Adjust, NextTarget, FindDelayedJob, RemoveJob,
             Cleanup, CancelTarget, FindExisting, AddJob, UpdateBasePost, UpdatePostTargets,
             RowsUnchanged
    <3>. QED
      BY <2>2, <3>1, <3>2, <3>3, <3>4
  <2>3. ASSUME NEW j \in Jobs, JobStep(j)
        PROVE  post'.status = "deleted"
    <3>1. \A status : BasePost(status) = post
      BY DEF BasePost
    <3>2. Summary = post
      BY <3>1 DEF Summary
    <3>. QED
      BY <2>3, <3>1, <3>2 DEF JobStep, Due, Start, ReadPost, MarkPosting, Publish, Record,
                              Settle, MarkError, QueueOnly
  <2>. QED
    BY <2>1, <2>2, <2>3 DEF Next
<1>. QED
  BY <1>1, Invariance, PTL DEF Spec, DeletedForGood

-----------------------------------------------------------------------------
(* Sent once.  Where requests meet no due job and no other request, and a   *)
(* post of which something was sent is not edited, one request at a time    *)
(* moves jobs that all rest: it adds one for a platform that has none left. *)

Quiet == Without({"overlap", "resent"})

\* A job that has not been to the platform.
Unsent == {"delayed", "waiting", "reading", "marking", "publishing"}

\* The job j may send the target of the account a.
Takes(j, a) == platform[a] = PlatformOf(j) /\ AccountOf(j) \in {a, NoAccount}

Resting(j) == job[j].at \in Gone \/ (job[j].at = "delayed" /\ job[j].time > now)

AloneInv == \A r, q \in Requests : Running(r) /\ Running(q) => r = q

\* An edit has a time ahead, and what it has searched for is not there.
QuietFrame(f) ==
    /\ f.kind = "edit" => \A a \in Accounts : accepted[a] = 0
    /\ f.kind = "edit" /\ f.at \in Moving => f.time > now
    /\ f.at \in {"findActive", "add"} =>
          \A j \in Jobs : PlatformOf(j) = platform[f.acct] => job[j].at \in Gone

RestInv ==
    \A r \in Requests : Running(r) => (\A j \in Jobs : Resting(j)) /\ QuietFrame(req[r])

\* Only createPost's jobs, which carry their accounts, share a platform.
OneJobInv ==
    \A j, k \in Jobs :
       job[j].at \notin Gone /\ job[k].at \notin Gone /\ PlatformOf(j) = PlatformOf(k)
       => j = k \/ (j[1] = Create /\ k[1] = Create)

FreshInv ==
    \A j \in Jobs :
       /\ job[j].at \in Unsent => \A a \in Accounts : Takes(j, a) => accepted[a] = 0
       /\ job[j].at \in {"marking", "publishing"} =>
             job[j].acct \in Accounts /\ Takes(j, job[j].acct)

OnceInv == \A a \in Accounts : accepted[a] <= 1

QuietInv == AloneInv /\ RestInv /\ OneJobInv /\ FreshInv /\ OnceInv

\* createPost's jobs are told apart by their accounts.
LEMMA OneTaker ==
  ASSUME OneJobInv, NEW j \in Jobs, NEW k \in Jobs, NEW a \in Accounts,
         job[j].at \notin Gone, job[k].at \notin Gone, Takes(j, a), Takes(k, a)
  PROVE  j = k
<1>1. CASE j[1] = Create /\ k[1] = Create
  <2>1. j[2] \in Accounts /\ k[2] \in Accounts /\ j = <<j[1], j[2]>> /\ k = <<k[1], k[2]>>
    BY DEF Jobs
  <2>2. j[2] = a /\ k[2] = a
    BY <1>1, <2>1, EditingAssumption DEF Takes, AccountOf, EditingAssumption
  <2>. QED
    BY <1>1, <2>1, <2>2
<1>. QED
  BY <1>1 DEF OneJobInv, Takes

\* While a request is served no job moves.
LEMMA JobsWait ==
  ASSUME IInv, RestInv, NEW j \in Jobs, JobStep(j), NEW r \in Requests
  PROVE  ~ Running(r)
<1>1. SUFFICES ASSUME Running(r) PROVE FALSE
  OBVIOUS
<1>2. Resting(j)
  BY <1>1 DEF RestInv
<1>3. job[j].at \notin Gone /\ (job[j].at = "delayed" => job[j].time <= now)
  BY DEF JobStep, Due, Start, ReadPost, MarkPosting, Publish, Record, Settle, MarkError, Gone
<1>4. job[j].time \in Int /\ now \in Int
  BY DEF IInv, TypeOK
<1>. QED
  BY <1>2, <1>3, <1>4 DEF Resting

LEMMA JobKeepsQuiet ==
  ASSUME IInv, QuietInv, NEW j \in Jobs, JobStep(j)
  PROVE  QuietInv'
<1>1. UNCHANGED <<scenario, platform, now, req>>
  BY DEF JobStep, Due, Start, ReadPost, MarkPosting, Publish, Record, Settle, MarkError, QueueOnly
<1>2. AloneInv' /\ RestInv'
  BY <1>1, JobsWait DEF QuietInv, AloneInv, RestInv, Running, Requests
<1>3. /\ \A k \in Jobs : k # j => job'[k] = job[k]
      /\ job[j].at \notin Gone
  <2>1. job \in [Jobs -> JobRecords]
    BY DEF IInv, TypeOK, JobRecords
  <2>2. \A step : JobGoto(j, step) => \A k \in Jobs : k # j => job'[k] = job[k]
    BY <2>1 DEF JobGoto
  <2>3. ReadPost(j) => \A k \in Jobs : k # j => job'[k] = job[k]
    BY <2>1, <2>2 DEF ReadPost
  <2>4. \A k \in Jobs : k # j => job'[k] = job[k]
    BY <2>2, <2>3 DEF JobStep, Due, Start, MarkPosting, Publish, Record, Settle, MarkError
  <2>5. job[j].at \notin Gone
    BY DEF JobStep, Due, Start, ReadPost, MarkPosting, Publish, Record, Settle, MarkError, Gone
  <2>. QED
    BY <2>4, <2>5
<1>4. OneJobInv'
  BY <1>1, <1>3 DEF QuietInv, OneJobInv, Jobs, PlatformOf, Requests, Gone
<1>5. job \in [Jobs -> JobRecords] /\ accepted \in [Accounts -> Nat]
  BY DEF IInv, TypeOK, JobRecords
<1>6. CASE Publish(j)
  <2> DEFINE a == job[j].acct
  <2>1. a \in Accounts /\ Takes(j, a) /\ accepted[a] = 0
    BY <1>6 DEF Publish, QuietInv, FreshInv, Unsent
  <2>2. job'[j].at \in {"recordDone", "recordFailed"}
    BY <1>5, <1>6 DEF Publish, JobGoto, JobRecords
  <2>3. \A b \in Accounts : accepted'[b] \in {accepted[b], IF b = a THEN 1 ELSE accepted[b]}
    BY <1>5, <1>6, <2>1 DEF Publish
  <2>4. OnceInv'
    BY <2>3 DEF QuietInv, OnceInv
  <2>5. ASSUME NEW k \in Jobs, job'[k].at \in Unsent, NEW b \in Accounts, Takes(k, b)
        PROVE  accepted'[b] = 0
    <3>1. k # j /\ job'[k] = job[k]
      BY <1>3, <2>2, <2>5 DEF Unsent
    <3>2. accepted[b] = 0
      BY <2>5, <3>1 DEF QuietInv, FreshInv
    <3>3. b # a
      BY <1>3, <2>1, <2>5, <3>1, OneTaker DEF QuietInv, Unsent, Gone
    <3>. QED
      BY <2>3, <3>2, <3>3
  <2>6. FreshInv'
    BY <1>1, <1>3, <2>2, <2>5 DEF QuietInv, FreshInv, Takes, PlatformOf, AccountOf, Jobs, Requests
  <2>. QED
    BY <1>2, <1>4, <2>4, <2>6 DEF QuietInv
<1>7. CASE ~ Publish(j)
  <2>1. UNCHANGED accepted
    BY <1>7 DEF JobStep, Due, Start, ReadPost, MarkPosting, Record, Settle, MarkError, QueueOnly
  <2>2. /\ job'[j].at \in Unsent => job[j].at \in Unsent
        /\ job'[j].at \in {"marking", "publishing"} =>
              job'[j].acct \in Accounts /\ Takes(j, job'[j].acct)
    <3>1. CASE ReadPost(j)
      BY <1>5, <3>1 DEF ReadPost, Candidates, Rows, JobGoto, JobRecords, Unsent, Takes, NoJob
    <3>2. CASE MarkPosting(j)
      BY <1>5, <3>2 DEF MarkPosting, JobGoto, JobRecords, Unsent, QuietInv, FreshInv
    <3>3. CASE Due(j) \/ Start(j) \/ Record(j) \/ Settle(j) \/ MarkError(j)
      BY <1>5, <3>3 DEF Due, Start, Record, Settle, MarkError, JobGoto, JobRecords, Unsent, NoJob
    <3>. QED
      BY <1>7, <3>1, <3>2, <3>3 DEF JobStep
  <2>3. FreshInv'
    BY <1>1, <1>3, <2>1, <2>2 DEF QuietInv, FreshInv, Takes, PlatformOf, AccountOf, Jobs, Requests
  <2>. QED
    BY <1>2, <1>4, <2>1, <2>3 DEF QuietInv, OnceInv
<1>. QED
  BY <1>6, <1>7

Fixed == UNCHANGED <<scenario, platform, now, accepted>>

\* What a request shows about the jobs, and about its own frame.
JobsQuiet == (\A j \in Jobs : Resting(j)) /\ OneJobInv /\ FreshInv

LEMMA FrameKeepsQuiet ==
  ASSUME IInv, QuietInv, NEW r \in Requests, Running(r), NEW f, Fixed, JobsQuiet',
         req' = [req EXCEPT ![r] = f],
         f.at \notin {"idle", "ok", "failed"} => QuietFrame(f)'
  PROVE  QuietInv'
<1>1. \A q \in Requests : req'[q] = IF q = r THEN f ELSE req[q]
  BY DEF IInv, TypeOK
<1>2. \A q \in Requests : q # r => ~ Running(q)
  BY DEF QuietInv, AloneInv
<1>3. \A q \in Requests : Running(q)' => q = r /\ req'[q] = f /\ QuietFrame(f)'
  BY <1>1, <1>2 DEF Running
<1>4. AloneInv'
  BY <1>3 DEF AloneInv, Requests
<1>5. RestInv'
  BY <1>3 DEF RestInv, JobsQuiet, Requests
<1>6. OnceInv'
  BY DEF QuietInv, OnceInv, Fixed
<1>. QED
  BY <1>4, <1>5, <1>6 DEF QuietInv, JobsQuiet

\* Jobs that are taken out of the queue, or left in it.
LEMMA FewerJobs ==
  ASSUME QuietInv, NEW r \in Requests, Running(r), Fixed,
         \A j \in Jobs : job'[j] = job[j] \/ job'[j].at = "removed"
  PROVE  JobsQuiet'
<1>1. \A j \in Jobs : Resting(j)
  BY DEF QuietInv, RestInv
<1>2. \A j \in Jobs : job'[j].at \in Gone \/ job'[j] = job[j]
  BY DEF Gone
<1>3. \A j \in Jobs : Resting(j)'
  BY <1>1, <1>2 DEF Resting, Fixed
<1>4. OneJobInv'
  BY <1>2 DEF QuietInv, OneJobInv, Fixed, PlatformOf, Jobs, Requests
<1>5. FreshInv'
  <2>1. \A j \in Jobs : job'[j].at \in Unsent \cup {"marking", "publishing"} => job'[j] = job[j]
    BY <1>2 DEF Unsent, Gone
  <2>. QED
    BY <2>1 DEF QuietInv, FreshInv, Fixed, Takes, PlatformOf, AccountOf, Jobs, Requests
<1>. QED
  BY <1>3, <1>4, <1>5 DEF JobsQuiet, Jobs, Requests

\* A step within one request.
LEMMA GotoKeepsQuiet ==
  ASSUME IInv, QuietInv, NEW r \in Requests, Running(r), NEW step \in RequestSteps,
         Goto(r, step), Fixed, JobsQuiet', step \in Moving => req[r].at \in Moving,
         step \in {"findActive", "add"} =>
            \A j \in Jobs : PlatformOf(j) = platform[req[r].acct] => job'[j].at \in Gone
  PROVE  QuietInv'
<1>1. req[r] \in Frames
  BY DEF IInv, TypeOK, Frames
<1>2. CASE step \in Ended
  <2> DEFINE f == [IdleRequest EXCEPT !.at = step]
  <2>1. f.at = step /\ req' = [req EXCEPT ![r] = f]
    BY <1>2 DEF Goto, IdleRequest
  <2>2. f.at \in {"idle", "ok", "failed"}
    BY <1>2, <2>1 DEF Ended
  <2> HIDE DEF f
  <2>. QED
    BY <2>1, <2>2, FrameKeepsQuiet
<1>3. CASE step \notin Ended
  <2>1. PICK f : f = [req[r] EXCEPT !.at = step, !.victim = {}]
    OBVIOUS
  <2>2. req' = [req EXCEPT ![r] = f]
    BY <1>3, <2>1 DEF Goto
  <2>3. f.at = step /\ f.kind = req[r].kind /\ f.time = req[r].time /\ f.acct = req[r].acct
    BY <1>1, <2>1 DEF Frames
  <2>4. QuietFrame(req[r])
    BY DEF QuietInv, RestInv
  <2>5. step \in {"findActive", "add"} =>
          \A j \in Jobs : PlatformOf(j) = platform[f.acct] => job'[j].at \in Gone
    BY <2>3
  <2>6. QuietFrame(f)'
    BY <2>3, <2>4, <2>5 DEF QuietFrame, Fixed, PlatformOf, Jobs, Requests, Moving
  <2>. QED
    BY <2>2, <2>6, FrameKeepsQuiet
<1>. QED
  BY <1>2, <1>3

\* The request is the first of its kind, for a post of which nothing was sent.
LEMMA RequestKeepsQuiet ==
  ASSUME IInv, QuietInv, Quiet, NEW r \in Requests, Request(r)
  PROVE  QuietInv'
<1>1. /\ \A q \in Requests : ~ Running(q)
      /\ \A j \in Jobs : job[j].at \in Gone \/ (job[j].at = "delayed" /\ job[j].time > now)
  BY DEF Request, EditRead, DeleteRead, Refuse, MayRequest, Calm, Quiet, Without
<1>2. UNCHANGED <<scenario, platform, now, accepted, job>>
  BY DEF Request, EditRead, DeleteRead, Refuse, JobsUnchanged
<1>3. OneJobInv' /\ FreshInv' /\ OnceInv' /\ \A j \in Jobs : Resting(j)'
  BY <1>1, <1>2 DEF QuietInv, OneJobInv, FreshInv, OnceInv, Resting, Takes, PlatformOf,
     AccountOf, Jobs, Requests
<1>4. PICK f : /\ req' = [req EXCEPT ![r] = f]
               /\ f.at \notin {"idle", "ok", "failed"} => QuietFrame(f)
  <2>1. ASSUME NEW status \in {"PENDING", "DRAFT"}, NEW t \in Times \cup {NoTime},
               NEW accounts \in (SUBSET Accounts) \ {{}}, EditRead(r, status, t, accounts)
        PROVE  \E f : req' = [req EXCEPT ![r] = f] /\ QuietFrame(f)
    <3> DEFINE f == [IdleRequest EXCEPT !.at = FirstStep(status, t), !.status = status,
                       !.time = t, !.new = accounts, !.left = accounts,
                       !.oldTime = post.time, !.old = Rows]
    <3>1. /\ FirstStep(status, t) \in {"base", "reserve", "adjust", "release"}
          /\ FirstStep(status, t) # "base" => status # "DRAFT"
      BY DEF FirstStep
    <3>2. f.at = FirstStep(status, t) /\ f.time = t
      BY DEF IdleRequest
    <3>3. req' = [req EXCEPT ![r] = f]
      BY <2>1 DEF EditRead
    <3> HIDE DEF f
    <3>4. status # "DRAFT" => t > now
      BY <2>1 DEF EditRead
    <3>5. \A a \in Accounts : accepted[a] = 0
      BY <2>1 DEF EditRead, Untouched, Quiet, Without
    <3>6. QuietFrame(f)
      BY <3>1, <3>2, <3>4, <3>5 DEF QuietFrame, Moving
    <3>. QED
      BY <3>3, <3>6
  <2>2. CASE DeleteRead(r)
    <3> DEFINE f == [IdleRequest EXCEPT !.at = IF post.time = NoTime THEN "rows" ELSE "release",
                       !.kind = "delete", !.oldTime = post.time, !.old = Rows, !.left = Rows]
    <3>1. f.at \in {"rows", "release"} /\ f.kind = "delete"
      BY DEF IdleRequest
    <3>2. req' = [req EXCEPT ![r] = f]
      BY <2>2 DEF DeleteRead
    <3> HIDE DEF f
    <3>3. QuietFrame(f)
      BY <3>1 DEF QuietFrame
    <3>. QED
      BY <3>2, <3>3
  <2>3. CASE Refuse(r)
    <3> DEFINE f == [IdleRequest EXCEPT !.at = "failed"]
    <3>1. f.at = "failed" /\ req' = [req EXCEPT ![r] = f]
      BY <2>3 DEF Refuse, Goto, Ended, IdleRequest
    <3> HIDE DEF f
    <3>. QED
      BY <3>1
  <2>. QED
    BY <2>1, <2>2, <2>3 DEF Request
<1>5. \A q \in Requests : req'[q] = IF q = r THEN f ELSE req[q]
  BY <1>4 DEF IInv, TypeOK
<1>6. \A q \in Requests : Running(q)' => q = r /\ req'[q] = f /\ QuietFrame(f)
  BY <1>1, <1>4, <1>5 DEF Running
<1>7. AloneInv'
  BY <1>6 DEF AloneInv, Requests
<1>8. QuietFrame(f) => QuietFrame(f)'
  BY <1>2 DEF QuietFrame, PlatformOf, Jobs, Requests
<1>9. RestInv'
  BY <1>3, <1>6, <1>8 DEF RestInv, Requests, Jobs
<1>. QED
  BY <1>3, <1>7, <1>9 DEF QuietInv

\* Steps that leave the jobs alone.
LEMMA OtherStepsKeepQuiet ==
  ASSUME IInv, QuietInv, NEW r \in Requests,
         \/ Release(r) \/ Reserve(r) \/ Adjust(r) \/ CancelTarget(r)
         \/ UpdateBasePost(r) \/ UpdatePostTargets(r) \/ DeleteRows(r)
  PROVE  QuietInv'
<1>1. Running(r) /\ Fixed /\ UNCHANGED job
  BY DEF Release, Reserve, Adjust, CancelTarget, UpdateBasePost, UpdatePostTargets, DeleteRows,
         Running, Fixed, JobsUnchanged
<1>2. JobsQuiet'
  BY <1>1, FewerJobs
<1>3. PICK step \in {"reserve", "next", "base", "failed", "targets", "ok"} :
         Goto(r, step) /\ (step \in Moving => req[r].at \in Moving)
  BY DEF Release, Reserve, Adjust, CancelTarget, UpdateBasePost, UpdatePostTargets, DeleteRows,
         Moving
<1>. QED
  BY <1>1, <1>2, <1>3, GotoKeepsQuiet DEF RequestSteps

LEMMA JobSearchKeepsQuiet ==
  ASSUME IInv, QuietInv, NEW r \in Requests,
         NextTarget(r) \/ FindDelayedJob(r) \/ FindExisting(r)
  PROVE  QuietInv'
<1>1. Running(r) /\ Fixed /\ UNCHANGED job
  BY DEF NextTarget, FindDelayedJob, FindExisting, Running, Fixed, RowsUnchanged
<1>2. JobsQuiet'
  BY <1>1, FewerJobs
<1>3. req \in [Requests -> Frames] /\ QuietFrame(req[r])
  BY <1>1 DEF IInv, TypeOK, Frames, QuietInv, RestInv
<1>4. ASSUME NEW f, req' = [req EXCEPT ![r] = f], f.kind = req[r].kind, f.time = req[r].time,
             f.at \in {"findWaiting", "cancel", "remove"}, req[r].at \in Moving
      PROVE  QuietInv'
  <2>1. QuietFrame(f)'
    BY <1>1, <1>3, <1>4 DEF QuietFrame, Fixed
  <2>. QED
    BY <1>1, <1>2, <1>4, <2>1, FrameKeepsQuiet
<1>5. CASE \E step \in {"base", "rows", "findWaiting", "cancelTarget", "next", "findDelayed"} :
              Goto(r, step) /\ req[r].at \in Moving
  <2>1. PICK step \in {"base", "rows", "findWaiting", "cancelTarget", "next", "findDelayed"} :
           Goto(r, step) /\ req[r].at \in Moving
    BY <1>5
  <2>2. step \in RequestSteps /\ step \notin {"findActive", "add"}
    BY DEF RequestSteps
  <2>. QED
    BY <1>1, <1>2, <2>1, <2>2, GotoKeepsQuiet
<1>6. CASE NextTarget(r)
  <2>1. CASE req[r].left = {} /\ Goto(r, IF req[r].kind = "edit" THEN "base" ELSE "rows")
    BY <1>5, <1>6, <2>1 DEF NextTarget, Moving
  <2>2. ASSUME NEW a,
               req' = [req EXCEPT ![r].left = @ \ {a}, ![r].acct = a,
                                  ![r].at = IF req[r].oldTime = NoTime THEN "findWaiting"
                                                                       ELSE "cancel"]
        PROVE  QuietInv'
    <3>1. PICK at \in {"findWaiting", "cancel"} :
             req' = [req EXCEPT ![r].left = @ \ {a}, ![r].acct = a, ![r].at = at]
      BY <2>2
    <3>2. PICK f : f = [req[r] EXCEPT !.left = @ \ {a}, !.acct = a, !.at = at]
      OBVIOUS
    <3>3. req' = [req EXCEPT ![r] = f]
      BY <1>3, <3>1, <3>2 DEF Frames
    <3>4. f.kind = req[r].kind /\ f.time = req[r].time /\ f.at = at
      BY <1>3, <3>2 DEF Frames
    <3>5. req[r].at \in Moving
      BY <1>6 DEF NextTarget, Moving
    <3>. QED
      BY <1>4, <3>3, <3>4, <3>5
  <2>. QED
    BY <1>6, <2>1, <2>2 DEF NextTarget
<1>7. CASE FindDelayedJob(r)
  <2>1. req[r].at \in Moving
    BY <1>7 DEF FindDelayedJob, Moving
  <2>2. CASE Goto(r, AfterCancel(r))
    BY <1>5, <2>1, <2>2 DEF AfterCancel
  <2>3. ASSUME NEW j, req' = [req EXCEPT ![r].at = "remove", ![r].victim = {j}]
        PROVE  QuietInv'
    <3>1. PICK f : f = [req[r] EXCEPT !.at = "remove", !.victim = {j}]
      OBVIOUS
    <3>2. req' = [req EXCEPT ![r] = f]
      BY <1>3, <2>3, <3>1 DEF Frames
    <3>3. f.kind = req[r].kind /\ f.time = req[r].time /\ f.at = "remove"
      BY <1>3, <3>1 DEF Frames
    <3>. QED
      BY <1>4, <2>1, <3>2, <3>3
  <2>. QED
    BY <1>7, <2>2, <2>3 DEF FindDelayedJob
<1>8. CASE FindExisting(r)
  <2>1. req[r].at \in Moving
    BY <1>8 DEF FindExisting, Moving
  <2>2. CASE Goto(r, "next") \/ Goto(r, "findDelayed")
    BY <1>5, <2>1, <2>2
  <2>3. CASE req[r].at = "findDelayed" /\ InQueue(r, {"delayed"}) = {} /\ Goto(r, "findActive")
    <3>1. \A j \in Jobs : PlatformOf(j) = platform[req[r].acct] => job[j].at # "delayed"
      BY <2>3 DEF InQueue
    <3>2. \A j \in Jobs : PlatformOf(j) = platform[req[r].acct] => job'[j].at \in Gone
      BY <1>1, <3>1 DEF QuietInv, RestInv, Resting
    <3>3. "findActive" \in RequestSteps
      BY DEF RequestSteps
    <3>. QED
      BY <1>1, <1>2, <2>1, <2>3, <3>2, <3>3, GotoKeepsQuiet
  <2>4. CASE req[r].at = "findActive" /\ Goto(r, "add")
    <3>1. \A j \in Jobs : PlatformOf(j) = platform[req[r].acct] => job'[j].at \in Gone
      BY <1>1, <1>3, <2>4 DEF QuietFrame
    <3>2. "add" \in RequestSteps
      BY DEF RequestSteps
    <3>. QED
      BY <1>1, <1>2, <2>1, <2>4, <3>1, <3>2, GotoKeepsQuiet
  <2>. QED
    BY <1>8, <2>2, <2>3, <2>4 DEF FindExisting
<1>. QED
  BY <1>6, <1>7, <1>8

LEMMA JobRemovalKeepsQuiet ==
  ASSUME IInv, QuietInv, NEW r \in Requests, RemoveJob(r) \/ Cleanup(r)
  PROVE  QuietInv'
<1>1. Running(r) /\ Fixed
  BY DEF RemoveJob, Cleanup, Running, Fixed, RowsUnchanged
<1>2. job \in [Jobs -> JobRecords]
  BY DEF IInv, TypeOK, JobRecords
<1>3. [NoJob EXCEPT !.at = "removed"].at = "removed"
  BY DEF NoJob
<1>4. \A j \in Jobs : job'[j] = job[j] \/ job'[j].at = "removed"
  BY <1>2, <1>3 DEF RemoveJob, Cleanup
<1>5. JobsQuiet'
  BY <1>1, <1>4, FewerJobs
<1>6. PICK step \in {"failed", "cleanup", "findWaiting", "cancelTarget"} : Goto(r, step)
  BY DEF RemoveJob, Cleanup, AfterCancel
<1>7. /\ req[r].at \in Moving /\ step \in RequestSteps
      /\ step \notin {"findActive", "add"}
  BY DEF RemoveJob, Cleanup, Moving, RequestSteps
<1>. QED
  BY <1>1, <1>5, <1>6, <1>7, GotoKeepsQuiet

\* The job that is added is the only one of its platform.
LEMMA AddJobKeepsQuiet ==
  ASSUME IInv, QuietInv, NEW r \in Requests, AddJob(r)
  PROVE  QuietInv'
<1> DEFINE n == <<r, req[r].acct>>
<1>1. Running(r) /\ Fixed
  BY DEF AddJob, Running, Fixed, RowsUnchanged
<1>2. job \in [Jobs -> JobRecords] /\ req[r] \in Frames
  BY DEF IInv, TypeOK, JobRecords, Frames
<1>3. QuietFrame(req[r]) /\ req[r].at = "add" /\ \A j \in Jobs : Resting(j)
  BY <1>1 DEF QuietInv, RestInv, AddJob
<1>4. req[r].kind = "edit"
  BY <1>3 DEF IInv, FrameInv, WellFormed, Adding
<1>5. /\ req[r].time > now
      /\ \A a \in Accounts : accepted[a] = 0
      /\ \A j \in Jobs : PlatformOf(j) = platform[req[r].acct] => job[j].at \in Gone
  BY <1>3, <1>4 DEF QuietFrame, Moving
<1>6. /\ \A j \in Jobs : j # n => job'[j] = job[j]
      /\ n \in Jobs => job'[n].at = "delayed" /\ job'[n].time = req[r].time
  BY <1>2 DEF AddJob, NoJob
<1>7. \A j \in Jobs : Resting(j)'
  BY <1>1, <1>3, <1>5, <1>6 DEF Resting, Fixed
<1>8. PlatformOf(n) = platform[req[r].acct]
  BY DEF PlatformOf
<1>9. OneJobInv'
  <2>1. ASSUME NEW j \in Jobs, NEW k \in Jobs, job'[j].at \notin Gone, job'[k].at \notin Gone,
               PlatformOf(j) = PlatformOf(k)
        PROVE  j = k \/ (j[1] = Create /\ k[1] = Create)
    <3>1. CASE j # n /\ k # n
      BY <1>6, <2>1, <3>1 DEF QuietInv, OneJobInv
    <3>2. CASE j = n /\ k # n
      BY <1>5, <1>6, <1>8, <2>1, <3>2
    <3>3. CASE k = n /\ j # n
      BY <1>5, <1>6, <1>8, <2>1, <3>3
    <3>. QED
      BY <3>1, <3>2, <3>3
  <2>. QED
    BY <1>1, <2>1 DEF OneJobInv, Fixed, PlatformOf, Jobs, Requests, Gone
<1>10. FreshInv'
  <2>1. ASSUME NEW j \in Jobs, job'[j].at \in {"marking", "publishing"}
        PROVE  job'[j] = job[j]
    BY <1>6, <2>1
  <2>2. \A a \in Accounts : accepted'[a] = 0
    BY <1>1, <1>5 DEF Fixed
  <2>. QED
    BY <1>1, <2>1, <2>2 DEF QuietInv, FreshInv, Fixed, Takes, PlatformOf, AccountOf, Jobs, Requests
<1>11. JobsQuiet'
  BY <1>7, <1>9, <1>10 DEF JobsQuiet, Jobs, Requests
<1>12. Goto(r, "next") /\ req[r].at \in Moving /\ "next" \in RequestSteps
  BY DEF AddJob, Moving, RequestSteps
<1>. QED
  BY <1>1, <1>11, <1>12, GotoKeepsQuiet

LEMMA InitQuiet == Init => QuietInv
<1> SUFFICES ASSUME Init PROVE QuietInv
  OBVIOUS
<1>1. \A r \in Requests : ~ Running(r)
  BY DEF Init, Running, IdleRequest
<1>2. \A j \in Jobs : job[j].at \notin Gone => job[j].at = "delayed" /\ j[1] = Create
  BY DEF Init, NoJob, Gone
<1>3. \A a \in Accounts : accepted[a] = 0
  BY DEF Init
<1>4. \A j \in Jobs : job[j].at \notin {"marking", "publishing"}
  BY <1>2 DEF Gone
<1>. QED
  BY <1>1, <1>2, <1>3, <1>4 DEF QuietInv, AloneInv, RestInv, OneJobInv, FreshInv, OnceInv

LEMMA NextKeepsQuiet == IInv /\ (Quiet => QuietInv) /\ [Next]_vars => (Quiet => QuietInv)'
<1> SUFFICES ASSUME IInv, Quiet => QuietInv, [Next]_vars, Quiet' PROVE QuietInv'
  OBVIOUS
<1>1. UNCHANGED scenario
  <2>1. ASSUME NEW r \in Requests, Request(r) \/ RequestStep(r) PROVE UNCHANGED scenario
    BY <2>1 DEF Request, EditRead, DeleteRead, Refuse, RequestStep, Release, Reserve, Adjust,
       NextTarget, FindDelayedJob, RemoveJob, Cleanup, CancelTarget, FindExisting, AddJob,
       UpdateBasePost, UpdatePostTargets, DeleteRows, JobsUnchanged, RowsUnchanged
  <2>2. ASSUME NEW j \in Jobs, JobStep(j) PROVE UNCHANGED scenario
    BY <2>2 DEF JobStep, Due, Start, ReadPost, MarkPosting, Publish, Record, Settle, MarkError,
       QueueOnly
  <2>. QED
    BY <2>1, <2>2 DEF Next, Tick, vars
<1>2. Quiet /\ QuietInv
  BY <1>1 DEF Quiet, Without
<1>3. CASE Tick
  <2>1. \A r \in Requests : ~ Running(r)
    BY <1>2, <1>3 DEF Tick, Quiet, Without
  <2>. QED
    BY <1>2, <1>3, <2>1 DEF Tick, QuietInv, AloneInv, RestInv, OneJobInv, FreshInv, OnceInv,
       Running, Takes, PlatformOf, AccountOf, Jobs, Requests, Gone, Unsent
<1>4. ASSUME NEW r \in Requests, Request(r) PROVE QuietInv'
  BY <1>2, <1>4, RequestKeepsQuiet
<1>5. ASSUME NEW r \in Requests, RequestStep(r) PROVE QuietInv'
  BY <1>2, <1>5, OtherStepsKeepQuiet, JobSearchKeepsQuiet, JobRemovalKeepsQuiet,
     AddJobKeepsQuiet DEF RequestStep
<1>6. ASSUME NEW j \in Jobs, JobStep(j) PROVE QuietInv'
  BY <1>2, <1>6, JobKeepsQuiet
<1>7. CASE UNCHANGED vars
  BY <1>2, <1>7 DEF vars, QuietInv, AloneInv, RestInv, OneJobInv, FreshInv, OnceInv, Resting,
     QuietFrame, Running, Takes, PlatformOf, AccountOf, Jobs, Requests, Gone, Unsent, Moving
<1>. QED
  BY <1>3, <1>4, <1>5, <1>6, <1>7 DEF Next

(* A post is sent to a platform once, however often it is rescheduled and   *)
(* its targets are replaced: unless requests overlap with due jobs or with  *)
(* each other, or a post that was sent is edited, findExistingJob has seen  *)
(* every job that could send the target when schedulePost adds one.         *)
THEOREM SentOnce == Spec => []AtMostOnce
<1>1. IInv /\ (Quiet => QuietInv) => AtMostOnce
  BY DEF Quiet, QuietInv, OnceInv, AtMostOnce
<1>2. Init => (Quiet => QuietInv)
  BY InitQuiet
<1>3. Spec => [](Quiet => QuietInv)
  BY <1>2, Invariance, NextKeepsQuiet, PTL DEF Spec
<1>. QED
  BY <1>1, <1>3, Invariance, PTL

-----------------------------------------------------------------------------
(* The daily slots.  Where an edit is served alone, is not refused and does *)
(* not meet a draft, PlainInv follows it: what it has released, reserved or *)
(* adjusted so far, for the post it has read.  StoredInv, HeldInv and       *)
(* TouchedInv show that the post an edit is allowed to read is one that is  *)
(* still scheduled: a status that has moved on leaves a trace on a target.  *)

Plain ==
    /\ Without({"overlap", "draft", "full", "resent"})
    /\ ~ ({"still", "retarget"} \subseteq scenario)

\* The counts of a post that is scheduled for the time t on the accounts.
Booked(t, accounts) ==
    [s \in Days |-> IF s[1] = t THEN Cardinality(On(s[2], accounts)) ELSE 0]

\* Where an edit and where a deletion may be.
EditSteps ==
    {"release", "reserve", "adjust", "next", "cancel", "remove", "findWaiting", "findDelayed",
     "findActive", "add", "base", "targets"}
DeleteSteps == {"release", "next", "cancel", "remove", "cleanup", "cancelTarget", "rows"}

\* The counts while the edit with the frame f is served.
Counts(f) ==
    CASE f.at = "release" -> Booked(f.oldTime, f.old)
      [] f.at = "reserve" -> Booked(f.oldTime, {})
      [] OTHER            -> Booked(f.time, f.new)

\* The post is as the edit has read it until updateBasePost.
EditFrame(f) ==
    /\ f.status = "PENDING" /\ f.time \in Times /\ f.new # {}
    /\ f.old = Rows /\ f.oldTime \in Times
    /\ post = [status |-> "PENDING", time |-> IF f.at = "targets" THEN f.time ELSE f.oldTime]
    /\ f.at = "adjust" => f.time = f.oldTime /\ f.new = f.old
    /\ slots = Counts(f)

ServedInv ==
    \A r \in Requests : Running(r) =>
       /\ req[r].kind = "edit" => req[r].at \in EditSteps /\ EditFrame(req[r])
       /\ req[r].kind = "delete" => req[r].at \in DeleteSteps

BookedInv ==
    (\A r \in Requests : ~ Running(r)) /\ post.status = "PENDING" => slots = Booked(post.time, Rows)

StoredInv ==
    /\ post.status # "DRAFT"
    /\ post.status = "PENDING" => post.time \in Times
    /\ post.status # "deleted" => Rows # {}

\* Between the mark POSTING and the publisher's updatePostTarget.
Sending == {"publishing", "recordDone", "recordFailed"}

HeldInv == \A j \in Jobs : job[j].at \in {"marking"} \cup Sending => job[j].acct \in Rows

\* Once the status has moved on, a target shows it or is about to.
TouchedInv ==
    post.status \notin {"PENDING", "deleted"} => ~ Untouched \/ \E j \in Jobs : job[j].at \in Sending

PlainInv == ServedInv /\ BookedInv /\ StoredInv /\ HeldInv /\ TouchedInv

\* The fields of a frame that do not change while its request is served.
SameEdit(f, g) ==
    /\ f.kind = g.kind /\ f.status = g.status /\ f.time = g.time
    /\ f.new = g.new /\ f.oldTime = g.oldTime /\ f.old = g.old

LEMMA PlainIsQuiet == Plain => Quiet
<1>. QED
  BY DEF Plain, Quiet, Without

\* What is booked is counted away again, and what is not is counted in.
LEMMA Unbooked ==
  ASSUME NEW t, NEW accounts \in SUBSET Accounts, slots = Booked(t, accounts)
  PROVE  WithSlots(t, accounts, -1) = Booked(t, {})
<1>1. ASSUME NEW s \in Days
      PROVE  WithSlots(t, accounts, -1)[s] = Booked(t, {})[s]
  <2>. DEFINE n == Cardinality(On(s[2], accounts))
  <2>1. n \in Nat
    BY CountType
  <2>2. On(s[2], {}) = {} /\ Cardinality({}) = 0
    BY FS_EmptySet DEF On
  <2>3. slots[s] = IF s[1] = t THEN n ELSE 0
    BY DEF Booked
  <2>4. WithSlots(t, accounts, -1)[s] = IF s[1] = t THEN AtLeastZero(slots[s] + (-1) * n) ELSE slots[s]
    BY DEF WithSlots
  <2>5. Booked(t, {})[s] = 0
    BY <2>2 DEF Booked
  <2>. HIDE DEF n
  <2>6. n + (-1) * n = 0
    BY <2>1
  <2>. QED
    BY <2>3, <2>4, <2>5, <2>6 DEF AtLeastZero
<1>. QED
  BY <1>1 DEF WithSlots, Booked

LEMMA BookedAnew ==
  ASSUME NEW u, NEW t, NEW accounts \in SUBSET Accounts, slots = Booked(u, {})
  PROVE  WithSlots(t, accounts, 1) = Booked(t, accounts)
<1>1. ASSUME NEW s \in Days
      PROVE  WithSlots(t, accounts, 1)[s] = Booked(t, accounts)[s]
  <2>. DEFINE n == Cardinality(On(s[2], accounts))
  <2>1. n \in Nat
    BY CountType
  <2>2. On(s[2], {}) = {} /\ Cardinality({}) = 0
    BY FS_EmptySet DEF On
  <2>3. slots[s] = 0
    BY <2>2 DEF Booked
  <2>4. WithSlots(t, accounts, 1)[s] = IF s[1] = t THEN AtLeastZero(slots[s] + 1 * n) ELSE slots[s]
    BY DEF WithSlots
  <2>5. Booked(t, accounts)[s] = IF s[1] = t THEN n ELSE 0
    BY DEF Booked
  <2>. HIDE DEF n
  <2>6. 0 + 1 * n = n /\ ~ (n < 0)
    BY <2>1
  <2>. QED
    BY <2>3, <2>4, <2>5, <2>6 DEF AtLeastZero
<1>. QED
  BY <1>1 DEF WithSlots, Booked

\* A step of the request that is served, to a frame with which it is not over.
LEMMA ServedOn ==
  ASSUME IInv, QuietInv, NEW r \in Requests, Running(r), NEW f,
         req' = [req EXCEPT ![r] = f], f.at \notin {"idle", "ok", "failed"},
         f.kind = "edit" => f.at \in EditSteps /\ EditFrame(f)',
         f.kind = "delete" => f.at \in DeleteSteps
  PROVE  ServedInv' /\ BookedInv'
<1>1. \A q \in Requests : req'[q] = IF q = r THEN f ELSE req[q]
  BY DEF IInv, TypeOK
<1>2. \A q \in Requests : q # r => ~ Running(q)
  BY DEF QuietInv, AloneInv
<1>3. \A q \in Requests : Running(q)' => q = r /\ req'[q] = f
  BY <1>1, <1>2 DEF Running
<1>4. Running(r)'
  BY <1>1 DEF Running
<1>5. ServedInv'
  BY <1>3 DEF ServedInv, Requests
<1>6. BookedInv'
  BY <1>4 DEF BookedInv, Requests
<1>. QED
  BY <1>5, <1>6

\* The request that is served ends.
LEMMA ServedLast ==
  ASSUME IInv, QuietInv, NEW r \in Requests, Running(r), Goto(r, "ok") \/ Goto(r, "failed"),
         UNCHANGED platform,
         post'.status = "PENDING" => slots' = Booked(post'.time, Rows')
  PROVE  ServedInv' /\ BookedInv'
<1>1. \A q \in Requests : q # r => req'[q] = req[q] /\ ~ Running(q)
  BY DEF IInv, TypeOK, Goto, QuietInv, AloneInv
<1>2. req'[r].at \in {"ok", "failed"}
  BY DEF IInv, TypeOK, Goto, Ended, IdleRequest
<1>3. \A q \in Requests : ~ Running(q)'
  BY <1>1, <1>2 DEF Running
<1>4. Booked(post.time, Rows)' = Booked(post'.time, Rows')
  BY DEF Booked, On, Days, Times
<1>. QED
  BY <1>3, <1>4 DEF ServedInv, BookedInv, Requests

LEMMA GotoFrame ==
  ASSUME IInv, NEW r \in Requests, NEW step \in RequestSteps, step \notin Ended, Goto(r, step)
  PROVE  \E f : /\ req' = [req EXCEPT ![r] = f] /\ f.at = step /\ SameEdit(f, req[r])
<1>1. PICK f : f = [req[r] EXCEPT !.at = step, !.victim = {}]
  OBVIOUS
<1>2. req[r] \in Frames
  BY DEF IInv, TypeOK, Frames
<1>3. req' = [req EXCEPT ![r] = f]
  BY <1>1 DEF Goto
<1>4. f.at = step /\ SameEdit(f, req[r])
  BY <1>1, <1>2 DEF Frames, SameEdit
<1>. QED
  BY <1>3, <1>4

\* A request changes the jobs, or rows and slots.
LEMMA EitherPart ==
  ASSUME NEW r \in Requests, RequestStep(r)
  PROVE  /\ JobsUnchanged \/ RowsUnchanged
         /\ UNCHANGED <<scenario, platform, now, accepted>>
<1>1. Release(r) \/ Reserve(r) \/ Adjust(r) \/ CancelTarget(r) \/ UpdateBasePost(r)
        \/ UpdatePostTargets(r) \/ DeleteRows(r) => JobsUnchanged
  BY DEF Release, Reserve, Adjust, CancelTarget, UpdateBasePost, UpdatePostTargets, DeleteRows
<1>2. RemoveJob(r) \/ Cleanup(r) \/ AddJob(r) => RowsUnchanged
  BY DEF RemoveJob, Cleanup, AddJob
<1>5. NextTarget(r) => RowsUnchanged
  BY Zenon DEF NextTarget
<1>6. FindDelayedJob(r) => RowsUnchanged
  BY Zenon DEF FindDelayedJob
<1>4. FindExisting(r) => RowsUnchanged
  BY DEF FindExisting, RowsUnchanged
<1>3. JobsUnchanged \/ RowsUnchanged
  BY <1>1, <1>2, <1>4, <1>5, <1>6 DEF RequestStep
<1>. QED
  BY <1>3 DEF JobsUnchanged, RowsUnchanged

\* While a request is served no job is on its way to a platform.
LEMMA NoneSending ==
  ASSUME IInv, QuietInv, NEW r \in Requests, Running(r), RequestStep(r)
  PROVE  \A j \in Jobs : /\ job[j].at \notin {"marking"} \cup Sending
                         /\ job'[j].at \notin {"marking"} \cup Sending
<1>1. \A j \in Jobs : job[j].at \notin {"marking"} \cup Sending
  BY DEF QuietInv, RestInv, Resting, Gone, Sending
<1>2. job \in [Jobs -> JobRecords]
  BY DEF IInv, TypeOK, JobRecords
<1>3. \A j \in Jobs : job'[j] = job[j] \/ job'[j].at \in {"removed", "delayed"}
  <2>5. FindExisting(r) => UNCHANGED job
    BY DEF FindExisting
  <2>7. NextTarget(r) => UNCHANGED job
    BY Zenon DEF NextTarget
  <2>8. FindDelayedJob(r) => UNCHANGED job
    BY Zenon DEF FindDelayedJob
  <2>6. Release(r) \/ Reserve(r) \/ Adjust(r) \/ CancelTarget(r) \/ UpdateBasePost(r)
          \/ UpdatePostTargets(r) \/ DeleteRows(r) => UNCHANGED job
    BY DEF Release, Reserve, Adjust, CancelTarget, UpdateBasePost, UpdatePostTargets, DeleteRows,
       JobsUnchanged
  <2>1. RemoveJob(r) \/ Cleanup(r) \/ AddJob(r) \/ UNCHANGED job
    BY <2>5, <2>6, <2>7, <2>8 DEF RequestStep
  <2>2. [NoJob EXCEPT !.at = "removed"].at = "removed"
    BY DEF NoJob
  <2>3. CASE RemoveJob(r) \/ Cleanup(r)
    BY <1>2, <2>2, <2>3 DEF RemoveJob, Cleanup
  <2>4. CASE AddJob(r)
    BY <1>2, <2>4 DEF AddJob, NoJob
  <2>. QED
    BY <2>1, <2>3, <2>4
<1>. QED
  BY <1>1, <1>3 DEF Sending

\* A step that leaves the rows as they are.
LEMMA RowsAlone ==
  ASSUME IInv, QuietInv, PlainInv, NEW r \in Requests, Running(r), RequestStep(r),
         UNCHANGED <<post, target>>
  PROVE  StoredInv' /\ HeldInv' /\ TouchedInv'
<1>1. UNCHANGED accepted
  BY EitherPart
<1>2. \A j \in Jobs : /\ job[j].at \notin {"marking"} \cup Sending
                      /\ job'[j].at \notin {"marking"} \cup Sending
  BY NoneSending
<1>3. StoredInv'
  BY DEF PlainInv, StoredInv, Rows, Times
<1>4. HeldInv'
  BY <1>2 DEF HeldInv, Sending, Jobs, Requests
<1>5. TouchedInv'
  BY <1>1, <1>2 DEF PlainInv, TouchedInv, Untouched, Jobs, Requests
<1>. QED
  BY <1>3, <1>4, <1>5

\* A step of the request that is served on the jobs alone.
Late == EditSteps \ {"release", "reserve", "adjust", "targets"}

LEMMA OnJobs ==
  ASSUME IInv, QuietInv, PlainInv, NEW r \in Requests, Running(r), RowsUnchanged, RequestStep(r),
         NEW f, req' = [req EXCEPT ![r] = f], SameEdit(f, req[r]),
         f.kind = "edit" => req[r].at \in Late /\ f.at \in Late,
         f.kind = "delete" => f.at \in DeleteSteps
  PROVE  PlainInv'
<1>1. UNCHANGED <<post, target, slots, platform>>
  BY DEF RowsUnchanged
<1>2. f.kind \in {"edit", "delete"}
  BY DEF IInv, TypeOK, SameEdit
<1>3. f.at \notin {"idle", "ok", "failed"}
  BY <1>2 DEF Late, EditSteps, DeleteSteps
<1>4. ASSUME f.kind = "edit" PROVE EditFrame(f)'
  <2>1. EditFrame(req[r])
    BY <1>4 DEF SameEdit, PlainInv, ServedInv
  <2>2. f.at # "targets" /\ req[r].at # "targets" /\ f.at # "adjust"
    BY <1>4 DEF Late
  <2>3. Counts(f) = Counts(req[r])
    BY <1>4 DEF Counts, Late, SameEdit
  <2>4. Counts(f)' = Counts(f)
    BY <1>1 DEF Counts, Booked, On, Days, Times
  <2>. QED
    BY <1>1, <2>1, <2>2, <2>3, <2>4 DEF EditFrame, SameEdit, Rows, Times
<1>5. ServedInv' /\ BookedInv'
  BY <1>3, <1>4, ServedOn DEF Late
<1>. QED
  BY <1>1, <1>5, RowsAlone DEF PlainInv

\* Release, reserve and adjust.
LEMMA SlotsMoved ==
  ASSUME IInv, QuietInv, Plain, PlainInv, NEW r \in Requests,
         Release(r) \/ Reserve(r) \/ Adjust(r)
  PROVE  PlainInv'
<1>1. /\ Running(r) /\ RequestStep(r)
      /\ UNCHANGED <<post, target, scenario, platform>>
  BY DEF Release, Reserve, Adjust, Running, RequestStep, JobsUnchanged
<1>2. req[r] \in Frames /\ "full" \notin scenario
  BY DEF IInv, TypeOK, Frames, Plain, Without
<1>3. /\ req[r].kind = "edit" => EditFrame(req[r])
      /\ req[r].kind = "delete" => req[r].at \in DeleteSteps
  BY <1>1 DEF PlainInv, ServedInv
<1>4. req[r].kind \in {"edit", "delete"} /\ req[r].new \in SUBSET Accounts
        /\ req[r].old \in SUBSET Accounts
  BY <1>2 DEF Frames
<1>5. ASSUME NEW step \in {"reserve", "next", "base"}, Goto(r, step),
             req[r].kind = "edit" =>
                slots' = IF step = "reserve" THEN Booked(req[r].oldTime, {})
                                             ELSE Booked(req[r].time, req[r].new),
             req[r].kind = "delete" => step = "next"
      PROVE  PlainInv'
  <2>1. step \in RequestSteps /\ step \notin Ended
    BY DEF RequestSteps, Ended
  <2>2. PICK f : req' = [req EXCEPT ![r] = f] /\ f.at = step /\ SameEdit(f, req[r])
    BY <1>5, <2>1, GotoFrame
  <2>3. ASSUME f.kind = "edit" PROVE EditFrame(f)'
    <3>1. req[r].kind = "edit"
      BY <2>2, <2>3 DEF SameEdit
    <3>2. EditFrame(req[r]) /\ req[r].at # "targets"
      BY <1>3, <3>1 DEF Release, Reserve, Adjust
    <3>3. slots' = Counts(f)
      BY <1>5, <2>2, <3>1 DEF Counts, SameEdit
    <3>4. Counts(f)' = Counts(f)
      BY <1>1 DEF Counts, Booked, On, Days, Times
    <3>. QED
      BY <1>1, <2>2, <3>2, <3>3, <3>4 DEF EditFrame, SameEdit, Rows, Times
  <2>4. f.kind = "delete" => f.at \in DeleteSteps
    BY <1>5, <2>2 DEF DeleteSteps, SameEdit
  <2>5. f.at \in EditSteps /\ f.at \notin {"idle", "ok", "failed"}
    BY <2>2 DEF EditSteps
  <2>6. ServedInv' /\ BookedInv'
    BY <1>1, <2>2, <2>3, <2>4, <2>5, ServedOn
  <2>. QED
    BY <1>1, <2>6, RowsAlone DEF PlainInv
<1>6. CASE Release(r)
  <2>1. req[r].at = "release" /\ slots' = WithSlots(req[r].oldTime, req[r].old, -1)
          /\ Goto(r, IF req[r].kind = "edit" THEN "reserve" ELSE "next")
    BY <1>6 DEF Release
  <2>2. ASSUME req[r].kind = "edit" PROVE slots' = Booked(req[r].oldTime, {})
    <3>1. slots = Booked(req[r].oldTime, req[r].old)
      BY <1>3, <2>1, <2>2 DEF EditFrame, Counts
    <3>. QED
      BY <1>4, <2>1, <3>1, Unbooked
  <2>. QED
    BY <1>4, <1>5, <2>1, <2>2
<1>7. CASE Reserve(r)
  <2>1. req[r].at = "reserve" /\ slots' = WithSlots(req[r].time, req[r].new, 1) /\ Goto(r, "next")
    BY <1>2, <1>7 DEF Reserve
  <2>2. ASSUME req[r].kind = "edit" PROVE slots' = Booked(req[r].time, req[r].new)
    <3>1. slots = Booked(req[r].oldTime, {})
      BY <1>3, <2>1, <2>2 DEF EditFrame, Counts
    <3>. QED
      BY <1>4, <2>1, <3>1, BookedAnew
  <2>. QED
    BY <1>4, <1>5, <2>1, <2>2
<1>8. CASE Adjust(r)
  <2>1. req[r].at = "adjust"
    BY <1>8 DEF Adjust
  <2>2. req[r].kind = "edit"
    BY <1>3, <1>4, <2>1 DEF DeleteSteps
  <2>3. req[r].new = req[r].old /\ slots = Booked(req[r].time, req[r].new)
    BY <1>3, <2>1, <2>2 DEF EditFrame, Counts
  <2>. DEFINE size(p) == Cardinality(On(p, req[r].old))
              changed == {p \in Platforms : size(p) \notin {0, size(p)}}
  <2>4. changed = {}
    OBVIOUS
  <2>. DEFINE Adjusted(done) ==
                 [s \in Days |-> IF s[1] = req[r].time /\ s[2] \in done
                                 THEN AtLeastZero(slots[s] + (size(s[2]) - size(s[2])))
                                 ELSE slots[s]]
  <2>5. slots' = Adjusted(changed) /\ Goto(r, "base")
    BY <1>2, <1>8, <2>3 DEF Adjust
  <2>6. slots' = slots
    <3>1. slots = [s \in Days |-> slots[s]]
      BY DEF IInv, TypeOK
    <3>2. Adjusted({}) = [s \in Days |-> slots[s]]
      OBVIOUS
    <3>. QED
      BY <2>4, <2>5, <3>1, <3>2
  <2>. QED
    BY <1>5, <2>2, <2>3, <2>5, <2>6
<1>. QED
  BY <1>6, <1>7, <1>8

\* The loop over the targets and its searches.
LEMMA SearchesPlain ==
  ASSUME IInv, QuietInv, PlainInv, NEW r \in Requests,
         NextTarget(r) \/ FindDelayedJob(r) \/ RemoveJob(r) \/ Cleanup(r) \/ FindExisting(r)
           \/ AddJob(r)
  PROVE  PlainInv'
<1>. DEFINE here == {"next", "cancel", "remove", "cleanup", "findWaiting", "findDelayed",
                     "findActive", "add"}
<1>1. req[r].at \in here /\ RequestStep(r)
  <2>1. NextTarget(r) => req[r].at = "next"
    BY Zenon DEF NextTarget
  <2>2. FindDelayedJob(r) => req[r].at = "cancel"
    BY Zenon DEF FindDelayedJob
  <2>3. RemoveJob(r) \/ Cleanup(r) \/ AddJob(r) => req[r].at \in {"remove", "cleanup", "add"}
    BY DEF RemoveJob, Cleanup, AddJob
  <2>4. FindExisting(r) => req[r].at \in {"findWaiting", "findDelayed", "findActive"}
    BY DEF FindExisting
  <2>. QED
    BY <2>1, <2>2, <2>3, <2>4 DEF RequestStep
<1>2. Running(r)
  BY <1>1 DEF Running
<1>3. RowsUnchanged
  <2>1. NextTarget(r) => RowsUnchanged
    BY Zenon DEF NextTarget
  <2>2. FindDelayedJob(r) => RowsUnchanged
    BY Zenon DEF FindDelayedJob
  <2>3. RemoveJob(r) \/ Cleanup(r) \/ AddJob(r) => RowsUnchanged
    BY DEF RemoveJob, Cleanup, AddJob
  <2>4. FindExisting(r) => RowsUnchanged
    BY DEF FindExisting, RowsUnchanged
  <2>. QED
    BY <2>1, <2>2, <2>3, <2>4
<1>4. req \in [Requests -> Frames] /\ req[r].kind \in {"edit", "delete"}
  BY DEF IInv, TypeOK, Frames
<1>5. /\ req[r].kind = "edit" => req[r].at \in Late
      /\ req[r].kind = "delete" => req[r].at \in DeleteSteps
  BY <1>1, <1>2 DEF PlainInv, ServedInv, Late, EditSteps
<1>6. ASSUME NEW f, req' = [req EXCEPT ![r] = f], SameEdit(f, req[r]),
             req[r].kind = "edit" => f.at \in Late,
             req[r].kind = "delete" => f.at \in DeleteSteps
      PROVE  PlainInv'
  <2>1. f.kind = req[r].kind
    BY <1>6 DEF SameEdit
  <2>2. f.kind = "edit" => req[r].at \in Late /\ f.at \in Late
    BY <1>5, <1>6, <2>1
  <2>3. f.kind = "delete" => f.at \in DeleteSteps
    BY <1>6, <2>1
  <2>. QED
    BY <1>1, <1>2, <1>3, <1>6, <2>2, <2>3, OnJobs
<1>7. ASSUME NEW step \in RequestSteps, step \notin Ended, Goto(r, step),
             req[r].kind = "edit" => step \in Late,
             req[r].kind = "delete" => step \in DeleteSteps
      PROVE  PlainInv'
  BY <1>6, <1>7, GotoFrame
<1>8. AfterCancel(r) = IF req[r].kind = "edit" THEN "findWaiting" ELSE "cancelTarget"
  BY DEF AfterCancel
<1>9. CASE Goto(r, AfterCancel(r))
  BY <1>4, <1>7, <1>8, <1>9 DEF RequestSteps, Ended, Late, EditSteps, DeleteSteps
<1>10. CASE NextTarget(r)
  <2>1. CASE req[r].left = {} /\ Goto(r, IF req[r].kind = "edit" THEN "base" ELSE "rows")
    BY <1>4, <1>7, <2>1 DEF RequestSteps, Ended, Late, EditSteps, DeleteSteps
  <2>2. ASSUME NEW a,
               req' = [req EXCEPT ![r].left = @ \ {a}, ![r].acct = a,
                                  ![r].at = IF req[r].oldTime = NoTime THEN "findWaiting"
                                                                       ELSE "cancel"]
        PROVE  PlainInv'
    <3>1. PICK at \in {"findWaiting", "cancel"} :
             /\ at = IF req[r].oldTime = NoTime THEN "findWaiting" ELSE "cancel"
             /\ req' = [req EXCEPT ![r].left = @ \ {a}, ![r].acct = a, ![r].at = at]
      BY <2>2
    <3>2. PICK f : f = [req[r] EXCEPT !.left = @ \ {a}, !.acct = a, !.at = at]
      OBVIOUS
    <3>3. req' = [req EXCEPT ![r] = f]
      BY <1>4, <3>1, <3>2 DEF Frames
    <3>4. SameEdit(f, req[r]) /\ f.at = at
      BY <1>4, <3>2 DEF Frames, SameEdit
    <3>5. req[r].kind = "delete" => req[r].oldTime # NoTime
      BY <1>1 DEF IInv, FrameInv, WellFormed, Moving
    <3>6. at \in Late /\ (req[r].kind = "delete" => at \in DeleteSteps)
      BY <3>1, <3>5 DEF Late, EditSteps, DeleteSteps
    <3>. QED
      BY <1>6, <3>3, <3>4, <3>6
  <2>. QED
    BY <1>10, <2>1, <2>2, Zenon DEF NextTarget
<1>11. CASE FindDelayedJob(r)
  <2>1. ASSUME NEW j, req' = [req EXCEPT ![r].at = "remove", ![r].victim = {j}]
        PROVE  PlainInv'
    <3>1. PICK f : f = [req[r] EXCEPT !.at = "remove", !.victim = {j}]
      OBVIOUS
    <3>2. req' = [req EXCEPT ![r] = f]
      BY <1>4, <2>1, <3>1 DEF Frames
    <3>3. SameEdit(f, req[r]) /\ f.at = "remove"
      BY <1>4, <3>1 DEF Frames, SameEdit
    <3>. QED
      BY <1>6, <3>2, <3>3 DEF Late, EditSteps, DeleteSteps
  <2>. QED
    BY <1>9, <1>11, <2>1 DEF FindDelayedJob
<1>12. CASE RemoveJob(r)
  <2>1. \A j \in Jobs : job[j].at \notin Active
    BY <1>2 DEF QuietInv, RestInv, Resting, Gone, Active
  <2>2. req[r].victim \in SUBSET Jobs
    BY <1>4 DEF Frames
  <2>. QED
    BY <1>9, <1>12, <2>1, <2>2 DEF RemoveJob
<1>13. CASE Cleanup(r)
  <2>1. req[r].kind = "delete" /\ Goto(r, "cancelTarget")
    BY <1>4, <1>5, <1>13 DEF Cleanup, Late, EditSteps
  <2>. QED
    BY <1>7, <2>1 DEF RequestSteps, Ended, DeleteSteps
<1>14. CASE FindExisting(r) \/ AddJob(r)
  <2>1. PICK step \in {"next", "findDelayed", "findActive", "add"} : Goto(r, step)
    BY <1>14 DEF FindExisting, AddJob
  <2>2. req[r].at \in {"findWaiting", "findDelayed", "findActive", "add"}
    BY <1>14 DEF FindExisting, AddJob
  <2>3. req[r].kind = "edit"
    BY <1>4, <1>5, <2>2 DEF DeleteSteps
  <2>. QED
    BY <1>7, <2>1, <2>3 DEF RequestSteps, Ended, Late, EditSteps
<1>. QED
  BY <1>10, <1>11, <1>12, <1>13, <1>14

\* The steps on the rows.
LEMMA RowsWritten ==
  ASSUME IInv, QuietInv, PlainInv, NEW r \in Requests,
         CancelTarget(r) \/ UpdateBasePost(r) \/ UpdatePostTargets(r) \/ DeleteRows(r)
  PROVE  PlainInv'
<1>1. Running(r) /\ RequestStep(r) /\ UNCHANGED <<platform, accepted, job>>
  BY DEF CancelTarget, UpdateBasePost, UpdatePostTargets, DeleteRows, Running, RequestStep,
         JobsUnchanged
<1>2. req[r] \in Frames /\ req[r].kind \in {"edit", "delete"} /\ req[r].new \in SUBSET Accounts
  BY DEF IInv, TypeOK, Frames
<1>3. \A j \in Jobs : /\ job[j].at \notin {"marking"} \cup Sending
                      /\ job'[j].at \notin {"marking"} \cup Sending
  BY <1>1, NoneSending
<1>4. HeldInv'
  BY <1>3 DEF HeldInv, Sending, Jobs, Requests
<1>5. /\ req[r].kind = "edit" => req[r].at \in EditSteps /\ EditFrame(req[r])
      /\ req[r].kind = "delete" => req[r].at \in DeleteSteps
  BY <1>1 DEF PlainInv, ServedInv
<1>6. post \in [status : PostStatus, time : (0 .. Horizon) \cup {NoTime}]
       /\ target \in [Accounts -> {"none", "PENDING", "DONE", "FAILED"}]
  BY DEF IInv, TypeOK
<1>7. CASE CancelTarget(r)
  <2>1. req[r].kind = "delete"
    BY <1>2, <1>5, <1>7 DEF CancelTarget, EditSteps
  <2>2. "next" \in RequestSteps /\ "next" \notin Ended
    BY DEF RequestSteps, Ended
  <2>3. PICK f : req' = [req EXCEPT ![r] = f] /\ f.at = "next" /\ SameEdit(f, req[r])
    BY <1>7, <2>2, GotoFrame DEF CancelTarget
  <2>4. f.kind = "delete" /\ f.at \in DeleteSteps /\ f.at \notin {"idle", "ok", "failed"}
    BY <2>1, <2>3 DEF SameEdit, DeleteSteps
  <2>5. ServedInv' /\ BookedInv'
    BY <1>1, <2>3, <2>4, ServedOn
  <2>6. post' = post
    BY <1>7 DEF CancelTarget
  <2>7. \A a \in Accounts : target'[a] = IF a = req[r].acct /\ a \in Rows THEN "FAILED" ELSE target[a]
    BY <1>7 DEF CancelTarget
  <2>8. Rows' = Rows
    BY <2>7 DEF Rows
  <2>9. StoredInv'
    BY <2>6, <2>8 DEF PlainInv, StoredInv, Times
  <2>10. ~ Untouched => ~ Untouched'
    BY <1>1, <2>7 DEF Untouched, Rows
  <2>11. TouchedInv'
    BY <1>3, <2>6, <2>10 DEF PlainInv, TouchedInv
  <2>. QED
    BY <1>4, <2>5, <2>9, <2>11 DEF PlainInv
<1>8. CASE UpdateBasePost(r)
  <2>1. req[r].at = "base" /\ target' = target /\ slots' = slots /\ Goto(r, "targets")
    BY <1>8 DEF UpdateBasePost
  <2>2. req[r].kind = "edit" /\ EditFrame(req[r])
    BY <1>2, <1>5, <2>1 DEF DeleteSteps
  <2>3. post.status = "PENDING" /\ req[r].status = "PENDING" /\ req[r].time \in Times
    BY <2>2 DEF EditFrame
  <2>4. post' = [status |-> "PENDING", time |-> req[r].time]
    BY <1>8, <2>3 DEF UpdateBasePost
  <2>5. "targets" \in RequestSteps /\ "targets" \notin Ended
    BY DEF RequestSteps, Ended
  <2>6. PICK f : req' = [req EXCEPT ![r] = f] /\ f.at = "targets" /\ SameEdit(f, req[r])
    BY <2>1, <2>5, GotoFrame
  <2>7. Counts(f)' = Counts(req[r])
    BY <1>1, <2>1, <2>6 DEF Counts, SameEdit, Booked, On, Days, Times
  <2>8. EditFrame(f)'
    BY <2>1, <2>2, <2>4, <2>6, <2>7 DEF EditFrame, SameEdit, Rows, Times
  <2>9. f.kind = "edit" /\ f.at \in EditSteps /\ f.at \notin {"idle", "ok", "failed"}
    BY <2>2, <2>6 DEF SameEdit, EditSteps
  <2>10. ServedInv' /\ BookedInv'
    BY <1>1, <2>6, <2>8, <2>9, ServedOn
  <2>11. StoredInv' /\ TouchedInv'
    BY <2>1, <2>3, <2>4 DEF PlainInv, StoredInv, TouchedInv, Rows, Times
  <2>. QED
    BY <1>4, <2>10, <2>11 DEF PlainInv
<1>9. CASE UpdatePostTargets(r)
  <2>1. req[r].at = "targets" /\ post' = post /\ slots' = slots
    BY <1>9 DEF UpdatePostTargets
  <2>2. req[r].kind = "edit" /\ EditFrame(req[r])
    BY <1>2, <1>5, <2>1 DEF DeleteSteps
  <2>3. post = [status |-> "PENDING", time |-> req[r].time] /\ req[r].time \in Times
          /\ slots = Booked(req[r].time, req[r].new) /\ req[r].new # {}
    BY <2>1, <2>2 DEF EditFrame, Counts
  <2>4. /\ target' = [a \in Accounts |-> IF a \in req[r].new THEN "PENDING" ELSE "none"]
        /\ Goto(r, "ok")
    BY <1>9, <2>3 DEF UpdatePostTargets
  <2>5. Rows' = req[r].new
    BY <1>2, <2>4 DEF Rows
  <2>6. slots' = Booked(post'.time, Rows')
    BY <2>1, <2>3, <2>5
  <2>7. ServedInv' /\ BookedInv'
    BY <1>1, <2>4, <2>6, ServedLast
  <2>8. StoredInv' /\ TouchedInv'
    BY <2>1, <2>3, <2>5 DEF StoredInv, TouchedInv, Times
  <2>. QED
    BY <1>4, <2>7, <2>8 DEF PlainInv
<1>10. CASE DeleteRows(r)
  <2>1. post'.status = "deleted"
    BY <1>6, <1>10 DEF DeleteRows
  <2>2. Goto(r, "ok") \/ Goto(r, "failed")
    BY <1>10 DEF DeleteRows
  <2>3. ServedInv' /\ BookedInv'
    BY <1>1, <2>1, <2>2, ServedLast
  <2>4. StoredInv' /\ TouchedInv'
    BY <2>1 DEF StoredInv, TouchedInv
  <2>. QED
    BY <1>4, <2>3, <2>4 DEF PlainInv
<1>. QED
  BY <1>7, <1>8, <1>9, <1>10

\* A request that is let in, or refused, has changed nothing yet.
LEMMA RequestReads ==
  ASSUME NEW r \in Requests, Request(r)
  PROVE  MayRequest(r) /\ JobsUnchanged /\ UNCHANGED <<post, target, slots>>
<1>1. DeleteRead(r) \/ Refuse(r) \/ \E status, t, accounts : EditRead(r, status, t, accounts)
  BY DEF Request
<1>2. ASSUME NEW status, NEW t, NEW accounts, EditRead(r, status, t, accounts)
      PROVE  MayRequest(r) /\ JobsUnchanged /\ UNCHANGED <<post, target, slots>>
  BY <1>2, Zenon DEF EditRead
<1>3. DeleteRead(r) => MayRequest(r) /\ JobsUnchanged /\ UNCHANGED <<post, target, slots>>
  BY Zenon DEF DeleteRead
<1>4. Refuse(r) => MayRequest(r) /\ JobsUnchanged /\ UNCHANGED <<post, target, slots>>
  BY Zenon DEF Refuse
<1>. QED
  BY <1>1, <1>2, <1>3, <1>4

\* A request is let in: an edit reads a post that is scheduled and untouched.
LEMMA RequestPlain ==
  ASSUME IInv, QuietInv, Plain, PlainInv, NEW r \in Requests, Request(r)
  PROVE  PlainInv'
<1>0. MayRequest(r) /\ JobsUnchanged /\ UNCHANGED <<post, target, slots>>
  BY RequestReads
<1>1. /\ \A q \in Requests : ~ Running(q)
      /\ \A j \in Jobs : job[j].at \in Gone \/ (job[j].at = "delayed" /\ job[j].time > now)
  <2>1. "overlap" \notin scenario
    BY DEF Plain, Without
  <2>. QED
    BY <1>0, <2>1 DEF MayRequest, Calm
<1>2. UNCHANGED <<scenario, platform, now, accepted, job, post, target, slots>>
  BY <1>0 DEF JobsUnchanged
<1>3. StoredInv' /\ HeldInv' /\ TouchedInv'
  BY <1>2 DEF PlainInv, StoredInv, HeldInv, TouchedInv, Untouched, Rows, Times, Sending, Jobs,
              Requests
<1>4. ASSUME NEW f, req' = [req EXCEPT ![r] = f], f.at \notin {"idle", "ok", "failed"},
             f.kind = "edit" => f.at \in EditSteps /\ EditFrame(f),
             f.kind = "delete" => f.at \in DeleteSteps
      PROVE  ServedInv' /\ BookedInv'
  <2>1. \A q \in Requests : req'[q] = IF q = r THEN f ELSE req[q]
    BY <1>4 DEF IInv, TypeOK
  <2>2. \A q \in Requests : Running(q)' => q = r /\ req'[q] = f
    BY <1>1, <2>1 DEF Running
  <2>3. Running(r)'
    BY <1>4, <2>1 DEF Running
  <2>4. EditFrame(f) => EditFrame(f)'
    BY <1>2 DEF EditFrame, Counts, Booked, On, Rows, Days, Times
  <2>5. ServedInv'
    BY <1>4, <2>2, <2>4 DEF ServedInv, Requests
  <2>6. BookedInv'
    BY <2>3 DEF BookedInv, Requests
  <2>. QED
    BY <2>5, <2>6
<1>5. ASSUME NEW status \in {"PENDING", "DRAFT"}, NEW t \in Times \cup {NoTime},
             NEW accounts \in (SUBSET Accounts) \ {{}}, EditRead(r, status, t, accounts)
      PROVE  PlainInv'
  <2>. DEFINE f == [IdleRequest EXCEPT !.at = FirstStep(status, t), !.status = status,
                       !.time = t, !.new = accounts, !.left = accounts,
                       !.oldTime = post.time, !.old = Rows]
  <2>1. f.at = FirstStep(status, t) /\ f.status = status /\ f.time = t /\ f.new = accounts
          /\ f.oldTime = post.time /\ f.old = Rows /\ f.kind = "edit"
    BY DEF IdleRequest
  <2>2. req' = [req EXCEPT ![r] = f]
    BY <1>5 DEF EditRead
  <2>. HIDE DEF f
  <2>3. status = "PENDING" /\ t # NoTime /\ t \in Times
    BY <1>5 DEF EditRead, Plain, Without
  <2>4. Untouched /\ post.status \notin {"deleted", "DONE"}
    BY <1>5 DEF EditRead, Plain, Without
  <2>5. \A j \in Jobs : job[j].at \notin Sending
    BY <1>1 DEF Gone, Sending
  <2>6. post.status = "PENDING" /\ post.time \in Times /\ slots = Booked(post.time, Rows)
    BY <1>1, <2>4, <2>5 DEF PlainInv, TouchedInv, StoredInv, BookedInv
  <2>7. post = [status |-> "PENDING", time |-> post.time]
    BY <2>6 DEF IInv, TypeOK
  <2>8. post.time # NoTime
    BY <2>6, EditingAssumption DEF EditingAssumption, Times
  <2>9. f.at = IF post.time = t THEN "adjust" ELSE "release"
    BY <2>1, <2>3, <2>8 DEF FirstStep
  <2>10. t = post.time => accounts = Rows
    BY <1>5 DEF EditRead, Plain
  <2>11. slots = Counts(f)
    BY <2>1, <2>6, <2>9, <2>10 DEF Counts
  <2>12. EditFrame(f)
    BY <2>1, <2>3, <2>6, <2>7, <2>9, <2>10, <2>11 DEF EditFrame
  <2>13. f.at \in EditSteps /\ f.at \notin {"idle", "ok", "failed"}
    BY <2>9 DEF EditSteps
  <2>. QED
    BY <1>3, <1>4, <2>1, <2>2, <2>12, <2>13 DEF PlainInv
<1>6. CASE DeleteRead(r)
  <2>. DEFINE f == [IdleRequest EXCEPT !.at = IF post.time = NoTime THEN "rows" ELSE "release",
                       !.kind = "delete", !.oldTime = post.time, !.old = Rows, !.left = Rows]
  <2>1. f.at \in {"rows", "release"} /\ f.kind = "delete"
    BY DEF IdleRequest
  <2>2. req' = [req EXCEPT ![r] = f]
    BY <1>6 DEF DeleteRead
  <2>. HIDE DEF f
  <2>3. f.at \in DeleteSteps /\ f.at \notin {"idle", "ok", "failed"}
    BY <2>1 DEF DeleteSteps
  <2>. QED
    BY <1>3, <1>4, <2>1, <2>2, <2>3 DEF PlainInv
<1>7. CASE Refuse(r)
  <2>1. \A q \in Requests : req'[q].at \in {"failed", req[q].at}
    BY <1>7 DEF Refuse, Goto, Ended, IdleRequest, IInv, TypeOK
  <2>2. \A q \in Requests : ~ Running(q)'
    BY <1>1, <2>1 DEF Running
  <2>3. ServedInv'
    BY <2>2 DEF ServedInv, Requests
  <2>4. BookedInv'
    BY <1>1, <1>2 DEF PlainInv, BookedInv, Booked, Rows, On, Days, Times, Requests
  <2>. QED
    BY <1>3, <2>3, <2>4 DEF PlainInv
<1>. QED
  BY <1>5, <1>6, <1>7 DEF Request

\* A job that has taken a target leaves it a mark, or is on its way to do so.
LEMMA JobPlain ==
  ASSUME IInv, QuietInv, PlainInv, NEW j \in Jobs, JobStep(j)
  PROVE  PlainInv'
<1>1. UNCHANGED <<platform, req, slots>>
  BY DEF JobStep, Due, Start, ReadPost, MarkPosting, Publish, Record, Settle, MarkError, QueueOnly
<1>2. \A r \in Requests : ~ Running(r)
  BY JobsWait DEF QuietInv
<1>3. /\ post \in [status : PostStatus, time : (0 .. Horizon) \cup {NoTime}]
      /\ target \in [Accounts -> {"none", "PENDING", "DONE", "FAILED"}]
      /\ job \in [Jobs -> JobRecords] /\ accepted \in [Accounts -> Nat]
  BY DEF IInv, TypeOK, JobRecords
<1>4. \A step : JobGoto(j, step) => /\ \A k \in Jobs : k # j => job'[k] = job[k]
                                    /\ job'[j].at = step
                                    /\ step # "ended" => job'[j].acct = job[j].acct
  BY <1>3 DEF JobGoto, JobRecords, NoJob
<1>5. ASSUME Rows' = Rows, \A k \in Jobs : k # j => job'[k] = job[k],
             job'[j].at \in {"marking"} \cup Sending => job'[j].acct \in Rows,
             ~ Untouched => ~ Untouched',
             job[j].at \in Sending => job'[j].at \in Sending \/ ~ Untouched',
             \/ post' = post
             \/ /\ post'.status \in {"POSTING", "DONE", "FAILED", "PARTIALLY_DONE"}
                /\ post.status # "deleted"
                /\ job'[j].at \in Sending \/ ~ Untouched'
      PROVE  PlainInv'
  <2>1. ServedInv'
    BY <1>1, <1>2 DEF ServedInv, Running, Requests
  <2>2. BookedInv'
    BY <1>1, <1>2, <1>5 DEF PlainInv, BookedInv, Booked, On, Days, Times, Running, Requests
  <2>3. StoredInv'
    BY <1>5 DEF PlainInv, StoredInv, Times
  <2>4. HeldInv'
    BY <1>5 DEF PlainInv, HeldInv, Sending, Jobs, Requests
  <2>5. TouchedInv'
    <3>1. CASE post' = post
      <4>1. ASSUME post'.status \notin {"PENDING", "deleted"}, Untouched'
            PROVE  \E k \in Jobs : job'[k].at \in Sending
        <5>1. PICK k \in Jobs : job[k].at \in Sending
          BY <1>5, <3>1, <4>1 DEF PlainInv, TouchedInv
        <5>. QED
          BY <1>5, <4>1, <5>1
      <4>. QED
        BY <4>1 DEF TouchedInv, Jobs, Requests, Sending
    <3>2. CASE job'[j].at \in Sending \/ ~ Untouched'
      BY <3>2 DEF TouchedInv, Jobs, Requests, Sending
    <3>. QED
      BY <1>5, <3>1, <3>2
  <2>. QED
    BY <2>1, <2>2, <2>3, <2>4, <2>5 DEF PlainInv
<1>6. UNCHANGED target => Rows' = Rows
  BY DEF Rows
<1>7. UNCHANGED <<target, accepted>> => (Untouched' <=> Untouched)
  BY DEF Untouched
<1>8. CASE Due(j) \/ Start(j)
  <2>1. UNCHANGED <<post, target, accepted>> /\ job[j].at \notin Sending
    BY <1>8 DEF Due, Start, QueueOnly, Sending
  <2>2. PICK step \in {"waiting", "reading"} : JobGoto(j, step)
    BY <1>8 DEF Due, Start
  <2>. QED
    BY <1>4, <1>5, <1>6, <1>7, <2>1, <2>2 DEF Sending
<1>9. CASE ReadPost(j)
  <2>1. UNCHANGED <<post, target, accepted>> /\ job[j].at \notin Sending
    BY <1>9 DEF ReadPost, QueueOnly, Sending
  <2>2. CASE JobGoto(j, "settleFailed") \/ JobGoto(j, "ended")
    BY <1>4, <1>5, <1>6, <1>7, <2>1, <2>2 DEF Sending
  <2>3. ASSUME NEW a \in Candidates(j), NEW at,
               job' = [job EXCEPT ![j].acct = a, ![j].at = at]
        PROVE  PlainInv'
    <3>1. /\ \A k \in Jobs : k # j => job'[k] = job[k]
          /\ job'[j].acct = a
      BY <1>3, <2>3 DEF JobRecords
    <3>2. a \in Rows
      BY DEF Candidates
    <3>. QED
      BY <1>5, <1>6, <1>7, <2>1, <3>1, <3>2
  <2>. QED
    BY <1>9, <2>2, <2>3 DEF ReadPost
<1>10. CASE MarkPosting(j)
  <2>1. UNCHANGED <<target, accepted>> /\ job[j].at = "marking" /\ JobGoto(j, "publishing")
          /\ post' = BasePost("POSTING")
    BY <1>10 DEF MarkPosting
  <2>2. job[j].acct \in Rows
    BY <2>1 DEF PlainInv, HeldInv
  <2>3. post' = post \/ (post'.status = "POSTING" /\ post.status # "deleted")
    BY <2>1 DEF BasePost
  <2>4. job'[j].at = "publishing" /\ job'[j].acct \in Rows
    BY <1>4, <2>1, <2>2
  <2>5. "publishing" \in Sending /\ "marking" \notin Sending
    BY DEF Sending
  <2>. QED
    BY <1>4, <1>5, <1>6, <1>7, <2>1, <2>3, <2>4, <2>5
<1>11. CASE Publish(j)
  <2>1. UNCHANGED <<post, target>> /\ job[j].at = "publishing"
    BY <1>11 DEF Publish
  <2>2. PICK step \in {"recordDone", "recordFailed"} : JobGoto(j, step)
    BY <1>11 DEF Publish
  <2>3. job[j].acct \in Rows
    BY <2>1 DEF PlainInv, HeldInv, Sending
  <2>4. \A a \in Accounts : accepted[a] # 0 => accepted'[a] # 0
    BY <1>3, <1>11 DEF Publish
  <2>5. ~ Untouched => ~ Untouched'
    BY <2>1, <2>4 DEF Untouched
  <2>. QED
    BY <1>4, <1>5, <1>6, <2>1, <2>2, <2>3, <2>5 DEF Sending
<1>12. CASE Record(j)
  <2>. DEFINE a == job[j].acct
  <2>1. UNCHANGED <<post, accepted>> /\ job[j].at \in {"recordDone", "recordFailed"}
    BY <1>12 DEF Record
  <2>2. a \in Rows /\ a \in Accounts
    BY <2>1 DEF PlainInv, HeldInv, Sending, Rows
  <2>3. PICK status \in {"DONE", "FAILED"} : target' = [target EXCEPT ![a] = status]
    BY <1>12, <2>2 DEF Record
  <2>4. PICK step \in {"settleDone", "settleFailed"} : JobGoto(j, step)
    BY <1>12 DEF Record
  <2>5. \A b \in Accounts : target'[b] = IF b = a THEN status ELSE target[b]
    BY <1>3, <2>3
  <2>6. Rows' = Rows
    BY <2>2, <2>5 DEF Rows
  <2>7. ~ Untouched'
    BY <2>2, <2>5 DEF Untouched
  <2>. QED
    BY <1>4, <1>5, <2>1, <2>4, <2>6, <2>7 DEF Sending
<1>13. CASE Settle(j)
  <2>1. UNCHANGED <<target, accepted>> /\ job[j].at \notin Sending /\ post' = Summary
    BY <1>13 DEF Settle, Sending
  <2>2. PICK step \in {"markError", "ended"} : JobGoto(j, step)
    BY <1>13 DEF Settle
  <2>3. CASE post' = post
    BY <1>4, <1>5, <1>6, <1>7, <2>1, <2>2, <2>3 DEF Sending
  <2>4. CASE post' # post
    <3>1. post.status # "deleted"
      BY <2>1, <2>4 DEF Summary, BasePost
    <3>2. post'.status \in {"DONE", "FAILED", "PARTIALLY_DONE"}
            /\ \E b \in Rows : target[b] \in {"DONE", "FAILED"}
      <4>1. Rows # {}
        BY <3>1 DEF PlainInv, StoredInv
      <4>. DEFINE done == {b \in Rows : target[b] = "DONE"}
                  failed == {b \in Rows : target[b] = "FAILED"}
      <4>2. done # {} \/ failed # {}
        BY <2>1, <2>4, <4>1 DEF Summary
      <4>3. post'.status \in {"DONE", "FAILED", "PARTIALLY_DONE"}
        BY <2>1, <2>4 DEF Summary, BasePost
      <4>. QED
        BY <4>2, <4>3
    <3>3. ~ Untouched
      BY <3>2 DEF Untouched, Rows
    <3>. QED
      BY <1>4, <1>5, <1>6, <1>7, <2>1, <2>2, <3>1, <3>2, <3>3 DEF Sending
  <2>. QED
    BY <2>3, <2>4
<1>14. CASE MarkError(j)
  <2>1. UNCHANGED <<post, accepted>> /\ job[j].at \notin Sending /\ JobGoto(j, "settleError")
    BY <1>14 DEF MarkError, Sending
  <2>2. \A b \in Accounts : target'[b] = IF b = AccountOf(j) /\ b \in Rows THEN "FAILED" ELSE target[b]
    BY <1>14 DEF MarkError
  <2>3. Rows' = Rows
    BY <2>2 DEF Rows
  <2>4. ~ Untouched => ~ Untouched'
    BY <2>1, <2>2 DEF Untouched
  <2>. QED
    BY <1>4, <1>5, <2>1, <2>3, <2>4 DEF Sending
<1>. QED
  BY <1>8, <1>9, <1>10, <1>11, <1>12, <1>13, <1>14 DEF JobStep

LEMMA InitPlain == Init /\ Plain => PlainInv
<1>. SUFFICES ASSUME Init, Plain PROVE PlainInv
  OBVIOUS
<1>1. \A r \in Requests : ~ Running(r)
  BY DEF Init, Running, IdleRequest
<1>2. "draft" \notin scenario
  BY DEF Plain, Without
<1>3. PICK t \in Times : /\ post = [status |-> "PENDING", time |-> t]
                         /\ slots = [s \in Days |-> IF s[1] = t THEN Cardinality(On(s[2], Rows)) ELSE 0]
  BY <1>2 DEF Init
<1>4. Rows # {}
  <2>1. PICK accounts \in (SUBSET Accounts) \ {{}} :
           /\ IF "single" \in scenario THEN Cardinality(accounts) = 1 ELSE accounts = Accounts
           /\ target = [a \in Accounts |-> IF a \in accounts THEN "PENDING" ELSE "none"]
    BY DEF Init
  <2>. QED
    BY <2>1 DEF Rows
<1>5. \A j \in Jobs : job[j].at \in {"delayed", "none"}
  BY DEF Init, NoJob
<1>. QED
  BY <1>1, <1>3, <1>4, <1>5 DEF PlainInv, ServedInv, BookedInv, StoredInv, HeldInv, TouchedInv,
     Booked, Sending

LEMMA NextKeepsPlain ==
  IInv /\ (Quiet => QuietInv) /\ (Plain => PlainInv) /\ [Next]_vars => (Plain => PlainInv)'
<1>. SUFFICES ASSUME IInv, Quiet => QuietInv, Plain => PlainInv, [Next]_vars, Plain'
              PROVE  PlainInv'
  OBVIOUS
<1>1. UNCHANGED scenario
  <2>1. ASSUME NEW r \in Requests, Request(r) PROVE UNCHANGED scenario
    BY <2>1, RequestReads DEF JobsUnchanged
  <2>2. ASSUME NEW r \in Requests, RequestStep(r) PROVE UNCHANGED scenario
    BY <2>2, EitherPart
  <2>3. ASSUME NEW j \in Jobs, JobStep(j) PROVE UNCHANGED scenario
    BY <2>3 DEF JobStep, Due, Start, ReadPost, MarkPosting, Publish, Record, Settle, MarkError,
       QueueOnly
  <2>. QED
    BY <2>1, <2>2, <2>3 DEF Next, Tick, vars
<1>2. Plain /\ PlainInv /\ QuietInv
  BY <1>1, PlainIsQuiet DEF Plain, Without
<1>3. CASE UNCHANGED vars \/ Tick
  <2>1. UNCHANGED <<platform, post, target, job, req, slots, accepted>>
    BY <1>3 DEF vars, Tick
  <2>2. ServedInv'
    <3>1. \A f : EditFrame(f) => EditFrame(f)'
      BY <2>1 DEF EditFrame, Counts, Booked, On, Rows, Days, Times
    <3>2. \A r \in Requests : Running(r)' <=> Running(r)
      BY <2>1 DEF Running
    <3>. QED
      BY <1>2, <2>1, <3>1, <3>2 DEF PlainInv, ServedInv, Requests
  <2>3. BookedInv'
    BY <1>2, <2>1 DEF PlainInv, BookedInv, Running, Booked, On, Rows, Days, Times, Requests
  <2>4. StoredInv' /\ HeldInv' /\ TouchedInv'
    BY <1>2, <2>1 DEF PlainInv, StoredInv, HeldInv, TouchedInv, Untouched, Rows, Times, Jobs,
       Requests
  <2>. QED
    BY <2>2, <2>3, <2>4 DEF PlainInv
<1>4. ASSUME NEW r \in Requests, Request(r) PROVE PlainInv'
  BY <1>2, <1>4, RequestPlain
<1>5. ASSUME NEW r \in Requests, RequestStep(r) PROVE PlainInv'
  <2>1. CASE Release(r) \/ Reserve(r) \/ Adjust(r)
    BY <1>2, <2>1, SlotsMoved
  <2>2. CASE CancelTarget(r) \/ UpdateBasePost(r) \/ UpdatePostTargets(r) \/ DeleteRows(r)
    BY <1>2, <2>2, RowsWritten
  <2>3. CASE NextTarget(r) \/ FindDelayedJob(r) \/ RemoveJob(r) \/ Cleanup(r)
               \/ FindExisting(r) \/ AddJob(r)
    BY <1>2, <2>3, SearchesPlain
  <2>. QED
    BY <1>5, <2>1, <2>2, <2>3 DEF RequestStep
<1>6. ASSUME NEW j \in Jobs, JobStep(j) PROVE PlainInv'
  BY <1>2, <1>6, JobPlain
<1>. QED
  BY <1>3, <1>4, <1>5, <1>6 DEF Next

(* The daily counts of the platforms hold exactly the targets of a          *)
(* scheduled post, on the day it is scheduled for: what releasePlatformSlots *)
(* takes away at the old time, reservePlatformSlots adds at the new one, and *)
(* an edit never counts for a post whose sending has begun.                  *)
THEOREM SlotsFollowPost == Spec => []SlotsFollow
<1>1. IInv /\ (Plain => PlainInv) => SlotsFollow
  <2>. SUFFICES ASSUME Plain, PlainInv, Calm, post.status = "PENDING",
                       NEW d \in Times, NEW p \in Platforms
                PROVE  slots[<<d, p>>] = IF d = post.time THEN Cardinality(On(p, Rows)) ELSE 0
    BY Zenon DEF SlotsFollow, Plain
  <2>1. slots = Booked(post.time, Rows)
    BY DEF PlainInv, BookedInv, Calm
  <2>2. <<d, p>> \in Days
    BY DEF Days
  <2>. QED
    BY <2>1, <2>2 DEF Booked
<1>2. Init => (Plain => PlainInv)
  BY InitPlain
<1>3. Init => (Quiet => QuietInv)
  BY InitQuiet
<1>4. Spec => [](Quiet => QuietInv)
  BY <1>3, Invariance, NextKeepsQuiet, PTL DEF Spec
<1>5. Spec => [](Plain => PlainInv)
  BY <1>2, <1>4, Invariance, NextKeepsPlain, PTL DEF Spec
<1>. QED
  BY <1>1, <1>5, Invariance, PTL

====
