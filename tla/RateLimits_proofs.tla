-------------------------- MODULE RateLimits_proofs --------------------------
(***************************************************************************)
(* What holds of RateLimits for every set of posts, accounts and cases,    *)
(* every limit and every clock: SlotsBounded, by counting the slots that   *)
(* are validated and not reserved yet with those that are reserved;        *)
(* ReservedWithinQuota, by the counter of the quota, which is never below  *)
(* what is reserved and what is about to be rolled back; ClampedCount, by  *)
(* the deletions that are about to decrement a counter; OvershootBounded,  *)
(* by what a counter holds of what was sent in its window.                 *)
(*                                                                         *)
(* A frame has fields of many types and most do not matter here: Frames    *)
(* only says which fields there are.                                       *)
(***************************************************************************)
EXTENDS RateLimits, FiniteSetTheorems, TLAPS

\* The frames whose fields are in T; what T is does not matter.
Frames(T) ==
    [pc : T, kind : T, at : T, due : T, resets : T, slot : T, left : T, key : T,
     seen : T, reserved : T, sentAt : T]

Framed == \E T : post \in [Posts -> Frames(T)]

\* No frame but p's changes.
Only(p) == \A q \in Posts \ {p} : post'[q] = post[q]

LEMMA FramedStep ==
  ASSUME NEW T, post \in [Posts -> Frames(T)], NEW p \in Posts, NEW U, T \subseteq U,
         post' = [q \in Posts |-> post'[q]], Only(p), post'[p] \in Frames(U)
  PROVE  Framed'
<1>1. Frames(T) \subseteq Frames(U)
  BY DEF Frames
<1>2. post' \in [Posts -> Frames(U)]
  BY <1>1 DEF Only
<1>. QED
  BY <1>2 DEF Framed

\* What the calls about one post change in its frame, action by action.
LEMMA ValidateFrame ==
  ASSUME Framed, NEW p \in Posts, NEW at, Validate(p, at)
  PROVE  /\ Framed' /\ Only(p)
         /\ post'[p].slot = "validated" /\ post'[p].at = at
         /\ post'[p].pc = "schedule" /\ post'[p].reserved = post[p].reserved
<1>1. PICK T : post \in [Posts -> Frames(T)]
  BY DEF Framed
<1>2. post' = [post EXCEPT ![p].pc = "schedule", ![p].kind = "scheduled",
                           ![p].at = at, ![p].slot = "validated"]
  BY DEF Validate
<1>3. post'[p] \in Frames(T \cup {"schedule", "scheduled", at, "validated"})
  BY <1>1, <1>2 DEF Frames
<1>4. post' = [q \in Posts |-> post'[q]] /\ Only(p)
  BY <1>1, <1>2 DEF Only
<1>5. /\ post'[p].slot = "validated" /\ post'[p].at = at
      /\ post'[p].pc = "schedule" /\ post'[p].reserved = post[p].reserved
  BY <1>1, <1>2 DEF Frames
<1>. QED
  BY <1>1, <1>3, <1>4, <1>5, FramedStep

LEMMA CheckNowFrame ==
  ASSUME Framed, NEW p \in Posts, CheckNow(p)
  PROVE  /\ Framed' /\ Only(p)
         /\ post'[p].pc = "publish" /\ post'[p].reserved = post[p].reserved
         /\ post'[p].slot = "validated"
<1>1. PICK T : post \in [Posts -> Frames(T)]
  BY DEF Framed
<1>2. post' = [post EXCEPT ![p].pc = "publish", ![p].kind = "now",
                           ![p].at = now, ![p].slot = "validated"]
  BY DEF CheckNow
<1>3. post'[p] \in Frames(T \cup {"publish", "now", now, "validated"})
  BY <1>1, <1>2 DEF Frames
<1>4. post' = [q \in Posts |-> post'[q]] /\ Only(p)
  BY <1>1, <1>2 DEF Only
<1>5. /\ post'[p].pc = "publish" /\ post'[p].reserved = post[p].reserved
      /\ post'[p].slot = "validated"
  BY <1>1, <1>2 DEF Frames
<1>. QED
  BY <1>1, <1>3, <1>4, <1>5, FramedStep

\* Apart from its step, what the theorems look at is as it was.
Else(p) ==
    /\ Only(p)
    /\ post'[p].slot = post[p].slot /\ post'[p].at = post[p].at
    /\ post'[p].reserved = post[p].reserved

LEMMA ReserveSlotsFrame ==
  ASSUME Framed, NEW p \in Posts, ReserveSlots(p)
  PROVE  /\ Framed' /\ Only(p)
         /\ post'[p] = [post[p] EXCEPT !.slot = "reserved"]
         /\ post'[p].slot = "reserved" /\ post'[p].at = post[p].at
         /\ post'[p].pc = post[p].pc /\ post'[p].reserved = post[p].reserved
         /\ post'[p].key = post[p].key /\ post'[p].seen = post[p].seen
<1>1. PICK T : post \in [Posts -> Frames(T)]
  BY DEF Framed
<1>2. post' = [post EXCEPT ![p].slot = "reserved"]
  BY DEF ReserveSlots
<1>3. post'[p] \in Frames(T \cup {"reserved"})
  BY <1>1, <1>2 DEF Frames
<1>4. post' = [q \in Posts |-> post'[q]] /\ Only(p)
  BY <1>1, <1>2 DEF Only
<1>5. /\ post'[p] = [post[p] EXCEPT !.slot = "reserved"]
      /\ post'[p].slot = "reserved" /\ post'[p].at = post[p].at
      /\ post'[p].pc = post[p].pc /\ post'[p].reserved = post[p].reserved
      /\ post'[p].key = post[p].key /\ post'[p].seen = post[p].seen
  BY <1>1, <1>2 DEF Frames
<1>. QED
  BY <1>1, <1>3, <1>4, <1>5, FramedStep

\* The frame of p moves to pc, and fields no theorem looks at change with it.
To(p, pc) ==
    \/ post' = [post EXCEPT ![p].pc = pc]
    \/ \E x : post' = [post EXCEPT ![p].pc = pc, ![p].due = x]
    \/ \E x, y : post' = [post EXCEPT ![p].pc = pc, ![p].due = x, ![p].resets = y]
    \/ \E x : post' = [post EXCEPT ![p].pc = pc, ![p].kind = x]
    \/ \E x, y : post' = [post EXCEPT ![p].pc = pc, ![p].sentAt = x, ![p].left = y]
    \/ \E x : post' = [post EXCEPT ![p].pc = pc, ![p].left = x]
    \/ \E x : post' = [post EXCEPT ![p].left = x, ![p].pc = pc]
    \/ \E x, y : post' = [post EXCEPT ![p].pc = pc, ![p].key = x, ![p].seen = y]
    \/ \E x, y : post' = [post EXCEPT ![p].pc = pc, ![p].key = x, ![p].due = y]

LEMMA ToFrame ==
  ASSUME Framed, NEW p \in Posts, NEW pc, To(p, pc)
  PROVE  Framed' /\ Else(p) /\ post'[p].pc = pc
<1>1. PICK T : post \in [Posts -> Frames(T)]
  BY DEF Framed
<1>2. PICK x, y :
        \/ post' = [post EXCEPT ![p].pc = pc]
        \/ post' = [post EXCEPT ![p].pc = pc, ![p].due = x]
        \/ post' = [post EXCEPT ![p].pc = pc, ![p].due = x, ![p].resets = y]
        \/ post' = [post EXCEPT ![p].pc = pc, ![p].kind = x]
        \/ post' = [post EXCEPT ![p].pc = pc, ![p].sentAt = x, ![p].left = y]
        \/ post' = [post EXCEPT ![p].pc = pc, ![p].left = x]
        \/ post' = [post EXCEPT ![p].left = x, ![p].pc = pc]
        \/ post' = [post EXCEPT ![p].pc = pc, ![p].key = x, ![p].seen = y]
        \/ post' = [post EXCEPT ![p].pc = pc, ![p].key = x, ![p].due = y]
  BY DEF To
<1>3. post'[p] \in Frames(T \cup {pc, x, y})
  BY <1>1, <1>2 DEF Frames
<1>4. post' = [q \in Posts |-> post'[q]] /\ Only(p)
  BY <1>1, <1>2 DEF Only
<1>5. Else(p) /\ post'[p].pc = pc
  BY <1>1, <1>2, <1>4 DEF Frames, Else
<1>. QED
  BY <1>1, <1>3, <1>4, <1>5, FramedStep

LEMMA ScheduleFrame ==
  ASSUME Framed, NEW p \in Posts, ScheduleCheck(p)
  PROVE  Framed' /\ Else(p) /\ post'[p].pc \in {"budget", "enqueue"}
<1>1. To(p, "budget") \/ To(p, "enqueue")
  BY DEF ScheduleCheck, To
<1>. QED
  BY <1>1, ToFrame

LEMMA BudgetFrame ==
  ASSUME Framed, NEW p \in Posts, ReadBudget(p)
  PROVE  /\ Framed' /\ Else(p) /\ post'[p].pc \in {"multi", "enqueue"}
         /\ post'[p].pc = "multi" =>
               AtLeastZero(limits.appDailyLimit - Value(QuotaKey)) >= limits.costPerPost
<1>1. CASE AtLeastZero(limits.appDailyLimit - Value(QuotaKey)) >= limits.costPerPost
  <2>1. To(p, "multi")
    BY <1>1 DEF ReadBudget, To
  <2>. QED
    BY <1>1, <2>1, ToFrame
<1>2. CASE ~(AtLeastZero(limits.appDailyLimit - Value(QuotaKey)) >= limits.costPerPost)
  <2>1. To(p, "enqueue")
    BY <1>2 DEF ReadBudget, To
  <2>. QED
    BY <2>1, ToFrame
<1>. QED
  BY <1>1, <1>2

LEMMA QuotaFrame ==
  ASSUME Framed, NEW p \in Posts, ReserveQuota(p)
  PROVE  /\ Framed' /\ Only(p)
         /\ post'[p].slot = post[p].slot /\ post'[p].at = post[p].at
         /\ IF Value(QuotaKey) + limits.costPerPost > limits.appDailyLimit
            THEN /\ post'[p].pc = "rollback" /\ post'[p].key = QuotaKey
                 /\ post'[p].reserved = post[p].reserved
            ELSE post'[p].pc = "enqueue" /\ post'[p].reserved = StartOf("day", now)
<1>1. PICK T : post \in [Posts -> Frames(T)]
  BY DEF Framed
<1> DEFINE Over == Value(QuotaKey) + limits.costPerPost > limits.appDailyLimit
           pc == IF Over THEN "rollback" ELSE "enqueue"
           key == IF Over THEN QuotaKey ELSE post[p].key
           day == IF Over THEN post[p].reserved ELSE StartOf("day", now)
<1>2. post' = [post EXCEPT ![p].pc = pc, ![p].key = key, ![p].reserved = day]
  BY DEF ReserveQuota
<1> HIDE DEF pc, key, day
<1>3. post'[p] \in Frames(T \cup {pc, key, day})
  BY <1>1, <1>2 DEF Frames
<1>4. post' = [q \in Posts |-> post'[q]] /\ Only(p)
  BY <1>1, <1>2 DEF Only
<1>5. /\ post'[p].slot = post[p].slot /\ post'[p].at = post[p].at
      /\ post'[p].pc = pc /\ post'[p].key = key /\ post'[p].reserved = day
  BY <1>1, <1>2 DEF Frames
<1>. QED
  BY <1>1, <1>3, <1>4, <1>5, FramedStep DEF pc, key, day

Ends == {"enqueue", "queued", "publish", "refused", "failed", "count", "done", "deleted"}

LEMMA CallFrame ==
  ASSUME Framed, NEW p \in Posts,
         \/ RollBack(p) \/ Enqueue(p) \/ StartJob(p) \/ Retry(p) \/ Publish(p)
         \/ IncrementUsage(p) \/ IncrementAppUsage(p) \/ Delete(p) \/ ReleaseSlots(p)
         \/ DecrementRead(p) \/ DecrementApp(p)
  PROVE  /\ Framed' /\ Else(p) /\ post'[p].pc \notin {"multi", "rollback"}
         /\ post'[p].pc \in {"delete", "decrement"} =>
               post[p].pc \in {"delete", "decrement"} \/ Delete(p)
         /\ post'[p].pc = "decrement" => DecrementRead(p)
         /\ post'[p].pc \in Ends \cup {"delete", "decrement"}
<1>1. RollBack(p) => To(p, "enqueue")
  BY DEF RollBack, To
<1>2. Enqueue(p) => To(p, "queued")
  BY DEF Enqueue, To
<1>3. StartJob(p) => To(p, "publish") \/ To(p, "refused")
  BY DEF StartJob, To
<1>4. Retry(p) => To(p, "publish")
  BY DEF Retry, To
<1>5. Publish(p) => To(p, "count") \/ To(p, "failed")
  BY DEF Publish, To
<1>6. ASSUME NEW end, post' = Advanced(p, end)
      PROVE  To(p, end) \/ To(p, post[p].pc)
  BY <1>6 DEF Advanced, To
<1>7. IncrementUsage(p) \/ IncrementAppUsage(p) => To(p, "done") \/ To(p, "count")
  BY <1>6 DEF IncrementUsage, IncrementAppUsage
<1>8. ReleaseSlots(p) \/ DecrementApp(p) =>
          /\ To(p, "deleted") \/ To(p, "delete")
          /\ post[p].pc = "delete"
  BY <1>6 DEF ReleaseSlots, DecrementApp
<1>9. Delete(p) => To(p, "delete")
  BY DEF Delete, To
<1>10. DecrementRead(p) => To(p, "decrement") /\ post[p].pc = "delete"
  BY DEF DecrementRead, To
<1>11. \/ \E pc \in Ends : To(p, pc)
       \/ To(p, "delete") /\ (post[p].pc = "delete" \/ Delete(p))
       \/ To(p, "decrement") /\ post[p].pc = "delete" /\ DecrementRead(p)
  BY <1>1, <1>2, <1>3, <1>4, <1>5, <1>7, <1>8, <1>9, <1>10 DEF Ends
<1>. QED
  BY <1>11, ToFrame DEF Ends

LEMMA DecrementReadFrame ==
  ASSUME Framed, NEW p \in Posts, DecrementRead(p)
  PROVE  post'[p].seen \subseteq UsageCounters
<1>1. PICK T : post \in [Posts -> Frames(T)]
  BY DEF Framed
<1>2. PICK S \in SUBSET UsageCounters :
        post' = [post EXCEPT ![p].pc = "decrement", ![p].key = <<now>>, ![p].seen = S]
  BY DEF DecrementRead
<1>3. post'[p].seen = S
  BY <1>1, <1>2 DEF Frames
<1>. QED
  BY <1>3

LEMMA DecrementFrame ==
  ASSUME Framed, NEW p \in Posts, Decrement(p)
  PROVE  Framed' /\ Else(p) /\ post'[p].pc = "delete"
<1>1. PICK T : post \in [Posts -> Frames(T)]
  BY DEF Framed
<1>2. PICK x, pc : post' = [[post EXCEPT ![p].left = x, ![p].pc = pc]
                             EXCEPT ![p].pc = "delete", ![p].key = NoKey, ![p].seen = {}]
  BY DEF Decrement, Advanced
<1> DEFINE mid == [post EXCEPT ![p].left = x, ![p].pc = pc]
<1>3. /\ mid[p] \in Frames(T \cup {x, pc})
      /\ mid[p].slot = post[p].slot /\ mid[p].at = post[p].at
      /\ mid[p].reserved = post[p].reserved
      /\ mid = [q \in Posts |-> mid[q]] /\ \A q \in Posts \ {p} : mid[q] = post[q]
  BY <1>1 DEF Frames
<1>4. post' = [mid EXCEPT ![p].pc = "delete", ![p].key = NoKey, ![p].seen = {}]
  BY <1>2
<1> HIDE DEF mid
<1>5. post'[p] \in Frames(T \cup {x, pc, "delete", NoKey, {}})
  BY <1>3, <1>4 DEF Frames
<1>6. post' = [q \in Posts |-> post'[q]] /\ Only(p)
  BY <1>3, <1>4 DEF Only
<1>7. Else(p) /\ post'[p].pc = "delete"
  BY <1>3, <1>4, <1>6 DEF Frames, Else
<1>. QED
  BY <1>1, <1>5, <1>6, <1>7, FramedStep

-----------------------------------------------------------------------------
(* Types *)

TypeInv ==
    /\ Framed /\ platform \in Platforms /\ now \in Nat
    /\ \A k \in DOMAIN count : count[k] \in Int
    /\ \A d \in DOMAIN slots : slots[d] \in Nat
    /\ \A p \in Posts : post[p].pc = "decrement" => post[p].seen \subseteq UsageCounters

LEMMA LimitsType ==
  ASSUME TypeInv
  PROVE  /\ limits.postsPerDay \in Nat /\ limits.costPerPost \in Nat
         /\ limits.appDailyLimit \in Nat
         /\ \A c \in UsageCounters \cup AppCounters : c.cost \in Nat
<1>1. limits \in PlatformLimits
  BY DEF TypeInv, Platforms, limits
<1>2. /\ limits.postsPerDay \in Nat /\ limits.costPerPost \in Nat
      /\ limits.appDailyLimit \in Nat /\ limits.pointsPerPost \in Nat
  BY <1>1 DEF PlatformLimits
<1>3. ASSUME NEW name, NEW per, NEW unit, NEW limit, NEW cost \in Nat, NEW clamped
      PROVE  \A c \in Counter(name, per, unit, limit, cost, clamped) : c.cost \in Nat
  BY <1>3 DEF Counter
<1>4. \A c \in UsageCounters : c.cost \in Nat
  BY <1>2, <1>3 DEF UsageCounters, DailyPosts, MinutePosts, HourlyRequests,
                    FiveMinuteRequests, Quota, Points
<1>5. \A c \in AppCounters : c.cost \in Nat
  BY <1>2, <1>3 DEF AppCounters, AppDaily, AppRps, AppQuota
<1>. QED
  BY <1>2, <1>4, <1>5

LEMMA ValueType ==
  ASSUME TypeInv
  PROVE  \A k : Value(k) \in Int
  BY DEF TypeInv, Value

\* What is counted does not make a counter smaller.
LEMMA MovedType ==
  ASSUME TypeInv, NEW counters, \A c \in counters : c.cost \in Nat, NEW holder, NEW t,
         NEW sign \in {1, -1}, count' = Moved(counters, holder, t, sign)
  PROVE  /\ \A k \in DOMAIN count' : count'[k] \in Int
         /\ sign = 1 => \A k : Value(k)' >= Value(k)
<1> DEFINE keys == {Key(c, holder, t) : c \in counters}
           by(k) == (CHOOSE c \in counters : Key(c, holder, t) = k).cost
<1>1. \A k \in keys : by(k) \in Nat
  OBVIOUS
<1>2. count' = [k \in DOMAIN count \cup keys |->
                    Value(k) + (IF k \in keys THEN sign * by(k) ELSE 0)]
  BY DEF Moved
<1> HIDE DEF keys, by
<1>3. \A k \in DOMAIN count \cup keys :
          count'[k] \in Int /\ (sign = 1 => count'[k] >= Value(k))
  BY <1>1, <1>2, ValueType
<1>4. DOMAIN count' = DOMAIN count \cup keys
  BY <1>2
<1>5. \A k : Value(k)' = IF k \in DOMAIN count \cup keys THEN count'[k] ELSE 0
  BY <1>4 DEF Value
<1>6. \A k : k \notin DOMAIN count => Value(k) = 0
  BY DEF Value
<1>. QED
  BY <1>3, <1>4, <1>5, <1>6

-----------------------------------------------------------------------------
(* The slots *)

\* The posts that were given a slot of day d and do not hold it yet.
ValidatedFor(d) ==
    {p \in Posts : post[p].slot = "validated" /\ StartOf("day", post[p].at) = d}

SlotsInv ==
    "now" \notin faults /\ limits.postsPerDay # 0 =>
        \A d : SlotsOf(d) + Cardinality(ValidatedFor(d)) <= limits.postsPerDay + Requests - 1

LEMMA Finite ==
  /\ IsFiniteSet(Posts) /\ Requests \in Nat
  /\ \A S \in SUBSET Posts : IsFiniteSet(S) /\ Cardinality(S) \in Nat
  BY RateLimitsAssumption, FS_Subset, FS_CardinalityType

LEMMA SlotsKept ==
  ASSUME SlotsInv, UNCHANGED <<slots, platform, faults>>,
         \A q \in Posts : post'[q].slot = post[q].slot /\ post'[q].at = post[q].at
  PROVE  SlotsInv'
<1>1. \A d : ValidatedFor(d)' = ValidatedFor(d)
  BY DEF ValidatedFor, StartOf
<1>2. \A d : SlotsOf(d)' = SlotsOf(d)
  BY DEF SlotsOf
<1>. QED
  BY <1>1, <1>2 DEF SlotsInv, limits

LEMMA ElseKeepsSlots ==
  ASSUME SlotsInv, UNCHANGED <<slots, platform, faults>>, NEW p \in Posts, Else(p)
  PROVE  SlotsInv'
  BY SlotsKept DEF Else, Only

\* SlotsOf the days after incrementScheduledCount.
LEMMA SlotsMoved ==
  ASSUME TypeInv, NEW day, NEW n \in Int, slots' = WithSlots(day, n)
  PROVE  /\ \A d : SlotsOf(d)' = IF d = day THEN AtLeastZero(SlotsOf(d) + n) ELSE SlotsOf(d)
         /\ \A d : SlotsOf(d) \in Nat /\ SlotsOf(d)' \in Nat
         /\ \A d \in DOMAIN slots' : slots'[d] \in Nat
<1>1. \A d : SlotsOf(d) \in Nat
  BY DEF TypeInv, SlotsOf
<1>2. AtLeastZero(SlotsOf(day) + n) \in Nat
  BY <1>1 DEF AtLeastZero
<1>3. DOMAIN slots' = DOMAIN slots \cup {day}
  BY DEF WithSlots
<1>4. \A d \in DOMAIN slots \cup {day} :
        slots'[d] = IF d = day THEN AtLeastZero(SlotsOf(d) + n) ELSE slots[d]
  BY DEF WithSlots
<1>5. \A d : SlotsOf(d)' = IF d = day THEN AtLeastZero(SlotsOf(d) + n) ELSE SlotsOf(d)
  BY <1>3, <1>4 DEF SlotsOf
<1>. QED
  BY <1>1, <1>2, <1>3, <1>4, <1>5 DEF TypeInv

LEMMA ValidateKeepsSlots ==
  ASSUME TypeInv, SlotsInv, NEW p \in Posts, NEW at, Validate(p, at)
  PROVE  SlotsInv'
<1> SUFFICES ASSUME "now" \notin faults, limits.postsPerDay # 0, NEW d
             PROVE  SlotsOf(d) + Cardinality(ValidatedFor(d)') <=
                        limits.postsPerDay + Requests - 1
  BY DEF SlotsInv, Validate, limits, SlotsOf
<1>1. /\ Only(p) /\ post'[p].at = at
      /\ Cardinality(Validated) < Requests
      /\ SlotsOf(StartOf("day", at)) < limits.postsPerDay
  BY ValidateFrame DEF TypeInv, Validate
<1>2. /\ limits.postsPerDay \in Nat /\ SlotsOf(d) \in Nat
      /\ Validated \in SUBSET Posts /\ ValidatedFor(d) \in SUBSET Posts
      /\ ValidatedFor(d)' \in SUBSET Posts
  BY LimitsType DEF TypeInv, SlotsOf, Validated, ValidatedFor
<1>3. CASE d = StartOf("day", at)
  <2>1. ValidatedFor(d)' \subseteq Validated \cup {p}
    BY <1>1 DEF ValidatedFor, Validated, Only
  <2>2. /\ IsFiniteSet(Validated \cup {p})
        /\ Cardinality(Validated \cup {p}) <= Cardinality(Validated) + 1
    BY <1>2, Finite, FS_AddElement
  <2>3. Cardinality(ValidatedFor(d)') <= Cardinality(Validated) + 1
    BY <1>2, <2>1, <2>2, Finite, FS_Subset, FS_CardinalityType
  <2>. QED
    BY <1>1, <1>2, <1>3, <2>3, Finite
<1>4. CASE d # StartOf("day", at)
  <2>1. ValidatedFor(d)' \subseteq ValidatedFor(d)
    BY <1>1, <1>4 DEF ValidatedFor, Only, StartOf
  <2>2. Cardinality(ValidatedFor(d)') <= Cardinality(ValidatedFor(d))
    BY <1>2, <2>1, Finite, FS_Subset
  <2>. QED
    BY <1>2, <2>2, Finite DEF SlotsInv
<1>. QED
  BY <1>3, <1>4

LEMMA ReserveKeepsSlots ==
  ASSUME TypeInv, SlotsInv, NEW p \in Posts, ReserveSlots(p)
  PROVE  SlotsInv'
<1> DEFINE day == StartOf("day", post[p].at)
<1> SUFFICES ASSUME "now" \notin faults, limits.postsPerDay # 0, NEW d
             PROVE  SlotsOf(d)' + Cardinality(ValidatedFor(d)') <=
                        limits.postsPerDay + Requests - 1
  BY DEF SlotsInv, ReserveSlots, limits
<1>1. Only(p) /\ post'[p].slot = "reserved" /\ post[p].slot = "validated"
  BY ReserveSlotsFrame DEF TypeInv, ReserveSlots
<1>2. /\ SlotsOf(d)' = IF d = day THEN SlotsOf(d) + 1 ELSE SlotsOf(d)
      /\ SlotsOf(d) \in Nat
  BY SlotsMoved DEF ReserveSlots, AtLeastZero
<1>3. ValidatedFor(d) \in SUBSET Posts /\ limits.postsPerDay \in Nat
  BY LimitsType DEF ValidatedFor
<1>4. /\ ValidatedFor(d)' = ValidatedFor(d) \ {p}
      /\ d = day <=> p \in ValidatedFor(d)
  BY <1>1 DEF ValidatedFor, Only, StartOf
<1>5. Cardinality(ValidatedFor(d)') =
          IF d = day THEN Cardinality(ValidatedFor(d)) - 1 ELSE Cardinality(ValidatedFor(d))
  BY <1>3, <1>4, Finite, FS_RemoveElement
<1>6. SlotsOf(d) + Cardinality(ValidatedFor(d)) <= limits.postsPerDay + Requests - 1
  BY DEF SlotsInv
<1> HIDE DEF day
<1>. QED
  BY <1>2, <1>3, <1>5, <1>6, Finite

LEMMA ReleaseKeepsSlots ==
  ASSUME TypeInv, SlotsInv, NEW p \in Posts, ReleaseSlots(p)
  PROVE  SlotsInv'
<1> SUFFICES ASSUME "now" \notin faults, limits.postsPerDay # 0, NEW d
             PROVE  SlotsOf(d)' + Cardinality(ValidatedFor(d)') <=
                        limits.postsPerDay + Requests - 1
  BY DEF SlotsInv, ReleaseSlots, limits
<1>1. ValidatedFor(d)' = ValidatedFor(d)
  BY CallFrame DEF TypeInv, Else, Only, ValidatedFor, StartOf
<1>2. SlotsOf(d)' <= SlotsOf(d) /\ SlotsOf(d)' \in Nat /\ SlotsOf(d) \in Nat
  BY SlotsMoved DEF ReleaseSlots, AtLeastZero
<1>3. ValidatedFor(d) \in SUBSET Posts /\ limits.postsPerDay \in Nat
  BY LimitsType DEF ValidatedFor
<1>. QED
  BY <1>1, <1>2, <1>3, Finite DEF SlotsInv

-----------------------------------------------------------------------------
(* The quota *)

QKey(d) == <<"appQuota", App, d>>

ReservedOn(d) == {p \in Posts : post[p].reserved = d}

\* The posts that overshot the quota of day d and have not rolled back yet.
Overshooting(d) == {p \in Posts : post[p].pc = "rollback" /\ post[p].key = QKey(d)}

\* The counter holds what is reserved and what is about to be rolled back; an
\* application without a quota reserves nothing.
QuotaInv ==
    "delete" \notin faults /\ limits.costPerPost # 0 =>
        /\ \A p \in Posts : post[p].pc \notin {"delete", "decrement"}
        /\ limits.appDailyLimit = 0 =>
              /\ \A d : Value(QKey(d)) >= 0
              /\ \A p \in Posts : /\ post[p].pc \notin {"multi", "rollback"}
                                  /\ post[p].reserved = NoTime
        /\ limits.appDailyLimit # 0 =>
              \A d \in Nat :
                 /\ limits.costPerPost
                      * (Cardinality(ReservedOn(d)) + Cardinality(Overshooting(d)))
                        <= Value(QKey(d))
                 /\ limits.costPerPost * Cardinality(ReservedOn(d)) <= limits.appDailyLimit

LEMMA StartType ==
  ASSUME NEW t \in Nat
  PROVE  StartOf("day", t) \in Nat
<1>1. Lengths["day"] \in Nat \ {0}
  BY RateLimitsAssumption DEF Units
<1>2. t \div Lengths["day"] \in Nat
  BY <1>1
<1>. QED
  BY <1>1, <1>2 DEF StartOf

\* Steps that reserve nothing and take nothing back.
LEMMA QuotaKept ==
  ASSUME TypeInv, QuotaInv, UNCHANGED <<platform, faults>>,
         \A k : Value(k)' >= Value(k), \A k : Value(k)' \in Int,
         "delete" \notin faults /\ limits.costPerPost # 0 =>
           \A q \in Posts :
             /\ post'[q].reserved = post[q].reserved
             /\ post'[q].pc \notin {"delete", "decrement"}
             /\ post'[q].pc = "rollback" =>
                   post[q].pc = "rollback" /\ post'[q].key = post[q].key
             /\ post'[q].pc = "multi" => post[q].pc = "multi" \/ limits.appDailyLimit # 0
  PROVE  QuotaInv'
<1> SUFFICES ASSUME "delete" \notin faults, limits.costPerPost # 0
             PROVE  QuotaInv'
  BY DEF QuotaInv, limits
<1>1. /\ \A p \in Posts : post'[p].pc \notin {"delete", "decrement"}
      /\ limits.costPerPost \in Nat /\ limits' = limits
  BY LimitsType DEF limits
<1>2. CASE limits.appDailyLimit = 0
  BY <1>1, <1>2, ValueType DEF QuotaInv
<1>3. CASE limits.appDailyLimit # 0
  <2>1. ASSUME NEW d \in Nat
        PROVE  /\ limits.costPerPost
                    * (Cardinality(ReservedOn(d)') + Cardinality(Overshooting(d)'))
                      <= Value(QKey(d))'
               /\ limits.costPerPost * Cardinality(ReservedOn(d)') <= limits.appDailyLimit
    <3>1. ReservedOn(d)' = ReservedOn(d)
      BY DEF ReservedOn
    <3>2. Overshooting(d)' \subseteq Overshooting(d)
      BY DEF Overshooting
    <3>3. Overshooting(d) \in SUBSET Posts /\ ReservedOn(d) \in SUBSET Posts
      BY DEF Overshooting, ReservedOn
    <3>4. Cardinality(Overshooting(d)') <= Cardinality(Overshooting(d))
      BY <3>2, <3>3, Finite, FS_Subset
    <3> DEFINE c == limits.costPerPost
               r == Cardinality(ReservedOn(d))
               o == Cardinality(Overshooting(d))
               n == Cardinality(Overshooting(d)')
    <3>5. c \in Nat /\ r \in Nat /\ o \in Nat /\ n \in Nat /\ n <= o
      BY <1>1, <3>2, <3>3, <3>4, Finite
    <3>6. c * (r + o) <= Value(QKey(d)) /\ c * r <= limits.appDailyLimit
      BY <1>3 DEF QuotaInv
    <3>7. Value(QKey(d)) \in Int /\ Value(QKey(d))' \in Int
      BY ValueType
    <3> HIDE DEF c, r, o, n
    <3>8. c * (r + n) <= c * (r + o)
      BY <3>5
    <3>9. c * (r + n) \in Int /\ c * (r + o) \in Int
      BY <3>5
    <3>10. c * (r + n) <= Value(QKey(d))'
      BY <3>6, <3>7, <3>8, <3>9
    <3>. QED
      BY <3>1, <3>6, <3>10 DEF c, r, n
  <2>. QED
    BY <1>1, <1>3, <2>1 DEF QuotaInv
<1>. QED
  BY <1>2, <1>3

LEMMA Product ==
  ASSUME NEW c \in Nat, NEW x \in Nat, NEW y \in Nat, x <= y
  PROVE  /\ c * x \in Nat /\ c * y \in Nat /\ c * x <= c * y
         /\ c * (x + 1) = c * x + c
  OBVIOUS

\* The increment of the application's quota.
LEMMA QuotaMoved ==
  ASSUME TypeInv, limits.appDailyLimit # 0, limits.costPerPost # 0,
         count' = Moved(AppQuota, App, now, 1)
  PROVE  \A k : Value(k)' = Value(k) + (IF k = QuotaKey THEN limits.costPerPost ELSE 0)
<1> DEFINE c == [name |-> "appQuota", per |-> "app", unit |-> "day",
                 limit |-> limits.appDailyLimit, cost |-> limits.costPerPost,
                 clamped |-> FALSE]
<1>1. AppQuota = {c}
  BY DEF AppQuota, Counter
<1>2. Key(c, App, now) = QuotaKey
  BY DEF Key, QuotaKey
<1>3. {Key(x, App, now) : x \in AppQuota} = {QuotaKey}
  BY <1>1, <1>2
<1>4. (CHOOSE x \in AppQuota : Key(x, App, now) = QuotaKey) = c
  BY <1>1, <1>2
<1>5. c.cost = limits.costPerPost
  OBVIOUS
<1> HIDE DEF c
<1>6. count' = [k \in DOMAIN count \cup {QuotaKey} |->
                   Value(k) + (IF k \in {QuotaKey} THEN 1 * limits.costPerPost ELSE 0)]
  BY <1>3, <1>4, <1>5 DEF Moved
<1>7. \A k : Value(k)' = IF k \in DOMAIN count \cup {QuotaKey} THEN count'[k] ELSE 0
  BY <1>6 DEF Value
<1>8. \A k : k \notin DOMAIN count => Value(k) = 0
  BY DEF Value
<1>. QED
  BY <1>6, <1>7, <1>8, ValueType, LimitsType

LEMMA ReserveKeepsQuota ==
  ASSUME TypeInv, QuotaInv, NEW p \in Posts, ReserveQuota(p)
  PROVE  QuotaInv'
<1> SUFFICES ASSUME "delete" \notin faults, limits.costPerPost # 0
             PROVE  QuotaInv'
  BY DEF QuotaInv, ReserveQuota, limits
<1> DEFINE c == limits.costPerPost
           D == StartOf("day", now)
<1>1. post[p].pc = "multi" /\ limits' = limits /\ limits.appDailyLimit # 0
  BY DEF ReserveQuota, QuotaInv, limits
<1>2. /\ c \in Nat /\ limits.appDailyLimit \in Nat /\ D \in Nat /\ QuotaKey = QKey(D)
      /\ \A k : Value(k) \in Int
  BY LimitsType, ValueType, StartType DEF TypeInv, QuotaKey, QKey
<1>3. \A k : Value(k)' = Value(k) + (IF k = QuotaKey THEN c ELSE 0)
  BY <1>1, QuotaMoved DEF ReserveQuota
<1>4. /\ Only(p)
      /\ IF Value(QuotaKey) + c > limits.appDailyLimit
         THEN /\ post'[p].pc = "rollback" /\ post'[p].key = QuotaKey
              /\ post'[p].reserved = post[p].reserved
         ELSE post'[p].pc = "enqueue" /\ post'[p].reserved = D
  BY QuotaFrame DEF TypeInv
<1>5. \A q \in Posts : post'[q].pc \notin {"delete", "decrement"}
  BY <1>4 DEF QuotaInv, Only
<1>6. ASSUME NEW d \in Nat
      PROVE  /\ c * (Cardinality(ReservedOn(d)') + Cardinality(Overshooting(d)'))
                  <= Value(QKey(d))'
             /\ c * Cardinality(ReservedOn(d)') <= limits.appDailyLimit
  <2> DEFINE r == Cardinality(ReservedOn(d))
             o == Cardinality(Overshooting(d))
             s == Cardinality(ReservedOn(d)')
             m == Cardinality(Overshooting(d)')
  <2>1. /\ ReservedOn(d) \in SUBSET Posts /\ Overshooting(d) \in SUBSET Posts
        /\ ReservedOn(d)' \in SUBSET Posts /\ Overshooting(d)' \in SUBSET Posts
    BY DEF ReservedOn, Overshooting
  <2>2. r \in Nat /\ o \in Nat /\ s \in Nat /\ m \in Nat
    BY <2>1, Finite
  <2>3. c * (r + o) <= Value(QKey(d)) /\ c * r <= limits.appDailyLimit
    BY <1>1 DEF QuotaInv
  <2>4. d # D => QKey(d) # QuotaKey
    BY <1>2 DEF QKey
  <2>5. CASE Value(QuotaKey) + c > limits.appDailyLimit
    <3>1. ReservedOn(d)' = ReservedOn(d)
      BY <1>4, <2>5 DEF ReservedOn, Only
    <3>2. Overshooting(d)' = IF d = D THEN Overshooting(d) \cup {p} ELSE Overshooting(d)
      BY <1>1, <1>2, <1>4, <2>4, <2>5 DEF Overshooting, Only
    <3>3. m <= IF d = D THEN o + 1 ELSE o
      <4>1. Cardinality(Overshooting(d) \cup {p}) <= o + 1
        BY <2>1, <2>2, Finite, FS_AddElement
      <4>. QED
        BY <2>2, <3>2, <4>1
    <3>4. s = r
      BY <3>1
    <3> HIDE DEF c, r, o, s, m
    <3>5. CASE d = D
      <4>1. c * (s + m) <= c * ((r + o) + 1)
        BY <1>2, <2>2, <3>3, <3>4, <3>5, Product
      <4>2. c * ((r + o) + 1) = c * (r + o) + c
        BY <1>2, <2>2, Product
      <4>3. c * (s + m) \in Nat /\ c * (r + o) \in Nat
        BY <1>2, <2>2
      <4>4. c * (s + m) <= Value(QKey(d))'
        BY <1>2, <1>3, <2>3, <3>5, <4>1, <4>2, <4>3
      <4>. QED
        BY <2>3, <3>4, <4>4 DEF c, r, o, s, m
    <3>6. CASE d # D
      <4>1. c * (s + m) <= c * (r + o) /\ c * (s + m) \in Nat /\ c * (r + o) \in Nat
        BY <1>2, <2>2, <3>3, <3>4, <3>6, Product
      <4>2. c * (s + m) <= Value(QKey(d))'
        BY <1>2, <1>3, <2>3, <2>4, <3>6, <4>1
      <4>. QED
        BY <2>3, <3>4, <4>2 DEF c, r, o, s, m
    <3>. QED
      BY <3>5, <3>6
  <2>6. CASE Value(QuotaKey) + c <= limits.appDailyLimit
    <3>1. ~(Value(QuotaKey) + c > limits.appDailyLimit)
      BY <1>2, <2>6
    <3>2. ReservedOn(d)' \subseteq IF d = D THEN ReservedOn(d) \cup {p} ELSE ReservedOn(d)
      BY <1>4, <3>1 DEF ReservedOn, Only
    <3>3. Overshooting(d)' \subseteq Overshooting(d)
      BY <1>4, <3>1 DEF Overshooting, Only
    <3>4. IsFiniteSet(ReservedOn(d) \cup {p}) /\ Cardinality(ReservedOn(d) \cup {p}) <= r + 1
      BY <2>1, <2>2, Finite, FS_AddElement
    <3>5. m <= o /\ s <= IF d = D THEN r + 1 ELSE r
      BY <2>1, <2>2, <3>2, <3>3, <3>4, Finite, FS_Subset, FS_CardinalityType
    <3> HIDE DEF c, r, o, s, m
    <3>6. CASE d = D
      <4>1. c * (s + m) <= c * ((r + o) + 1) /\ c * s <= c * ((r + o) + 1)
        BY <1>2, <2>2, <3>5, <3>6, Product
      <4>2. c * ((r + o) + 1) = c * (r + o) + c
        BY <1>2, <2>2, Product
      <4>3. c * (s + m) \in Nat /\ c * (r + o) \in Nat /\ c * s \in Nat
        BY <1>2, <2>2
      <4>4. c * (s + m) <= Value(QKey(d))' /\ c * s <= limits.appDailyLimit
        BY <1>2, <1>3, <2>3, <2>6, <3>6, <4>1, <4>2, <4>3
      <4>. QED
        BY <4>4 DEF c, s, m
    <3>7. CASE d # D
      <4>1. /\ c * (s + m) <= c * (r + o) /\ c * (s + m) \in Nat /\ c * (r + o) \in Nat
            /\ c * s <= c * r /\ c * s \in Nat /\ c * r \in Nat
        BY <1>2, <2>2, <3>5, <3>7, Product
      <4>2. c * (s + m) <= Value(QKey(d))' /\ c * s <= limits.appDailyLimit
        BY <1>2, <1>3, <2>3, <2>4, <3>7, <4>1
      <4>. QED
        BY <4>2 DEF c, s, m
    <3>. QED
      BY <3>6, <3>7
  <2>. QED
    BY <1>2, <2>5, <2>6
<1>. QED
  BY <1>1, <1>5, <1>6 DEF QuotaInv

LEMMA RollBackKeepsQuota ==
  ASSUME TypeInv, QuotaInv, NEW p \in Posts, RollBack(p)
  PROVE  QuotaInv'
<1> SUFFICES ASSUME "delete" \notin faults, limits.costPerPost # 0
             PROVE  QuotaInv'
  BY DEF QuotaInv, RollBack, limits
<1> DEFINE c == limits.costPerPost
           key == post[p].key
<1>1. post[p].pc = "rollback" /\ limits' = limits /\ limits.appDailyLimit # 0
  BY DEF RollBack, QuotaInv, limits
<1>2. c \in Nat /\ limits.appDailyLimit \in Nat /\ \A k : Value(k) \in Int
  BY LimitsType, ValueType
<1>3. \A k : Value(k)' = IF k = key /\ k \in DOMAIN count THEN Value(k) - c ELSE Value(k)
  BY DEF RollBack, Value
<1>4. Else(p) /\ post'[p].pc \notin {"multi", "rollback", "delete", "decrement"}
  BY <1>1, CallFrame DEF TypeInv, Delete
<1>5. \A q \in Posts : post'[q].pc \notin {"delete", "decrement"}
  BY <1>4 DEF QuotaInv, Else, Only
<1>6. ASSUME NEW d \in Nat
      PROVE  /\ c * (Cardinality(ReservedOn(d)') + Cardinality(Overshooting(d)'))
                  <= Value(QKey(d))'
             /\ c * Cardinality(ReservedOn(d)') <= limits.appDailyLimit
  <2> DEFINE r == Cardinality(ReservedOn(d))
             o == Cardinality(Overshooting(d))
             m == Cardinality(Overshooting(d)')
  <2>1. ReservedOn(d) \in SUBSET Posts /\ Overshooting(d) \in SUBSET Posts
    BY DEF ReservedOn, Overshooting
  <2>2. ReservedOn(d)' = ReservedOn(d)
    BY <1>4 DEF ReservedOn, Else, Only
  <2>3. Overshooting(d)' = Overshooting(d) \ {p} /\ (p \in Overshooting(d) <=> QKey(d) = key)
    BY <1>1, <1>4 DEF Overshooting, Else, Only
  <2>4. r \in Nat /\ o \in Nat /\ m \in Nat /\ m = IF QKey(d) = key THEN o - 1 ELSE o
    <3>1. m = IF p \in Overshooting(d) THEN o - 1 ELSE o
      BY <2>1, <2>3, Finite, FS_RemoveElement
    <3>. QED
      BY <2>1, <2>3, <3>1, Finite
  <2>5. c * (r + o) <= Value(QKey(d)) /\ c * r <= limits.appDailyLimit
    BY <1>1 DEF QuotaInv
  <2>6. Value(QKey(d))' >= IF QKey(d) = key THEN Value(QKey(d)) - c ELSE Value(QKey(d))
    BY <1>2, <1>3
  <2>7. Value(QKey(d)) \in Int /\ Value(QKey(d))' \in Int
    BY <1>2, <1>3
  <2> HIDE DEF c, key, r, o, m
  <2>8. c * (r + m) <= Value(QKey(d))'
    <3>1. CASE QKey(d) = key
      <4>1. o = m + 1 /\ c * ((r + m) + 1) = c * (r + m) + c /\ c * (r + m) \in Nat
        BY <1>2, <2>4, <3>1, Product
      <4>2. c * (r + o) = c * (r + m) + c
        BY <2>4, <4>1
      <4>. QED
        BY <1>2, <2>5, <2>6, <2>7, <3>1, <4>1, <4>2
    <3>2. CASE QKey(d) # key
      <4>1. c * (r + m) = c * (r + o) /\ c * (r + o) \in Nat
        BY <1>2, <2>4, <3>2
      <4>. QED
        BY <2>5, <2>6, <2>7, <3>2, <4>1
    <3>. QED
      BY <3>1, <3>2
  <2>. QED
    BY <2>2, <2>5, <2>8 DEF c, r, m
<1>. QED
  BY <1>1, <1>5, <1>6 DEF QuotaInv

\* A counter that a step leaves alone.
LEMMA CountKept ==
  ASSUME TypeInv, count' = count
  PROVE  \A k : Value(k)' >= Value(k) /\ Value(k)' \in Int
  BY ValueType DEF Value

\* The steps of a call that reserve nothing.
LEMMA ElseKeepsQuota ==
  ASSUME TypeInv, QuotaInv, UNCHANGED <<platform, faults>>, NEW p \in Posts, Else(p),
         \A k : Value(k)' >= Value(k) /\ Value(k)' \in Int,
         "delete" \notin faults /\ limits.costPerPost # 0 =>
             /\ post'[p].pc \notin {"rollback", "delete", "decrement"}
             /\ post'[p].pc = "multi" => limits.appDailyLimit # 0
  PROVE  QuotaInv'
  BY QuotaKept DEF Else, Only, QuotaInv

LEMMA BudgetKeepsQuota ==
  ASSUME TypeInv, QuotaInv, NEW p \in Posts, ReadBudget(p)
  PROVE  QuotaInv'
<1>1. "delete" \notin faults /\ limits.costPerPost # 0 /\ post'[p].pc = "multi"
          => limits.appDailyLimit # 0
  <2> SUFFICES ASSUME "delete" \notin faults, limits.costPerPost # 0,
                      post'[p].pc = "multi", limits.appDailyLimit = 0
               PROVE  FALSE
    OBVIOUS
  <2>1. AtLeastZero(limits.appDailyLimit - Value(QuotaKey)) >= limits.costPerPost
    BY BudgetFrame DEF TypeInv
  <2>2. QuotaKey = QKey(StartOf("day", now))
    BY DEF QuotaKey, QKey
  <2>3. Value(QuotaKey) >= 0 /\ Value(QuotaKey) \in Int /\ limits.costPerPost \in Nat
    BY <2>2, ValueType, LimitsType DEF QuotaInv
  <2>. QED
    BY <2>1, <2>3 DEF AtLeastZero
<1>2. Else(p) /\ post'[p].pc \in {"multi", "enqueue"}
  BY BudgetFrame DEF TypeInv
<1>. QED
  BY <1>1, <1>2, CountKept, ElseKeepsQuota DEF ReadBudget

-----------------------------------------------------------------------------
(* The theorems *)

IInv == TypeInv /\ SlotsInv /\ QuotaInv

LEMMA Subtypes ==
  ASSUME TypeInv
  PROVE  /\ \A c \in UsageCounters : c.cost \in Nat
         /\ \A c \in AppCounters : c.cost \in Nat
         /\ \A c \in AppQuota : c.cost \in Nat
         /\ \A c \in AppDaily \cup AppQuota : c.cost \in Nat
  BY LimitsType DEF AppCounters

LEMMA InitIInv == Init => IInv
<1> SUFFICES ASSUME Init
             PROVE  IInv
  OBVIOUS
<1> DEFINE T == {"new", "deleted", "none", NoTime, <<>>, NoKey, {}}
<1>1. PICK case \in Cases : /\ platform = case.platform
                            /\ post = [p \in Posts |-> IF p \in case.posts THEN NewPost ELSE NoPost]
  BY DEF Init
<1>2. NewPost \in Frames(T) /\ NoPost \in Frames(T)
  BY DEF NewPost, NoPost, Frames
<1>3. Framed
  BY <1>1, <1>2 DEF Framed
<1>4. \A p \in Posts : /\ post[p].pc \in {"new", "deleted"} /\ post[p].slot = "none"
                       /\ post[p].reserved = NoTime
  BY <1>1 DEF NewPost, NoPost
<1>5. platform \in Platforms
  BY <1>1, RateLimitsAssumption
<1>6. TypeInv
  BY <1>3, <1>4, <1>5 DEF Init, TypeInv
<1>7. /\ \A d : SlotsOf(d) = 0 /\ ValidatedFor(d) = {}
      /\ \A k : Value(k) = 0
      /\ \A d \in Nat : ReservedOn(d) = {} /\ Overshooting(d) = {}
  BY <1>4 DEF Init, SlotsOf, ValidatedFor, Value, ReservedOn, Overshooting, NoTime
<1>8. SlotsInv
  BY <1>6, <1>7, LimitsType, Finite, FS_EmptySet DEF SlotsInv
<1>9. QuotaInv
  <2>1. limits.costPerPost \in Nat /\ limits.appDailyLimit \in Nat /\ Cardinality({}) = 0
    BY <1>6, LimitsType, FS_EmptySet
  <2>2. limits.costPerPost * (0 + 0) = 0 /\ limits.costPerPost * 0 = 0
    BY <2>1
  <2>3. ASSUME NEW d \in Nat
        PROVE  /\ limits.costPerPost
                    * (Cardinality(ReservedOn(d)) + Cardinality(Overshooting(d)))
                      <= Value(QKey(d))
               /\ limits.costPerPost * Cardinality(ReservedOn(d)) <= limits.appDailyLimit
    <3>1. Cardinality(ReservedOn(d)) = 0 /\ Cardinality(Overshooting(d)) = 0
      BY <1>7, <2>1
    <3>2. Value(QKey(d)) = 0
      BY <1>7
    <3>3. limits.costPerPost
              * (Cardinality(ReservedOn(d)) + Cardinality(Overshooting(d))) = 0
      BY <2>2, <3>1, Zenon
    <3>4. limits.costPerPost * Cardinality(ReservedOn(d)) = 0
      BY <2>2, <3>1, Zenon
    <3>. QED
      BY <2>1, <3>2, <3>3, <3>4
  <2>4. \A p \in Posts : post[p].pc \notin {"multi", "rollback", "delete", "decrement"}
    BY <1>4
  <2>. QED
    BY <1>4, <1>7, <2>3, <2>4 DEF QuotaInv
<1>. QED
  BY <1>6, <1>8, <1>9 DEF IInv

\* The parts of TypeInv that a step of post p preserves if its frame is as said.
LEMMA TypeStep ==
  ASSUME TypeInv, Framed', UNCHANGED platform, now' \in Nat, NEW p \in Posts, Only(p),
         \A k \in DOMAIN count' : count'[k] \in Int,
         \A d \in DOMAIN slots' : slots'[d] \in Nat,
         post'[p].pc = "decrement" => post'[p].seen \subseteq UsageCounters
  PROVE  TypeInv'
<1>1. UsageCounters' = UsageCounters
  BY DEF UsageCounters, DailyPosts, MinutePosts, HourlyRequests, FiveMinuteRequests, Quota,
         Points, limits
<1>. QED
  BY <1>1 DEF TypeInv, Only

LEMMA QuotaIdle ==
  ASSUME "delete" \in faults \/ limits.costPerPost = 0, UNCHANGED <<platform, faults>>
  PROVE  QuotaInv'
  BY DEF QuotaInv, limits

\* The steps that leave the slots alone and no counter smaller.
LEMMA CallKeepsIInv ==
  ASSUME IInv, NEW p \in Posts, UNCHANGED <<platform, faults, now, slots>>,
         Framed', Else(p),
         \A k \in DOMAIN count' : count'[k] \in Int,
         \A k : Value(k)' >= Value(k) /\ Value(k)' \in Int,
         post'[p].pc \notin {"rollback", "multi"},
         post'[p].pc \in {"delete", "decrement"} =>
             "delete" \in faults \/ limits.costPerPost = 0,
         post'[p].pc = "decrement" => post'[p].seen \subseteq UsageCounters
  PROVE  IInv'
<1>1. TypeInv'
  BY TypeStep DEF IInv, TypeInv, Else
<1>2. SlotsInv'
  BY ElseKeepsSlots DEF IInv
<1>3. QuotaInv'
  BY ElseKeepsQuota DEF IInv
<1>. QED
  BY <1>1, <1>2, <1>3 DEF IInv

\* A post is being deleted only where posts are deleted.
LEMMA NoDeletion ==
  ASSUME IInv, NEW p \in Posts, post[p].pc \in {"delete", "decrement"} \/ Delete(p)
  PROVE  "delete" \in faults \/ limits.costPerPost = 0
  BY DEF IInv, QuotaInv, Delete

LEMMA RequestSteps ==
  ASSUME IInv, NEW p \in Posts,
         \/ \E at \in 1 .. (MaxTime + 1) : Validate(p, at)
         \/ CheckNow(p) \/ ReserveSlots(p)
  PROVE  IInv'
<1>1. CASE \E at \in 1 .. (MaxTime + 1) : Validate(p, at)
  <2>1. PICK at : Validate(p, at)
    BY <1>1
  <2>2. Framed' /\ Only(p) /\ post'[p].pc = "schedule" /\ post'[p].reserved = post[p].reserved
    BY <2>1, ValidateFrame DEF IInv, TypeInv
  <2>3. UNCHANGED <<platform, faults, now, count, slots>>
    BY <2>1 DEF Validate
  <2>4. TypeInv'
    BY <2>2, <2>3, TypeStep DEF IInv, TypeInv
  <2>5. SlotsInv'
    BY <2>1, ValidateKeepsSlots DEF IInv
  <2>6. QuotaInv'
    <3>1. \A q \in Posts : q # p => post'[q] = post[q]
      BY <2>2 DEF Only
    <3>. QED
      BY <2>2, <2>3, <3>1, CountKept, QuotaKept DEF IInv, QuotaInv
  <2>. QED
    BY <2>4, <2>5, <2>6 DEF IInv
<1>2. CASE CheckNow(p)
  <2>2. Framed' /\ Only(p) /\ post'[p].pc = "publish" /\ post'[p].reserved = post[p].reserved
    BY <1>2, CheckNowFrame DEF IInv, TypeInv
  <2>3. UNCHANGED <<platform, faults, now, count, slots>> /\ "now" \in faults
    BY <1>2 DEF CheckNow
  <2>4. TypeInv'
    BY <2>2, <2>3, TypeStep DEF IInv, TypeInv
  <2>5. SlotsInv'
    BY <2>3 DEF SlotsInv
  <2>6. QuotaInv'
    <3>1. \A q \in Posts : q # p => post'[q] = post[q]
      BY <2>2 DEF Only
    <3>. QED
      BY <2>2, <2>3, <3>1, CountKept, QuotaKept DEF IInv, QuotaInv
  <2>. QED
    BY <2>4, <2>5, <2>6 DEF IInv
<1>3. CASE ReserveSlots(p)
  <2>1. /\ Framed' /\ Only(p) /\ post'[p].pc = post[p].pc
        /\ post'[p].reserved = post[p].reserved
        /\ post'[p].key = post[p].key /\ post'[p].seen = post[p].seen
    BY <1>3, ReserveSlotsFrame DEF IInv, TypeInv
  <2>2. UNCHANGED <<platform, faults, now, count>>
    BY <1>3 DEF ReserveSlots
  <2>3. \A d \in DOMAIN slots' : slots'[d] \in Nat
    BY <1>3, SlotsMoved DEF ReserveSlots, IInv
  <2>4. TypeInv'
    BY <2>1, <2>2, <2>3, TypeStep DEF IInv, TypeInv
  <2>5. SlotsInv'
    BY <1>3, ReserveKeepsSlots DEF IInv
  <2>6. QuotaInv'
    <3>1. \A q \in Posts : q # p => post'[q] = post[q]
      BY <2>1 DEF Only
    <3>. QED
      BY <2>1, <2>2, <3>1, CountKept, QuotaKept DEF IInv, QuotaInv
  <2>. QED
    BY <2>4, <2>5, <2>6 DEF IInv
<1>. QED
  BY <1>1, <1>2, <1>3

LEMMA ScheduleSteps ==
  ASSUME IInv, NEW p \in Posts,
         ScheduleCheck(p) \/ ReadBudget(p) \/ ReserveQuota(p) \/ RollBack(p) \/ Enqueue(p)
  PROVE  IInv'
<1>1. CASE ScheduleCheck(p)
  <2>1. Framed' /\ Else(p) /\ post'[p].pc \in {"budget", "enqueue"}
    BY <1>1, ScheduleFrame DEF IInv, TypeInv
  <2>2. UNCHANGED <<platform, faults, now, count, slots>>
    BY <1>1 DEF ScheduleCheck
  <2>. QED
    BY <2>1, <2>2, CountKept, CallKeepsIInv DEF IInv, TypeInv
<1>2. CASE ReadBudget(p)
  <2>1. Framed' /\ Else(p) /\ post'[p].pc \in {"multi", "enqueue"}
    BY <1>2, BudgetFrame DEF IInv, TypeInv
  <2>2. UNCHANGED <<platform, faults, now, count, slots>>
    BY <1>2 DEF ReadBudget
  <2>3. TypeInv'
    BY <2>1, <2>2, TypeStep DEF IInv, TypeInv, Else
  <2>. QED
    BY <1>2, <2>1, <2>2, <2>3, ElseKeepsSlots, BudgetKeepsQuota DEF IInv
<1>3. CASE ReserveQuota(p)
  <2>1. /\ Framed' /\ Only(p) /\ post'[p].slot = post[p].slot /\ post'[p].at = post[p].at
        /\ post'[p].pc \in {"rollback", "enqueue"}
    BY <1>3, QuotaFrame DEF IInv, TypeInv
  <2>2. /\ UNCHANGED <<platform, faults, now, slots>>
        /\ count' = Moved(AppQuota, App, now, 1)
    BY <1>3 DEF ReserveQuota
  <2>3. \A k \in DOMAIN count' : count'[k] \in Int
    BY <2>2, Subtypes, MovedType DEF IInv
  <2>4. TypeInv'
    BY <2>1, <2>2, <2>3, TypeStep DEF IInv, TypeInv
  <2>5. SlotsInv'
    BY <2>1, <2>2, SlotsKept DEF IInv, Only
  <2>. QED
    BY <1>3, <2>4, <2>5, ReserveKeepsQuota DEF IInv
<1>4. CASE RollBack(p)
  <2>1. Framed' /\ Else(p) /\ post'[p].pc \notin {"multi", "rollback", "decrement"}
    BY <1>4, CallFrame DEF IInv, TypeInv, DecrementRead, RollBack
  <2>2. /\ UNCHANGED <<platform, faults, now, slots>>
        /\ count' = [count EXCEPT ![post[p].key] = @ - limits.costPerPost]
    BY <1>4 DEF RollBack
  <2>3. \A k \in DOMAIN count' : count'[k] \in Int
    BY <2>2, LimitsType DEF IInv, TypeInv
  <2>4. TypeInv'
    BY <2>1, <2>2, <2>3, TypeStep DEF IInv, TypeInv, Else
  <2>. QED
    BY <1>4, <2>1, <2>2, <2>4, ElseKeepsSlots, RollBackKeepsQuota DEF IInv
<1>5. CASE Enqueue(p)
  <2>1. /\ Framed' /\ Else(p)
        /\ post'[p].pc \notin {"multi", "rollback", "delete", "decrement"}
    BY <1>5, CallFrame DEF IInv, TypeInv, DecrementRead, Delete, Enqueue
  <2>2. UNCHANGED <<platform, faults, now, count, slots>>
    BY <1>5 DEF Enqueue
  <2>. QED
    BY <2>1, <2>2, CountKept, CallKeepsIInv DEF IInv, TypeInv
<1>. QED
  BY <1>1, <1>2, <1>3, <1>4, <1>5

LEMMA PublishSteps ==
  ASSUME IInv, NEW p \in Posts,
         \/ StartJob(p) \/ Retry(p) \/ Publish(p) \/ IncrementUsage(p)
         \/ IncrementAppUsage(p) \/ Delete(p) \/ DecrementRead(p)
  PROVE  IInv'
<1>1. /\ Framed' /\ Else(p) /\ post'[p].pc \notin {"multi", "rollback"}
      /\ post'[p].pc \in {"delete", "decrement"} =>
             post[p].pc \in {"delete", "decrement"} \/ Delete(p)
      /\ post'[p].pc = "decrement" => DecrementRead(p)
  BY CallFrame DEF IInv, TypeInv
<1>2. post'[p].pc = "decrement" => post'[p].seen \subseteq UsageCounters
  BY <1>1, DecrementReadFrame DEF IInv, TypeInv
<1>3. UNCHANGED <<platform, faults, now, slots>>
  BY DEF StartJob, Retry, Publish, IncrementUsage, IncrementAppUsage, Delete, DecrementRead
<1>4. /\ \A k \in DOMAIN count' : count'[k] \in Int
      /\ \A k : Value(k)' >= Value(k)
  <2>1. CASE count' = count
    BY <2>1, CountKept DEF IInv, TypeInv
  <2>2. CASE IncrementUsage(p)
    <3>1. count' = Moved(UsageCounters, AccountOf[p], now, 1)
      BY <2>2 DEF IncrementUsage
    <3>. QED
      BY <3>1, Subtypes, MovedType DEF IInv
  <2>3. CASE IncrementAppUsage(p)
    <3>1. count' = Moved(AppCounters, App, now, 1)
      BY <2>3 DEF IncrementAppUsage
    <3>. QED
      BY <3>1, Subtypes, MovedType DEF IInv
  <2>. QED
    BY <2>1, <2>2, <2>3 DEF StartJob, Retry, Publish, Delete, DecrementRead
<1>5. \A k : Value(k)' \in Int
  BY <1>4 DEF Value
<1>. QED
  BY <1>1, <1>2, <1>3, <1>4, <1>5, NoDeletion, CallKeepsIInv

\* A deletion gives slots and counts back; nothing is promised of quota where
\* posts are deleted.
LEMMA DeletionSteps ==
  ASSUME IInv, NEW p \in Posts, ReleaseSlots(p) \/ Decrement(p) \/ DecrementApp(p)
  PROVE  IInv'
<1>1. /\ UNCHANGED <<platform, faults, now>>
      /\ post[p].pc \in {"delete", "decrement"}
  BY DEF ReleaseSlots, Decrement, DecrementApp
<1>2. QuotaInv'
  BY <1>1, NoDeletion, QuotaIdle
<1>3. Framed' /\ Else(p) /\ post'[p].pc # "decrement"
  BY CallFrame, DecrementFrame DEF IInv, TypeInv, ReleaseSlots, DecrementApp, DecrementRead
<1>4. CASE ReleaseSlots(p)
  <2>1. UNCHANGED count /\ slots' = WithSlots(StartOf("day", post[p].at), -1)
    BY <1>4 DEF ReleaseSlots
  <2>2. \A d \in DOMAIN slots' : slots'[d] \in Nat
    BY <2>1, SlotsMoved DEF IInv
  <2>3. TypeInv'
    BY <1>1, <1>3, <2>1, <2>2, TypeStep DEF IInv, TypeInv, Else
  <2>. QED
    BY <1>2, <1>4, <2>3, ReleaseKeepsSlots DEF IInv
<1>5. CASE Decrement(p) \/ DecrementApp(p)
  <2>1. PICK counters, holder, t : count' = Moved(counters, holder, t, -1)
                                   /\ \A c \in counters : c.cost \in Nat
    <3>1. CASE Decrement(p)
      <4>1. post[p].seen \subseteq UsageCounters
        BY <3>1 DEF Decrement, IInv, TypeInv
      <4>. QED
        BY <3>1, <4>1, Subtypes DEF Decrement, IInv
    <3>2. CASE DecrementApp(p)
      BY <3>2, Subtypes DEF DecrementApp, IInv
    <3>. QED
      BY <1>5, <3>1, <3>2
  <2>2. \A k \in DOMAIN count' : count'[k] \in Int
    BY <2>1, MovedType DEF IInv
  <2>3. UNCHANGED slots
    BY <1>5 DEF Decrement, DecrementApp
  <2>4. TypeInv'
    BY <1>1, <1>3, <2>2, <2>3, TypeStep DEF IInv, TypeInv, Else
  <2>. QED
    BY <1>1, <1>2, <1>3, <2>3, <2>4, ElseKeepsSlots DEF IInv
<1>. QED
  BY <1>4, <1>5

LEMMA NextIInv == IInv /\ [Next]_vars => IInv'
<1> SUFFICES ASSUME IInv, [Next]_vars
             PROVE  IInv'
  OBVIOUS
<1>1. CASE Tick \/ UNCHANGED vars
  <2>1. UNCHANGED <<platform, faults, count, slots, post>> /\ now' \in Nat
    BY <1>1 DEF Tick, vars, IInv, TypeInv
  <2>2. UsageCounters' = UsageCounters
    BY <2>1 DEF UsageCounters, DailyPosts, MinutePosts, HourlyRequests, FiveMinuteRequests,
                Quota, Points, limits
  <2>3. TypeInv'
    BY <2>1, <2>2 DEF IInv, TypeInv, Framed
  <2>4. SlotsInv'
    BY <2>1, SlotsKept DEF IInv
  <2>5. QuotaInv'
    BY <2>1, CountKept, QuotaKept DEF IInv, QuotaInv
  <2>. QED
    BY <2>3, <2>4, <2>5 DEF IInv
<1>2. ASSUME NEW p \in Posts,
             \/ \E at \in 1 .. (MaxTime + 1) : Validate(p, at)
             \/ CheckNow(p) \/ ReserveSlots(p)
      PROVE  IInv'
  BY <1>2, RequestSteps
<1>3. ASSUME NEW p \in Posts,
             \/ ScheduleCheck(p) \/ ReadBudget(p) \/ ReserveQuota(p) \/ RollBack(p)
             \/ Enqueue(p)
      PROVE  IInv'
  BY <1>3, ScheduleSteps
<1>4. ASSUME NEW p \in Posts,
             \/ StartJob(p) \/ Retry(p) \/ Publish(p) \/ IncrementUsage(p)
             \/ IncrementAppUsage(p) \/ Delete(p) \/ DecrementRead(p)
      PROVE  IInv'
  BY <1>4, PublishSteps
<1>5. ASSUME NEW p \in Posts, ReleaseSlots(p) \/ Decrement(p) \/ DecrementApp(p)
      PROVE  IInv'
  BY <1>5, DeletionSteps
<1>. QED
  BY <1>1, <1>2, <1>3, <1>4, <1>5 DEF Next

LEMMA SpecIInv == Spec => []IInv
<1>1. Init => IInv
  BY InitIInv
<1>2. IInv /\ [Next]_vars => IInv'
  BY NextIInv
<1>. QED
  BY <1>1, <1>2, PTL DEF Spec

LEMMA IInvSlots == IInv => SlotsBounded
<1> SUFFICES ASSUME IInv, "now" \notin faults, limits.postsPerDay # 0, NEW d \in DOMAIN slots
             PROVE  slots[d] <= limits.postsPerDay + Requests - 1
  BY DEF SlotsBounded
<1>1. SlotsOf(d) + Cardinality(ValidatedFor(d)) <= limits.postsPerDay + Requests - 1
  BY DEF IInv, SlotsInv
<1>2. SlotsOf(d) = slots[d] /\ slots[d] \in Nat /\ limits.postsPerDay \in Nat
  BY LimitsType DEF SlotsOf, IInv, TypeInv
<1>3. Cardinality(ValidatedFor(d)) \in Nat
  BY Finite DEF ValidatedFor
<1>. QED
  BY <1>1, <1>2, <1>3, Finite

LEMMA IInvQuota == IInv => ReservedWithinQuota
<1> SUFFICES ASSUME IInv, "delete" \notin faults, NEW d \in Days
             PROVE  limits.costPerPost * Cardinality(ReservedOn(d)) <= limits.appDailyLimit
  BY DEF ReservedWithinQuota, ReservedOn
<1>1. d \in Nat
  <2>1. PICK t \in 0 .. (MaxTime + 1) : d = StartOf("day", t)
    BY DEF Days
  <2>. QED
    BY <2>1, StartType
<1>2. /\ limits.costPerPost \in Nat /\ limits.appDailyLimit \in Nat
      /\ Cardinality(ReservedOn(d)) \in Nat
  BY LimitsType, Finite DEF IInv, ReservedOn
<1>3. CASE limits.costPerPost = 0
  <2>1. limits.costPerPost * Cardinality(ReservedOn(d)) = 0
    BY <1>2, <1>3
  <2>. QED
    BY <1>2, <2>1
<1>4. CASE limits.costPerPost # 0 /\ limits.appDailyLimit # 0
  BY <1>1, <1>4 DEF IInv, QuotaInv
<1>5. CASE limits.costPerPost # 0 /\ limits.appDailyLimit = 0
  <2>1. \A p \in Posts : post[p].reserved = NoTime
    BY <1>5 DEF IInv, QuotaInv
  <2>2. ReservedOn(d) = {}
    BY <1>1, <2>1 DEF ReservedOn, NoTime
  <2>3. Cardinality(ReservedOn(d)) = 0
    BY <2>2, FS_EmptySet
  <2>4. limits.costPerPost * Cardinality(ReservedOn(d)) = 0
    BY <1>2, <2>3
  <2>. QED
    BY <1>2, <2>4
<1>. QED
  BY <1>3, <1>4, <1>5

-----------------------------------------------------------------------------
(* A count of posts, and the deletions that have seen it above zero *)

ClampedNames == {"daily", "minute", "hour", "5min"}

\* The posts whose deletion is about to take from the counter at k.
Pending(k) ==
    {p \in Posts : /\ post[p].pc = "decrement"
                   /\ \E c \in post[p].seen : Key(c, AccountOf[p], post[p].key[1]) = k}

\* A counter is so far above zero that all that is pending may be taken; what is
\* rolled back is quota.
ClampInv ==
    /\ \A p \in Posts : post[p].pc = "rollback" => post[p].key[1] = "appQuota"
    /\ "together" \notin faults => \A p, q \in Deleting : p = q
    /\ \A k : k[1] \in ClampedNames => Value(k) - Cardinality(Pending(k)) >= 1 - Readers

\* Which counters are clamped, by name.
LEMMA Names ==
  /\ \A c \in UsageCounters :
        /\ c.clamped <=> c.name \in ClampedNames
        /\ c.name \in ClampedNames => c.cost = 1
  /\ \A c \in AppCounters : c.name \notin ClampedNames
<1>1. /\ \A c \in DailyPosts : c.name = "daily" /\ c.cost = 1 /\ c.clamped = TRUE
      /\ \A c \in MinutePosts : c.name = "minute" /\ c.cost = 1 /\ c.clamped = TRUE
  BY DEF DailyPosts, MinutePosts, Counter
<1>2. /\ \A c \in HourlyRequests : c.name = "hour" /\ c.cost = 1 /\ c.clamped = TRUE
      /\ \A c \in FiveMinuteRequests : c.name = "5min" /\ c.cost = 1 /\ c.clamped = TRUE
  BY DEF HourlyRequests, FiveMinuteRequests, Counter
<1>3. \A c \in Quota : c.name = "quota" /\ c.clamped = FALSE
  BY DEF Quota, Counter
<1>4. \A c \in Points : c.name = "points" /\ c.clamped = FALSE
  BY DEF Points, Counter
<1>5. /\ \A c \in AppDaily : c.name = "appDaily"
      /\ \A c \in AppRps : c.name = "rps"
      /\ \A c \in AppQuota : c.name = "appQuota"
  BY DEF AppDaily, AppRps, AppQuota, Counter
<1>. QED
  BY <1>1, <1>2, <1>3, <1>4, <1>5 DEF UsageCounters, AppCounters, ClampedNames

\* What INCRBY does to one counter of posts.
LEMMA MovedAt ==
  ASSUME TypeInv, NEW counters, counters \subseteq UsageCounters \/ counters \subseteq AppCounters,
         NEW holder, NEW t, NEW sign \in {1, -1}, count' = Moved(counters, holder, t, sign),
         NEW k, k[1] \in ClampedNames
  PROVE  Value(k)' = IF \E c \in counters : Key(c, holder, t) = k
                     THEN Value(k) + sign ELSE Value(k)
<1> DEFINE keys == {Key(c, holder, t) : c \in counters}
           by(j) == sign * (CHOOSE c \in counters : Key(c, holder, t) = j).cost
<1>1. count' = [j \in DOMAIN count \cup keys |->
                    Value(j) + (IF j \in keys THEN by(j) ELSE 0)]
  BY DEF Moved
<1>2. ASSUME NEW c \in counters, Key(c, holder, t) = k PROVE c.cost = 1
  <2>1. c.name \in ClampedNames
    BY <1>2 DEF Key
  <2>. QED
    BY <2>1, Names
<1>3. k \in keys => by(k) = sign
  <2> SUFFICES ASSUME k \in keys PROVE by(k) = sign
    OBVIOUS
  <2> DEFINE c == CHOOSE c \in counters : Key(c, holder, t) = k
  <2>1. c \in counters /\ Key(c, holder, t) = k
    OBVIOUS
  <2>2. c.cost = 1
    BY <1>2, <2>1
  <2> HIDE DEF c
  <2>3. sign * c.cost = sign
    BY <2>2
  <2>. QED
    BY <2>3 DEF c
<1>4. k \in keys <=> \E c \in counters : Key(c, holder, t) = k
  OBVIOUS
<1> HIDE DEF keys, by
<1>5. DOMAIN count' = DOMAIN count \cup keys
  BY <1>1
<1>6. CASE k \in keys
  BY <1>1, <1>3, <1>4, <1>5, <1>6 DEF Value
<1>7. CASE k \notin keys
  BY <1>1, <1>4, <1>5, <1>7, ValueType DEF Value
<1>. QED
  BY <1>6, <1>7

LEMMA ReadersPositive == Readers \in Nat /\ Readers >= 1
<1>1. Cardinality(Posts) \in Nat /\ Cardinality(Posts) # 0
  BY Finite, RateLimitsAssumption, FS_EmptySet
<1>. QED
  BY <1>1 DEF Readers

LEMMA PendingSize ==
  /\ \A k : IsFiniteSet(Pending(k)) /\ Cardinality(Pending(k)) \in Nat
  /\ \A k : Pending(k) \subseteq Deleting
  BY Finite DEF Pending, Deleting

\* Steps that take from no count of posts and begin no decrement.
LEMMA ClampKept ==
  ASSUME IInv, IInv', ClampInv, UNCHANGED <<platform, faults>>, NEW p \in Posts, Only(p),
         post'[p].pc \in {"delete", "decrement"} =>
             p \in Deleting \/ "together" \in faults \/ Deleting = {},
         post'[p].pc = "decrement" =>
             post[p].pc = "decrement" /\ post'[p].seen = post[p].seen
             /\ post'[p].key = post[p].key,
         post'[p].pc = "rollback" => post'[p].key[1] = "appQuota",
         \A k : k[1] \in ClampedNames => Value(k)' >= Value(k)
  PROVE  ClampInv'
<1>0. \A q \in Posts : post'[q].pc = "rollback" => post'[q].key[1] = "appQuota"
  BY DEF ClampInv, Only
<1>1. "together" \notin faults => \A q, r \in Deleting' : q = r
  BY DEF ClampInv, Deleting, Only
<1>2. ASSUME NEW k, k[1] \in ClampedNames
      PROVE  Value(k)' - Cardinality(Pending(k)') >= 1 - Readers
  <2>1. Pending(k)' \subseteq Pending(k)
    BY DEF Pending, Only, Key, StartOf
  <2>2. Cardinality(Pending(k)') <= Cardinality(Pending(k)) /\ Cardinality(Pending(k)') \in Nat
    BY <2>1, PendingSize, FS_Subset, FS_CardinalityType
  <2>3. Value(k) \in Int /\ Value(k)' \in Int
    BY ValueType DEF IInv, TypeInv, Value
  <2>4. Value(k) - Cardinality(Pending(k)) >= 1 - Readers
    BY <1>2 DEF ClampInv
  <2>. QED
    BY <1>2, <2>2, <2>3, <2>4, PendingSize, ReadersPositive
<1>3. Readers' = Readers
  BY DEF Readers
<1>. QED
  BY <1>0, <1>1, <1>2, <1>3 DEF ClampInv

\* What a deletion has seen when it is about to take.
LEMMA DecrementSees ==
  ASSUME Framed, NEW p \in Posts, DecrementRead(p)
  PROVE  /\ post'[p].pc = "decrement"
         /\ post'[p].key = <<now>> /\ post'[p].seen \subseteq UsageCounters
         /\ \A c \in post'[p].seen : c.clamped => Value(Key(c, AccountOf[p], now)) > 0
<1>1. PICK T : post \in [Posts -> Frames(T)]
  BY DEF Framed
<1> DEFINE S == {c \in UsageCounters : c.clamped => Value(Key(c, AccountOf[p], now)) > 0}
<1>2. post' = [post EXCEPT ![p].pc = "decrement", ![p].key = <<now>>, ![p].seen = S]
  BY DEF DecrementRead
<1>3. S \subseteq UsageCounters /\ \A c \in S : c.clamped => Value(Key(c, AccountOf[p], now)) > 0
  OBVIOUS
<1> HIDE DEF S
<1>4. post'[p].pc = "decrement" /\ post'[p].key = <<now>> /\ post'[p].seen = S
  BY <1>1, <1>2 DEF Frames
<1>. QED
  BY <1>3, <1>4

\* A deletion that sees a count above zero joins those that take from it.
LEMMA DecrementReadClamps ==
  ASSUME IInv, IInv', ClampInv, NEW p \in Posts, DecrementRead(p)
  PROVE  ClampInv'
<1>1. /\ post[p].pc = "delete" /\ UNCHANGED <<platform, faults, count>>
      /\ Only(p) /\ post'[p].pc = "decrement"
  BY CallFrame, DecrementSees DEF DecrementRead, IInv, TypeInv, Else
<1>2. /\ "together" \notin faults => \A q, r \in Deleting' : q = r
      /\ \A q \in Posts : post'[q].pc = "rollback" => post'[q].key[1] = "appQuota"
  BY <1>1 DEF ClampInv, Deleting, Only
<1>3. Readers' = Readers
  BY <1>1 DEF Readers
<1>4. ASSUME NEW k, k[1] \in ClampedNames
      PROVE  Value(k)' - Cardinality(Pending(k)') >= 1 - Readers
  <2>1. Value(k)' = Value(k) /\ Value(k) \in Int
    BY <1>1, ValueType DEF IInv, Value
  <2>2. Value(k) - Cardinality(Pending(k)) >= 1 - Readers
    BY <1>4 DEF ClampInv
  <2>3. CASE p \notin Pending(k)'
    <3>1. Pending(k)' \subseteq Pending(k)
      BY <1>1, <2>3 DEF Pending, Only, Key, StartOf
    <3>2. Cardinality(Pending(k)') <= Cardinality(Pending(k)) /\ Cardinality(Pending(k)') \in Nat
      BY <3>1, PendingSize, FS_Subset, FS_CardinalityType
    <3>. QED
      BY <2>1, <2>2, <3>2, PendingSize, ReadersPositive
  <2>4. CASE p \in Pending(k)'
    <3>1. PICK c \in post'[p].seen : Key(c, AccountOf[p], now) = k
      BY <2>4, DecrementSees DEF Pending, IInv, TypeInv
    <3>2. c \in UsageCounters /\ c.clamped
      BY <1>4, <3>1, DecrementSees, Names DEF Key, IInv, TypeInv
    <3>3. Value(Key(c, AccountOf[p], now)) > 0
      BY <3>1, <3>2, DecrementSees DEF IInv, TypeInv
    <3>4. Cardinality(Pending(k)') <= Readers /\ Cardinality(Pending(k)') \in Nat
      <4>1. Pending(k)' \subseteq Posts
        BY DEF Pending
      <4>2. CASE "together" \in faults
        BY <4>1, <4>2, Finite, FS_Subset DEF Readers
      <4>3. CASE "together" \notin faults
        <5>1. Pending(k)' \subseteq {p}
          BY <1>1, <1>2, <4>3 DEF Pending, Deleting
        <5>2. IsFiniteSet({p}) /\ Cardinality({p}) = 1
          BY FS_Singleton
        <5>. QED
          BY <4>1, <4>3, <5>1, <5>2, Finite, FS_Subset DEF Readers
      <4>. QED
        BY <4>2, <4>3
    <3>. QED
      BY <2>1, <3>1, <3>3, <3>4, ReadersPositive
  <2>. QED
    BY <2>3, <2>4
<1>. QED
  BY <1>1, <1>2, <1>3, <1>4 DEF ClampInv

LEMMA DecrementClamps ==
  ASSUME IInv, IInv', ClampInv, NEW p \in Posts, Decrement(p)
  PROVE  ClampInv'
<1>1. /\ post[p].pc = "decrement" /\ UNCHANGED <<platform, faults>>
      /\ Only(p) /\ post'[p].pc = "delete" /\ post[p].seen \subseteq UsageCounters
      /\ count' = Moved(post[p].seen, AccountOf[p], post[p].key[1], -1)
  BY DecrementFrame DEF Decrement, IInv, TypeInv, Else
<1>2. /\ "together" \notin faults => \A q, r \in Deleting' : q = r
      /\ \A q \in Posts : post'[q].pc = "rollback" => post'[q].key[1] = "appQuota"
  BY <1>1 DEF ClampInv, Deleting, Only
<1>3. Readers' = Readers
  BY <1>1 DEF Readers
<1>4. ASSUME NEW k, k[1] \in ClampedNames
      PROVE  Value(k)' - Cardinality(Pending(k)') >= 1 - Readers
  <2>1. Value(k)' = IF p \in Pending(k) THEN Value(k) + (-1) ELSE Value(k)
    BY <1>1, <1>4, MovedAt DEF IInv, Pending
  <2>2. Pending(k)' = Pending(k) \ {p}
    BY <1>1 DEF Pending, Only, Key, StartOf
  <2>3. Cardinality(Pending(k)') = IF p \in Pending(k) THEN Cardinality(Pending(k)) - 1
                                   ELSE Cardinality(Pending(k))
    BY <2>2, PendingSize, FS_RemoveElement
  <2>4. Value(k) \in Int /\ Value(k) - Cardinality(Pending(k)) >= 1 - Readers
    BY <1>4, ValueType DEF ClampInv, IInv
  <2>. QED
    BY <2>1, <2>3, <2>4, PendingSize, ReadersPositive
<1>. QED
  BY <1>1, <1>2, <1>3, <1>4 DEF ClampInv

\* Only a decrement takes from a count of posts; a deletion takes besides from the
\* application's counters, and a rollback from the quota.
LEMMA OthersClamp ==
  ASSUME IInv, IInv', ClampInv, NEW p \in Posts,
         \/ \E at \in 1 .. (MaxTime + 1) : Validate(p, at)
         \/ CheckNow(p) \/ ReserveSlots(p) \/ ScheduleCheck(p) \/ ReadBudget(p)
         \/ ReserveQuota(p) \/ RollBack(p) \/ Enqueue(p) \/ StartJob(p) \/ Retry(p)
         \/ Publish(p) \/ IncrementUsage(p) \/ IncrementAppUsage(p) \/ Delete(p)
         \/ ReleaseSlots(p) \/ DecrementApp(p)
  PROVE  ClampInv'
<1>1. Framed /\ UNCHANGED <<platform, faults>>
  BY DEF IInv, TypeInv, Validate, CheckNow, ReserveSlots, ScheduleCheck, ReadBudget,
         ReserveQuota, RollBack, Enqueue, StartJob, Retry, Publish, IncrementUsage,
         IncrementAppUsage, Delete, ReleaseSlots, DecrementApp
<1>2. /\ Only(p)
      /\ post'[p].pc \in {"delete", "decrement"} => post[p].pc \in {"delete", "decrement"}
                                                    \/ Delete(p)
      /\ post'[p].pc = "decrement" =>
             /\ post[p].pc = "decrement" /\ post'[p].seen = post[p].seen
             /\ post'[p].key = post[p].key
      /\ post'[p].pc = "rollback" => post'[p].key[1] = "appQuota"
  <2>1. CASE (\E at \in 1 .. (MaxTime + 1) : Validate(p, at)) \/ CheckNow(p)
             \/ ScheduleCheck(p) \/ ReadBudget(p)
    <3>1. Only(p) /\ post'[p].pc \in {"schedule", "publish", "budget", "enqueue", "multi"}
      BY <1>1, <2>1, ValidateFrame, CheckNowFrame, ScheduleFrame, BudgetFrame DEF Else
    <3>. QED
      BY <3>1
  <2>2. CASE ReserveSlots(p)
    BY <1>1, <2>2, ReserveSlotsFrame DEF ClampInv
  <2>4. CASE ReserveQuota(p)
    <3>1. /\ Only(p) /\ post'[p].pc \in {"enqueue", "rollback"}
          /\ post'[p].pc = "rollback" => post'[p].key = QuotaKey
      BY <1>1, <2>4, QuotaFrame
    <3>. QED
      BY <3>1 DEF QuotaKey
  <2>3. CASE \/ RollBack(p) \/ Enqueue(p) \/ StartJob(p) \/ Retry(p) \/ Publish(p)
             \/ IncrementUsage(p) \/ IncrementAppUsage(p) \/ Delete(p) \/ ReleaseSlots(p)
             \/ DecrementApp(p)
    <3>1. /\ Only(p)
          /\ post'[p].pc \in {"delete", "decrement"} =>
               post[p].pc \in {"delete", "decrement"} \/ Delete(p)
          /\ post'[p].pc = "decrement" => DecrementRead(p)
          /\ post'[p].pc # "rollback"
      BY <1>1, <2>3, CallFrame DEF Else
    <3>2. ~ DecrementRead(p)
      BY <2>3 DEF RollBack, Enqueue, StartJob, Retry, Publish, IncrementUsage,
         IncrementAppUsage, Delete, ReleaseSlots, DecrementApp, DecrementRead
    <3>. QED
      BY <3>1, <3>2
  <2>. QED
    BY <2>1, <2>2, <2>3, <2>4
<1>3. Delete(p) => "together" \in faults \/ Deleting = {}
  BY DEF Delete
<1>4. ASSUME NEW k, k[1] \in ClampedNames PROVE Value(k)' >= Value(k)
  <2>0. Value(k) \in Int
    BY ValueType DEF IInv
  <2>1. ASSUME NEW counters, counters \subseteq UsageCounters \/ counters \subseteq AppCounters,
               NEW holder, NEW t, count' = Moved(counters, holder, t, 1)
        PROVE  Value(k)' >= Value(k)
    <3>1. 1 \in {1, -1}
      OBVIOUS
    <3>2. Value(k)' = IF \E c \in counters : Key(c, holder, t) = k
                      THEN Value(k) + 1 ELSE Value(k)
      BY <1>4, <2>1, <3>1, MovedAt DEF IInv
    <3>. QED
      BY <2>0, <3>2
  <2>2. AppQuota \subseteq AppCounters /\ AppDaily \cup AppQuota \subseteq AppCounters
    BY DEF AppCounters
  <2>3. CASE ReserveQuota(p) \/ IncrementUsage(p) \/ IncrementAppUsage(p)
    BY <2>1, <2>2, <2>3 DEF ReserveQuota, IncrementUsage, IncrementAppUsage
  <2>4. CASE DecrementApp(p)
    <3>1. \A c \in AppDaily \cup AppQuota : Key(c, App, now) # k
      BY <1>4, <2>2, Names DEF Key
    <3>2. count' = Moved(AppDaily \cup AppQuota, App, now, -1) /\ -1 \in {1, -1}
      BY <2>4 DEF DecrementApp
    <3>3. Value(k)' = Value(k)
      BY <1>4, <2>2, <3>1, <3>2, MovedAt DEF IInv
    <3>. QED
      BY <2>0, <3>3
  <2>5. CASE RollBack(p)
    <3>1. k # post[p].key
      BY <1>4, <2>5 DEF ClampInv, RollBack, ClampedNames
    <3>2. count' = [count EXCEPT ![post[p].key] = @ - limits.costPerPost]
      BY <2>5 DEF RollBack
    <3>3. Value(k)' = Value(k)
      BY <3>1, <3>2 DEF Value
    <3>. QED
      BY <2>0, <3>3
  <2>6. CASE UNCHANGED count
    BY <2>0, <2>6 DEF Value
  <2>. QED
    BY <2>3, <2>4, <2>5, <2>6 DEF Validate, CheckNow, ReserveSlots, ScheduleCheck, ReadBudget,
       Enqueue, StartJob, Retry, Publish, Delete, ReleaseSlots
<1>. QED
  BY <1>1, <1>2, <1>3, <1>4, ClampKept DEF Deleting

LEMMA NextClamp == IInv /\ ClampInv /\ [Next]_vars => ClampInv'
<1> SUFFICES ASSUME IInv, ClampInv, [Next]_vars PROVE ClampInv'
  OBVIOUS
<1>1. IInv'
  BY NextIInv
<1>2. CASE Tick \/ UNCHANGED vars
  <2>1. UNCHANGED <<platform, faults, count, post>>
    BY <1>2 DEF Tick, vars
  <2>2. \A k : Value(k)' = Value(k) /\ Pending(k)' = Pending(k)
    BY <2>1 DEF Value, Pending, Key, StartOf
  <2>. QED
    BY <2>1, <2>2 DEF ClampInv, Deleting, Readers
<1>3. ASSUME NEW p \in Posts, DecrementRead(p) \/ Decrement(p) PROVE ClampInv'
  BY <1>1, <1>3, DecrementReadClamps, DecrementClamps
<1>. QED
  BY <1>1, <1>2, <1>3, OthersClamp DEF Next

LEMMA InitClamp == Init => ClampInv
<1> SUFFICES ASSUME Init PROVE ClampInv
  OBVIOUS
<1>1. \A p \in Posts : post[p].pc \in {"new", "deleted"}
  BY DEF Init, NewPost, NoPost
<1>2. \A k : Value(k) = 0
  BY DEF Init, Value
<1>3. \A k : Cardinality(Pending(k)) = 0
  <2>1. \A k : Pending(k) = {}
    BY <1>1 DEF Pending
  <2>. QED
    BY <2>1, FS_EmptySet
<1>. QED
  BY <1>1, <1>2, <1>3, ReadersPositive DEF ClampInv, Deleting

LEMMA ClampImplies == IInv /\ ClampInv => ClampedCount
<1> SUFFICES ASSUME IInv, ClampInv, NEW c \in UsageCounters, NEW a \in Accounts,
                    NEW t \in 0 .. now, c.clamped
             PROVE  Value(Key(c, a, t)) >= 1 - Readers
  BY DEF ClampedCount
<1> DEFINE k == Key(c, a, t)
<1>1. k[1] \in ClampedNames
  BY Names DEF Key
<1>2. Value(k) - Cardinality(Pending(k)) >= 1 - Readers
  BY <1>1 DEF ClampInv
<1>. QED
  BY <1>2, PendingSize, ReadersPositive, ValueType DEF IInv

-----------------------------------------------------------------------------
(* How far a window is exceeded: what it counts, and what is under way *)

Counters == UsageCounters \cup AppCounters

\* Posts that are not retried or deleted.
Plain == faults \cap {"retry", "delete"} = {}

LEMMA CounterTypes ==
  ASSUME TypeInv
  PROVE  /\ \A c \in Counters : c.cost \in Nat /\ c.limit \in Nat /\ c.unit \in Units
         /\ \A c \in AppCounters : c.per = "app"
         /\ \A c \in AppQuota : c.cost = limits.costPerPost /\ c.unit = "day"
<1>1. limits \in PlatformLimits
  BY DEF TypeInv, Platforms, limits
<1>2. /\ limits.postsPerDay \in Nat /\ limits.postsPerMinute \in Nat
      /\ limits.requestsPerHour \in Nat /\ limits.requestsPer5Min \in Nat
      /\ limits.quotaUnits \in Nat /\ limits.costPerPost \in Nat
      /\ limits.pointsPerPost \in Nat /\ limits.pointsPerDay \in Nat
      /\ limits.appDailyLimit \in Nat /\ limits.appRps \in Nat
  BY <1>1 DEF PlatformLimits
<1> DEFINE Good(c) == c.cost \in Nat /\ c.limit \in Nat /\ c.unit \in Units
<1>3. \A c \in DailyPosts \cup MinutePosts : Good(c)
  BY <1>2 DEF DailyPosts, MinutePosts, Counter, Units
<1>4. \A c \in HourlyRequests \cup FiveMinuteRequests : Good(c)
  BY <1>2 DEF HourlyRequests, FiveMinuteRequests, Counter, Units
<1>5. \A c \in Quota : Good(c)
  BY <1>2 DEF Quota, Counter, Units
<1>6. \A c \in Points : Good(c)
  BY <1>2 DEF Points, Counter, Units
<1>7. \A c \in AppDaily : Good(c) /\ c.per = "app"
  BY <1>2 DEF AppDaily, Counter, Units
<1>8. \A c \in AppRps : Good(c) /\ c.per = "app"
  BY <1>2 DEF AppRps, Counter, Units
<1>9. \A c \in AppQuota : Good(c) /\ c.per = "app" /\ c.cost = limits.costPerPost /\ c.unit = "day"
  BY <1>2 DEF AppQuota, Counter, Units
<1> HIDE DEF Good
<1>10. \A c \in Counters : Good(c)
  BY <1>3, <1>4, <1>5, <1>6, <1>7, <1>8, <1>9 DEF Counters, UsageCounters, AppCounters
<1>. QED
  BY <1>7, <1>8, <1>9, <1>10 DEF AppCounters, Good

\* A name belongs to one counter.
LEMMA OneByName ==
  /\ \A c, d \in Counters : c.name = d.name => c = d
  /\ \A c \in Counters : c.name = "appQuota" <=> c \in AppQuota
<1> DEFINE One(C) == \A c, d \in C : c = d
           Called(C, name) == \A c \in C : c.name = name
<1>1. ASSUME NEW name, NEW per, NEW unit, NEW limit, NEW cost, NEW clamped
      PROVE  One(Counter(name, per, unit, limit, cost, clamped))
  BY Zenon DEF Counter
<1>2. One(DailyPosts) /\ One(MinutePosts) /\ One(HourlyRequests) /\ One(FiveMinuteRequests)
  BY <1>1, Zenon DEF DailyPosts, MinutePosts, HourlyRequests, FiveMinuteRequests
<1>3. One(Quota) /\ One(Points) /\ One(AppDaily) /\ One(AppRps) /\ One(AppQuota)
  BY <1>1, Zenon DEF Quota, Points, AppDaily, AppRps, AppQuota, Counter
<1>4. Called(DailyPosts, "daily") /\ Called(MinutePosts, "minute")
  BY DEF DailyPosts, MinutePosts, Counter
<1>5. Called(HourlyRequests, "hour") /\ Called(FiveMinuteRequests, "5min")
  BY DEF HourlyRequests, FiveMinuteRequests, Counter
<1>6. Called(Quota, "quota")
  BY DEF Quota, Counter
<1>7. Called(Points, "points")
  BY DEF Points, Counter
<1>8. Called(AppDaily, "appDaily")
  BY DEF AppDaily, Counter
<1>9. Called(AppRps, "rps") /\ Called(AppQuota, "appQuota")
  BY DEF AppRps, AppQuota, Counter
<1>. QED
  BY <1>2, <1>3, <1>4, <1>5, <1>6, <1>7, <1>8, <1>9
     DEF Counters, UsageCounters, AppCounters

\* Windows follow each other.
LEMMA StartMonotone ==
  ASSUME NEW unit \in Units, NEW t \in Nat, NEW u \in Nat, t <= u
  PROVE  /\ StartOf(unit, t) \in Nat /\ StartOf(unit, u) \in Nat
         /\ StartOf(unit, t) <= StartOf(unit, u)
<1> DEFINE l == Lengths[unit]
           x == t \div l
           y == u \div l
<1>1. l \in Nat \ {0}
  BY RateLimitsAssumption
<1> HIDE DEF l
<1>2. x \in Nat /\ y \in Nat
  BY <1>1
<1>3. x * l <= t /\ u < (y + 1) * l
  BY <1>1, SMTT(20)
<1> HIDE DEF x, y
<1>4. x <= y
  <2>1. SUFFICES ASSUME x > y PROVE FALSE
    BY <1>2
  <2>2. (y + 1) * l <= x * l
    BY <1>1, <1>2, <2>1, SMTT(20)
  <2>. QED
    BY <1>1, <1>2, <1>3, <2>2
<1>5. x * l \in Nat /\ y * l \in Nat /\ x * l <= y * l
  BY <1>1, <1>2, <1>4, SMTT(20)
<1>. QED
  BY <1>5 DEF StartOf, x, y, l

\* INCRBY of all the counters of a holder.
LEMMA MovedBy ==
  ASSUME TypeInv, NEW counters, counters \subseteq Counters,
         NEW holder, NEW t, count' = Moved(counters, holder, t, 1),
         NEW c \in counters
  PROVE  Value(Key(c, holder, t))' = Value(Key(c, holder, t)) + c.cost
<1> DEFINE keys == {Key(d, holder, t) : d \in counters}
           by(j) == 1 * (CHOOSE d \in counters : Key(d, holder, t) = j).cost
           k == Key(c, holder, t)
<1>1. count' = [j \in DOMAIN count \cup keys |->
                    Value(j) + (IF j \in keys THEN by(j) ELSE 0)]
  BY DEF Moved
<1>2. \A d \in counters : Key(d, holder, t) = k => d = c
  BY OneByName DEF Key
<1>3. (CHOOSE d \in counters : Key(d, holder, t) = k) = c
  BY <1>2
<1>4. by(k) = c.cost
  <2>1. c.cost \in Nat
    BY CounterTypes
  <2>2. 1 * c.cost = c.cost
    BY <2>1
  <2>. QED
    BY <1>3, <2>2
<1>5. k \in keys
  OBVIOUS
<1> HIDE DEF keys, by
<1>6. k \in DOMAIN count' /\ count'[k] = Value(k) + c.cost
  BY <1>1, <1>4, <1>5
<1>. QED
  BY <1>6 DEF Value

\* Only p's frame changes, and this is what becomes of the fields that matter here.
Becomes(p, pc, kind, sentAt, left, key) ==
    /\ Only(p)
    /\ post'[p].pc = pc /\ post'[p].kind = kind /\ post'[p].sentAt = sentAt
    /\ post'[p].left = left /\ post'[p].key = key

\* Nothing but the step it is at.
Goes(p, pc) ==
    Becomes(p, pc, post[p].kind, post[p].sentAt, post[p].left, post[p].key)

LEMMA BecomesOfRequest ==
  ASSUME Framed, NEW p \in Posts
  PROVE  /\ \A at : Validate(p, at) =>
               Becomes(p, "schedule", "scheduled", post[p].sentAt, post[p].left, post[p].key)
         /\ CheckNow(p) =>
               Becomes(p, "publish", "now", post[p].sentAt, post[p].left, post[p].key)
         /\ ReserveSlots(p) => Goes(p, post[p].pc)
<1>1. PICK T : post \in [Posts -> Frames(T)]
  BY DEF Framed
<1>2. ASSUME NEW at, Validate(p, at)
      PROVE  Becomes(p, "schedule", "scheduled", post[p].sentAt, post[p].left, post[p].key)
  <2> DEFINE g == [post[p] EXCEPT !.pc = "schedule", !.kind = "scheduled", !.at = at,
                                  !.slot = "validated"]
  <2>1. Only(p) /\ post'[p] = g
    BY <1>1, <1>2 DEF Validate, Only
  <2>2. /\ g.pc = "schedule" /\ g.kind = "scheduled" /\ g.sentAt = post[p].sentAt
        /\ g.left = post[p].left /\ g.key = post[p].key
    BY <1>1 DEF Frames
  <2>. QED
    BY <2>1, <2>2 DEF Becomes
<1>3. ASSUME CheckNow(p)
      PROVE  Becomes(p, "publish", "now", post[p].sentAt, post[p].left, post[p].key)
  <2> DEFINE g == [post[p] EXCEPT !.pc = "publish", !.kind = "now", !.at = now,
                                  !.slot = "validated"]
  <2>1. Only(p) /\ post'[p] = g
    BY <1>1, <1>3 DEF CheckNow, Only
  <2>2. /\ g.pc = "publish" /\ g.kind = "now" /\ g.sentAt = post[p].sentAt
        /\ g.left = post[p].left /\ g.key = post[p].key
    BY <1>1 DEF Frames
  <2>. QED
    BY <2>1, <2>2 DEF Becomes
<1>4. ASSUME ReserveSlots(p) PROVE Goes(p, post[p].pc)
  <2> DEFINE g == [post[p] EXCEPT !.slot = "reserved"]
  <2>1. Only(p) /\ post'[p] = g
    BY <1>1, <1>4 DEF ReserveSlots, Only
  <2>2. /\ g.pc = post[p].pc /\ g.kind = post[p].kind /\ g.sentAt = post[p].sentAt
        /\ g.left = post[p].left /\ g.key = post[p].key
    BY <1>1 DEF Frames
  <2>. QED
    BY <2>1, <2>2 DEF Becomes, Goes
<1>. QED
  BY <1>2, <1>3, <1>4

LEMMA BecomesOfSchedule ==
  ASSUME Framed, NEW p \in Posts
  PROVE  /\ ScheduleCheck(p) => Goes(p, "budget") \/ Goes(p, "enqueue")
         /\ ReadBudget(p) => Goes(p, "multi") \/ Goes(p, "enqueue")
         /\ ReserveQuota(p) =>
               IF Value(QuotaKey) + limits.costPerPost > limits.appDailyLimit
               THEN Becomes(p, "rollback", post[p].kind, post[p].sentAt, post[p].left,
                            QuotaKey)
               ELSE Goes(p, "enqueue")
         /\ RollBack(p) =>
               Becomes(p, "enqueue", post[p].kind, post[p].sentAt, post[p].left, NoKey)
         /\ Enqueue(p) => Goes(p, "queued")
         /\ StartJob(p) =>
               IF Refusals(AccountOf[p], UserOf[AccountOf[p]]) = {}
               THEN Goes(p, "publish") ELSE Goes(p, "refused")
<1>1. PICK T : post \in [Posts -> Frames(T)]
  BY DEF Framed
<1>2. ASSUME NEW pc, NEW x, NEW y,
             \/ post' = [post EXCEPT ![p].pc = pc]
             \/ post' = [post EXCEPT ![p].pc = pc, ![p].due = x]
             \/ post' = [post EXCEPT ![p].pc = pc, ![p].due = x, ![p].resets = y]
      PROVE  Goes(p, pc)
  <2>1. PICK g \in {[post[p] EXCEPT !.pc = pc], [post[p] EXCEPT !.pc = pc, !.due = x],
                    [post[p] EXCEPT !.pc = pc, !.due = x, !.resets = y]} :
          Only(p) /\ post'[p] = g
    BY <1>1, <1>2 DEF Only
  <2>2. /\ g.pc = pc /\ g.kind = post[p].kind /\ g.sentAt = post[p].sentAt
        /\ g.left = post[p].left /\ g.key = post[p].key
    BY <1>1, <2>1 DEF Frames
  <2>. QED
    BY <2>1, <2>2 DEF Becomes, Goes
<1>3. ScheduleCheck(p) => Goes(p, "budget") \/ Goes(p, "enqueue")
  <2> SUFFICES ASSUME ScheduleCheck(p) PROVE Goes(p, "budget") \/ Goes(p, "enqueue")
    OBVIOUS
  <2>1. PICK pc \in {"budget", "enqueue"} :
          \E x, y : post' = [post EXCEPT ![p].pc = pc, ![p].due = x, ![p].resets = y]
    BY DEF ScheduleCheck
  <2>. QED
    BY <1>2, <2>1
<1>4. ReadBudget(p) => Goes(p, "multi") \/ Goes(p, "enqueue")
  <2> SUFFICES ASSUME ReadBudget(p) PROVE Goes(p, "multi") \/ Goes(p, "enqueue")
    OBVIOUS
  <2>1. \/ post' = [post EXCEPT ![p].pc = "multi"]
        \/ \E x, y : post' = [post EXCEPT ![p].pc = "enqueue", ![p].due = x,
                                          ![p].resets = y]
    BY DEF ReadBudget
  <2>. QED
    BY <1>2, <2>1
<1>5. Enqueue(p) => Goes(p, "queued")
  BY <1>2 DEF Enqueue
<1>6. StartJob(p) => Goes(p, IF Refusals(AccountOf[p], UserOf[AccountOf[p]]) = {}
                            THEN "publish" ELSE "refused")
  <2> DEFINE pc == IF Refusals(AccountOf[p], UserOf[AccountOf[p]]) = {}
                   THEN "publish" ELSE "refused"
  <2> SUFFICES ASSUME StartJob(p) PROVE Goes(p, pc)
    OBVIOUS
  <2>1. post' = [post EXCEPT ![p].pc = pc, ![p].due = NoTime, ![p].resets = NoTime]
    BY DEF StartJob
  <2> HIDE DEF pc
  <2>. QED
    BY <1>2, <2>1
<1>7. ASSUME RollBack(p)
      PROVE  Becomes(p, "enqueue", post[p].kind, post[p].sentAt, post[p].left, NoKey)
  <2>1. PICK x : post' = [post EXCEPT ![p].pc = "enqueue", ![p].key = NoKey, ![p].due = x]
    BY <1>7 DEF RollBack
  <2> DEFINE g == [post[p] EXCEPT !.pc = "enqueue", !.key = NoKey, !.due = x]
  <2>2. Only(p) /\ post'[p] = g
    BY <1>1, <2>1 DEF Only
  <2>3. /\ g.pc = "enqueue" /\ g.kind = post[p].kind /\ g.sentAt = post[p].sentAt
        /\ g.left = post[p].left /\ g.key = NoKey
    BY <1>1 DEF Frames
  <2>. QED
    BY <2>2, <2>3 DEF Becomes
<1>8. ASSUME ReserveQuota(p)
      PROVE  IF Value(QuotaKey) + limits.costPerPost > limits.appDailyLimit
             THEN Becomes(p, "rollback", post[p].kind, post[p].sentAt, post[p].left, QuotaKey)
             ELSE Goes(p, "enqueue")
  <2> DEFINE Over == Value(QuotaKey) + limits.costPerPost > limits.appDailyLimit
             pc == IF Over THEN "rollback" ELSE "enqueue"
             key == IF Over THEN QuotaKey ELSE post[p].key
             day == IF Over THEN post[p].reserved ELSE StartOf("day", now)
  <2>1. post' = [post EXCEPT ![p].pc = pc, ![p].key = key, ![p].reserved = day]
    BY <1>8 DEF ReserveQuota
  <2> HIDE DEF pc, key, day
  <2> DEFINE g == [post[p] EXCEPT !.pc = pc, !.key = key, !.reserved = day]
  <2>2. Only(p) /\ post'[p] = g
    BY <1>1, <2>1 DEF Only
  <2>3. /\ g.pc = pc /\ g.kind = post[p].kind /\ g.sentAt = post[p].sentAt
        /\ g.left = post[p].left /\ g.key = key
    BY <1>1 DEF Frames
  <2>4. Becomes(p, pc, post[p].kind, post[p].sentAt, post[p].left, key)
    BY <2>2, <2>3 DEF Becomes
  <2>. QED
    BY <2>4 DEF pc, key, Goes
<1>. QED
  BY <1>3, <1>4, <1>5, <1>6, <1>7, <1>8

LEMMA BecomesOfJob ==
  ASSUME Framed, NEW p \in Posts
  PROVE  /\ Publish(p) => \/ Goes(p, "failed")
                          \/ Becomes(p, "count", post[p].kind, now, Counting(post[p].kind),
                                     post[p].key)
         /\ IncrementUsage(p) \/ IncrementAppUsage(p) =>
               Becomes(p, IF Len(post[p].left) = 1 THEN "done" ELSE post[p].pc,
                       post[p].kind, post[p].sentAt, Tail(post[p].left), post[p].key)
<1>1. PICK T : post \in [Posts -> Frames(T)]
  BY DEF Framed
<1>2. ASSUME post' = [post EXCEPT ![p].pc = "failed"]
      PROVE  Goes(p, "failed")
  <2> DEFINE g == [post[p] EXCEPT !.pc = "failed"]
  <2>1. Only(p) /\ post'[p] = g
    BY <1>1, <1>2 DEF Only
  <2>2. /\ g.pc = "failed" /\ g.kind = post[p].kind /\ g.sentAt = post[p].sentAt
        /\ g.left = post[p].left /\ g.key = post[p].key
    BY <1>1 DEF Frames
  <2>. QED
    BY <2>1, <2>2 DEF Becomes, Goes
<1> DEFINE left == Counting(post[p].kind)
<1>3. ASSUME post' = [post EXCEPT ![p].pc = "count", ![p].sentAt = now, ![p].left = left]
      PROVE  Becomes(p, "count", post[p].kind, now, left, post[p].key)
  <2> HIDE DEF left
  <2> DEFINE g == [post[p] EXCEPT !.pc = "count", !.sentAt = now, !.left = left]
  <2>1. Only(p) /\ post'[p] = g
    BY <1>1, <1>3 DEF Only
  <2>2. /\ g.pc = "count" /\ g.kind = post[p].kind /\ g.sentAt = now
        /\ g.left = left /\ g.key = post[p].key
    BY <1>1 DEF Frames
  <2>. QED
    BY <2>1, <2>2 DEF Becomes
<1>4. ASSUME post' = Advanced(p, "done")
      PROVE  Becomes(p, IF Len(post[p].left) = 1 THEN "done" ELSE post[p].pc,
                     post[p].kind, post[p].sentAt, Tail(post[p].left), post[p].key)
  <2> DEFINE pc == IF Len(post[p].left) = 1 THEN "done" ELSE post[p].pc
             rest == Tail(post[p].left)
  <2>1. post' = [post EXCEPT ![p].left = rest, ![p].pc = pc]
    BY <1>4 DEF Advanced
  <2> HIDE DEF pc, rest
  <2> DEFINE g == [post[p] EXCEPT !.left = rest, !.pc = pc]
  <2>2. Only(p) /\ post'[p] = g
    BY <1>1, <2>1 DEF Only
  <2>3. /\ g.pc = pc /\ g.kind = post[p].kind /\ g.sentAt = post[p].sentAt
        /\ g.left = rest /\ g.key = post[p].key
    BY <1>1 DEF Frames
  <2>. QED
    BY <2>2, <2>3 DEF Becomes, pc, rest
<1>. QED
  BY <1>2, <1>3, <1>4 DEF Publish, IncrementUsage, IncrementAppUsage

Left4 == <<"usage", "app", "usage", "app">>
Left3 == <<"app", "usage", "app">>
Lefts == {Left4, Left3, <<"usage", "app">>, <<"app">>}

\* Every counter has room for one post.
Fits == \A c \in Counters : c.cost <= c.limit

\* Where a post that is not retried or deleted can be, and what its frame says there.
FrameOK(p) ==
    /\ post[p].pc \notin {"delete", "decrement"}
    /\ post[p].kind \in {"none", "scheduled", "now"}
    /\ post[p].pc = "new" => post[p].kind = "none"
    /\ post[p].pc \in {"schedule", "budget", "multi", "rollback", "enqueue", "queued"} =>
           post[p].kind = "scheduled"
    /\ post[p].pc \in {"publish", "count"} => post[p].kind \in {"scheduled", "now"} /\ Fits
    /\ post[p].pc = "count" => post[p].left \in Lefts
    /\ post[p].sentAt # NoTime => post[p].sentAt \in 0 .. now /\ Fits
    /\ post[p].pc = "rollback" => \E t \in 0 .. now : post[p].key = QKey(StartOf("day", t))

\* No more jobs run than the worker has places.
FlightInv ==
    Cardinality({p \in InFlight : post[p].kind = "scheduled"}) <= platform.maxConcurrency

Start(c) == StartOf(c.unit, now)

\* Sent and not yet counted by c, for the first time.
Uncounted(c) ==
    {p \in Posts : /\ post[p].pc = "count"
                   /\ post[p].left = Left4 \/ (post[p].left = Left3 /\ c \in AppCounters)}

Counted(c, h) == SentIn(c, h, Start(c)) \ Uncounted(c)

\* Posts whose check is over.
Publishing(c, h) ==
    {p \in Posts : post[p].pc = "publish" /\ (c.per = "app" \/ AccountOf[p] = h)}

\* What is about to be taken from the counter at k again.
Over(k) == {p \in Posts : post[p].pc = "rollback" /\ post[p].key = k}

Bound(c) == Later(0, c.limit + (Concurrent - 1) * c.cost)

CountInv(c, h) ==
    /\ c.cost * (Cardinality(Counted(c, h)) + Cardinality(Over(Key(c, h, now))))
           <= Value(Key(c, h, now))
    /\ \A t \in Nat : StartOf(c.unit, t) > Start(c) => Value(Key(c, h, t)) >= 0

BoundInv(c, h) ==
    /\ c.cost * Cardinality(SentIn(c, h, Start(c)) \cup Publishing(c, h)) <= Bound(c)
    /\ \A s : c.cost * Cardinality(SentIn(c, h, s)) <= Bound(c)

\* A counter of the window has what was sent in it, but for what is under way; with
\* what is about to be sent this stays within the bound.
OverInv ==
    Plain =>
      /\ \A p \in Posts : FrameOK(p)
      /\ FlightInv
      /\ \A c \in Counters, h \in Accounts : CountInv(c, h) /\ BoundInv(c, h)

LEMMA PlatformKept ==
  ASSUME UNCHANGED platform
  PROVE  /\ Counters' = Counters /\ AppCounters' = AppCounters
         /\ UsageCounters' = UsageCounters /\ limits' = limits
         /\ AppQuota' = AppQuota /\ Fits' = Fits
<1>1. limits' = limits
  BY DEF limits
<1>2. /\ UsageCounters' = UsageCounters
  BY <1>1 DEF UsageCounters, DailyPosts, MinutePosts, HourlyRequests, FiveMinuteRequests,
              Quota, Points
<1>3. AppCounters' = AppCounters /\ AppQuota' = AppQuota
  BY <1>1 DEF AppCounters, AppDaily, AppRps, AppQuota
<1>4. Counters' = Counters
  BY <1>2, <1>3 DEF Counters
<1>. QED
  BY <1>1, <1>2, <1>3, <1>4 DEF Fits

\* The sets counted here are finite.
LEMMA Sizes ==
  /\ \A c, h, s : SentIn(c, h, s) \in SUBSET Posts
  /\ \A c, h : Counted(c, h) \in SUBSET Posts /\ Publishing(c, h) \in SUBSET Posts
  /\ \A c : Uncounted(c) \in SUBSET Posts
  /\ \A k : Over(k) \in SUBSET Posts
  /\ InFlight \in SUBSET Posts
  BY DEF SentIn, Counted, Publishing, Uncounted, Over, InFlight

\* More sets of posts that are smaller.
LEMMA Smaller ==
  ASSUME NEW S \in SUBSET Posts, NEW T \in SUBSET Posts, S \subseteq T
  PROVE  /\ Cardinality(S) \in Nat /\ Cardinality(T) \in Nat
         /\ Cardinality(S) <= Cardinality(T)
  BY Finite, FS_Subset

LEMMA UnionSize ==
  ASSUME NEW S \in SUBSET Posts, NEW T \in SUBSET Posts
  PROVE  /\ Cardinality(S \cup T) <= Cardinality(S) + Cardinality(T)
         /\ Cardinality(S \cup T) \in Nat
<1>1. /\ IsFiniteSet(S) /\ IsFiniteSet(T)
      /\ Cardinality(S \cap T) \in Nat /\ Cardinality(S) \in Nat /\ Cardinality(T) \in Nat
      /\ Cardinality(S \cup T) \in Nat
  BY Finite
<1>2. Cardinality(S \cup T) = Cardinality(S) + Cardinality(T) - Cardinality(S \cap T)
  BY <1>1, FS_Union, Zenon
<1>. QED
  BY <1>1, <1>2

\* The posts sent at once do not become fewer.
LEMMA BoundMonotone ==
  ASSUME TypeInv, UNCHANGED platform, NEW c \in Counters,
         \A p \in Posts : post[p].kind = "now" => post'[p].kind = "now"
  PROVE  /\ Concurrent \in Nat /\ Concurrent' \in Nat
         /\ Bound(c) \in Nat /\ Bound(c)' \in Nat /\ Bound(c) <= Bound(c)'
<1> DEFINE n == {p \in Posts : post[p].kind = "now"}
           m == {p \in Posts : post'[p].kind = "now"}
           x == Concurrent - 1
           y == Concurrent' - 1
<1>1. /\ Cardinality(n) \in Nat /\ Cardinality(m) \in Nat
      /\ Cardinality(n) <= Cardinality(m)
  <2>1. n \in SUBSET Posts /\ m \in SUBSET Posts /\ n \subseteq m
    OBVIOUS
  <2>. QED
    BY <2>1, Smaller
<1>2. platform.maxConcurrency \in Nat
  BY DEF TypeInv, Platforms
<1>3. Concurrent \in Nat /\ Concurrent' \in Nat /\ Concurrent <= Concurrent'
  BY <1>1, <1>2 DEF Concurrent
<1>4. c.cost \in Nat /\ c.limit \in Nat
  BY CounterTypes
<1>5. x \in Int /\ y \in Int /\ x <= y
  <2>1. ASSUME NEW a \in Nat, NEW b \in Nat, a <= b
        PROVE  a - 1 \in Int /\ b - 1 \in Int /\ a - 1 <= b - 1
    BY <2>1
  <2>. QED
    BY <1>3, <2>1
<1> HIDE DEF x, y
<1>6. x * c.cost \in Int /\ y * c.cost \in Int /\ x * c.cost <= y * c.cost
  BY <1>4, <1>5, SMTT(20)
<1>7. Bound(c) = Later(0, c.limit + x * c.cost) /\ Bound(c)' = Later(0, c.limit + y * c.cost)
  BY DEF Bound, x, y
<1>. QED
  BY <1>3, <1>4, <1>6, <1>7 DEF Later

\* No more posts are between a check and their count than there is room for.
LEMMA FlightSize ==
  ASSUME NEW f, NEW m \in Nat,
         \A p \in Posts : f[p].pc \in {"publish", "count"} => f[p].kind \in {"scheduled", "now"},
         Cardinality({p \in Posts : f[p].pc \in {"publish", "count"}
                                    /\ f[p].kind = "scheduled"}) <= m
  PROVE  Cardinality({p \in Posts : f[p].pc \in {"publish", "count"}})
             <= m + Cardinality({p \in Posts : f[p].kind = "now"})
<1> DEFINE S == {p \in Posts : f[p].pc \in {"publish", "count"} /\ f[p].kind = "scheduled"}
           N == {p \in Posts : f[p].kind = "now"}
           F == {p \in Posts : f[p].pc \in {"publish", "count"}}
<1>1. F \subseteq S \cup N /\ S \in SUBSET Posts /\ N \in SUBSET Posts /\ F \in SUBSET Posts
  OBVIOUS
<1>2. Cardinality(S) <= m
  OBVIOUS
<1> HIDE DEF S, N, F
<1>3. Cardinality(S \cup N) <= Cardinality(S) + Cardinality(N)
  BY <1>1, UnionSize
<1>4. /\ Cardinality(S) \in Nat /\ Cardinality(N) \in Nat /\ Cardinality(F) \in Nat
      /\ Cardinality(S \cup N) \in Nat /\ Cardinality(F) <= Cardinality(S \cup N)
  BY <1>1, Smaller, Finite
<1>5. Cardinality(F) <= m + Cardinality(N)
  BY <1>2, <1>3, <1>4
<1>. QED
  BY <1>5 DEF F, N

\* What is preserved of the parts of OverInv.
LEMMA FrameKept ==
  ASSUME NEW q \in Posts, FrameOK(q), post'[q] = post[q], UNCHANGED platform,
         now \in Nat, now' \in Nat, now <= now'
  PROVE  FrameOK(q)'
<1>1. Fits' = Fits /\ \A t \in 0 .. now : t \in 0 .. now'
  BY PlatformKept
<1>. QED
  BY <1>1 DEF FrameOK, QKey, StartOf

LEMMA BoundKept ==
  ASSUME TypeInv, UNCHANGED <<platform, now>>, NEW c \in Counters, NEW h \in Accounts,
         BoundInv(c, h),
         \A q \in Posts : post[q].kind = "now" => post'[q].kind = "now",
         \A q \in Posts : post'[q].pc = "publish" => post[q].pc = "publish",
         \A q \in Posts : post'[q].sentAt # post[q].sentAt =>
             post[q].pc = "publish" /\ post'[q].sentAt = now
  PROVE  BoundInv(c, h)'
<1> DEFINE S == SentIn(c, h, Start(c)) \cup Publishing(c, h)
<1>1. S' \subseteq S
  BY DEF SentIn, Start, Publishing, StartOf
<1>2. ASSUME NEW s PROVE SentIn(c, h, s)' \subseteq SentIn(c, h, s) \/ SentIn(c, h, s)' \subseteq S
  BY DEF SentIn, Start, Publishing, StartOf
<1>3. /\ S \in SUBSET Posts /\ S' \in SUBSET Posts
      /\ \A s : SentIn(c, h, s) \in SUBSET Posts /\ SentIn(c, h, s)' \in SUBSET Posts
  BY Sizes DEF SentIn, Publishing
<1>4. /\ c.cost * Cardinality(S) <= Bound(c)
      /\ \A s : c.cost * Cardinality(SentIn(c, h, s)) <= Bound(c)
  BY DEF BoundInv
<1>5. Bound(c) \in Nat /\ Bound(c)' \in Nat /\ Bound(c) <= Bound(c)' /\ c.cost \in Nat
  BY BoundMonotone, CounterTypes
<1>6. ASSUME NEW A \in SUBSET Posts, NEW B \in SUBSET Posts, B \subseteq A,
             c.cost * Cardinality(A) <= Bound(c)
      PROVE  c.cost * Cardinality(B) <= Bound(c)'
  <2>1. Cardinality(A) \in Nat /\ Cardinality(B) \in Nat /\ Cardinality(B) <= Cardinality(A)
    BY <1>6, Smaller
  <2>2. /\ c.cost * Cardinality(A) \in Nat /\ c.cost * Cardinality(B) \in Nat
        /\ c.cost * Cardinality(B) <= c.cost * Cardinality(A)
    BY <1>5, <2>1, Product
  <2>. QED
    BY <1>5, <1>6, <2>2
<1> HIDE DEF S
<1>7. c.cost * Cardinality(S') <= Bound(c)'
  BY <1>1, <1>3, <1>4, <1>6
<1>8. ASSUME NEW s PROVE c.cost * Cardinality(SentIn(c, h, s)') <= Bound(c)'
  BY <1>2, <1>3, <1>4, <1>6
<1>. QED
  BY <1>7, <1>8 DEF BoundInv, S

LEMMA CountsKept ==
  ASSUME TypeInv, TypeInv', UNCHANGED <<platform, now>>, NEW c \in Counters, NEW h \in Accounts,
         CountInv(c, h), Value(Key(c, h, now))' >= Value(Key(c, h, now)),
         \A t \in Nat : StartOf(c.unit, t) > Start(c) =>
             Value(Key(c, h, t))' >= Value(Key(c, h, t)),
         Counted(c, h)' \subseteq Counted(c, h),
         Over(Key(c, h, now))' \subseteq Over(Key(c, h, now))
  PROVE  CountInv(c, h)'
<1> DEFINE k == Key(c, h, now)
           x == Cardinality(Counted(c, h)) + Cardinality(Over(k))
           y == Cardinality(Counted(c, h)') + Cardinality(Over(k)')
<1>1. /\ Counted(c, h) \in SUBSET Posts /\ Counted(c, h)' \in SUBSET Posts
      /\ Over(k) \in SUBSET Posts /\ Over(k)' \in SUBSET Posts
  BY Sizes DEF Counted, SentIn, Over
<1>2. x \in Nat /\ y \in Nat /\ y <= x
  BY <1>1, Smaller
<1>3. c.cost \in Nat /\ Value(k) \in Int /\ Value(k)' \in Int
  BY CounterTypes, ValueType DEF TypeInv, Value
<1>4. c.cost * x <= Value(k)
  BY DEF CountInv
<1> HIDE DEF x, y
<1>5. c.cost * x \in Nat /\ c.cost * y \in Nat /\ c.cost * y <= c.cost * x
  BY <1>2, <1>3, Product
<1>6. c.cost * y <= Value(k)'
  BY <1>3, <1>4, <1>5
<1>7. k' = k /\ Start(c)' = Start(c)
  BY DEF Key, Start, StartOf
<1>8. ASSUME NEW t \in Nat, StartOf(c.unit, t) > Start(c) PROVE Value(Key(c, h, t))' >= 0
  <2>1. Value(Key(c, h, t)) \in Int /\ Value(Key(c, h, t))' \in Int
    BY ValueType DEF TypeInv, Value
  <2>. QED
    BY <1>8, <2>1 DEF CountInv
<1>. QED
  BY <1>6, <1>7, <1>8 DEF CountInv, y

\* A step of a post that checks nothing: it is in flight only if it was.
LEMMA OverKept ==
  ASSUME IInv, IInv', Plain, OverInv, UNCHANGED <<platform, faults, now>>,
         NEW p \in Posts, NEW pc, NEW kind, NEW sentAt, NEW left, NEW key,
         Becomes(p, pc, kind, sentAt, left, key), FrameOK(p)',
         pc \in {"publish", "count"} =>
             post[p].pc \in {"publish", "count"} /\ kind = post[p].kind,
         pc = "publish" => post[p].pc = "publish",
         post[p].kind = "now" => kind = "now",
         sentAt # post[p].sentAt => post[p].pc = "publish" /\ sentAt = now,
         \A c \in Counters, h \in Accounts : CountInv(c, h)'
  PROVE  OverInv'
<1>1. \A q \in Posts : FrameOK(q)'
  BY FrameKept DEF OverInv, Becomes, Only, IInv, TypeInv
<1>2. FlightInv'
  <2> DEFINE S == {q \in Posts : q \in InFlight /\ post[q].kind = "scheduled"}
  <2>1. S' \subseteq S
    BY DEF InFlight, Becomes, Only
  <2>2. S \in SUBSET Posts /\ S' \in SUBSET Posts
    OBVIOUS
  <2>3. Cardinality(S) \in Nat /\ Cardinality(S') \in Nat /\ Cardinality(S') <= Cardinality(S)
    BY <2>1, <2>2, Smaller
  <2>4. S = {q \in InFlight : post[q].kind = "scheduled"}
    BY DEF InFlight
  <2>5. Cardinality(S) <= platform.maxConcurrency /\ platform.maxConcurrency \in Nat
    BY <2>4 DEF OverInv, FlightInv, IInv, TypeInv, Platforms
  <2>6. S' = {q \in InFlight' : post'[q].kind = "scheduled"}
    BY DEF InFlight
  <2> HIDE DEF S
  <2>. QED
    BY <2>3, <2>5, <2>6 DEF FlightInv
<1>3. ASSUME NEW c \in Counters, NEW h \in Accounts PROVE BoundInv(c, h)'
  BY BoundKept DEF OverInv, IInv, Becomes, Only
<1>. QED
  BY <1>1, <1>2, <1>3, PlatformKept DEF OverInv

\* A step before the check, or one that does not change what is looked at.
LEMMA QuietKeepsOver ==
  ASSUME IInv, IInv', Plain, OverInv, UNCHANGED <<platform, faults, now>>,
         \A k : Value(k)' >= Value(k),
         NEW p \in Posts, NEW pc, NEW kind, NEW left, NEW key,
         Becomes(p, pc, kind, post[p].sentAt, left, key), FrameOK(p)',
         \/ /\ pc = post[p].pc /\ kind = post[p].kind /\ left = post[p].left
            /\ key = post[p].key
         \/ /\ post[p].pc # "count" /\ pc \notin {"publish", "count", "rollback"}
            /\ post[p].kind = "now" => kind = "now"
  PROVE  OverInv'
<1>1. ASSUME NEW c \in Counters, NEW h \in Accounts PROVE CountInv(c, h)'
  <2>1. Counted(c, h)' \subseteq Counted(c, h)
    BY PlatformKept DEF Counted, SentIn, Uncounted, Start, StartOf, Becomes, Only
  <2>2. Over(Key(c, h, now))' \subseteq Over(Key(c, h, now))
    BY DEF Over, Key, StartOf, Becomes, Only
  <2>. QED
    BY <2>1, <2>2, CountsKept DEF OverInv, IInv
<1>. QED
  BY <1>1, OverKept

\* What a check that refuses nothing has seen.
LEMMA NoRefusals ==
  ASSUME TypeInv, NEW p \in Posts, Refusals(AccountOf[p], UserOf[AccountOf[p]]) = {}
  PROVE  \A c \in Counters : Value(Key(c, AccountOf[p], now)) + c.cost <= c.limit
<1> SUFFICES ASSUME NEW c \in Counters, Value(Key(c, AccountOf[p], now)) + c.cost > c.limit
             PROVE  FALSE
  BY CounterTypes, ValueType
<1>1. EndOf(c.unit, now) \in Refusals(AccountOf[p], UserOf[AccountOf[p]])
  BY DEF Refusals, Counters
<1>. QED
  BY <1>1

\* The post whose check is over is the last one to be sent: what its counter has not
\* counted is under way.
LEMMA CheckBounds ==
  ASSUME IInv, Plain, OverInv, UNCHANGED <<platform, faults, now>>, NEW p \in Posts,
         NEW kind, Becomes(p, "publish", kind, post[p].sentAt, post[p].left, post[p].key),
         \A q \in Posts : post[q].kind = "now" => post'[q].kind = "now",
         Cardinality(InFlight') <= Concurrent', post[p].pc # "count",
         NEW c \in Counters, NEW h \in Accounts, c.per = "app" \/ AccountOf[p] = h,
         Value(Key(c, AccountOf[p], now)) + c.cost <= c.limit
  PROVE  c.cost * Cardinality((SentIn(c, h, Start(c)) \cup Publishing(c, h))') <= Bound(c)'
<1> DEFINE S == (SentIn(c, h, Start(c)) \cup Publishing(c, h))'
           C == Counted(c, h)
           x == Cardinality(C)
           o == Cardinality(Over(Key(c, h, now)))
           n == Concurrent'
           v == Value(Key(c, h, now))
<1>1. Key(c, h, now) = Key(c, AccountOf[p], now)
  BY DEF Key
<1>2. S \subseteq C \cup InFlight'
  BY DEF SentIn, Start, StartOf, Publishing, Counted, Uncounted, InFlight, Becomes, Only
<1>3. C \in SUBSET Posts /\ InFlight' \in SUBSET Posts /\ S \in SUBSET Posts
  BY Sizes DEF InFlight, SentIn, Publishing
<1>4. /\ Cardinality(S) \in Nat /\ x \in Nat /\ o \in Nat /\ n \in Nat
      /\ Cardinality(S) <= x + n
  <2>1. Cardinality(S) <= Cardinality(C \cup InFlight')
    BY <1>2, <1>3, Smaller
  <2>2. Cardinality(C \cup InFlight') <= x + Cardinality(InFlight')
    BY <1>3, UnionSize
  <2>3. /\ Cardinality(S) \in Nat /\ Cardinality(C \cup InFlight') \in Nat /\ x \in Nat
        /\ Cardinality(InFlight') \in Nat /\ o \in Nat
    BY <1>3, Sizes, Finite
  <2>4. n \in Nat
    BY BoundMonotone DEF IInv
  <2>. QED
    BY <2>1, <2>2, <2>3, <2>4
<1>5. /\ c.cost \in Nat /\ c.limit \in Nat /\ v \in Int
      /\ c.cost * (x + o) <= v /\ v + c.cost <= c.limit
  BY <1>1, CounterTypes, ValueType DEF OverInv, CountInv, IInv
<1>6. Bound(c)' = Later(0, c.limit + (n - 1) * c.cost)
  BY DEF Bound
<1> HIDE DEF S, C, x, o, n, v
<1> DEFINE y == Cardinality(S)
<1>7. c.cost * x <= c.cost * (x + o) /\ c.cost * x \in Nat /\ c.cost * (x + o) \in Nat
  BY <1>4, <1>5, Product
<1>8. c.cost * y <= c.cost * (x + n) /\ c.cost * y \in Nat
  BY <1>4, <1>5, Product
<1>9. c.cost * (x + n) = c.cost * x + c.cost + (n - 1) * c.cost /\ (n - 1) * c.cost \in Int
  BY <1>4, <1>5, SMTT(20)
<1> HIDE DEF y
<1> DEFINE z == (n - 1) * c.cost
<1> HIDE DEF z
<1>10. c.cost * y <= c.limit + z
  BY <1>5, <1>7, <1>8, <1>9 DEF z
<1>. QED
  BY <1>5, <1>6, <1>8, <1>9, <1>10 DEF Later, y, z, S

\* A post passes the check.
LEMMA StartKeepsOver ==
  ASSUME IInv, IInv', Plain, OverInv, UNCHANGED <<platform, faults, now, count>>,
         NEW p \in Posts, NEW kind,
         Becomes(p, "publish", kind, post[p].sentAt, post[p].left, post[p].key),
         post[p].pc \in {"new", "queued"}, kind \in {"scheduled", "now"},
         post[p].kind = "now" => kind = "now",
         Refusals(AccountOf[p], UserOf[AccountOf[p]]) = {}, FlightInv'
  PROVE  OverInv'
<1>1. \A c \in Counters : Value(Key(c, AccountOf[p], now)) + c.cost <= c.limit
  BY NoRefusals DEF IInv
<1>2. \A c \in Counters, h \in Accounts : Value(Key(c, h, now)) >= 0
  <2> SUFFICES ASSUME NEW c \in Counters, NEW h \in Accounts
               PROVE  Value(Key(c, h, now)) >= 0
    OBVIOUS
  <2> DEFINE n == Cardinality(Counted(c, h)) + Cardinality(Over(Key(c, h, now)))
  <2>1. n \in Nat /\ c.cost \in Nat
    BY Sizes, Finite, CounterTypes DEF IInv
  <2>2. c.cost * n <= Value(Key(c, h, now)) /\ Value(Key(c, h, now)) \in Int
    BY ValueType DEF OverInv, CountInv, IInv
  <2> HIDE DEF n
  <2>3. c.cost * n \in Nat
    BY <2>1
  <2>. QED
    BY <2>2, <2>3
<1>3. Fits
  <2>1. AccountOf[p] \in Accounts
    BY RateLimitsAssumption
  <2>2. \A c \in Counters : c.cost \in Nat /\ c.limit \in Nat
    BY CounterTypes DEF IInv
  <2>3. \A c \in Counters : Value(Key(c, AccountOf[p], now)) \in Int
    BY ValueType DEF IInv
  <2>. QED
    BY <1>1, <1>2, <2>1, <2>2, <2>3 DEF Fits
<1>4. \A q \in Posts : FrameOK(q)'
  <2>1. FrameOK(p)'
    BY <1>3, PlatformKept DEF FrameOK, OverInv, Becomes
  <2>. QED
    BY <2>1, FrameKept DEF OverInv, Becomes, Only, IInv, TypeInv
<1>5. \A q \in Posts : post[q].kind = "now" => post'[q].kind = "now"
  BY DEF Becomes, Only
<1>6. Cardinality(InFlight') <= Concurrent'
  <2>1. \A q \in Posts : post'[q].pc \in {"publish", "count"} =>
                             post'[q].kind \in {"scheduled", "now"}
    BY <1>4 DEF FrameOK
  <2>2. InFlight' = {q \in Posts : post'[q].pc \in {"publish", "count"}}
    BY DEF InFlight
  <2>3. {q \in InFlight' : post'[q].kind = "scheduled"} =
            {q \in Posts : post'[q].pc \in {"publish", "count"} /\ post'[q].kind = "scheduled"}
    BY <2>2
  <2>4. /\ platform.maxConcurrency \in Nat
        /\ Cardinality({q \in Posts : post'[q].pc \in {"publish", "count"}
                                      /\ post'[q].kind = "scheduled"})
             <= platform.maxConcurrency
    BY <2>3 DEF FlightInv, IInv, TypeInv, Platforms
  <2>5. Cardinality({q \in Posts : post'[q].pc \in {"publish", "count"}})
            <= platform.maxConcurrency + Cardinality({q \in Posts : post'[q].kind = "now"})
    BY <2>1, <2>4, FlightSize
  <2>. QED
    BY <2>2, <2>5 DEF Concurrent
<1>7. ASSUME NEW c \in Counters, NEW h \in Accounts PROVE CountInv(c, h)'
  <2>1. Counted(c, h)' \subseteq Counted(c, h)
    BY PlatformKept DEF Counted, SentIn, Uncounted, Start, StartOf, Becomes, Only
  <2>2. Over(Key(c, h, now))' \subseteq Over(Key(c, h, now))
    BY DEF Over, Key, StartOf, Becomes, Only
  <2>3. \A k : Value(k)' >= Value(k)
    BY ValueType DEF Value, IInv
  <2>. QED
    BY <2>1, <2>2, <2>3, CountsKept DEF OverInv, IInv
<1>8. ASSUME NEW c \in Counters, NEW h \in Accounts PROVE BoundInv(c, h)'
  <2>1. Bound(c) \in Nat /\ Bound(c)' \in Nat /\ Bound(c) <= Bound(c)'
    BY <1>5, BoundMonotone DEF IInv
  <2>2. \A s : SentIn(c, h, s)' = SentIn(c, h, s)
    BY DEF SentIn, StartOf, Becomes, Only
  <2>3. c.cost \in Nat
    BY CounterTypes DEF IInv
  <2>4. ASSUME NEW S \in SUBSET Posts, c.cost * Cardinality(S) <= Bound(c)
        PROVE  c.cost * Cardinality(S) <= Bound(c)'
    <3>1. c.cost * Cardinality(S) \in Nat
      BY <2>3, Finite, Product
    <3>. QED
      BY <2>1, <2>4, <3>1
  <2>5. \A s : c.cost * Cardinality(SentIn(c, h, s)') <= Bound(c)'
    BY <2>2, <2>4, Sizes DEF BoundInv, OverInv
  <2>6. CASE c.per = "app" \/ AccountOf[p] = h
    <3>1. c.cost * Cardinality((SentIn(c, h, Start(c)) \cup Publishing(c, h))') <= Bound(c)'
      BY <1>1, <1>5, <1>6, <2>6, CheckBounds
    <3>. QED
      BY <2>5, <3>1 DEF BoundInv
  <2>7. CASE ~ (c.per = "app" \/ AccountOf[p] = h)
    <3>1. (SentIn(c, h, Start(c)) \cup Publishing(c, h))' =
              SentIn(c, h, Start(c)) \cup Publishing(c, h)
      BY <2>7 DEF SentIn, Start, StartOf, Publishing, Becomes, Only
    <3>2. SentIn(c, h, Start(c)) \cup Publishing(c, h) \in SUBSET Posts
      BY Sizes
    <3>3. c.cost * Cardinality((SentIn(c, h, Start(c)) \cup Publishing(c, h))') <= Bound(c)'
      BY <2>4, <3>1, <3>2 DEF BoundInv, OverInv
    <3>. QED
      BY <2>5, <3>3 DEF BoundInv
  <2>. QED
    BY <2>6, <2>7
<1>. QED
  BY <1>4, <1>7, <1>8, PlatformKept DEF OverInv

\* A counter and what it has to hold grow together.
LEMMA CountsGrow ==
  ASSUME TypeInv, TypeInv', UNCHANGED <<platform, now>>, NEW c \in Counters, NEW h \in Accounts,
         CountInv(c, h), NEW p \in Posts,
         Value(Key(c, h, now))' = Value(Key(c, h, now)) + c.cost,
         \A t \in Nat : StartOf(c.unit, t) > Start(c) =>
             Value(Key(c, h, t))' >= Value(Key(c, h, t)),
         \/ /\ Counted(c, h)' \subseteq Counted(c, h) \cup {p}
            /\ Over(Key(c, h, now))' \subseteq Over(Key(c, h, now))
         \/ /\ Counted(c, h)' \subseteq Counted(c, h)
            /\ Over(Key(c, h, now))' \subseteq Over(Key(c, h, now)) \cup {p}
  PROVE  CountInv(c, h)'
<1> DEFINE k == Key(c, h, now)
           x == Cardinality(Counted(c, h)) + Cardinality(Over(k))
           y == Cardinality(Counted(c, h)') + Cardinality(Over(k)')
<1>1. /\ Counted(c, h) \in SUBSET Posts /\ Counted(c, h)' \in SUBSET Posts
      /\ Over(k) \in SUBSET Posts /\ Over(k)' \in SUBSET Posts
  BY Sizes DEF Counted, SentIn, Over
<1>2. ASSUME NEW S \in SUBSET Posts, NEW T \in SUBSET Posts, T \subseteq S \cup {p}
      PROVE  Cardinality(T) <= Cardinality(S) + 1
  <2>1. Cardinality(S \cup {p}) <= Cardinality(S) + 1
    BY <1>2, Finite, FS_AddElement
  <2>2. Cardinality(T) <= Cardinality(S \cup {p})
    BY <1>2, Smaller
  <2>. QED
    BY <2>1, <2>2, Finite
<1>3. x \in Nat /\ y \in Nat /\ y <= x + 1
  BY <1>1, <1>2, Smaller
<1>4. c.cost \in Nat /\ Value(k) \in Int /\ Value(k)' = Value(k) + c.cost
  BY CounterTypes, ValueType DEF TypeInv, Value
<1>5. c.cost * x <= Value(k)
  BY DEF CountInv
<1> HIDE DEF x, y
<1>6. /\ c.cost * x \in Nat /\ c.cost * y \in Nat /\ c.cost * y <= c.cost * (x + 1)
      /\ c.cost * (x + 1) = c.cost * x + c.cost
  BY <1>3, <1>4, Product
<1>7. c.cost * y <= Value(k)'
  BY <1>4, <1>5, <1>6
<1>8. k' = k /\ Start(c)' = Start(c)
  BY DEF Key, Start, StartOf
<1>9. ASSUME NEW t \in Nat, StartOf(c.unit, t) > Start(c) PROVE Value(Key(c, h, t))' >= 0
  <2>1. Value(Key(c, h, t)) \in Int /\ Value(Key(c, h, t))' \in Int
    BY ValueType DEF TypeInv, Value
  <2>. QED
    BY <1>9, <2>1 DEF CountInv
<1>. QED
  BY <1>7, <1>8, <1>9 DEF CountInv, y

LEMMA PublishKeepsOver ==
  ASSUME IInv, IInv', Plain, OverInv, NEW p \in Posts, Publish(p)
  PROVE  OverInv'
<1>1. UNCHANGED <<platform, faults, now, count>> /\ post[p].pc = "publish"
  BY DEF Publish
<1>2. \A k : Value(k)' >= Value(k)
  BY <1>1, ValueType DEF Value, IInv
<1>3. FrameOK(p) /\ now \in Nat
  BY DEF OverInv, IInv, TypeInv
<1>4. CASE Goes(p, "failed")
  <2>1. FrameOK(p)'
    BY <1>1, <1>3, <1>4, PlatformKept DEF FrameOK, Goes, Becomes
  <2>. QED
    BY <1>1, <1>2, <1>4, <2>1, QuietKeepsOver DEF Goes
<1>5. CASE Becomes(p, "count", post[p].kind, now, Left4, post[p].key)
  <2>1. FrameOK(p)'
    BY <1>1, <1>3, <1>5, PlatformKept DEF FrameOK, Becomes, Lefts
  <2>2. ASSUME NEW c \in Counters, NEW h \in Accounts PROVE CountInv(c, h)'
    <3>1. Counted(c, h)' \subseteq Counted(c, h)
      BY <1>1, <1>5, PlatformKept
         DEF Counted, SentIn, Uncounted, Start, StartOf, Becomes, Only
    <3>2. Over(Key(c, h, now))' \subseteq Over(Key(c, h, now))
      BY <1>1, <1>5 DEF Over, Key, StartOf, Becomes, Only
    <3>. QED
      BY <1>1, <1>2, <3>1, <3>2, CountsKept DEF OverInv, IInv
  <2>. QED
    BY <1>1, <1>5, <2>1, <2>2, OverKept
<1>6. Counting(post[p].kind) = Left4
  BY <1>1, <1>3 DEF FrameOK, Counting, Left4
<1>. QED
  BY <1>4, <1>5, <1>6, BecomesOfJob DEF IInv, TypeInv

LEMMA IncrementKeepsOver ==
  ASSUME IInv, IInv', Plain, OverInv, NEW p \in Posts,
         IncrementUsage(p) \/ IncrementAppUsage(p)
  PROVE  OverInv'
<1> DEFINE pc == IF Len(post[p].left) = 1 THEN "done" ELSE post[p].pc
           left == Tail(post[p].left)
<1>1. UNCHANGED <<platform, faults, now>> /\ post[p].pc = "count"
  BY DEF IncrementUsage, IncrementAppUsage
<1>2. Becomes(p, pc, post[p].kind, post[p].sentAt, left, post[p].key)
  BY BecomesOfJob DEF IInv, TypeInv
<1>3. FrameOK(p) /\ post[p].left \in Lefts
  BY <1>1 DEF OverInv, FrameOK
<1>4. \/ /\ IncrementUsage(p) /\ post[p].left = Left4 /\ left = Left3 /\ pc = "count"
      \/ /\ IncrementUsage(p) /\ post[p].left = <<"usage", "app">> /\ left = <<"app">>
         /\ pc = "count"
      \/ /\ IncrementAppUsage(p) /\ post[p].left = Left3 /\ left = <<"usage", "app">>
         /\ pc = "count"
      \/ /\ IncrementAppUsage(p) /\ post[p].left = <<"app">> /\ pc = "done"
  <2>1. CASE post[p].left = Left4
    <3>1. Head(Left4) = "usage" /\ Tail(Left4) = Left3 /\ Len(Left4) = 4
      BY DEF Left3, Left4
    <3>. QED
      BY <1>1, <2>1, <3>1 DEF IncrementUsage, IncrementAppUsage
  <2>2. CASE post[p].left = Left3
    <3>1. Head(Left3) = "app" /\ Tail(Left3) = <<"usage", "app">> /\ Len(Left3) = 3
      BY DEF Left3
    <3>. QED
      BY <1>1, <2>2, <3>1 DEF IncrementUsage, IncrementAppUsage
  <2>3. CASE post[p].left = <<"usage", "app">>
    <3> DEFINE l == <<"usage", "app">>
    <3>1. Head(l) = "usage" /\ Tail(l) = <<"app">> /\ Len(l) = 2
      OBVIOUS
    <3>. QED
      BY <1>1, <2>3, <3>1 DEF IncrementUsage, IncrementAppUsage
  <2>4. CASE post[p].left = <<"app">>
    <3> DEFINE l == <<"app">>
    <3>1. Head(l) = "app" /\ Len(l) = 1
      OBVIOUS
    <3>. QED
      BY <1>1, <2>4, <3>1 DEF IncrementUsage, IncrementAppUsage
  <2>. QED
    BY <1>3, <2>1, <2>2, <2>3, <2>4 DEF Lefts
<1> HIDE DEF pc, left
<1>5. FrameOK(p)'
  <2>1. pc = "done" \/ (pc = "count" /\ left \in Lefts)
    BY <1>4 DEF Lefts
  <2>. QED
    BY <1>1, <1>2, <1>3, <2>1, PlatformKept DEF FrameOK, Becomes
<1>6. \A k : Value(k)' >= Value(k)
  BY Subtypes, MovedType DEF IInv, IncrementUsage, IncrementAppUsage
<1>7. ASSUME NEW c \in Counters, NEW h \in Accounts PROVE CountInv(c, h)'
  <2>0. PICK t : t = now /\ t = now'
    BY <1>1
  <2>1. Over(Key(c, h, now))' \subseteq Over(Key(c, h, now))
    BY <1>1, <1>2, <1>4 DEF Over, Key, StartOf, Becomes, Only
  <2>2. Counted(c, h)' \subseteq Counted(c, h) \cup {p}
    BY <1>1, <1>2, PlatformKept DEF Counted, SentIn, Uncounted, Start, StartOf, Becomes, Only
  <2>3. CASE /\ IncrementUsage(p) /\ c \in UsageCounters
             /\ c.per = "app" \/ AccountOf[p] = h
    <3>1. PICK counters, holder : counters = UsageCounters /\ holder = AccountOf[p]
      OBVIOUS
    <3>2. /\ count' = Moved(counters, holder, t, 1) /\ counters \subseteq Counters
          /\ c \in counters
      BY <2>0, <2>3, <3>1 DEF IncrementUsage, Counters
    <3>3. Value(Key(c, holder, t))' = Value(Key(c, holder, t)) + c.cost
      BY <3>2, MovedBy DEF IInv
    <3>4. Value(Key(c, h, now))' = Value(Key(c, h, now)) + c.cost
      BY <2>0, <2>3, <3>1, <3>3 DEF Key, StartOf, Value
    <3>. QED
      BY <1>1, <1>6, <2>1, <2>2, <3>4, CountsGrow DEF OverInv, IInv
  <2>4. CASE IncrementAppUsage(p) /\ c \in AppCounters
    <3>1. c.per = "app"
      BY <2>4, CounterTypes DEF IInv
    <3>5. PICK counters : counters = AppCounters
      OBVIOUS
    <3>2. /\ count' = Moved(counters, App, t, 1) /\ counters \subseteq Counters
          /\ c \in counters
      BY <2>0, <2>4, <3>5 DEF IncrementAppUsage, Counters
    <3>3. Value(Key(c, App, t))' = Value(Key(c, App, t)) + c.cost
      BY <3>2, MovedBy DEF IInv
    <3>4. Value(Key(c, h, now))' = Value(Key(c, h, now)) + c.cost
      BY <2>0, <3>1, <3>3 DEF Key, StartOf, Value
    <3>. QED
      BY <1>1, <1>6, <2>1, <2>2, <3>4, CountsGrow DEF OverInv, IInv
  <2>5. CASE /\ ~ (/\ IncrementUsage(p) /\ c \in UsageCounters
                   /\ c.per = "app" \/ AccountOf[p] = h)
             /\ ~ (IncrementAppUsage(p) /\ c \in AppCounters)
    <3>1. p \in Counted(c, h)' => p \in Counted(c, h)
      <4>1. CASE ~ (c.per = "app" \/ AccountOf[p] = h)
        BY <4>1 DEF Counted, SentIn
      <4>2. CASE IncrementUsage(p) /\ c \notin UsageCounters
        <5>1. c \in AppCounters /\ c \in AppCounters'
          BY <1>1, <4>2, PlatformKept DEF Counters
        <5>2. post[p].left = Left4 \/ post[p].left = <<"usage", "app">>
          BY <1>4, <4>2 DEF IncrementUsage, IncrementAppUsage, Left3
        <5>3. CASE post[p].left = Left4
          <6>1. post'[p].left = Left3 /\ post'[p].pc = "count"
            BY <1>2, <1>4, <5>3 DEF Becomes, Left3, Left4
          <6>. QED
            BY <5>1, <6>1 DEF Counted, Uncounted
        <5>4. CASE post[p].left = <<"usage", "app">>
          <6>1. p \notin Uncounted(c)
            BY <5>4 DEF Uncounted, Left3, Left4
          <6>. QED
            BY <1>1, <1>2, <6>1 DEF Counted, SentIn, Becomes, Start, StartOf
        <5>. QED
          BY <5>2, <5>3, <5>4
      <4>3. CASE IncrementAppUsage(p) /\ c \notin AppCounters
        BY <1>1, <1>2, <1>4, <4>3
           DEF Counted, SentIn, Uncounted, Becomes, Left3, Left4, Start, StartOf,
               IncrementUsage, IncrementAppUsage
      <4>. QED
        BY <2>5, <4>1, <4>2, <4>3
    <3>2. Counted(c, h)' \subseteq Counted(c, h)
      BY <2>2, <3>1
    <3>. QED
      BY <1>1, <1>6, <2>1, <3>2, CountsKept DEF OverInv, IInv
  <2>. QED
    BY <2>3, <2>4, <2>5
<1>8. pc \in {"publish", "count"} => pc = "count"
  BY <1>4
<1>9. pc # "publish"
  BY <1>4
<1>. QED
  BY <1>1, <1>2, <1>5, <1>7, <1>8, <1>9, OverKept


\* A reservation counts itself before it knows that it overshoots.
LEMMA ReserveKeepsOver ==
  ASSUME IInv, IInv', Plain, OverInv, NEW p \in Posts, ReserveQuota(p)
  PROVE  OverInv'
<1>1. /\ UNCHANGED <<platform, faults, now>> /\ post[p].pc = "multi"
      /\ count' = Moved(AppQuota, App, now, 1)
  BY DEF ReserveQuota
<1>2. \A k : Value(k)' >= Value(k)
  BY <1>1, Subtypes, MovedType DEF IInv
<1>3. FrameOK(p) /\ now \in Nat
  BY DEF OverInv, IInv, TypeInv
<1>4. CASE Goes(p, "enqueue")
  <2>1. FrameOK(p)'
    BY <1>1, <1>3, <1>4, PlatformKept DEF FrameOK, Goes, Becomes
  <2>. QED
    BY <1>1, <1>2, <1>4, <2>1, QuietKeepsOver DEF Goes
<1>5. CASE Becomes(p, "rollback", post[p].kind, post[p].sentAt, post[p].left, QuotaKey)
  <2>0. PICK t : t = now /\ t = now'
    BY <1>1
  <2>1. FrameOK(p)'
    <3>1. QuotaKey = QKey(StartOf("day", t)) /\ t \in 0 .. now'
      BY <1>3, <2>0 DEF QuotaKey, QKey
    <3>2. post'[p].key = QKey(StartOf("day", t))
      BY <1>5, <3>1 DEF Becomes
    <3>3. \E u \in 0 .. now' : post'[p].key = QKey(StartOf("day", u))
      BY <3>1, <3>2
    <3>. QED
      BY <1>1, <1>3, <1>5, <3>3, PlatformKept DEF FrameOK, Becomes, QKey, StartOf
  <2>2. ASSUME NEW c \in Counters, NEW h \in Accounts PROVE CountInv(c, h)'
    <3>1. Counted(c, h)' \subseteq Counted(c, h)
      BY <1>1, <1>5, PlatformKept
         DEF Counted, SentIn, Uncounted, Start, StartOf, Becomes, Only
    <3>2. Over(Key(c, h, now))' \subseteq Over(Key(c, h, now)) \cup {p}
      BY <1>1, <1>5 DEF Over, Key, StartOf, Becomes, Only
    <3>3. CASE c \in AppQuota
      <4>1. c.per = "app"
        BY <3>3, CounterTypes DEF IInv, AppCounters
      <4>2. PICK counters : counters = AppQuota
        OBVIOUS
      <4>3. /\ count' = Moved(counters, App, t, 1) /\ counters \subseteq Counters
            /\ c \in counters
        BY <1>1, <2>0, <3>3, <4>2 DEF Counters, AppCounters
      <4>4. Value(Key(c, App, t))' = Value(Key(c, App, t)) + c.cost
        BY <4>3, MovedBy DEF IInv
      <4>5. Value(Key(c, h, now))' = Value(Key(c, h, now)) + c.cost
        BY <2>0, <4>1, <4>4 DEF Key, StartOf, Value
      <4>. QED
        BY <1>1, <1>2, <3>1, <3>2, <4>5, CountsGrow DEF OverInv, IInv
    <3>4. CASE c \notin AppQuota
      <4>1. Key(c, h, now) # QuotaKey /\ Key(c, h, now)' = Key(c, h, now)
        BY <1>1, <3>4, OneByName DEF Key, QuotaKey, StartOf
      <4>2. p \notin Over(Key(c, h, now))'
        BY <1>5, <4>1 DEF Over, Becomes
      <4>3. Over(Key(c, h, now))' \subseteq Over(Key(c, h, now))
        BY <3>2, <4>2
      <4>. QED
        BY <1>1, <1>2, <3>1, <4>3, CountsKept DEF OverInv, IInv
    <3>. QED
      BY <3>3, <3>4
  <2>. QED
    BY <1>1, <1>5, <2>1, <2>2, OverKept
<1>. QED
  BY <1>4, <1>5, BecomesOfSchedule DEF IInv, TypeInv

LEMMA RollBackKeepsOver ==
  ASSUME IInv, IInv', Plain, OverInv, NEW p \in Posts, RollBack(p)
  PROVE  OverInv'
<1>1. /\ UNCHANGED <<platform, faults, now>> /\ post[p].pc = "rollback"
      /\ count' = [count EXCEPT ![post[p].key] = @ - limits.costPerPost]
  BY DEF RollBack
<1>2. Becomes(p, "enqueue", post[p].kind, post[p].sentAt, post[p].left, NoKey)
  BY BecomesOfSchedule DEF IInv, TypeInv
<1>3. FrameOK(p) /\ now \in Nat
  BY DEF OverInv, IInv, TypeInv
<1>4. FrameOK(p)'
  BY <1>1, <1>2, <1>3, PlatformKept DEF FrameOK, Becomes
<1>5. PICK t \in 0 .. now : post[p].key = QKey(StartOf("day", t))
  BY <1>1, <1>3 DEF FrameOK
<1>6. PICK key : key = post[p].key
  OBVIOUS
<1>7. \A k : /\ k # key => Value(k)' = Value(k)
             /\ Value(k)' >= Value(k) - limits.costPerPost
  <2>1. count' = [count EXCEPT ![key] = @ - limits.costPerPost]
    BY <1>1, <1>6
  <2>2. limits.costPerPost \in Nat /\ \A k : Value(k) \in Int
    BY LimitsType, ValueType DEF IInv
  <2>. QED
    BY <2>1, <2>2 DEF Value
<1>8. ASSUME NEW c \in Counters, NEW h \in Accounts PROVE CountInv(c, h)'
  <2>1. Counted(c, h)' \subseteq Counted(c, h)
    BY <1>1, <1>2, PlatformKept DEF Counted, SentIn, Uncounted, Start, StartOf, Becomes, Only
  <2>2. PICK k : k = Key(c, h, now) /\ k = Key(c, h, now)'
    BY <1>1 DEF Key, StartOf
  <2>3. Over(k)' = Over(k) \ {p} /\ (p \in Over(k) <=> k = key)
    BY <1>1, <1>2, <1>6 DEF Over, Becomes, Only
  <2>4. ASSUME NEW u, Key(c, h, u) = key PROVE /\ c.name = "appQuota"
                                               /\ StartOf(c.unit, u) = StartOf("day", t)
    BY <1>5, <1>6, <2>4 DEF Key, QKey
  <2>5. ASSUME NEW u \in Nat, StartOf(c.unit, u) > Start(c)
        PROVE  Value(Key(c, h, u))' = Value(Key(c, h, u))
    <3>1. Key(c, h, u) # key
      <4>1. SUFFICES ASSUME Key(c, h, u) = key PROVE FALSE
        OBVIOUS
      <4>2. c.unit = "day"
        BY <2>4, <4>1, OneByName, CounterTypes DEF IInv
      <4>3. StartOf("day", t) <= StartOf("day", now) /\ StartOf("day", t) \in Nat
        BY <1>3, StartMonotone DEF Units
      <4>4. StartOf("day", now) \in Nat
        BY <1>3, StartMonotone DEF Units
      <4>. QED
        BY <2>4, <2>5, <4>1, <4>2, <4>3, <4>4 DEF Start
    <3>2. Value(key)' = Value(key) \/ key # Key(c, h, u)
      BY <3>1
    <3>3. PICK j : j = Key(c, h, u)
      OBVIOUS
    <3>4. Value(j)' = Value(j)
      BY <1>7, <3>1, <3>3
    <3>. QED
      BY <3>3, <3>4 DEF Value, Key, StartOf
  <2>6. CASE k # key
    <3>1. Value(k)' = Value(k)
      BY <1>7, <2>6
    <3>2. Value(Key(c, h, now))' = Value(Key(c, h, now))
      BY <2>2, <3>1 DEF Value
    <3>3. Over(Key(c, h, now))' \subseteq Over(Key(c, h, now))
      BY <2>2, <2>3 DEF Over
    <3>4. \A x \in Int : x >= x
      OBVIOUS
    <3>. QED
      BY <1>1, <2>1, <2>5, <3>2, <3>3, <3>4, CountsKept, ValueType DEF OverInv, IInv
  <2>7. CASE k = key
    <3> DEFINE x == Cardinality(Counted(c, h))
               y == Cardinality(Counted(c, h)')
               o == Cardinality(Over(k))
               m == Cardinality(Over(k)')
    <3>1. c \in AppQuota /\ c.cost = limits.costPerPost /\ c.cost \in Nat
      BY <2>2, <2>4, <2>7, OneByName, CounterTypes DEF IInv
    <3>2. /\ Counted(c, h) \in SUBSET Posts /\ Counted(c, h)' \in SUBSET Posts
          /\ Over(k) \in SUBSET Posts /\ Over(k)' \in SUBSET Posts
      BY Sizes DEF Counted, SentIn, Over
    <3>3. x \in Nat /\ y \in Nat /\ y <= x
      BY <2>1, <3>2, Smaller
    <3>4. o \in Nat /\ m \in Nat /\ m = o - 1
      BY <2>3, <2>7, <3>2, Finite, FS_RemoveElement
    <3>5. c.cost * (x + o) <= Value(k)
      BY <2>2 DEF OverInv, CountInv
    <3>6. Value(k) \in Int /\ Value(k)' \in Int /\ Value(k)' >= Value(k) - c.cost
      <4>1. Value(k) \in Int /\ Value(k)' \in Int
        BY ValueType DEF IInv, TypeInv, Value
      <4>. QED
        BY <1>7, <3>1, <4>1
    <3> HIDE DEF x, y, o, m
    <3>7. y + m \in Nat /\ (y + m) + 1 \in Nat /\ (y + m) + 1 <= x + o
      BY <3>3, <3>4
    <3>8. /\ c.cost * (y + m) \in Nat /\ c.cost * ((y + m) + 1) = c.cost * (y + m) + c.cost
          /\ c.cost * ((y + m) + 1) <= c.cost * (x + o) /\ c.cost * (x + o) \in Nat
      BY <3>1, <3>3, <3>4, <3>7, Product
    <3>9. c.cost * (y + m) <= Value(k)'
      BY <3>1, <3>5, <3>6, <3>8
    <3>10. /\ c.cost * (Cardinality(Counted(c, h)') + Cardinality(Over(Key(c, h, now))'))
                 <= Value(Key(c, h, now))'
      BY <2>2, <3>9 DEF y, m, Over, Value
    <3>11. ASSUME NEW u \in Nat, StartOf(c.unit, u) > Start(c)
           PROVE  Value(Key(c, h, u))' >= 0
      BY <2>5, <3>11 DEF OverInv, CountInv
    <3>12. Start(c)' = Start(c)
      BY <1>1 DEF Start, StartOf
    <3>. QED
      BY <3>10, <3>11, <3>12 DEF CountInv
  <2>. QED
    BY <2>6, <2>7
<1>. QED
  BY <1>1, <1>2, <1>4, <1>8, OverKept

LEMMA ChecksKeepOver ==
  ASSUME IInv, IInv', Plain, OverInv, NEW p \in Posts, CheckNow(p) \/ StartJob(p)
  PROVE  OverInv'
<1> DEFINE S == {q \in InFlight : post[q].kind = "scheduled"}
<1>1. S \in SUBSET Posts /\ S' \in SUBSET Posts
  BY DEF InFlight
<1>2. /\ UNCHANGED <<platform, faults, now, count>> /\ FrameOK(p)
      /\ platform.maxConcurrency \in Nat /\ Cardinality(S) <= platform.maxConcurrency
  BY DEF CheckNow, StartJob, OverInv, FlightInv, IInv, TypeInv, Platforms
<1>3. Cardinality(S) \in Nat /\ Cardinality(S') \in Nat
  BY <1>1, Finite
<1>4. CASE CheckNow(p)
  <2>1. Becomes(p, "publish", "now", post[p].sentAt, post[p].left, post[p].key)
    BY <1>4, BecomesOfRequest DEF IInv, TypeInv
  <2>2. post[p].pc = "new" /\ Refusals(AccountOf[p], UserOf[AccountOf[p]]) = {}
    BY <1>4 DEF CheckNow
  <2>3. S' \subseteq S
    BY <2>1 DEF InFlight, Becomes, Only
  <2>4. Cardinality(S') <= Cardinality(S)
    BY <1>1, <2>3, Smaller
  <2>5. FlightInv'
    BY <1>2, <1>3, <2>4 DEF FlightInv
  <2>. QED
    BY <1>2, <2>1, <2>2, <2>5, StartKeepsOver
<1>5. CASE StartJob(p) /\ Refusals(AccountOf[p], UserOf[AccountOf[p]]) = {}
  <2>1. Goes(p, "publish")
    BY <1>5, BecomesOfSchedule DEF IInv, TypeInv
  <2>2. post[p].pc = "queued" /\ Cardinality(S) < platform.maxConcurrency
    BY <1>5 DEF StartJob
  <2>3. post[p].kind = "scheduled"
    BY <1>2, <2>2 DEF FrameOK
  <2>4. S' \subseteq S \cup {p}
    BY <2>1 DEF InFlight, Goes, Becomes, Only
  <2>5. IsFiniteSet(S \cup {p}) /\ Cardinality(S \cup {p}) <= Cardinality(S) + 1
    BY <1>1, <1>3, Finite, FS_AddElement
  <2>6. Cardinality(S') <= Cardinality(S \cup {p}) /\ Cardinality(S \cup {p}) \in Nat
    BY <1>1, <2>4, Smaller
  <2>7. Cardinality(S') <= platform.maxConcurrency
    BY <1>2, <1>3, <2>2, <2>5, <2>6
  <2>8. FlightInv'
    BY <1>2, <2>7 DEF FlightInv
  <2>. QED
    BY <1>2, <1>5, <2>1, <2>2, <2>3, <2>8, StartKeepsOver DEF Goes
<1>6. CASE StartJob(p) /\ Refusals(AccountOf[p], UserOf[AccountOf[p]]) # {}
  <2>1. Goes(p, "refused")
    BY <1>6, BecomesOfSchedule DEF IInv, TypeInv
  <2>2. post[p].pc = "queued"
    BY <1>6 DEF StartJob
  <2>3. FrameOK(p)'
    BY <1>2, <2>1, <2>2, PlatformKept DEF FrameOK, Goes, Becomes
  <2>4. \A k : Value(k)' >= Value(k)
    BY <1>2, ValueType DEF Value, IInv
  <2>. QED
    BY <1>2, <2>1, <2>2, <2>3, <2>4, QuietKeepsOver DEF Goes
<1>. QED
  BY <1>4, <1>5, <1>6

LEMMA QuietStepsKeepOver ==
  ASSUME IInv, IInv', Plain, OverInv, NEW p \in Posts,
         \/ \E at \in 1 .. (MaxTime + 1) : Validate(p, at)
         \/ ReserveSlots(p) \/ ScheduleCheck(p) \/ ReadBudget(p) \/ Enqueue(p)
  PROVE  OverInv'
<1>1. UNCHANGED <<platform, faults, now, count>>
  BY DEF Validate, ReserveSlots, ScheduleCheck, ReadBudget, Enqueue
<1>2. FrameOK(p) /\ \A k : Value(k)' >= Value(k)
  BY <1>1, ValueType DEF Value, IInv, OverInv
<1>3. CASE \E at \in 1 .. (MaxTime + 1) : Validate(p, at)
  <2>1. /\ Becomes(p, "schedule", "scheduled", post[p].sentAt, post[p].left, post[p].key)
        /\ post[p].pc = "new"
    BY <1>3, BecomesOfRequest DEF IInv, TypeInv, Validate
  <2>2. FrameOK(p)' /\ post[p].kind = "none"
    BY <1>1, <1>2, <2>1, PlatformKept DEF FrameOK, Becomes
  <2>. QED
    BY <1>1, <1>2, <2>1, <2>2, QuietKeepsOver
<1>4. CASE ReserveSlots(p)
  <2>1. Goes(p, post[p].pc)
    BY <1>4, BecomesOfRequest DEF IInv, TypeInv
  <2>2. FrameOK(p)'
    BY <1>1, <1>2, <2>1, PlatformKept DEF FrameOK, Goes, Becomes, QKey, StartOf
  <2>. QED
    BY <1>1, <1>2, <2>1, <2>2, QuietKeepsOver DEF Goes
<1>5. CASE ScheduleCheck(p) \/ ReadBudget(p) \/ Enqueue(p)
  <2>1. PICK pc \in {"budget", "multi", "enqueue", "queued"} : Goes(p, pc)
    BY <1>5, BecomesOfSchedule DEF IInv, TypeInv
  <2>2. post[p].pc \in {"schedule", "budget", "enqueue"}
    BY <1>5 DEF ScheduleCheck, ReadBudget, Enqueue
  <2>3. FrameOK(p)'
    BY <1>1, <1>2, <2>1, <2>2, PlatformKept DEF FrameOK, Goes, Becomes
  <2>. QED
    BY <1>1, <1>2, <2>1, <2>2, <2>3, QuietKeepsOver DEF Goes
<1>. QED
  BY <1>3, <1>4, <1>5

LEMMA BoundType ==
  ASSUME TypeInv, NEW c \in Counters
  PROVE  /\ Concurrent \in Nat /\ Bound(c) \in Nat
         /\ c.limit + (Concurrent - 1) * c.cost <= Bound(c)
<1> DEFINE m == Concurrent
           z == (m - 1) * c.cost
<1>1. c.cost \in Nat /\ c.limit \in Nat
  BY CounterTypes
<1>2. m \in Nat
  <2>1. {p \in Posts : post[p].kind = "now"} \in SUBSET Posts /\ platform.maxConcurrency \in Nat
    BY DEF TypeInv, Platforms
  <2>. QED
    BY <2>1, Finite DEF Concurrent
<1>3. Bound(c) = Later(0, c.limit + z)
  BY DEF Bound
<1> HIDE DEF m
<1>4. z \in Int
  BY <1>1, <1>2
<1> HIDE DEF z
<1>5. Bound(c) \in Nat /\ c.limit + z <= Bound(c)
  BY <1>1, <1>3, <1>4 DEF Later
<1>. QED
  BY <1>2, <1>5 DEF m, z

\* Room for what is being sent.
LEMMA PublishingFits ==
  ASSUME IInv, Plain, OverInv, NEW c \in Counters, NEW h \in Accounts
  PROVE  c.cost * Cardinality(Publishing(c, h)) <= Bound(c) /\ Bound(c) \in Nat
<1> DEFINE n == Cardinality(Publishing(c, h))
           m == Concurrent
           z == (m - 1) * c.cost
<1>1. c.cost \in Nat /\ c.limit \in Nat /\ n \in Nat
  BY CounterTypes, Sizes, Finite DEF IInv
<1>2. m \in Nat /\ Bound(c) \in Nat /\ c.limit + z <= Bound(c)
  BY BoundType DEF IInv
<1> HIDE DEF n, m
<1>3. z \in Int /\ z + c.cost = c.cost * m
  <2>1. ASSUME NEW x \in Nat, NEW y \in Nat
        PROVE  (x - 1) * y \in Int /\ (x - 1) * y + y = y * x
    OBVIOUS
  <2>. QED
    BY <1>1, <1>2, <2>1
<1> HIDE DEF z
<1>6. CASE Publishing(c, h) = {}
  <2>1. n = 0
    BY <1>6, FS_EmptySet DEF n
  <2>2. c.cost * n = 0
    BY <1>1, <2>1
  <2>. QED
    BY <1>2, <2>2 DEF n
<1>7. CASE Publishing(c, h) # {}
  <2>1. c.cost <= c.limit
    BY <1>7 DEF Publishing, OverInv, FrameOK, Fits
  <2>2. n <= Cardinality(InFlight) /\ Cardinality(InFlight) \in Nat
    <3>1. Publishing(c, h) \subseteq InFlight
      BY DEF Publishing, InFlight
    <3>. QED
      BY <3>1, Sizes, Smaller DEF n
  <2>3. Cardinality(InFlight) <= m
    <3>1. \A p \in Posts : post[p].pc \in {"publish", "count"} =>
                               post[p].kind \in {"scheduled", "now"}
      BY DEF OverInv, FrameOK
    <3>2. {p \in InFlight : post[p].kind = "scheduled"} =
              {p \in Posts : post[p].pc \in {"publish", "count"} /\ post[p].kind = "scheduled"}
      BY DEF InFlight
    <3>3. /\ platform.maxConcurrency \in Nat
          /\ Cardinality({p \in Posts : post[p].pc \in {"publish", "count"}
                                        /\ post[p].kind = "scheduled"})
               <= platform.maxConcurrency
      BY <3>2 DEF OverInv, FlightInv, IInv, TypeInv, Platforms
    <3>4. Cardinality({p \in Posts : post[p].pc \in {"publish", "count"}})
              <= platform.maxConcurrency + Cardinality({p \in Posts : post[p].kind = "now"})
      BY <3>1, <3>3, FlightSize
    <3>. QED
      BY <3>4 DEF InFlight, Concurrent, m
  <2>4. c.cost * n <= c.cost * m /\ c.cost * n \in Nat /\ c.cost * m \in Nat
    BY <1>1, <1>2, <2>2, <2>3, Product
  <2>5. c.cost * n <= Bound(c)
    BY <1>1, <1>2, <1>3, <2>1, <2>4
  <2>. QED
    BY <1>2, <2>5 DEF n
<1>. QED
  BY <1>6, <1>7

\* A new window has counted nothing, and only what is being sent may still be sent in it.
LEMMA TickKeepsOver ==
  ASSUME IInv, IInv', Plain, OverInv, Tick
  PROVE  OverInv'
<1>1. /\ UNCHANGED <<platform, faults, count, post>>
      /\ now \in Nat /\ now' = now + 1 /\ now' \in Nat /\ now <= now'
  BY DEF Tick, IInv, TypeInv
<1>2. \A q \in Posts : FrameOK(q)'
  BY <1>1, FrameKept DEF OverInv
<1>3. FlightInv'
  BY <1>1 DEF OverInv, FlightInv, InFlight
<1>4. ASSUME NEW c \in Counters, NEW h \in Accounts PROVE CountInv(c, h)' /\ BoundInv(c, h)'
  <2>1. /\ Start(c) \in Nat /\ Start(c)' \in Nat /\ Start(c) <= Start(c)'
        /\ Start(c)' = StartOf(c.unit, now') /\ c.cost \in Nat
    <3>1. c.unit \in Units /\ c.cost \in Nat
      BY CounterTypes DEF IInv
    <3>2. \A t, u \in Nat : t <= u => /\ StartOf(c.unit, t) \in Nat /\ StartOf(c.unit, u) \in Nat
                                      /\ StartOf(c.unit, t) <= StartOf(c.unit, u)
      BY <3>1, StartMonotone
    <3>3. Start(c)' = StartOf(c.unit, now')
      BY DEF Start, StartOf
    <3>. QED
      BY <1>1, <3>1, <3>2, <3>3 DEF Start
  <2>2. /\ \A s : SentIn(c, h, s)' = SentIn(c, h, s)
        /\ Publishing(c, h)' = Publishing(c, h) /\ Uncounted(c)' = Uncounted(c)
        /\ Bound(c)' = Bound(c)
        /\ \A k : Over(k)' = Over(k) /\ Value(k)' = Value(k)
        /\ \A t : Key(c, h, t)' = Key(c, h, t) /\ StartOf(c.unit, t)' = StartOf(c.unit, t)
    BY <1>1, PlatformKept DEF SentIn, StartOf, Publishing, Uncounted, Bound, Concurrent, Over,
                              Value, Key
  <2>3. CountInv(c, h) /\ BoundInv(c, h)
    BY DEF OverInv
  <2>4. PICK u : u = now'
    OBVIOUS
  <2>5. Key(c, h, now)' = Key(c, h, u)
    BY <2>4 DEF Key, StartOf
  <2>6. /\ Start(c)' = StartOf(c.unit, u)
        /\ Counted(c, h)' = SentIn(c, h, StartOf(c.unit, u)) \ Uncounted(c)
        /\ SentIn(c, h, Start(c))' = SentIn(c, h, StartOf(c.unit, u))
        /\ Over(Key(c, h, now))' = Over(Key(c, h, u))
        /\ Value(Key(c, h, now))' = Value(Key(c, h, u))
    BY <1>1, <2>1, <2>2, <2>4, <2>5 DEF Counted, SentIn, Over, Value, StartOf, Start
  <2>7. CASE StartOf(c.unit, u) = Start(c)
    <3>1. Key(c, h, u) = Key(c, h, now)
      BY <2>7 DEF Key, Start
    <3>2. CountInv(c, h)'
      BY <2>2, <2>3, <2>6, <2>7, <3>1 DEF CountInv, Counted
    <3>3. BoundInv(c, h)'
      BY <2>2, <2>3, <2>6, <2>7 DEF BoundInv
    <3>. QED
      BY <3>2, <3>3
  <2>8. CASE StartOf(c.unit, u) > Start(c)
    <3>1. SentIn(c, h, StartOf(c.unit, u)) = {}
      <4>1. SUFFICES ASSUME NEW p \in Posts, post[p].sentAt # NoTime,
                            StartOf(c.unit, post[p].sentAt) = StartOf(c.unit, u)
                     PROVE  FALSE
        BY DEF SentIn
      <4>2. post[p].sentAt \in 0 .. now
        BY <4>1 DEF OverInv, FrameOK
      <4>3. c.unit \in Units
        BY CounterTypes DEF IInv
      <4>4. /\ StartOf(c.unit, post[p].sentAt) <= StartOf(c.unit, now)
            /\ StartOf(c.unit, post[p].sentAt) \in Nat
        BY <1>1, <4>2, <4>3, StartMonotone
      <4>. QED
        BY <2>1, <2>8, <4>1, <4>4 DEF Start
    <3>2. Over(Key(c, h, u)) = {}
      <4>1. SUFFICES ASSUME NEW p \in Posts, post[p].pc = "rollback",
                            post[p].key = Key(c, h, u)
                     PROVE  FALSE
        BY DEF Over
      <4>2. PICK t \in 0 .. now : post[p].key = QKey(StartOf("day", t))
        BY <4>1 DEF OverInv, FrameOK
      <4>3. c.name = "appQuota" /\ StartOf(c.unit, u) = StartOf("day", t)
        BY <4>1, <4>2 DEF Key, QKey
      <4>4. c.unit = "day"
        BY <4>3, OneByName, CounterTypes DEF IInv
      <4>5. StartOf("day", t) <= StartOf("day", now) /\ StartOf("day", t) \in Nat
        BY <1>1, StartMonotone DEF Units
      <4>. QED
        BY <2>1, <2>8, <4>3, <4>4, <4>5 DEF Start
    <3>3. CountInv(c, h)'
      <4>1. Cardinality({}) = 0
        BY FS_EmptySet
      <4>2. Counted(c, h)' = {} /\ Over(Key(c, h, now))' = {}
        BY <2>6, <3>1, <3>2
      <4>3. Value(Key(c, h, u)) >= 0
        BY <1>1, <2>3, <2>4, <2>8 DEF CountInv
      <4>4. c.cost * (0 + 0) = 0
        BY <2>1
      <4>5. c.cost * (Cardinality(Counted(c, h)') + Cardinality(Over(Key(c, h, now))'))
                <= Value(Key(c, h, now))'
        BY <2>6, <4>1, <4>2, <4>3, <4>4
      <4>6. ASSUME NEW t \in Nat, StartOf(c.unit, t)' > Start(c)'
            PROVE  Value(Key(c, h, t))' >= 0
        <5>1. StartOf(c.unit, t) > Start(c)
          <6>1. StartOf(c.unit, t) > StartOf(c.unit, u)
            BY <2>2, <2>6, <4>6
          <6>2. StartOf(c.unit, t) \in Nat /\ StartOf(c.unit, u) \in Nat
            BY <1>1, <2>4, StartMonotone, CounterTypes DEF IInv
          <6>. QED
            BY <2>1, <2>8, <6>1, <6>2
        <5>2. Value(Key(c, h, t)) >= 0
          BY <2>3, <5>1 DEF CountInv
        <5>. QED
          BY <1>1, <5>2 DEF Value, Key, StartOf
      <4>. QED
        BY <4>5, <4>6 DEF CountInv, StartOf
    <3>4. BoundInv(c, h)'
      <4>1. (SentIn(c, h, Start(c)) \cup Publishing(c, h))' = Publishing(c, h)
        BY <2>2, <2>6, <3>1
      <4>2. c.cost * Cardinality(Publishing(c, h)) <= Bound(c)
        BY PublishingFits
      <4>. QED
        BY <2>2, <2>3, <4>1, <4>2 DEF BoundInv
    <3>. QED
      BY <3>3, <3>4
  <2>. QED
    BY <2>1, <2>6, <2>7, <2>8
<1>. QED
  BY <1>1, <1>2, <1>3, <1>4, PlatformKept DEF OverInv

LEMMA NextOver == IInv /\ OverInv /\ [Next]_vars => OverInv'
<1> SUFFICES ASSUME IInv, OverInv, [Next]_vars PROVE OverInv'
  OBVIOUS
<1>0. IInv'
  BY NextIInv
<1>1. UNCHANGED faults
  <2>1. ASSUME NEW p \in Posts,
               \/ \E at \in 1 .. (MaxTime + 1) : Validate(p, at)
               \/ CheckNow(p) \/ ReserveSlots(p) \/ ScheduleCheck(p) \/ ReadBudget(p)
               \/ ReserveQuota(p) \/ RollBack(p) \/ Enqueue(p) \/ StartJob(p)
        PROVE  UNCHANGED faults
    BY <2>1 DEF Validate, CheckNow, ReserveSlots, ScheduleCheck, ReadBudget, ReserveQuota,
                RollBack, Enqueue, StartJob
  <2>2. ASSUME NEW p \in Posts,
               \/ Retry(p) \/ Publish(p) \/ IncrementUsage(p) \/ IncrementAppUsage(p)
               \/ Delete(p) \/ ReleaseSlots(p) \/ DecrementRead(p) \/ Decrement(p)
               \/ DecrementApp(p)
        PROVE  UNCHANGED faults
    BY <2>2 DEF Retry, Publish, IncrementUsage, IncrementAppUsage, Delete, ReleaseSlots,
                DecrementRead, Decrement, DecrementApp
  <2>3. CASE Tick \/ UNCHANGED vars
    BY <2>3 DEF Tick, vars
  <2>. QED
    BY <2>1, <2>2, <2>3 DEF Next
<1>2. SUFFICES ASSUME Plain PROVE OverInv'
  BY <1>1 DEF OverInv, Plain
<1>3. CASE UNCHANGED vars
  <2>1. UNCHANGED <<platform, faults, now, count, post>>
    BY <1>3 DEF vars
  <2>2. \A q \in Posts : FrameOK(q)'
    <3>1. now \in Nat /\ now' \in Nat /\ now <= now'
      BY <2>1 DEF IInv, TypeInv
    <3>. QED
      BY <1>2, <2>1, <3>1, FrameKept DEF OverInv
  <2>3. FlightInv'
    BY <1>2, <2>1 DEF OverInv, FlightInv, InFlight
  <2>4. ASSUME NEW c \in Counters, NEW h \in Accounts PROVE CountInv(c, h)' /\ BoundInv(c, h)'
    <3>1. CountInv(c, h) /\ BoundInv(c, h)
      BY <1>2 DEF OverInv
    <3>. QED
      BY <2>1, <3>1, PlatformKept
         DEF CountInv, BoundInv, Counted, SentIn, Uncounted, Publishing, Over, Bound, Concurrent,
             Value, Key, Start, StartOf
  <2>. QED
    BY <2>1, <2>2, <2>3, <2>4, PlatformKept DEF OverInv
<1>4. CASE Tick
  BY <1>0, <1>1, <1>2, <1>4, TickKeepsOver
<1>5. ASSUME NEW p \in Posts,
             \/ \E at \in 1 .. (MaxTime + 1) : Validate(p, at)
             \/ ReserveSlots(p) \/ ScheduleCheck(p) \/ ReadBudget(p) \/ Enqueue(p)
      PROVE  OverInv'
  BY <1>0, <1>1, <1>2, <1>5, QuietStepsKeepOver
<1>6. ASSUME NEW p \in Posts, CheckNow(p) \/ StartJob(p) PROVE OverInv'
  BY <1>0, <1>1, <1>2, <1>6, ChecksKeepOver
<1>7. ASSUME NEW p \in Posts, ReserveQuota(p) \/ RollBack(p) PROVE OverInv'
  BY <1>0, <1>1, <1>2, <1>7, ReserveKeepsOver, RollBackKeepsOver
<1>8. ASSUME NEW p \in Posts, Publish(p) \/ IncrementUsage(p) \/ IncrementAppUsage(p)
      PROVE  OverInv'
  BY <1>0, <1>1, <1>2, <1>8, PublishKeepsOver, IncrementKeepsOver
<1>9. ASSUME NEW p \in Posts,
             \/ Retry(p) \/ Delete(p)
             \/ ReleaseSlots(p) \/ DecrementRead(p) \/ Decrement(p) \/ DecrementApp(p)
      PROVE  OverInv'
  <2>1. post[p].pc \notin {"delete", "decrement"}
    BY <1>2 DEF OverInv, FrameOK
  <2>. QED
    BY <1>2, <1>9, <2>1
       DEF Plain, Retry, Delete, ReleaseSlots, DecrementRead, Decrement, DecrementApp
<1>. QED
  BY <1>3, <1>4, <1>5, <1>6, <1>7, <1>8, <1>9 DEF Next

LEMMA InitOver == Init => OverInv
<1> SUFFICES ASSUME Init PROVE OverInv
  OBVIOUS
<1>1. IInv
  BY InitIInv
<1>2. \A p \in Posts : /\ post[p].pc \in {"new", "deleted"} /\ post[p].kind = "none"
                       /\ post[p].sentAt = NoTime
  BY DEF Init, NewPost, NoPost
<1>3. Cardinality({}) = 0 /\ \A k : Value(k) = 0
  BY FS_EmptySet DEF Init, Value
<1>4. \A p \in Posts : FrameOK(p)
  BY <1>2 DEF FrameOK
<1>5. FlightInv
  <2> DEFINE S == {p \in InFlight : post[p].kind = "scheduled"}
  <2>1. S = {}
    BY <1>2 DEF InFlight
  <2>2. platform.maxConcurrency \in Nat
    BY <1>1 DEF IInv, TypeInv, Platforms
  <2>3. Cardinality(S) <= platform.maxConcurrency
    <3> HIDE DEF S
    <3>. QED
      BY <1>3, <2>1, <2>2
  <2>. QED
    BY <2>3 DEF FlightInv
<1>6. ASSUME NEW c \in Counters, NEW h \in Accounts PROVE CountInv(c, h) /\ BoundInv(c, h)
  <2>1. /\ \A s : SentIn(c, h, s) = {}
        /\ Counted(c, h) = {} /\ Publishing(c, h) = {} /\ \A k : Over(k) = {}
    BY <1>2 DEF SentIn, Counted, Publishing, Over
  <2>2. c.cost * (0 + 0) = 0 /\ c.cost * 0 = 0
    BY <1>1, CounterTypes DEF IInv
  <2>3. Bound(c) >= 0
    BY <1>1, BoundType DEF IInv
  <2>4. SentIn(c, h, Start(c)) \cup Publishing(c, h) = {}
    BY <2>1
  <2>5. BoundInv(c, h)
    BY <1>3, <2>1, <2>2, <2>3, <2>4 DEF BoundInv
  <2>6. c.cost * (Cardinality(Counted(c, h)) + Cardinality(Over(Key(c, h, now))))
            <= Value(Key(c, h, now))
    BY <1>3, <2>1, <2>2
  <2>7. CountInv(c, h)
    BY <1>3, <2>6 DEF CountInv
  <2>. QED
    BY <2>5, <2>7
<1>. QED
  BY <1>4, <1>5, <1>6 DEF OverInv

LEMMA OverImplies == OverInv => OvershootBounded
<1> SUFFICES ASSUME OverInv, Plain, NEW c \in Counters, NEW a \in Accounts,
                    NEW t \in 0 .. MaxTime
             PROVE  c.cost * Cardinality(SentIn(c, a, StartOf(c.unit, t))) <= Bound(c)
  BY DEF OvershootBounded, Plain, Counters, Bound
<1>. QED
  BY DEF OverInv, BoundInv

-----------------------------------------------------------------------------
(* What TypeOK says beyond TypeInv                                          *)

Progress ==
    Ends \cup {"new", "schedule", "budget", "multi", "rollback", "delete", "decrement"}

Placed(f) == f.pc \in Progress /\ f.slot \in {"none", "validated", "reserved"}

RestInv ==
    /\ faults \subseteq Kinds /\ now \in 0 .. MaxTime
    /\ \A d \in DOMAIN users : users[d] \subseteq {UserOf[a] : a \in Accounts}
    /\ \A p \in Posts : Placed(post[p])

LEMMA InitRest == Init => RestInv
<1> SUFFICES ASSUME Init
             PROVE  RestInv
  OBVIOUS
<1>1. \A p \in Posts : Placed(post[p])
  BY DEF Init, NewPost, NoPost, Placed, Progress, Ends
<1>2. faults \subseteq Kinds /\ now \in 0 .. MaxTime
  BY RateLimitsAssumption DEF Init
<1>. QED
  BY <1>1, <1>2 DEF RestInv, Init

LEMMA RestStep ==
  ASSUME RestInv, NEW p \in Posts, Only(p), Placed(post'[p]),
         UNCHANGED <<faults, now, users>>
  PROVE  RestInv'
  BY DEF RestInv, Only, Placed

\* incrementAppUsage adds the tenant of the post's account to the day's users.
LEMMA UsersStep ==
  ASSUME RestInv, NEW p \in Posts, IncrementAppUsage(p), Only(p), Placed(post'[p])
  PROVE  RestInv'
<1> DEFINE today == StartOf("day", now)
           T == {UserOf[a] : a \in Accounts}
<1>1. /\ UNCHANGED <<faults, now>>
      /\ users' = IF limits.appDailyLimit = 0 THEN users
                  ELSE [d \in DOMAIN users \cup {today} |->
                          IF d = today THEN UsersOf(d) \cup {UserOf[AccountOf[p]]}
                          ELSE users[d]]
  BY DEF IncrementAppUsage
<1>2. UsersOf(today) \subseteq T /\ UserOf[AccountOf[p]] \in T
  BY RateLimitsAssumption DEF UsersOf, RestInv
<1> HIDE DEF today
<1>3. \A d \in DOMAIN users' : users'[d] \subseteq T
  BY <1>1, <1>2 DEF RestInv
<1>. QED
  BY <1>1, <1>3 DEF RestInv, Only, Placed

LEMMA NextRest == IInv /\ RestInv /\ [Next]_vars => RestInv'
<1> SUFFICES ASSUME IInv, RestInv, [Next]_vars
             PROVE  RestInv'
  OBVIOUS
<1>0. Framed
  BY DEF IInv, TypeInv
<1>1. CASE Tick \/ UNCHANGED vars
  <2>1. UNCHANGED <<faults, users, post>> /\ now' \in 0 .. MaxTime
    BY <1>1, RateLimitsAssumption DEF Tick, vars, RestInv
  <2>. QED
    BY <2>1 DEF RestInv, Placed
<1>2. ASSUME NEW p \in Posts, NEW at \in 1 .. (MaxTime + 1), Validate(p, at)
      PROVE  RestInv'
  <2>1. Only(p) /\ post'[p].slot = "validated" /\ post'[p].pc = "schedule"
    BY <1>0, <1>2, ValidateFrame
  <2>2. UNCHANGED <<faults, now, users>>
    BY <1>2 DEF Validate
  <2>. QED
    BY <2>1, <2>2, RestStep DEF Placed, Progress
<1>3. ASSUME NEW p \in Posts, CheckNow(p)
      PROVE  RestInv'
  <2>1. Only(p) /\ post'[p].slot = "validated" /\ post'[p].pc = "publish"
    BY <1>0, <1>3, CheckNowFrame
  <2>2. UNCHANGED <<faults, now, users>>
    BY <1>3 DEF CheckNow
  <2>. QED
    BY <2>1, <2>2, RestStep DEF Placed, Progress, Ends
<1>4. ASSUME NEW p \in Posts, ReserveSlots(p)
      PROVE  RestInv'
  <2>1. Only(p) /\ post'[p].slot = "reserved" /\ post'[p].pc = post[p].pc
    BY <1>0, <1>4, ReserveSlotsFrame
  <2>2. UNCHANGED <<faults, now, users>>
    BY <1>4 DEF ReserveSlots
  <2>3. Placed(post[p])
    BY DEF RestInv
  <2>. QED
    BY <2>1, <2>2, <2>3, RestStep DEF Placed
<1>5. ASSUME NEW p \in Posts, ScheduleCheck(p) \/ ReadBudget(p) \/ ReserveQuota(p)
      PROVE  RestInv'
  <2>1. /\ Only(p) /\ post'[p].slot = post[p].slot
        /\ post'[p].pc \in {"budget", "enqueue", "multi", "rollback"}
    BY <1>0, <1>5, ScheduleFrame, BudgetFrame, QuotaFrame DEF Else
  <2>2. UNCHANGED <<faults, now, users>>
    BY <1>5 DEF ScheduleCheck, ReadBudget, ReserveQuota
  <2>3. Placed(post[p])
    BY DEF RestInv
  <2>. QED
    BY <2>1, <2>2, <2>3, RestStep DEF Placed, Progress, Ends
<1>6. ASSUME NEW p \in Posts,
             \/ RollBack(p) \/ Enqueue(p) \/ StartJob(p) \/ Retry(p) \/ Publish(p)
             \/ IncrementUsage(p) \/ IncrementAppUsage(p) \/ Delete(p) \/ ReleaseSlots(p)
             \/ DecrementRead(p) \/ DecrementApp(p)
      PROVE  RestInv'
  <2>1. Else(p) /\ post'[p].pc \in Ends \cup {"delete", "decrement"}
    BY <1>0, <1>6, CallFrame
  <2>2. Only(p) /\ Placed(post'[p])
    BY <2>1 DEF Else, RestInv, Placed, Progress
  <2>3. IncrementAppUsage(p) \/ UNCHANGED <<faults, now, users>>
    BY <1>6 DEF RollBack, Enqueue, StartJob, Retry, Publish, IncrementUsage, Delete,
                ReleaseSlots, DecrementRead, DecrementApp
  <2>. QED
    BY <2>2, <2>3, RestStep, UsersStep
<1>7. ASSUME NEW p \in Posts, Decrement(p)
      PROVE  RestInv'
  <2>1. Else(p) /\ post'[p].pc = "delete"
    BY <1>0, <1>7, DecrementFrame
  <2>2. Only(p) /\ Placed(post'[p])
    BY <2>1 DEF Else, RestInv, Placed, Progress
  <2>3. UNCHANGED <<faults, now, users>>
    BY <1>7 DEF Decrement
  <2>. QED
    BY <2>2, <2>3, RestStep
<1>. QED
  BY <1>1, <1>2, <1>3, <1>4, <1>5, <1>6, <1>7 DEF Next

(* Every reachable state is well typed: a day never has fewer than zero     *)
(* scheduled posts (incrementScheduledCount), a post goes only where        *)
(* createPost, schedulePost, handleJob and deletePost take it.              *)
THEOREM TypeCorrect == Spec => []TypeOK
<1>1. Spec => []IInv
  BY SpecIInv
<1>2. Spec => []RestInv
  BY <1>1, InitRest, NextRest, PTL DEF Spec
<1>3. IInv /\ RestInv => TypeOK
  BY DEF IInv, TypeInv, RestInv, Placed, Progress, Ends, TypeOK
<1>. QED
  BY <1>1, <1>2, <1>3, PTL

(* However many posts a tenant schedules at once, the slots of a day exceed *)
(* the limit by at most the requests between validatePlatformQuotas and     *)
(* reservePlatformSlots, less one (PlatformQuotaService, createPost).       *)
THEOREM SlotsStayBounded == Spec => []SlotsBounded
<1>1. IInv => SlotsBounded
  BY IInvSlots
<1>. QED
  BY <1>1, SpecIInv, PTL

(* reserveQuota's MULTI and its rollback never promise more of a day's      *)
(* quota than YouTube grants, for any quota, cost and number of             *)
(* reservations at once (YouTubeQuotaManager).                              *)
THEOREM QuotaIsNotOversold == Spec => []ReservedWithinQuota
<1>1. IInv => ReservedWithinQuota
  BY IInvQuota
<1>. QED
  BY <1>1, SpecIInv, PTL

(* Every limit is asked before a post is sent and counted after, by other   *)
(* calls (handleJob, incrementUsage), and so a window may get more than its *)
(* limit: by as many posts as are under way at a time, less one.            *)
THEOREM OvershootIsBounded == Spec => []OvershootBounded
<1>1. Spec => []IInv
  BY SpecIInv
<1>2. Spec => []OverInv
  BY <1>1, InitOver, NextOver, PTL DEF Spec
<1>. QED
  BY <1>2, OverImplies, PTL

(* deletePost gives usage back twice, yet a count of posts does not fall    *)
(* below zero by more than deletions that overlap, less one: each may have  *)
(* seen the last unit before another took it (decrementUsage).              *)
THEOREM CountsStayClamped == Spec => []ClampedCount
<1>1. Spec => []IInv
  BY SpecIInv
<1>2. Spec => []ClampInv
  BY <1>1, InitClamp, NextClamp, PTL DEF Spec
<1>. QED
  BY <1>1, <1>2, ClampImplies, PTL
=============================================================================
