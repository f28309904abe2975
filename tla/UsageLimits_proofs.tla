-------------------------- MODULE UsageLimits_proofs --------------------------
(***************************************************************************)
(* Proofs about UsageLimits for any number of requests, jobs and webhooks, *)
(* any limits, add-ons, lengths of months and scenarios:                   *)
(*  - the counter is well typed and no row counts more than its limit,     *)
(*    which needs no strengthening but the types (IInv), since every write *)
(*    of a row is bounded by the limit it writes with it;                  *)
(*  - add-ons add up (AddonInv): there is one row a period, so that a      *)
(*    raise writes the row it has found;                                   *)
(*  - a month without a change of plan is counted (MonthInv): what its row *)
(*    does not count yet is in the hands of a frame;                       *)
(*  - handled one at a time, nothing is used that no plan allows (TurnInv).*)
(***************************************************************************)
EXTENDS UsageLimits, FiniteSetTheorems, TLAPS

RowsInv == rows \in Seq(UsageRow) /\ rows # <<>> /\ UsedWithinLimit

RestInv ==
    /\ faults \in Scenarios /\ counter \in Counters
    /\ now \in Nat
    /\ plan \in PlanRow
    /\ crashed \in BOOLEAN
    /\ changes \in Nat /\ grants \in Nat
    /\ uses \in Nat /\ allow \in Nat /\ excess \in Nat /\ raised \in Nat
    /\ fresh \in BOOLEAN

FramesInv == frame \in [Procs -> Frame]

IInv == RowsInv /\ RestInv /\ FramesInv

LEMMA IInvIsTypeOK == IInv <=> TypeOK /\ UsedWithinLimit
  BY DEF IInv, RowsInv, RestInv, FramesInv, TypeOK

-----------------------------------------------------------------------------
(* The parts of a step *)

LEMMA Kept ==
  ASSUME IInv
  PROVE  /\ UNCHANGED rows => RowsInv'
         /\ UNCHANGED frame => FramesInv'
  BY DEF IInv, RowsInv, FramesInv, UsedWithinLimit

\* What is left alone is typed as before, and the rest one by one.
LEMMA RestMoves ==
  ASSUME IInv, UNCHANGED <<faults, counter, now, crashed, excess>>, plan' \in PlanRow,
         changes' \in Nat, grants' \in Nat, uses' \in Nat, allow' \in Nat,
         raised' \in Nat, fresh' \in BOOLEAN
  PROVE  RestInv'
  BY DEF IInv, RestInv

LEMMA LimitIsNat ==
  ASSUME RestInv
  PROVE  Limit[plan.name][counter] \in Nat
  BY UsageLimitsAssumption DEF RestInv, PlanRow

LEMMA MonthIsInt ==
  ASSUME NEW t \in Nat
  PROVE  MonthOf(t).from \in Int /\ MonthOf(t).to \in Int
<1>1. Month \in Nat \ {0}
  BY UsageLimitsAssumption
<1>2. (t \div Month) \in Int
  BY <1>1
<1>3. (t \div Month) * Month \in Int
  BY <1>1, <1>2
<1>. QED
  BY <1>1, <1>3 DEF MonthOf

LEMMA RowAdded ==
  ASSUME IInv, NEW r \in UsageRow, r.used <= r.limit, rows' = Append(rows, r)
  PROVE  RowsInv'
<1>1. rows \in Seq(UsageRow)
  BY DEF IInv, RowsInv
<1>2. rows' \in Seq(UsageRow) /\ Len(rows') = Len(rows) + 1
  BY <1>1
<1>3. rows' # <<>>
  BY <1>1, <1>2
<1>4. ASSUME NEW i \in 1 .. Len(rows') PROVE rows'[i].used <= rows'[i].limit
  <2>1. rows'[i] = IF i <= Len(rows) THEN rows[i] ELSE r
    BY <1>1, <1>2
  <2>2. i <= Len(rows) => i \in 1 .. Len(rows)
    BY <1>1
  <2>. QED
    BY <2>1, <2>2 DEF IInv, RowsInv, UsedWithinLimit
<1>. QED
  BY <1>2, <1>3, <1>4 DEF RowsInv, UsedWithinLimit

\* Each row is as it was, or another within its limit.
LEMMA RowsRewritten ==
  ASSUME IInv, DOMAIN rows' = 1 .. Len(rows),
         rows' = [i \in 1 .. Len(rows) |-> rows'[i]],
         \A i \in 1 .. Len(rows) :
             \/ rows'[i] = rows[i]
             \/ rows'[i] \in UsageRow /\ rows'[i].used <= rows'[i].limit
  PROVE  RowsInv'
<1>1. rows \in Seq(UsageRow) /\ rows # <<>>
  BY DEF IInv, RowsInv
<1>2. Len(rows) \in Nat \ {0}
  BY <1>1
<1>3. \A i \in 1 .. Len(rows) : rows'[i] \in UsageRow /\ rows'[i].used <= rows'[i].limit
  BY <1>1 DEF IInv, RowsInv, UsedWithinLimit
<1>4. rows' \in Seq(UsageRow) /\ Len(rows') = Len(rows)
  BY <1>2, <1>3
<1>5. rows' # <<>>
  BY <1>2, <1>4
<1>. QED
  BY <1>3, <1>4, <1>5 DEF RowsInv, UsedWithinLimit

LEMMA RowReplaced ==
  ASSUME IInv, NEW k, NEW r, rows' = [rows EXCEPT ![k] = r],
         k \in 1 .. Len(rows) => r \in UsageRow /\ r.used <= r.limit
  PROVE  RowsInv'
<1>1. rows \in Seq(UsageRow)
  BY DEF IInv, RowsInv
<1>2. DOMAIN rows' = 1 .. Len(rows) /\ rows' = [i \in 1 .. Len(rows) |-> rows'[i]]
  <2>1. rows' = [i \in DOMAIN rows |-> IF i = k THEN r ELSE rows[i]]
    OBVIOUS
  <2>2. DOMAIN rows = 1 .. Len(rows)
    BY <1>1
  <2>. QED
    BY <2>1, <2>2
<1>3. \A i \in 1 .. Len(rows) : rows'[i] = IF i = k THEN r ELSE rows[i]
  BY <1>1
<1>. QED
  BY <1>2, <1>3, RowsRewritten

LEMMA FrameMoves ==
  ASSUME IInv, NEW p \in Procs, NEW f \in Frame, frame' = [frame EXCEPT ![p] = f]
  PROVE  FramesInv'
  BY DEF IInv, FramesInv

LEMMA FrameOf == ASSUME IInv, NEW p \in Procs PROVE frame[p] \in Frame
  BY DEF IInv, FramesInv

LEMMA Gone ==
  ASSUME IInv, NEW pc \in {"idle", "publish", "period", "quota", "count", "find",
                           "raise", "reset", "write"}, NEW p \in Procs
  PROVE  /\ Goto(p, pc) => FramesInv'
         /\ Return(p) => FramesInv'
<1>1. frame[p] \in Frame
  BY FrameOf
<1>2. Goto(p, pc) => FramesInv'
  <2>1. [frame[p] EXCEPT !.pc = pc] \in Frame
    BY <1>1 DEF Frame
  <2>2. Goto(p, pc) => frame' = [frame EXCEPT ![p] = [frame[p] EXCEPT !.pc = pc]]
    BY DEF Goto
  <2>. QED
    BY <2>1, <2>2, FrameMoves
<1>3. Return(p) => FramesInv'
  <2>1. Idle \in Frame
    BY DEF Idle, Frame
  <2>. QED
    BY <2>1, FrameMoves DEF Return
<1>. QED
  BY <1>2, <1>3

-----------------------------------------------------------------------------
(* The steps *)

LEMMA TickKeepsIInv == ASSUME IInv, Tick PROVE IInv'
<1>1. RestInv'
  BY LimitIsNat DEF IInv, RestInv, Tick, scenario
<1>. QED
  BY <1>1, Kept DEF Tick, IInv

LEMMA PostStepKeepsIInv == ASSUME IInv, NEW p \in Procs, PostStep(p) PROVE IInv'
<1>1. RestInv'
  BY DEF PostStep, CheckPosts, Publish, UseUnasked, GiveBack, IInv, RestInv, scenario, history
<1>2. RowsInv'
  BY Kept DEF PostStep, CheckPosts, Publish, UseUnasked, GiveBack
<1>3. FramesInv'
  <2>1. CASE Goto(p, "publish")
    BY <2>1, Gone
  <2>2. CASE Publish(p) \/ UseUnasked(p)
    <3> DEFINE f == [frame[p] EXCEPT !.pc = "count", !.delta = 1,
                       !.from = MonthOf(now).from, !.to = MonthOf(now).to]
    <3>1. f \in Frame
      BY FrameOf, MonthIsInt DEF IInv, RestInv, Frame
    <3>2. frame' = [frame EXCEPT ![p] = f]
      BY <2>2 DEF Publish, UseUnasked
    <3>. QED
      BY <3>1, <3>2, FrameMoves
  <2>3. CASE GiveBack(p)
    <3> DEFINE f == [frame[p] EXCEPT !.pc = "count", !.delta = -1,
                       !.from = MonthOf(now).from, !.to = MonthOf(now).to]
    <3>1. f \in Frame
      BY FrameOf, MonthIsInt DEF IInv, RestInv, Frame
    <3>2. frame' = [frame EXCEPT ![p] = f]
      BY <2>3 DEF GiveBack
    <3>. QED
      BY <3>1, <3>2, FrameMoves
  <2>. QED
    BY <2>1, <2>2, <2>3 DEF PostStep, CheckPosts
<1>. QED
  BY <1>1, <1>2, <1>3 DEF IInv

LEMMA AiStepKeepsIInv == ASSUME IInv, NEW p \in Procs, AiStep(p) PROVE IInv'
<1>1. RestInv'
  BY DEF AiStep, AskAi, ReadPeriod, CheckAi, IInv, RestInv, scenario, history
<1>2. RowsInv'
  BY Kept DEF AiStep, AskAi, ReadPeriod, CheckAi
<1>3. FramesInv'
  <2>1. CASE AskAi(p)
    BY <2>1, Gone DEF AskAi
  <2>2. CASE ReadPeriod(p)
    <3> DEFINE f == [frame[p] EXCEPT !.pc = "quota", !.from = plan.from, !.to = plan.to]
    <3>1. f \in Frame
      BY FrameOf DEF IInv, RestInv, PlanRow, Frame
    <3>2. frame' = [frame EXCEPT ![p] = f]
      BY <2>2 DEF ReadPeriod
    <3>. QED
      BY <3>1, <3>2, FrameMoves
  <2>3. CASE CheckAi(p)
    <3> DEFINE f == [frame[p] EXCEPT !.pc = "count", !.delta = 1]
    <3>1. f \in Frame
      BY FrameOf DEF Frame
    <3>2. frame' = [frame EXCEPT ![p] = f] \/ Return(p)
      <4>1. [frame EXCEPT ![p].pc = "count", ![p].delta = 1] = [frame EXCEPT ![p] = f]
        BY FrameOf DEF IInv, FramesInv, Frame
      <4>. QED
        BY <2>3, <4>1 DEF CheckAi
    <3>. QED
      BY <3>1, <3>2, FrameMoves, Gone
  <2>. QED
    BY <2>1, <2>2, <2>3 DEF AiStep
<1>. QED
  BY <1>1, <1>2, <1>3 DEF IInv

LEMMA CountKeepsIInv == ASSUME IInv, NEW p \in Procs, Count(p) PROVE IInv'
<1> DEFINE f == frame[p]
           max == Limit[plan.name][counter]
<1>1. RestInv'
  <2>1. fresh' \in BOOLEAN
    BY DEF Count, IInv, RestInv
  <2>2. uses' \in Nat
    BY DEF Count, IInv, RestInv
  <2>3. UNCHANGED <<scenario, now, plan, crashed, changes, grants, allow, excess, raised>>
    BY DEF Count
  <2>. QED
    BY <2>1, <2>2, <2>3, RestMoves DEF IInv, RestInv, scenario
<1>2. FramesInv'
  BY Gone DEF Count
<1>3. max \in Nat
  BY LimitIsNat DEF IInv
<1>4. f \in Frame
  BY FrameOf
<1>5. Added(f.delta) \in 0 .. max
  BY <1>3, <1>4 DEF Added, Greatest, Least, Frame
<1>6. RowsInv'
  <2>1. CASE UNCHANGED rows
    BY <2>1, Kept
  <2>2. CASE rows' = Upsert(f) /\ RowsOf(f) = {}
    <3> DEFINE r == [from |-> f.from, to |-> f.to, used |-> Added(f.delta), limit |-> max]
    <3>1. r \in UsageRow /\ r.used <= r.limit
      BY <1>3, <1>4, <1>5 DEF UsageRow, Frame
    <3>2. rows' = Append(rows, r)
      BY <2>2 DEF Upsert
    <3>. QED
      BY <3>1, <3>2, RowAdded
  <2>3. CASE rows' = Upsert(f) /\ RowsOf(f) # {}
    <3>1. rows' = [i \in 1 .. Len(rows) |->
                     IF i \in RowsOf(f) THEN Counted(rows[i], f.delta) ELSE rows[i]]
      BY <2>3 DEF Upsert
    <3>2. ASSUME NEW i \in 1 .. Len(rows)
          PROVE  LET c == Counted(rows[i], f.delta) IN c \in UsageRow /\ c.used <= c.limit
      <4>1. rows[i] \in UsageRow
        BY <3>2 DEF IInv, RowsInv
      <4>2. rows[i].used + Added(f.delta) \in Nat
        BY <1>5, <4>1 DEF UsageRow
      <4>3. Least(rows[i].used + Added(f.delta), max) \in 0 .. max
        BY <1>3, <4>2 DEF Least
      <4>4. Counted(rows[i], f.delta) =
              [rows[i] EXCEPT !.used = Least(rows[i].used + Added(f.delta), max),
                              !.limit = max]
        BY DEF Counted
      <4> DEFINE u == Least(rows[i].used + Added(f.delta), max)
      <4>5. u \in Nat /\ u <= max
        BY <1>3, <4>3
      <4> HIDE DEF u, max
      <4>. QED
        BY <1>3, <4>1, <4>4, <4>5 DEF u, UsageRow
    <3>3. DOMAIN rows' = 1 .. Len(rows) /\ rows' = [i \in 1 .. Len(rows) |-> rows'[i]]
      BY <3>1
    <3>4. \A i \in 1 .. Len(rows) :
              rows'[i] = IF i \in RowsOf(f) THEN Counted(rows[i], f.delta) ELSE rows[i]
      BY <3>1
    <3>. QED
      BY <3>2, <3>3, <3>4, RowsRewritten
  <2>. QED
    BY <2>1, <2>2, <2>3 DEF Count
<1>. QED
  BY <1>1, <1>2, <1>6 DEF IInv

LEMMA BuyKeepsIInv == ASSUME IInv, NEW p \in Procs, BuyAddon(p) PROVE IInv'
<1>1. RestInv'
  BY DEF BuyAddon, IInv, RestInv, scenario, history
<1>2. RowsInv'
  BY Kept DEF BuyAddon
<1>3. FramesInv'
  <2> DEFINE f == [frame[p] EXCEPT !.pc = "find", !.from = plan.from, !.to = plan.to,
                     !.base = Limit[plan.name][counter]]
  <2>1. f \in Frame
    BY FrameOf, LimitIsNat DEF IInv, RestInv, PlanRow, Frame
  <2>2. frame' = [frame EXCEPT ![p] = f]
    BY DEF BuyAddon
  <2>. QED
    BY <2>1, <2>2, FrameMoves
<1>. QED
  BY <1>1, <1>2, <1>3 DEF IInv

LEMMA FindKeepsIInv == ASSUME IInv, NEW p \in Procs, FindRow(p) PROVE IInv'
<1>1. RestInv'
  BY DEF FindRow, IInv, RestInv, scenario, history
<1>2. RowsInv'
  BY Kept DEF FindRow
<1>3. FramesInv'
  <2> DEFINE found == RowsOf(frame[p])
             i == CHOOSE j \in found : TRUE
             at == IF found = {} THEN 0 ELSE i
             read == IF found = {} THEN 0 ELSE rows[i].used
             f == [frame[p] EXCEPT !.pc = "raise", !.row = at, !.used = read]
  <2>1. at \in Nat /\ read \in Nat
    <3>1. found # {} => i \in found
      OBVIOUS
    <3>2. found \subseteq 1 .. Len(rows)
      BY DEF RowsOf
    <3>3. \A j \in 1 .. Len(rows) : rows[j] \in UsageRow
      BY DEF IInv, RowsInv
    <3>4. found # {} => rows[i].used \in Nat
      BY <3>1, <3>2, <3>3 DEF UsageRow
    <3>5. found # {} => i \in Nat
      BY <3>1, <3>2
    <3> HIDE DEF found, i
    <3>. QED
      BY <3>4, <3>5
  <2>2. frame' = [frame EXCEPT ![p] = f]
    BY DEF FindRow
  <2> HIDE DEF at, read
  <2>3. f \in Frame
    BY <2>1, FrameOf DEF Frame
  <2> HIDE DEF f
  <2>. QED
    BY <2>2, <2>3, FrameMoves
<1>. QED
  BY <1>1, <1>2, <1>3 DEF IInv

LEMMA RaiseKeepsIInv == ASSUME IInv, NEW p \in Procs, Raise(p) PROVE IInv'
<1> DEFINE f == frame[p]
<1>1. RestInv'
  <2>1. raised' \in {raised, raised + 1}
    BY DEF Raise, Lands
  <2>2. UNCHANGED <<scenario, now, plan, crashed, changes, grants, uses, allow, excess, fresh>>
    BY DEF Raise
  <2>3. raised' \in Nat
    BY <2>1 DEF IInv, RestInv
  <2>. QED
    BY <2>2, <2>3, RestMoves DEF IInv, RestInv, scenario
<1>2. FramesInv'
  BY Gone DEF Raise
<1>3. f \in Frame
  BY FrameOf
<1>4. Delta \in Nat
  BY UsageLimitsAssumption
<1>5. RowsInv'
  <2>1. CASE UNCHANGED rows
    BY <2>1, Kept
  <2>2. CASE rows' = [rows EXCEPT ![f.row].limit = RaisedLimit(f, rows[f.row])]
    <3> DEFINE r == [rows[f.row] EXCEPT !.limit = RaisedLimit(f, rows[f.row])]
    <3>1. rows' = [rows EXCEPT ![f.row] = r]
      BY <2>2
    <3>2. ASSUME f.row \in 1 .. Len(rows) PROVE r \in UsageRow /\ r.used <= r.limit
      <4>1. rows[f.row] \in UsageRow /\ rows[f.row].used <= rows[f.row].limit
        BY <3>2 DEF IInv, RowsInv, UsedWithinLimit
      <4>. QED
        BY <4>1, <1>3, <1>4 DEF RaisedLimit, Greatest, UsageRow, Frame
    <3> HIDE DEF r
    <3>. QED
      BY <3>1, <3>2, RowReplaced
  <2>3. CASE rows' = Append(rows, [from |-> f.from, to |-> f.to, used |-> 0,
                                   limit |-> f.base + Delta])
    <3> DEFINE r == [from |-> f.from, to |-> f.to, used |-> 0, limit |-> f.base + Delta]
    <3>1. r \in UsageRow /\ r.used <= r.limit
      BY <1>3, <1>4 DEF UsageRow, Frame
    <3>. QED
      BY <2>3, <3>1, RowAdded
  <2>. QED
    BY <2>1, <2>2, <2>3 DEF Raise
<1>. QED
  BY <1>1, <1>2, <1>5 DEF IInv

LEMMA ChangePlanKeepsIInv == ASSUME IInv, NEW p \in Procs, ChangePlan(p) PROVE IInv'
<1>0. PICK name \in Plans : \E period \in NewPeriods(name) : \E reset \in Resets(name) :
          EnsurePlan(p, name, period, reset)
  BY DEF ChangePlan
<1>1. PICK period \in NewPeriods(name) : \E reset : EnsurePlan(p, name, period, reset)
  BY <1>0
<1>2. period.from \in Int /\ period.to \in Int
  BY UsageLimitsAssumption DEF NewPeriods, FromToday, IInv, RestInv, PlanRow
<1>3. Limit[name][counter] \in Nat
  BY UsageLimitsAssumption DEF IInv, RestInv
<1>4. RestInv'
  <2>1. plan' \in PlanRow
    BY <1>1, <1>2 DEF EnsurePlan, PlanRow
  <2>2. changes' \in Nat /\ allow' \in Nat /\ raised' = 0 /\ fresh' = FALSE
    BY <1>1, <1>3 DEF EnsurePlan, IInv, RestInv
  <2>3. UNCHANGED <<scenario, now, crashed, grants, uses, excess>>
    BY <1>1 DEF EnsurePlan
  <2>. QED
    BY <2>1, <2>2, <2>3, RestMoves DEF IInv, RestInv, scenario
<1>5. RowsInv'
  BY <1>1, Kept DEF EnsurePlan
<1>6. FramesInv'
  BY <1>1, Kept, Gone DEF EnsurePlan
<1>. QED
  BY <1>4, <1>5, <1>6 DEF IInv

LEMMA ResetReadKeepsIInv == ASSUME IInv, NEW p \in Procs, ResetRead(p) PROVE IInv'
<1>1. RestInv'
  BY DEF ResetRead, IInv, RestInv, scenario, history
<1>2. RowsInv'
  BY Kept DEF ResetRead
<1>3. FramesInv'
  <2> DEFINE newest == rows[Len(rows)]
             read == IF SamePeriod(newest, plan) THEN newest.used ELSE 0
             f == [frame[p] EXCEPT !.pc = "write", !.row = Len(rows), !.used = read]
  <2>1. rows \in Seq(UsageRow) /\ Len(rows) \in 1 .. Len(rows)
    BY DEF IInv, RowsInv
  <2>2. read \in Nat
    <3>1. newest \in UsageRow
      BY <2>1
    <3>. QED
      BY <3>1 DEF UsageRow
  <2>3. frame' = [frame EXCEPT ![p] = f]
    BY DEF ResetRead
  <2> HIDE DEF read
  <2>4. f \in Frame
    <3>1. Len(rows) \in Nat
      BY <2>1
    <3>. QED
      BY <2>2, <3>1, FrameOf DEF Frame
  <2> HIDE DEF f
  <2>. QED
    BY <2>3, <2>4, FrameMoves
<1>. QED
  BY <1>1, <1>2, <1>3 DEF IInv

LEMMA ResetWriteKeepsIInv == ASSUME IInv, NEW p \in Procs, ResetWrite(p) PROVE IInv'
<1> DEFINE f == frame[p]
<1>1. RestInv'
  <2>1. raised' \in Nat /\ fresh' \in BOOLEAN
    <3>1. (raised' = 0 /\ fresh' = TRUE) \/ UNCHANGED <<raised, fresh>>
      BY DEF ResetWrite
    <3>2. raised' \in Nat
      BY <3>1 DEF IInv, RestInv
    <3>3. fresh' \in BOOLEAN
      BY <3>1, Zenon DEF IInv, RestInv
    <3>. QED
      BY <3>2, <3>3
  <2>2. UNCHANGED <<scenario, now, plan, crashed, changes, grants, uses, allow, excess>>
    BY DEF ResetWrite
  <2>. QED
    BY <2>1, <2>2, RestMoves DEF IInv, RestInv, scenario
<1>2. FramesInv'
  BY Gone DEF ResetWrite
<1>3. RowsInv'
  <2>1. CASE UNCHANGED rows
    BY <2>1, Kept
  <2>2. CASE ~ResetRefused(f) /\ rows' = MovedRow(f)
    <3> DEFINE r == [from |-> plan.from, to |-> plan.to, used |-> f.used,
                     limit |-> Limit[plan.name][counter]]
    <3>1. Limit[plan.name][counter] \in Nat
      BY LimitIsNat DEF IInv
    <3>2. f.used \in Nat
      BY FrameOf DEF Frame
    <3>3. r \in UsageRow
      BY <3>1, <3>2 DEF IInv, RestInv, PlanRow, UsageRow
    <3>4. r.used <= r.limit
      BY <2>2, <3>1, <3>2 DEF ResetRefused
    <3>5. rows' = [rows EXCEPT ![f.row] = r]
      BY <2>2 DEF MovedRow
    <3> HIDE DEF r
    <3>. QED
      BY <3>3, <3>4, <3>5, RowReplaced
  <2>. QED
    BY <2>1, <2>2 DEF ResetWrite
<1>. QED
  BY <1>1, <1>2, <1>3 DEF IInv

LEMMA CrashKeepsIInv == ASSUME IInv, Crash PROVE IInv'
<1>1. FramesInv'
  BY DEF Crash, FramesInv, Idle, Frame
<1>. QED
  BY <1>1, Kept DEF Crash, IInv, RestInv, scenario, history

LEMMA NextKeepsIInv == IInv /\ [Next]_vars => IInv'
<1> SUFFICES ASSUME IInv, [Next]_vars PROVE IInv'
  OBVIOUS
<1>1. CASE Tick
  BY <1>1, TickKeepsIInv
<1>2. CASE Crash
  BY <1>2, CrashKeepsIInv
<1>3. ASSUME NEW p \in Procs, PostStep(p) \/ AiStep(p) \/ Count(p) PROVE IInv'
  BY <1>3, PostStepKeepsIInv, AiStepKeepsIInv, CountKeepsIInv
<1>4. ASSUME NEW p \in Procs, AddonStep(p) PROVE IInv'
  BY <1>4, BuyKeepsIInv, FindKeepsIInv, RaiseKeepsIInv DEF AddonStep
<1>5. ASSUME NEW p \in Procs, ChangeStep(p) PROVE IInv'
  BY <1>5, ChangePlanKeepsIInv, ResetReadKeepsIInv, ResetWriteKeepsIInv DEF ChangeStep
<1>6. CASE UNCHANGED vars
  BY <1>6, Kept DEF vars, IInv, RestInv, scenario, history
<1>. QED
  BY <1>1, <1>2, <1>3, <1>4, <1>5, <1>6 DEF Next

LEMMA InitIInv == Init => IInv
<1> SUFFICES ASSUME Init PROVE IInv
  OBVIOUS
<1> DEFINE r == [from |-> now, to |-> now + Month - 1, used |-> 0,
                 limit |-> Limit["FREE"][counter]]
<1>1. Limit["FREE"][counter] \in Nat
  BY UsageLimitsAssumption DEF Init, Plans
<1>2. now \in Nat /\ Month \in Nat
  BY UsageLimitsAssumption DEF Init
<1>3. RestInv
  <2>1. plan \in PlanRow
    BY <1>2 DEF Init, PlanRow, Plans
  <2>2. allow \in Nat
    BY <1>1 DEF Init
  <2>. QED
    BY <1>2, <2>1, <2>2 DEF Init, RestInv
<1>4. r \in UsageRow /\ r.used <= r.limit
  BY <1>1, <1>2 DEF UsageRow
<1>5. rows = <<r>>
  BY DEF Init
<1> HIDE DEF r
<1>6. RowsInv
  BY <1>4, <1>5 DEF RowsInv, UsedWithinLimit
<1>7. FramesInv
  BY DEF Init, FramesInv, Idle, Frame
<1>. QED
  BY <1>3, <1>6, <1>7 DEF IInv

-----------------------------------------------------------------------------
(* Every reachable state of a counter, its rows, the plan and all that is  *)
(* under way is well typed.                                                *)
THEOREM TypeCorrect == Spec => []TypeOK
BY InitIInv, NextKeepsIInv, IInvIsTypeOK, PTL DEF Spec

(* Whatever counts, raises, resets or dies meanwhile, no write of          *)
(* user_plan_usage is one that CHECK (used_count <= limit_count) refuses,  *)
(* but for the resets that the code lets fail.                             *)
THEOREM NeverOverLimit == Spec => []UsedWithinLimit
BY InitIInv, NextKeepsIInv, IInvIsTypeOK, PTL DEF Spec

-----------------------------------------------------------------------------
(* The rows by their period *)

RowsIn(rs, period) == {i \in 1 .. Len(rs) : SamePeriod(rs[i], period)}

UsedIn(rs, period) ==
    IF RowsIn(rs, period) = {} THEN 0 ELSE rs[CHOOSE i \in RowsIn(rs, period) : TRUE].used

\* UNIQUE: one row a period.
OneEach(rs) == \A i, j \in 1 .. Len(rs) : SamePeriod(rs[i], rs[j]) => i = j

LEMMA RowsByPeriod ==
  ASSUME NEW period
  PROVE  RowsOf(period) = RowsIn(rows, period) /\ Used(period) = UsedIn(rows, period)
BY DEF RowsOf, RowsIn, Used, UsedIn

LEMMA UsedAt ==
  ASSUME NEW rs, OneEach(rs), NEW period, NEW i \in RowsIn(rs, period)
  PROVE  UsedIn(rs, period) = rs[i].used
<1>1. PICK j : j = CHOOSE k \in RowsIn(rs, period) : TRUE
  OBVIOUS
<1>2. j \in RowsIn(rs, period)
  BY <1>1
<1>3. j = i
  BY <1>2 DEF RowsIn, OneEach, SamePeriod
<1>. QED
  BY <1>1, <1>3 DEF UsedIn

LEMMA UsedIsNat ==
  ASSUME NEW rs \in Seq(UsageRow), NEW period
  PROVE  UsedIn(rs, period) \in Nat
<1>1. CASE RowsIn(rs, period) = {}
  BY <1>1 DEF UsedIn
<1>2. CASE RowsIn(rs, period) # {}
  <2>1. PICK j : j = CHOOSE k \in RowsIn(rs, period) : TRUE
    OBVIOUS
  <2>2. j \in 1 .. Len(rs)
    BY <1>2, <2>1 DEF RowsIn
  <2>3. rs[j] \in UsageRow
    BY <2>2
  <2>. QED
    BY <1>2, <2>1, <2>3 DEF UsedIn, UsageRow
<1>. QED
  BY <1>1, <1>2

\* A row is appended for a period that has none.
LEMMA UsedAppended ==
  ASSUME NEW rs \in Seq(UsageRow), NEW r \in UsageRow, OneEach(rs), RowsIn(rs, r) = {},
         NEW qs, Len(qs) = Len(rs) + 1,
         \A i \in 1 .. Len(rs) : qs[i] = rs[i], qs[Len(rs) + 1] = r
  PROVE  /\ OneEach(qs)
         /\ \A period : UsedIn(qs, period) =
                           IF SamePeriod(r, period) THEN r.used ELSE UsedIn(rs, period)
         /\ \A period : ~ SamePeriod(r, period) => RowsIn(qs, period) = RowsIn(rs, period)
<1>1. Len(qs) = Len(rs) + 1 /\ Len(rs) \in Nat
  OBVIOUS
<1>2. \A i \in 1 .. Len(rs) : qs[i] = rs[i]
  OBVIOUS
<1>3. qs[Len(rs) + 1] = r
  OBVIOUS
<1>4. \A i \in 1 .. Len(qs) : i \in 1 .. Len(rs) \/ i = Len(rs) + 1
  BY <1>1
<1>5. OneEach(qs)
  <2>1. \A i \in 1 .. Len(rs) : ~ SamePeriod(rs[i], r)
    BY DEF RowsIn
  <2>. QED
    BY <1>2, <1>3, <1>4, <2>1 DEF OneEach, SamePeriod
<1>6. ASSUME NEW period, ~ SamePeriod(r, period)
      PROVE  RowsIn(qs, period) = RowsIn(rs, period)
  <2>1. 1 .. Len(rs) \subseteq 1 .. Len(qs)
    BY <1>1
  <2>. QED
    BY <1>2, <1>3, <1>4, <1>6, <2>1 DEF RowsIn, SamePeriod
<1>7. ASSUME NEW period
      PROVE  UsedIn(qs, period) = IF SamePeriod(r, period) THEN r.used ELSE UsedIn(rs, period)
  <2>1. CASE SamePeriod(r, period)
    <3>1. Len(rs) + 1 \in RowsIn(qs, period)
      BY <1>1, <1>3, <2>1 DEF RowsIn
    <3>. QED
      BY <1>3, <1>5, <2>1, <3>1, UsedAt
  <2>2. CASE ~ SamePeriod(r, period)
    <3>1. RowsIn(qs, period) = RowsIn(rs, period)
      BY <1>6, <2>2
    <3>2. CASE RowsIn(rs, period) = {}
      BY <2>2, <3>1, <3>2 DEF UsedIn
    <3>3. CASE RowsIn(rs, period) # {}
      <4>1. PICK i : i \in RowsIn(rs, period)
        BY <3>3
      <4>2. i \in 1 .. Len(rs)
        BY <4>1 DEF RowsIn
      <4>3. UsedIn(rs, period) = rs[i].used
        BY <4>1, UsedAt
      <4>4. UsedIn(qs, period) = qs[i].used
        BY <1>5, <3>1, <4>1, UsedAt
      <4>. QED
        BY <1>2, <2>2, <4>2, <4>3, <4>4
    <3>. QED
      BY <3>2, <3>3
  <2>. QED
    BY <2>1, <2>2
<1>. QED
  BY <1>1, <1>2, <1>3, <1>5, <1>6, <1>7

\* Rows are rewritten within their periods.
LEMMA UsedRewritten ==
  ASSUME NEW rs \in Seq(UsageRow), OneEach(rs), NEW qs, Len(qs) = Len(rs),
         \A i \in 1 .. Len(rs) : SamePeriod(qs[i], rs[i])
  PROVE  /\ OneEach(qs)
         /\ \A period : RowsIn(qs, period) = RowsIn(rs, period)
         /\ \A period : RowsIn(rs, period) = {} => UsedIn(qs, period) = UsedIn(rs, period)
         /\ \A period : \A i \in RowsIn(rs, period) :
               UsedIn(qs, period) = qs[i].used /\ UsedIn(rs, period) = rs[i].used
<1>1. OneEach(qs)
  BY DEF OneEach, SamePeriod
<1>2. ASSUME NEW period PROVE RowsIn(qs, period) = RowsIn(rs, period)
  BY DEF RowsIn, SamePeriod
<1>3. ASSUME NEW period, RowsIn(rs, period) = {} PROVE UsedIn(qs, period) = UsedIn(rs, period)
  BY <1>2, <1>3 DEF UsedIn
<1>4. ASSUME NEW period, NEW i \in RowsIn(rs, period)
      PROVE  UsedIn(qs, period) = qs[i].used /\ UsedIn(rs, period) = rs[i].used
  BY <1>1, <1>2, UsedAt
<1>. QED
  BY <1>1, <1>2, <1>3, <1>4

\* One row a period, and no frame that writes a row there is not.
RowRefs ==
    /\ OneEach(rows)
    /\ \A p \in Procs :
          (frame[p].pc = "raise" /\ frame[p].row # 0) \/ frame[p].pc = "write"
          => frame[p].row \in 1 .. Len(rows)

Allowed == Limit[plan.name][counter]

\* The rows after counting.
LEMMA CountedRows ==
  ASSUME IInv, RowRefs, NEW p \in Procs, Count(p), Countable(frame[p])
  PROVE  /\ OneEach(rows')
         /\ Len(rows) \in Nat /\ Len(rows') \in {Len(rows), Len(rows) + 1}
         /\ \A i \in 1 .. Len(rows') : \/ i \in 1 .. Len(rows) /\ SamePeriod(rows'[i], rows[i])
                                       \/ SamePeriod(rows'[i], frame[p])
         /\ \A period : SamePeriod(frame[p], period) =>
               UsedIn(rows', period) = Least(UsedIn(rows, period) + Added(frame[p].delta), Allowed)
         /\ \A period : ~ SamePeriod(frame[p], period) =>
               /\ UsedIn(rows', period) = UsedIn(rows, period)
               /\ RowsIn(rows', period) = RowsIn(rows, period)
               /\ \A i \in RowsIn(rows, period) : rows'[i] = rows[i]
<1>. DEFINE f == frame[p]
<1>1. rows \in Seq(UsageRow) /\ OneEach(rows) /\ Allowed \in Nat /\ f \in Frame /\ Len(rows) \in Nat
  BY LimitIsNat, FrameOf DEF IInv, RowsInv, RowRefs, Allowed
<1>2. Added(f.delta) \in 0 .. Allowed
  BY <1>1 DEF Added, Greatest, Least, Frame, Allowed
<1>3. rows' = Upsert(f)
  BY DEF Count
<1>4. CASE RowsIn(rows, f) = {}
  <2>. DEFINE r == [from |-> f.from, to |-> f.to, used |-> Added(f.delta), limit |-> Allowed]
  <2>1. r \in UsageRow /\ SamePeriod(r, f)
    BY <1>1, <1>2 DEF UsageRow, Frame, SamePeriod
  <2>2. RowsIn(rows, r) = {} /\ (\A period : SamePeriod(r, period) <=> SamePeriod(f, period))
    BY <1>4, <2>1 DEF RowsIn, SamePeriod
  <2>3. rows' = Append(rows, r)
    BY <1>3, <1>4, RowsByPeriod DEF Upsert, Allowed
  <2>4. r.used = Added(f.delta)
    OBVIOUS
  <2>. HIDE DEF r
  <2>5. /\ OneEach(rows') /\ Len(rows') = Len(rows) + 1
        /\ \A i \in 1 .. Len(rows) : rows'[i] = rows[i]
        /\ rows'[Len(rows) + 1] = r
        /\ \A period : UsedIn(rows', period) =
                           IF SamePeriod(r, period) THEN r.used ELSE UsedIn(rows, period)
        /\ \A period : ~ SamePeriod(r, period) => RowsIn(rows', period) = RowsIn(rows, period)
    <3>1. Len(rows') = Len(rows) + 1
      BY <1>1, <2>3
    <3>2. (\A i \in 1 .. Len(rows) : rows'[i] = rows[i]) /\ rows'[Len(rows) + 1] = r
      BY <1>1, <2>1, <2>3
    <3>. QED
      BY <1>1, <2>1, <2>2, <3>1, <3>2, UsedAppended
  <2>6. ASSUME NEW period, SamePeriod(f, period)
        PROVE  UsedIn(rows', period) = Least(UsedIn(rows, period) + Added(f.delta), Allowed)
    <3>1. RowsIn(rows, period) = {}
      BY <1>4, <2>6 DEF RowsIn, SamePeriod
    <3>2. UsedIn(rows, period) = 0
      BY <3>1 DEF UsedIn
    <3>3. UsedIn(rows', period) = Added(f.delta)
      BY <2>2, <2>4, <2>5, <2>6
    <3>4. Least(0 + Added(f.delta), Allowed) = Added(f.delta)
      BY <1>1, <1>2 DEF Least
    <3>. QED
      BY <3>2, <3>3, <3>4
  <2>7. \A i \in 1 .. Len(rows') : i \in 1 .. Len(rows) \/ i = Len(rows) + 1
    BY <1>1, <2>5
  <2>8. \A i \in 1 .. Len(rows) : SamePeriod(rows'[i], rows[i])
    BY <2>5 DEF SamePeriod
  <2>9. \A period : \A i \in RowsIn(rows, period) : rows'[i] = rows[i]
    BY <2>5 DEF RowsIn
  <2>. QED
    BY <1>1, <2>1, <2>2, <2>5, <2>6, <2>7, <2>8, <2>9
<1>5. CASE RowsIn(rows, f) # {}
  <2>1. rows' = [i \in 1 .. Len(rows) |->
                   IF i \in RowsIn(rows, f) THEN Counted(rows[i], f.delta) ELSE rows[i]]
    BY <1>3, <1>5, RowsByPeriod DEF Upsert
  <2>2. Len(rows') = Len(rows)
    BY <1>1, <2>1
  <2>3. ASSUME NEW i \in 1 .. Len(rows), i \in RowsIn(rows, f)
        PROVE  /\ rows'[i].used = Least(rows[i].used + Added(f.delta), Allowed)
               /\ SamePeriod(rows'[i], rows[i])
    <3>1. rows[i] \in UsageRow
      BY <1>1
    <3>2. rows'[i] = Counted(rows[i], f.delta)
      BY <2>1, <2>3
    <3>. QED
      BY <3>1, <3>2 DEF Counted, UsageRow, SamePeriod, Allowed
  <2>4. ASSUME NEW i \in 1 .. Len(rows), i \notin RowsIn(rows, f) PROVE rows'[i] = rows[i]
    BY <2>1, <2>4
  <2>5. \A i \in 1 .. Len(rows) : SamePeriod(rows'[i], rows[i])
    BY <2>3, <2>4 DEF SamePeriod
  <2>6. /\ OneEach(rows')
        /\ \A period : RowsIn(rows', period) = RowsIn(rows, period)
        /\ \A period : RowsIn(rows, period) = {} => UsedIn(rows', period) = UsedIn(rows, period)
        /\ \A period : \A i \in RowsIn(rows, period) :
              UsedIn(rows', period) = rows'[i].used /\ UsedIn(rows, period) = rows[i].used
    BY <1>1, <2>2, <2>5, UsedRewritten
  <2>7. ASSUME NEW period, SamePeriod(f, period)
        PROVE  UsedIn(rows', period) = Least(UsedIn(rows, period) + Added(f.delta), Allowed)
    <3>1. PICK i : i \in RowsIn(rows, f)
      BY <1>5
    <3>2. i \in RowsIn(rows, period) /\ i \in 1 .. Len(rows)
      BY <2>7, <3>1 DEF RowsIn, SamePeriod
    <3>3. UsedIn(rows', period) = rows'[i].used /\ UsedIn(rows, period) = rows[i].used
      BY <2>6, <3>2
    <3>. QED
      BY <2>3, <3>1, <3>2, <3>3
  <2>8. ASSUME NEW period, ~ SamePeriod(f, period), NEW i \in RowsIn(rows, period)
        PROVE  rows'[i] = rows[i]
    BY <2>4, <2>8 DEF RowsIn, SamePeriod
  <2>9. ASSUME NEW period, ~ SamePeriod(f, period)
        PROVE  UsedIn(rows', period) = UsedIn(rows, period)
    <3>1. CASE RowsIn(rows, period) = {}
      BY <2>6, <3>1
    <3>2. CASE RowsIn(rows, period) # {}
      <4>1. PICK i : i \in RowsIn(rows, period)
        BY <3>2
      <4>2. rows'[i] = rows[i]
        BY <2>8, <2>9, <4>1
      <4>. QED
        BY <2>6, <4>1, <4>2
    <3>. QED
      BY <3>1, <3>2
  <2>. QED
    BY <1>1, <2>2, <2>5, <2>6, <2>7, <2>8, <2>9
<1>. QED
  BY <1>4, <1>5

LEMMA RaisedEnough ==
  ASSUME NEW f \in Frame, NEW r \in UsageRow
  PROVE  RaisedLimit(f, r) \in Nat /\ RaisedLimit(f, r) >= r.limit + Delta /\ r.limit + Delta >= r.limit
<1>1. ASSUME NEW a \in Nat, NEW b \in Nat PROVE Greatest(a, b) \in Nat /\ Greatest(a, b) >= b
  BY DEF Greatest
<1>2. Delta \in Nat
  BY UsageLimitsAssumption
<1>3. f.used \in Nat /\ f.base + Delta \in Nat /\ r.limit + Delta \in Nat /\ r.limit \in Nat
  BY <1>2 DEF Frame, UsageRow
<1>4. r.limit + Delta >= r.limit
  BY <1>2, <1>3
<1>. QED
  BY <1>1, <1>3, <1>4 DEF RaisedLimit

\* The rows after an add-on: no count changes, and no limit falls.
LEMMA RaisedRows ==
  ASSUME IInv, RowRefs, NEW p \in Procs, Raise(p)
  PROVE  /\ OneEach(rows')
         /\ Len(rows) \in Nat /\ Len(rows') \in {Len(rows), Len(rows) + 1}
         /\ \A period : UsedIn(rows', period) = UsedIn(rows, period)
         /\ \A i \in 1 .. Len(rows) :
               /\ SamePeriod(rows'[i], rows[i])
               /\ rows'[i].limit >= rows[i].limit
               /\ frame[p].row = i => rows'[i].limit >= rows[i].limit + Delta
         /\ Len(rows') # Len(rows) =>
               /\ SamePeriod(rows'[Len(rows) + 1], frame[p])
               /\ RowsOf(frame[p]) = {} /\ frame[p].row = 0
<1>. DEFINE f == frame[p]
<1>1. rows \in Seq(UsageRow) /\ OneEach(rows) /\ f \in Frame /\ Len(rows) \in Nat /\ f.pc = "raise"
  BY FrameOf DEF IInv, RowsInv, RowRefs, Raise
<1>2. Delta \in Nat
  BY UsageLimitsAssumption
<1>6. \A i \in 1 .. Len(rows) : rows[i] \in UsageRow
  BY <1>1
<1>7. \A i \in 1 .. Len(rows) : rows[i].limit \in Nat
  BY <1>6 DEF UsageRow
<1>3. CASE UNCHANGED rows
  <2>1. \A i \in 1 .. Len(rows) : rows[i].limit \in Nat
    BY <1>7
  <2>2. f.row # 0 => f.row \in 1 .. Len(rows)
    BY <1>1 DEF RowRefs
  <2>3. CASE f.row # 0
    <3>1. rows' = [rows EXCEPT ![f.row].limit = RaisedLimit(f, rows[f.row])]
      BY <2>3 DEF Raise
    <3>2. rows'[f.row].limit = RaisedLimit(f, rows[f.row])
      BY <1>1, <2>2, <2>3, <3>1 DEF UsageRow
    <3>3. rows[f.row].limit \in Nat
      BY <2>1, <2>2, <2>3
    <3>4. RaisedLimit(f, rows[f.row]) >= rows[f.row].limit + Delta
      BY <1>1, <1>6, <2>2, <2>3, RaisedEnough
    <3>. QED
      BY <1>1, <1>3, <2>1, <3>2, <3>4 DEF SamePeriod
  <2>4. CASE f.row = 0
    BY <1>1, <1>3, <2>1, <2>4 DEF SamePeriod
  <2>. QED
    BY <2>3, <2>4
<1>4. CASE f.row # 0 /\ rows' = [rows EXCEPT ![f.row].limit = RaisedLimit(f, rows[f.row])]
  <2>1. f.row \in 1 .. Len(rows)
    BY <1>1, <1>4 DEF RowRefs
  <2>2. rows[f.row] \in UsageRow
    BY <1>1, <2>1
  <2>3. RaisedLimit(f, rows[f.row]) >= rows[f.row].limit + Delta
    BY <1>1, <2>2, RaisedEnough
  <2>4. Len(rows') = Len(rows) /\ \A i \in 1 .. Len(rows) : i # f.row => rows'[i] = rows[i]
    BY <1>1, <1>4
  <2>5. rows'[f.row] = [rows[f.row] EXCEPT !.limit = RaisedLimit(f, rows[f.row])]
    BY <1>1, <1>4, <2>1
  <2>6. /\ SamePeriod(rows'[f.row], rows[f.row]) /\ rows'[f.row].used = rows[f.row].used
        /\ rows'[f.row].limit = RaisedLimit(f, rows[f.row])
    BY <2>2, <2>5 DEF SamePeriod, UsageRow
  <2>7. \A i \in 1 .. Len(rows) : /\ SamePeriod(rows'[i], rows[i]) /\ rows'[i].used = rows[i].used
                                  /\ i # f.row => rows'[i].limit = rows[i].limit
    BY <2>4, <2>6 DEF SamePeriod
  <2>8. \A i \in 1 .. Len(rows) : rows[i].limit \in Nat
    BY <1>7
  <2>9. /\ OneEach(rows')
        /\ \A period : RowsIn(rows, period) = {} => UsedIn(rows', period) = UsedIn(rows, period)
        /\ \A period : \A i \in RowsIn(rows, period) :
              UsedIn(rows', period) = rows'[i].used /\ UsedIn(rows, period) = rows[i].used
    BY <1>1, <2>4, <2>7, UsedRewritten
  <2>10. \A period : \A i \in RowsIn(rows, period) : UsedIn(rows', period) = UsedIn(rows, period)
    BY <2>7, <2>9 DEF RowsIn
  <2>11. \A period : UsedIn(rows', period) = UsedIn(rows, period)
    BY <2>9, <2>10
  <2>12. \A i \in 1 .. Len(rows) : /\ rows'[i].limit >= rows[i].limit
                                   /\ f.row = i => rows'[i].limit >= rows[i].limit + Delta
    <3>1. rows'[f.row].limit >= rows[f.row].limit + Delta
      BY <2>3, <2>6
    <3>2. rows[f.row].limit + Delta >= rows[f.row].limit
      BY <1>1, <2>2, RaisedEnough
    <3>3. rows'[f.row].limit \in Nat
      BY <1>1, <2>2, <2>6, RaisedEnough
    <3>4. rows'[f.row].limit >= rows[f.row].limit
      <4>. DEFINE x == rows'[f.row].limit
                  y == rows[f.row].limit
      <4>1. x \in Nat /\ y \in Nat /\ x >= y + Delta
        BY <2>1, <2>8, <3>1, <3>3
      <4>. HIDE DEF x, y
      <4>2. x >= y
        BY <1>2, <4>1
      <4>. QED
        BY <4>2 DEF x, y
    <3>. QED
      BY <2>7, <2>8, <3>1, <3>4
  <2>. QED
    BY <1>1, <2>4, <2>7, <2>9, <2>11, <2>12
<1>5. CASE /\ f.row = 0 /\ RowsOf(f) = {}
           /\ rows' = Append(rows, [from |-> f.from, to |-> f.to, used |-> 0,
                                    limit |-> f.base + Delta])
  <2>. DEFINE r == [from |-> f.from, to |-> f.to, used |-> 0, limit |-> f.base + Delta]
  <2>1. r \in UsageRow /\ SamePeriod(r, f) /\ r.used = 0
    BY <1>1, <1>2 DEF UsageRow, Frame, SamePeriod
  <2>2. RowsIn(rows, r) = {}
    BY <1>5, <2>1, RowsByPeriod DEF RowsIn, SamePeriod
  <2>3. rows' = Append(rows, r)
    BY <1>5
  <2>. HIDE DEF r
  <2>4. /\ OneEach(rows') /\ Len(rows') = Len(rows) + 1
        /\ \A i \in 1 .. Len(rows) : rows'[i] = rows[i]
        /\ rows'[Len(rows) + 1] = r
        /\ \A period : UsedIn(rows', period) =
                           IF SamePeriod(r, period) THEN r.used ELSE UsedIn(rows, period)
    <3>1. Len(rows') = Len(rows) + 1
      BY <1>1, <2>3
    <3>2. (\A i \in 1 .. Len(rows) : rows'[i] = rows[i]) /\ rows'[Len(rows) + 1] = r
      BY <1>1, <2>1, <2>3
    <3>. QED
      BY <1>1, <2>1, <2>2, <3>1, <3>2, UsedAppended
  <2>5. ASSUME NEW period, SamePeriod(r, period) PROVE UsedIn(rows, period) = 0
    BY <2>2, <2>5 DEF UsedIn, RowsIn, SamePeriod
  <2>6. \A period : UsedIn(rows', period) = UsedIn(rows, period)
    BY <2>1, <2>4, <2>5
  <2>7. \A i \in 1 .. Len(rows) : rows[i].limit \in Nat /\ rows'[i].limit >= rows[i].limit
    BY <1>7, <2>4
  <2>8. \A i \in 1 .. Len(rows) : f.row # i
    BY <1>5
  <2>9. \A i \in 1 .. Len(rows) : SamePeriod(rows'[i], rows[i])
    BY <2>4 DEF SamePeriod
  <2>. QED
    BY <1>1, <1>5, <2>1, <2>4, <2>6, <2>7, <2>8, <2>9
<1>. QED
  BY <1>3, <1>4, <1>5 DEF Raise

-----------------------------------------------------------------------------
(* What a step leaves in the frames *)

Others(p) == \A q \in Procs : q # p => frame'[q] = frame[q]

LEMMA FrameSet ==
  ASSUME IInv, NEW p \in Procs, NEW g, frame' = [frame EXCEPT ![p] = g]
  PROVE  Others(p) /\ frame'[p] = g
BY DEF IInv, FramesInv, Others

LEMMA FrameEffects ==
  ASSUME IInv, NEW p \in Procs
  PROVE  /\ \A pc : Goto(p, pc) => /\ Others(p) /\ frame'[p].pc = pc
                                   /\ frame'[p].delta = frame[p].delta
                                   /\ SamePeriod(frame'[p], frame[p])
         /\ Return(p) => Others(p) /\ frame'[p].pc = "idle"
         /\ Publish(p) \/ UseUnasked(p) =>
                /\ Others(p) /\ frame'[p].pc = "count" /\ frame'[p].delta = 1
                /\ SamePeriod(frame'[p], MonthOf(now))
         /\ GiveBack(p) => /\ Others(p) /\ frame'[p].pc = "count" /\ frame'[p].delta = -1
                           /\ SamePeriod(frame'[p], MonthOf(now))
         /\ ReadPeriod(p) => /\ Others(p) /\ frame'[p].pc = "quota"
                             /\ SamePeriod(frame'[p], plan)
         /\ BuyAddon(p) => Others(p) /\ frame'[p].pc = "find" /\ SamePeriod(frame'[p], plan)
<1>. DEFINE f == frame[p]
<1>1. f \in Frame
  BY FrameOf
<1>2. ASSUME NEW pc, Goto(p, pc)
      PROVE  /\ Others(p) /\ frame'[p].pc = pc /\ frame'[p].delta = frame[p].delta
             /\ SamePeriod(frame'[p], frame[p])
  <2>1. PICK g : g = [f EXCEPT !.pc = pc]
    OBVIOUS
  <2>2. frame' = [frame EXCEPT ![p] = g]
    <3>1. frame \in [Procs -> Frame]
      BY DEF IInv, FramesInv
    <3>. QED
      BY <1>2, <2>1, <3>1 DEF Goto
  <2>3. g.pc = pc /\ g.delta = f.delta /\ SamePeriod(g, f)
    BY <1>1, <2>1 DEF Frame, SamePeriod
  <2>. QED
    BY <2>2, <2>3, FrameSet
<1>3. Return(p) => Others(p) /\ frame'[p].pc = "idle"
  <2>1. Return(p) => frame' = [frame EXCEPT ![p] = Idle]
    BY DEF Return
  <2>2. Idle.pc = "idle"
    BY DEF Idle
  <2>. QED
    BY <2>1, <2>2, FrameSet
<1>4. Publish(p) \/ UseUnasked(p) =>
          /\ Others(p) /\ frame'[p].pc = "count" /\ frame'[p].delta = 1
          /\ SamePeriod(frame'[p], MonthOf(now))
  <2>. DEFINE g == [f EXCEPT !.pc = "count", !.delta = 1, !.from = MonthOf(now).from,
                             !.to = MonthOf(now).to]
  <2>1. Publish(p) \/ UseUnasked(p) => frame' = [frame EXCEPT ![p] = g]
    BY DEF Publish, UseUnasked
  <2>2. g.pc = "count" /\ g.delta = 1 /\ SamePeriod(g, MonthOf(now))
    BY <1>1 DEF Frame, SamePeriod
  <2>. HIDE DEF g
  <2>. QED
    BY <2>1, <2>2, FrameSet
<1>5. GiveBack(p) => /\ Others(p) /\ frame'[p].pc = "count" /\ frame'[p].delta = -1
                     /\ SamePeriod(frame'[p], MonthOf(now))
  <2>. DEFINE g == [f EXCEPT !.pc = "count", !.delta = -1, !.from = MonthOf(now).from,
                             !.to = MonthOf(now).to]
  <2>1. GiveBack(p) => frame' = [frame EXCEPT ![p] = g]
    BY DEF GiveBack
  <2>2. g.pc = "count" /\ g.delta = -1 /\ SamePeriod(g, MonthOf(now))
    BY <1>1 DEF Frame, SamePeriod
  <2>. HIDE DEF g
  <2>. QED
    BY <2>1, <2>2, FrameSet
<1>6. ReadPeriod(p) => Others(p) /\ frame'[p].pc = "quota" /\ SamePeriod(frame'[p], plan)
  <2>. DEFINE g == [f EXCEPT !.pc = "quota", !.from = plan.from, !.to = plan.to]
  <2>1. ReadPeriod(p) => frame' = [frame EXCEPT ![p] = g]
    BY DEF ReadPeriod
  <2>2. g.pc = "quota" /\ SamePeriod(g, plan)
    BY <1>1 DEF Frame, SamePeriod
  <2>. HIDE DEF g
  <2>. QED
    BY <2>1, <2>2, FrameSet
<1>7. BuyAddon(p) => Others(p) /\ frame'[p].pc = "find" /\ SamePeriod(frame'[p], plan)
  <2>. DEFINE g == [f EXCEPT !.pc = "find", !.from = plan.from, !.to = plan.to,
                             !.base = Limit[plan.name][counter]]
  <2>1. BuyAddon(p) => frame' = [frame EXCEPT ![p] = g]
    BY DEF BuyAddon
  <2>2. g.pc = "find" /\ SamePeriod(g, plan)
    BY <1>1 DEF Frame, SamePeriod
  <2>. HIDE DEF g
  <2>. QED
    BY <2>1, <2>2, FrameSet
<1>. QED
  BY <1>2, <1>3, <1>4, <1>5, <1>6, <1>7

LEMMA CheckEffect ==
  ASSUME IInv, NEW p \in Procs, CheckAi(p)
  PROVE  /\ Others(p)
         /\ \/ frame'[p].pc = "idle"
            \/ /\ CheckPasses(frame[p])
               /\ frame'[p].pc = "count" /\ frame'[p].delta = 1 /\ SamePeriod(frame'[p], frame[p])
<1>1. CASE Return(p)
  BY <1>1, FrameEffects
<1>2. CASE CheckPasses(frame[p]) /\ frame' = [frame EXCEPT ![p].pc = "count", ![p].delta = 1]
  <2>. DEFINE g == [frame[p] EXCEPT !.pc = "count", !.delta = 1]
  <2>1. frame' = [frame EXCEPT ![p] = g]
    BY <1>2, FrameOf DEF IInv, FramesInv, Frame
  <2>2. g.pc = "count" /\ g.delta = 1 /\ SamePeriod(g, frame[p])
    BY FrameOf DEF Frame, SamePeriod
  <2>. HIDE DEF g
  <2>. QED
    BY <1>2, <2>1, <2>2, FrameSet
<1>. QED
  BY <1>1, <1>2 DEF CheckAi

LEMMA FindEffect ==
  ASSUME IInv, NEW p \in Procs, FindRow(p)
  PROVE  /\ Others(p) /\ frame'[p].pc = "raise" /\ SamePeriod(frame'[p], frame[p])
         /\ frame'[p].row # 0 => frame'[p].row \in 1 .. Len(rows)
<1>. DEFINE found == RowsOf(frame[p])
            i == CHOOSE j \in found : TRUE
            at == IF found = {} THEN 0 ELSE i
            read == IF found = {} THEN 0 ELSE rows[i].used
            g == [frame[p] EXCEPT !.pc = "raise", !.row = at, !.used = read]
<1>1. found \subseteq 1 .. Len(rows)
  BY DEF RowsOf
<1>2. found # {} => i \in found
  OBVIOUS
<1>. HIDE DEF i, found
<1>3. at # 0 => at \in 1 .. Len(rows)
  BY <1>1, <1>2
<1>4. frame' = [frame EXCEPT ![p] = g]
  BY DEF FindRow, i, found
<1>. HIDE DEF at, read
<1>5. g.pc = "raise" /\ g.row = at /\ SamePeriod(g, frame[p])
  BY FrameOf DEF Frame, SamePeriod
<1>. HIDE DEF g
<1>. QED
  BY <1>3, <1>4, <1>5, FrameSet

LEMMA ReadEffect ==
  ASSUME IInv, NEW p \in Procs, ResetRead(p)
  PROVE  Others(p) /\ frame'[p].pc = "write" /\ frame'[p].row = Len(rows)
<1>1. PICK u : u = IF SamePeriod(rows[Len(rows)], plan) THEN rows[Len(rows)].used ELSE 0
  OBVIOUS
<1>2. PICK g : g = [frame[p] EXCEPT !.pc = "write", !.row = Len(rows), !.used = u]
  OBVIOUS
<1>3. frame' = [frame EXCEPT ![p] = g]
  BY <1>1, <1>2 DEF ResetRead
<1>4. g.pc = "write" /\ g.row = Len(rows)
  BY <1>2, FrameOf DEF Frame
<1>. QED
  BY <1>3, <1>4, FrameSet

-----------------------------------------------------------------------------
(* Add-ons add up: the row of the plan's period is there while it is fresh, *)
(* so that none is inserted beside it, and a raise adds to what it finds.   *)

AddonInv == RowRefs /\ PurchasesAddUp /\ (fresh => RowsOf(plan) # {})

LEMMA AddonFrames ==
  ASSUME IInv, AddonInv, UNCHANGED <<counter, plan, rows, raised, fresh>>,
         \A q \in Procs : \/ frame'[q] = frame[q]
                          \/ frame'[q].pc \notin {"raise", "write"}
                          \/ frame'[q].pc = "raise" /\ frame'[q].row = 0
                          \/ frame'[q].row \in 1 .. Len(rows)
  PROVE  AddonInv'
BY DEF AddonInv, RowRefs, PurchasesAddUp, OneEach, RowsOf, SamePeriod

LEMMA PostKeepsAddon ==
  ASSUME IInv, AddonInv, NEW p \in Procs, PostStep(p) \/ AiStep(p) \/ BuyAddon(p)
  PROVE  AddonInv'
<1>1. UNCHANGED <<counter, plan, rows, raised, fresh>>
  BY DEF PostStep, AiStep, CheckPosts, Publish, UseUnasked, GiveBack, AskAi, ReadPeriod,
         CheckAi, BuyAddon, scenario, history
<1>2. Others(p) /\ frame'[p].pc \notin {"raise", "write"}
  BY FrameEffects, CheckEffect DEF PostStep, AiStep, CheckPosts, AskAi
<1>. QED
  BY <1>1, <1>2, AddonFrames DEF Others

LEMMA ReadsKeepAddon ==
  ASSUME IInv, AddonInv, NEW p \in Procs, FindRow(p) \/ ResetRead(p)
  PROVE  AddonInv'
<1>1. UNCHANGED <<counter, plan, rows, raised, fresh>>
  BY DEF FindRow, ResetRead, scenario, history
<1>2. CASE FindRow(p)
  BY <1>1, <1>2, FindEffect, AddonFrames DEF Others
<1>3. CASE ResetRead(p)
  <2>1. Len(rows) \in 1 .. Len(rows)
    BY DEF IInv, RowsInv
  <2>. QED
    BY <1>1, <1>3, <2>1, ReadEffect, AddonFrames DEF Others
<1>. QED
  BY <1>2, <1>3

LEMMA CountKeepsAddon ==
  ASSUME IInv, AddonInv, NEW p \in Procs, Count(p)
  PROVE  AddonInv'
<1>. DEFINE f == frame[p]
<1>1. Others(p) /\ frame'[p].pc = "idle" /\ UNCHANGED <<counter, plan, raised>>
  BY FrameEffects DEF Count, scenario
<1>2. CASE ~ Countable(f)
  <2>1. UNCHANGED <<rows, fresh>>
    BY <1>2 DEF Count
  <2>. QED
    BY <1>1, <2>1, AddonFrames DEF Others
<1>3. CASE Countable(f)
  <2>1. /\ OneEach(rows') /\ Len(rows) \in Nat /\ Len(rows') \in {Len(rows), Len(rows) + 1}
        /\ \A period : ~ SamePeriod(f, period) =>
              /\ RowsIn(rows', period) = RowsIn(rows, period)
              /\ \A i \in RowsIn(rows, period) : rows'[i] = rows[i]
    BY <1>3, CountedRows DEF AddonInv
  <2>2. fresh' = (fresh /\ ~ SamePeriod(f, plan))
    BY <1>3 DEF Count
  <2>3. 1 .. Len(rows) \subseteq 1 .. Len(rows')
    BY <2>1
  <2>4. RowRefs'
    BY <1>1, <2>1, <2>3 DEF AddonInv, RowRefs, Others
  <2>5. ASSUME fresh'
        PROVE  /\ RowsIn(rows', plan) = RowsIn(rows, plan) /\ fresh
               /\ \A i \in RowsIn(rows, plan) : rows'[i] = rows[i]
    BY <2>1, <2>2, <2>5
  <2>6. RowsOf(plan)' = RowsIn(rows', plan)
    BY <1>1 DEF RowsOf, RowsIn
  <2>7. RowsOf(plan) = RowsIn(rows, plan)
    BY RowsByPeriod
  <2>8. fresh' => RowsOf(plan)' # {}
    BY <2>5, <2>6, <2>7 DEF AddonInv
  <2>9. PurchasesAddUp'
    BY <1>1, <2>5, <2>6, <2>7 DEF AddonInv, PurchasesAddUp
  <2>. QED
    BY <2>4, <2>8, <2>9 DEF AddonInv
<1>. QED
  BY <1>2, <1>3

LEMMA OneMore ==
  ASSUME NEW n \in Nat, NEW d \in Nat
  PROVE  (n + 1) * d = n * d + d /\ n * d \in Nat
OBVIOUS

LEMMA RaiseKeepsAddon ==
  ASSUME IInv, AddonInv, NEW p \in Procs, Raise(p)
  PROVE  AddonInv'
<1>. DEFINE f == frame[p]
<1>1. Others(p) /\ frame'[p].pc = "idle" /\ UNCHANGED <<counter, plan, fresh>>
  BY FrameEffects DEF Raise, scenario
<1>2. /\ OneEach(rows') /\ Len(rows) \in Nat /\ Len(rows') \in {Len(rows), Len(rows) + 1}
      /\ \A i \in 1 .. Len(rows) : /\ SamePeriod(rows'[i], rows[i])
                                   /\ rows'[i].limit >= rows[i].limit
                                   /\ f.row = i => rows'[i].limit >= rows[i].limit + Delta
      /\ Len(rows') # Len(rows) =>
            SamePeriod(rows'[Len(rows) + 1], f) /\ RowsOf(f) = {} /\ f.row = 0
  BY RaisedRows DEF AddonInv
<1>3. RowRefs'
  BY <1>1, <1>2 DEF AddonInv, RowRefs, Others
<1>4. CASE ~ fresh
  BY <1>1, <1>3, <1>4 DEF AddonInv, PurchasesAddUp
<1>5. CASE fresh
  <2>1. PICK k : k \in RowsOf(plan)
    BY <1>5 DEF AddonInv
  <2>2. k \in 1 .. Len(rows) /\ SamePeriod(rows[k], plan)
    BY <2>1 DEF RowsOf
  <2>3. ASSUME Len(rows') # Len(rows) PROVE ~ SamePeriod(f, plan)
    BY <1>2, <2>2, <2>3 DEF RowsOf, SamePeriod
  <2>4. ASSUME NEW i \in 1 .. Len(rows'), SamePeriod(rows'[i], plan)
        PROVE  i \in 1 .. Len(rows) /\ SamePeriod(rows[i], plan) /\ i = k
    <3>1. i \in 1 .. Len(rows)
      BY <1>2, <2>3, <2>4 DEF SamePeriod
    <3>2. SamePeriod(rows[i], plan)
      BY <1>2, <2>4, <3>1 DEF SamePeriod
    <3>. QED
      BY <2>2, <3>1, <3>2 DEF AddonInv, RowRefs, OneEach, SamePeriod
  <2>5. k \in RowsOf(plan)'
    BY <1>1, <1>2, <2>2 DEF RowsOf, SamePeriod
  <2>6. rows[k].limit \in Nat /\ rows'[k].limit \in Nat /\ Allowed \in Nat
          /\ raised \in Nat /\ Delta \in Nat /\ rows[k].limit >= Allowed + raised * Delta
    <3>1. rows[k] \in UsageRow
      BY <2>2 DEF IInv, RowsInv
    <3>2. rows' \in Seq(UsageRow) /\ Len(rows') \in Nat
      BY RaiseKeepsIInv DEF IInv, RowsInv
    <3>3. rows'[k] \in UsageRow
      BY <1>2, <2>2, <3>2
    <3>4. rows[k].limit >= Allowed + raised * Delta
      BY <1>5, <2>1 DEF AddonInv, PurchasesAddUp, Allowed
    <3>. QED
      BY <3>1, <3>3, <3>4, LimitIsNat, UsageLimitsAssumption DEF IInv, RestInv, UsageRow, Allowed
  <2>7. rows'[k].limit >= Allowed + raised' * Delta
    <3>. DEFINE x == rows[k].limit
                y == rows'[k].limit
    <3>1. CASE raised' = raised
      <4>1. y >= x
        BY <1>2, <2>2
      <4>2. raised * Delta \in Nat
        BY <2>6
      <4>. HIDE DEF x, y
      <4>3. x \in Nat /\ y \in Nat /\ x >= Allowed + raised * Delta /\ Allowed \in Nat
        BY <2>6 DEF x, y
      <4>4. y >= Allowed + raised * Delta
        BY <4>1, <4>2, <4>3
      <4>. QED
        BY <3>1, <4>4 DEF y
    <3>2. CASE raised' # raised
      <4>1. raised' = raised + 1 /\ (f.row = 0 => SamePeriod(f, plan) /\ RowsOf(f) = {})
              /\ (f.row # 0 => SamePeriod(rows[f.row], plan))
        BY <3>2 DEF Raise, Lands
      <4>2. f.row # 0
        BY <2>2, <4>1 DEF RowsOf, SamePeriod
      <4>3. f.row \in 1 .. Len(rows)
        BY <4>2 DEF AddonInv, RowRefs, Raise
      <4>4. f.row = k
        BY <2>2, <4>1, <4>2, <4>3 DEF AddonInv, RowRefs, OneEach, SamePeriod
      <4>5. y >= x + Delta
        BY <1>2, <2>2, <4>4
      <4>6. raised' * Delta = raised * Delta + Delta /\ raised * Delta \in Nat
        BY <2>6, <4>1, OneMore
      <4>. HIDE DEF x, y
      <4>7. x \in Nat /\ y \in Nat /\ x >= Allowed + raised * Delta /\ Allowed \in Nat
              /\ Delta \in Nat
        BY <2>6 DEF x, y
      <4>8. y >= Allowed + (raised * Delta + Delta)
        BY <4>5, <4>6, <4>7
      <4>. QED
        BY <4>6, <4>8 DEF y
    <3>. QED
      BY <3>1, <3>2
  <2>8. \A i \in RowsOf(plan)' : i = k
    BY <1>1, <2>4 DEF RowsOf
  <2>9. PurchasesAddUp'
    BY <1>1, <2>7, <2>8 DEF PurchasesAddUp, Allowed
  <2>. QED
    BY <1>3, <2>5, <2>9 DEF AddonInv
<1>. QED
  BY <1>4, <1>5

LEMMA ResetKeepsAddon ==
  ASSUME IInv, AddonInv, NEW p \in Procs, ResetWrite(p)
  PROVE  AddonInv'
<1>. DEFINE f == frame[p]
<1>1. Others(p) /\ frame'[p].pc = "idle" /\ UNCHANGED <<counter, plan>>
  BY FrameEffects DEF ResetWrite, scenario
<1>2. CASE UNCHANGED <<rows, raised, fresh>>
  BY <1>1, <1>2, AddonFrames DEF Others
<1>3. CASE ~ ResetRefused(f) /\ rows' = MovedRow(f) /\ raised' = 0 /\ fresh' = TRUE
  <2>. DEFINE r == [from |-> plan.from, to |-> plan.to, used |-> f.used,
                    limit |-> Limit[plan.name][counter]]
  <2>1. f.row \in 1 .. Len(rows) /\ rows \in Seq(UsageRow) /\ Len(rows) \in Nat
    BY DEF AddonInv, RowRefs, ResetWrite, IInv, RowsInv
  <2>2. rows' = [rows EXCEPT ![f.row] = r]
    BY <1>3 DEF MovedRow
  <2>3. r.limit = Limit[plan.name][counter] /\ SamePeriod(r, plan)
    BY DEF SamePeriod
  <2>. HIDE DEF r
  <2>4. Len(rows') = Len(rows) /\ \A i \in 1 .. Len(rows) : rows'[i] = IF i = f.row THEN r ELSE rows[i]
    BY <2>1, <2>2
  <2>5. \A i \in 1 .. Len(rows) : i # f.row => ~ SamePeriod(rows[i], plan)
    BY <1>3 DEF ResetRefused, RowsOf
  <2>6. OneEach(rows')
    BY <2>3, <2>4, <2>5 DEF AddonInv, RowRefs, OneEach, SamePeriod
  <2>7. RowRefs'
    BY <1>1, <2>4, <2>6 DEF AddonInv, RowRefs, Others
  <2>8. \A i \in RowsOf(plan)' : i = f.row /\ rows'[i] = r
    BY <1>1, <2>4, <2>5 DEF RowsOf
  <2>9. f.row \in RowsOf(plan)'
    BY <1>1, <2>1, <2>3, <2>4 DEF RowsOf
  <2>10. \A i \in RowsOf(plan)' : rows'[i].limit >= Limit[plan.name][counter] + raised' * Delta
    BY <1>3, <2>3, <2>8, LimitIsNat, UsageLimitsAssumption DEF IInv
  <2>11. PurchasesAddUp'
    BY <1>1, <2>10 DEF PurchasesAddUp
  <2>. QED
    BY <2>7, <2>9, <2>11 DEF AddonInv
<1>. QED
  BY <1>2, <1>3 DEF ResetWrite

LEMMA NextKeepsAddon == IInv /\ AddonInv /\ [Next]_vars => AddonInv'
<1>. SUFFICES ASSUME IInv, AddonInv, [Next]_vars PROVE AddonInv'
  OBVIOUS
<1>1. CASE Tick
  BY <1>1, AddonFrames DEF Tick, scenario
<1>2. CASE Crash
  <2>1. \A q \in Procs : frame'[q].pc = "idle"
    BY <1>2 DEF Crash, Idle
  <2>. QED
    BY <1>2, <2>1, AddonFrames DEF Crash, scenario, history
<1>3. ASSUME NEW p \in Procs, PostStep(p) \/ AiStep(p) \/ Count(p) PROVE AddonInv'
  BY <1>3, PostKeepsAddon, CountKeepsAddon
<1>4. ASSUME NEW p \in Procs, AddonStep(p) PROVE AddonInv'
  BY <1>4, PostKeepsAddon, ReadsKeepAddon, RaiseKeepsAddon DEF AddonStep
<1>5. ASSUME NEW p \in Procs, ChangePlan(p) PROVE AddonInv'
  <2>1. PICK name, period, reset : EnsurePlan(p, name, period, reset)
    BY <1>5 DEF ChangePlan
  <2>2. fresh' = FALSE /\ rows' = rows
    BY <2>1 DEF EnsurePlan
  <2>3. Goto(p, "reset") \/ UNCHANGED frame
    BY <2>1 DEF EnsurePlan
  <2>4. \A q \in Procs : frame'[q] = frame[q] \/ frame'[q].pc = "reset"
    BY <2>3, FrameEffects DEF Others
  <2>5. RowRefs'
    BY <2>2, <2>4 DEF AddonInv, RowRefs
  <2>. QED
    BY <2>2, <2>5 DEF AddonInv, PurchasesAddUp
<1>6. ASSUME NEW p \in Procs, ChangeStep(p) PROVE AddonInv'
  BY <1>5, <1>6, ReadsKeepAddon, ResetKeepsAddon DEF ChangeStep
<1>7. CASE UNCHANGED vars
  BY <1>7, AddonFrames DEF vars, scenario, history
<1>. QED
  BY <1>1, <1>2, <1>3, <1>4, <1>6, <1>7 DEF Next

LEMMA InitAddon == Init => AddonInv
<1>. SUFFICES ASSUME Init PROVE AddonInv
  OBVIOUS
<1>. DEFINE r == [from |-> now, to |-> now + Month - 1, used |-> 0,
                  limit |-> Limit["FREE"][counter]]
<1>1. rows = <<r>> /\ Len(rows) = 1
  BY DEF Init
<1>2. SamePeriod(r, plan) /\ r.limit = Limit["FREE"][counter] /\ plan.name = "FREE"
  BY DEF Init, SamePeriod
<1>. HIDE DEF r
<1>3. rows[1] = r /\ \A i \in 1 .. Len(rows) : i = 1
  BY <1>1
<1>4. RowRefs
  BY <1>3 DEF RowRefs, OneEach, Init, Idle
<1>5. 1 \in RowsOf(plan) /\ \A i \in RowsOf(plan) : i = 1
  BY <1>1, <1>2, <1>3 DEF RowsOf
<1>6. Limit[plan.name][counter] \in Nat
  BY UsageLimitsAssumption DEF Init, Plans
<1>7. raised = 0 /\ Delta \in Nat
  BY UsageLimitsAssumption DEF Init
<1>8. PurchasesAddUp
  BY <1>2, <1>3, <1>5, <1>6, <1>7 DEF PurchasesAddUp
<1>. QED
  BY <1>4, <1>5, <1>8 DEF AddonInv

LEMMA AddonInvariance == Spec => []AddonInv
<1>1. Spec => []IInv
  BY InitIInv, NextKeepsIInv, PTL DEF Spec
<1>. QED
  BY <1>1, InitAddon, NextKeepsAddon, PTL DEF Spec

(* However many purchases of add-ons overlap, with counting and with each   *)
(* other, every one of them is in the limit of the plan's row until that    *)
(* row is counted in or reset: applyAddonPurchase's GREATEST adds to the    *)
(* limit it finds, not to the one it has read.                              *)
THEOREM AddonsAddUp == Spec => []PurchasesAddUp
BY AddonInvariance, PTL DEF AddonInv

-----------------------------------------------------------------------------
(* Months *)

LEMMA MonthHolds ==
  ASSUME NEW t \in Nat
  PROVE  /\ MonthOf(t).from <= t /\ t <= MonthOf(t).to
         /\ MonthOf(t).from \in Int /\ MonthOf(t).to \in Int
<1>1. Month \in Nat \ {0}
  BY UsageLimitsAssumption
<1>2. (t \div Month) \in Int /\ (t % Month) \in 0 .. Month - 1
  BY <1>1
<1>3. t = (t \div Month) * Month + (t % Month)
  BY <1>1
<1>4. (t \div Month) * Month \in Int
  BY <1>1, <1>2
<1>. DEFINE first == (t \div Month) * Month
<1>5. MonthOf(t).from = first /\ MonthOf(t).to = first + Month - 1
  BY DEF MonthOf
<1>6. first \in Int /\ t = first + (t % Month)
  BY <1>3, <1>4
<1>. HIDE DEF first
<1>. QED
  BY <1>1, <1>2, <1>5, <1>6

\* The months of two days that both lie in both are one.
LEMMA SameMonth ==
  ASSUME NEW t \in Nat, NEW s \in Nat, MonthOf(s).from <= t, t <= s
  PROVE  MonthOf(s) = MonthOf(t)
<1>1. Month \in Nat \ {0}
  BY UsageLimitsAssumption
<1>. DEFINE a == t \div Month
            b == s \div Month
<1>2. a \in Int /\ b \in Int
  BY <1>1
<1>3. /\ MonthOf(t) = [from |-> a * Month, to |-> a * Month + Month - 1]
      /\ MonthOf(s) = [from |-> b * Month, to |-> b * Month + Month - 1]
  BY DEF MonthOf
<1>4. a * Month <= t /\ t < a * Month + Month /\ s < b * Month + Month /\ b * Month <= t
  <2>1. a * Month \in Int /\ b * Month \in Int
    BY <1>1, <1>2
  <2>2. /\ MonthOf(t).from = a * Month /\ MonthOf(t).to = a * Month + Month - 1
        /\ MonthOf(s).from = b * Month /\ MonthOf(s).to = b * Month + Month - 1
    BY <1>3
  <2>3. /\ a * Month <= t /\ t <= a * Month + Month - 1
        /\ b * Month <= s /\ s <= b * Month + Month - 1
    BY <2>2, MonthHolds
  <2>. HIDE DEF a, b
  <2>. QED
    BY <1>1, <2>1, <2>2, <2>3
<1>. HIDE DEF a, b
<1>5. ASSUME a < b PROVE FALSE
  <2>1. (a + 1) * Month <= b * Month
    BY <1>1, <1>2, <1>5
  <2>2. (a + 1) * Month = a * Month + Month
    BY <1>1, <1>2
  <2>3. a * Month \in Int /\ b * Month \in Int
    BY <1>1, <1>2
  <2>. QED
    BY <1>1, <1>4, <2>1, <2>2, <2>3
<1>6. ASSUME b < a PROVE FALSE
  <2>1. (b + 1) * Month <= a * Month
    BY <1>1, <1>2, <1>6
  <2>2. (b + 1) * Month = b * Month + Month
    BY <1>1, <1>2
  <2>3. a * Month \in Int /\ b * Month \in Int
    BY <1>1, <1>2
  <2>. QED
    BY <1>1, <1>4, <2>1, <2>2, <2>3
<1>. QED
  BY <1>2, <1>3, <1>5, <1>6

-----------------------------------------------------------------------------
(* The month: what is published and not yet counted is in a frame's hands *)

FirstPlan == counter = "posts" /\ changes = 0

Uncounted(f, month) == f.pc = "count" /\ f.delta = 1 /\ SamePeriod(f, month)

Pending == {p \in Procs : Uncounted(frame[p], MonthOf(now))}

\* No row, and nothing that will be written, is of a month to come.
Early(f, t) ==
    /\ f.pc \in {"idle", "publish", "count", "find", "raise"}
    /\ f.pc = "count" => f.delta \in {1, -1}
    /\ f.pc \in {"count", "find", "raise"} => f.from <= t

DatesInv ==
    /\ plan.from <= now
    /\ \A i \in 1 .. Len(rows) : rows[i].from <= now
    /\ \A p \in Procs : Early(frame[p], now)

MonthCounted ==
    InForce /\ ~ crashed =>
        /\ Cardinality(Pending) <= uses
        /\ UsedIn(rows, MonthOf(now)) = Least(uses - Cardinality(Pending), Allowed)

MonthInv == FirstPlan => DatesInv /\ MonthCounted

LEMMA PendingIsNat == IsFiniteSet(Pending) /\ Cardinality(Pending) \in Nat
<1>1. IsFiniteSet(Pending)
  BY FS_Subset, UsageLimitsAssumption DEF Pending
<1>. QED
  BY <1>1, FS_CardinalityType

\* Both parts outlive a step that changes neither the count nor what is uncounted.
LEMMA MonthKept ==
  ASSUME IInv, DatesInv, MonthCounted, UNCHANGED <<counter, now, plan, crashed, uses>>,
         InForce /\ ~ crashed => UsedIn(rows', MonthOf(now)) = UsedIn(rows, MonthOf(now)),
         \A i \in 1 .. Len(rows') : \/ i \in 1 .. Len(rows) /\ SamePeriod(rows'[i], rows[i])
                                    \/ rows'[i].from <= now,
         \A q \in Procs : \/ frame'[q] = frame[q]
                          \/ /\ Early(frame'[q], now)
                             /\ ~ Uncounted(frame'[q], MonthOf(now))
                             /\ ~ Uncounted(frame[q], MonthOf(now))
  PROVE  DatesInv' /\ MonthCounted'
<1>1. DatesInv'
  <2>1. plan'.from <= now'
    BY DEF DatesInv
  <2>2. \A i \in 1 .. Len(rows') : rows'[i].from <= now'
    BY DEF DatesInv, SamePeriod
  <2>3. \A q \in Procs : Early(frame'[q], now)
    BY DEF DatesInv
  <2>4. \A q \in Procs : Early(frame[q], now)'
    BY <2>3 DEF Early
  <2>. QED
    BY <2>1, <2>2, <2>4 DEF DatesInv
<1>2. Pending' = Pending
  <2>1. \A q \in Procs : Uncounted(frame'[q], MonthOf(now)) <=> Uncounted(frame[q], MonthOf(now))
    OBVIOUS
  <2>2. MonthOf(now)' = MonthOf(now)
    BY DEF MonthOf
  <2>3. \A q \in Procs : Uncounted(frame[q], MonthOf(now))' <=> Uncounted(frame'[q], MonthOf(now))
    BY <2>2 DEF Uncounted, SamePeriod
  <2>. QED
    BY <2>1, <2>3 DEF Pending
<1>3. UsedIn(rows, MonthOf(now))' = UsedIn(rows', MonthOf(now))
  BY DEF UsedIn, RowsIn, SamePeriod, MonthOf
<1>4. Allowed' = Allowed /\ InForce' = InForce
  BY DEF Allowed, InForce
<1>. QED
  BY <1>1, <1>2, <1>3, <1>4 DEF MonthCounted

LEMMA ReadsKeepMonth ==
  ASSUME IInv, AddonInv, FirstPlan, DatesInv, MonthCounted, NEW p \in Procs,
         \/ CheckPosts(p) \/ GiveBack(p) \/ BuyAddon(p) \/ FindRow(p) \/ Raise(p)
  PROVE  DatesInv' /\ MonthCounted'
<1>. DEFINE f == frame[p]
<1>1. UNCHANGED <<counter, now, plan, crashed, uses>>
  BY DEF CheckPosts, GiveBack, BuyAddon, FindRow, Raise, scenario, history
<1>2. f.pc # "count"
  BY DEF CheckPosts, GiveBack, BuyAddon, FindRow, Raise, CanStart
<1>4. Others(p) /\ Early(frame'[p], now) /\ (frame'[p].pc = "count" => frame'[p].delta = -1)
  <2>1. CASE CheckPosts(p)
    BY <2>1, FrameEffects DEF CheckPosts, Early
  <2>2. CASE GiveBack(p)
    <3>1. MonthOf(now).from <= now
      BY MonthHolds DEF IInv, RestInv
    <3>. QED
      BY <2>2, <3>1, FrameEffects DEF Early, SamePeriod
  <2>3. CASE BuyAddon(p)
    BY <2>3, FrameEffects DEF DatesInv, Early, SamePeriod
  <2>4. CASE FindRow(p)
    <3>1. f.from <= now
      BY <2>4 DEF DatesInv, Early, FindRow
    <3>. QED
      BY <2>4, <3>1, FindEffect DEF Early, SamePeriod
  <2>5. CASE Raise(p)
    BY <2>5, FrameEffects DEF Raise, Early
  <2>. QED
    BY <2>1, <2>2, <2>3, <2>4, <2>5
<1>5. \A q \in Procs : \/ frame'[q] = frame[q]
                       \/ /\ Early(frame'[q], now)
                          /\ ~ Uncounted(frame'[q], MonthOf(now))
                          /\ ~ Uncounted(frame[q], MonthOf(now))
  BY <1>2, <1>4 DEF Others, Uncounted
<1>6. CASE Raise(p)
  <2>1. /\ Len(rows) \in Nat /\ Len(rows') \in {Len(rows), Len(rows) + 1}
        /\ \A period : UsedIn(rows', period) = UsedIn(rows, period)
        /\ \A i \in 1 .. Len(rows) : SamePeriod(rows'[i], rows[i])
        /\ Len(rows') # Len(rows) => SamePeriod(rows'[Len(rows) + 1], f)
    BY <1>6, RaisedRows DEF AddonInv
  <2>2. f.from <= now
    BY <1>6 DEF DatesInv, Early, Raise
  <2>3. \A i \in 1 .. Len(rows') : i \in 1 .. Len(rows) \/ (i = Len(rows) + 1 /\ Len(rows') # Len(rows))
    BY <2>1
  <2>4. \A i \in 1 .. Len(rows') : \/ i \in 1 .. Len(rows) /\ SamePeriod(rows'[i], rows[i])
                                   \/ rows'[i].from <= now
    BY <2>1, <2>2, <2>3 DEF SamePeriod
  <2>. QED
    BY <1>1, <1>5, <2>1, <2>4, MonthKept
<1>7. CASE ~ Raise(p)
  <2>1. rows' = rows
    BY <1>7 DEF CheckPosts, GiveBack, BuyAddon, FindRow
  <2>. QED
    BY <1>1, <1>5, <2>1, MonthKept DEF SamePeriod
<1>. QED
  BY <1>6, <1>7

LEMMA PublishKeepsMonth ==
  ASSUME IInv, FirstPlan, DatesInv, MonthCounted, NEW p \in Procs,
         Publish(p) \/ UseUnasked(p)
  PROVE  DatesInv' /\ MonthCounted'
<1>1. /\ UNCHANGED <<counter, now, plan, crashed, rows>> /\ uses' = uses + 1
      /\ frame[p].pc \in {"publish", "idle"}
  BY DEF Publish, UseUnasked, CanStart, scenario
<1>2. /\ Others(p) /\ frame'[p].pc = "count" /\ frame'[p].delta = 1
      /\ SamePeriod(frame'[p], MonthOf(now))
  BY FrameEffects
<1>3. MonthOf(now).from <= now
  BY MonthHolds DEF IInv, RestInv
<1>4. Early(frame'[p], now)
  BY <1>2, <1>3 DEF Early, SamePeriod
<1>5. \A q \in Procs : Early(frame'[q], now)
  BY <1>2, <1>4 DEF DatesInv, Others
<1>6. DatesInv'
  BY <1>1, <1>5 DEF DatesInv, Early
<1>7. Pending' = Pending \cup {p} /\ p \notin Pending
  <2>1. MonthOf(now)' = MonthOf(now)
    BY <1>1 DEF MonthOf
  <2>2. Uncounted(frame'[p], MonthOf(now)) /\ ~ Uncounted(frame[p], MonthOf(now))
    BY <1>1, <1>2 DEF Uncounted
  <2>3. \A q \in Procs : Uncounted(frame[q], MonthOf(now))' <=> Uncounted(frame'[q], MonthOf(now))
    BY <2>1 DEF Uncounted, SamePeriod
  <2>. QED
    BY <1>2, <2>2, <2>3 DEF Pending, Others
<1>8. Cardinality(Pending') = Cardinality(Pending) + 1
  BY <1>7, PendingIsNat, FS_AddElement
<1>9. UsedIn(rows, MonthOf(now))' = UsedIn(rows, MonthOf(now)) /\ Allowed' = Allowed
        /\ InForce' = InForce
  BY <1>1 DEF UsedIn, RowsIn, SamePeriod, MonthOf, Allowed, InForce
<1>10. MonthCounted'
  <2>. SUFFICES ASSUME InForce, ~ crashed
       PROVE  /\ Cardinality(Pending') <= uses'
              /\ UsedIn(rows, MonthOf(now))' = Least(uses' - Cardinality(Pending'), Allowed')
    BY <1>1, <1>9 DEF MonthCounted, Least
  <2>1. uses' - Cardinality(Pending') = uses - Cardinality(Pending)
    BY <1>1, <1>8, PendingIsNat DEF IInv, RestInv
  <2>2. Cardinality(Pending) <= uses
    BY DEF MonthCounted
  <2>3. Cardinality(Pending') <= uses'
    BY <1>1, <1>8, <2>2, PendingIsNat DEF IInv, RestInv
  <2>. QED
    BY <1>9, <2>1, <2>3 DEF MonthCounted
<1>. QED
  BY <1>6, <1>10

LEMMA CountKeepsMonth ==
  ASSUME IInv, AddonInv, FirstPlan, DatesInv, MonthCounted, NEW p \in Procs, Count(p)
  PROVE  DatesInv' /\ MonthCounted'
<1>. DEFINE f == frame[p]
            month == MonthOf(now)
            n == Cardinality(Pending)
            used == UsedIn(rows, month)
<1>1. UNCHANGED <<counter, now, plan, crashed, uses>> /\ f.pc = "count"
  BY DEF Count, scenario, FirstPlan
<1>2. Others(p) /\ frame'[p].pc = "idle"
  BY FrameEffects DEF Count
<1>3. \A q \in Procs : \/ q # p /\ frame'[q] = frame[q]
                       \/ q = p /\ Early(frame'[q], now) /\ ~ Uncounted(frame'[q], month)
  BY <1>2 DEF Others, Early, Uncounted
<1>4. f.delta \in {1, -1} /\ f.from <= now
  BY <1>1 DEF DatesInv, Early
<1>5. /\ \A i \in 1 .. Len(rows') : \/ i \in 1 .. Len(rows) /\ SamePeriod(rows'[i], rows[i])
                                    \/ rows'[i].from <= now
      /\ Countable(f) => \A period : SamePeriod(f, period) =>
            UsedIn(rows', period) = Least(UsedIn(rows, period) + Added(f.delta), Allowed)
      /\ \A period : ~ Countable(f) \/ ~ SamePeriod(f, period) =>
            UsedIn(rows', period) = UsedIn(rows, period)
  <2>1. CASE Countable(f)
    BY <1>4, <2>1, CountedRows DEF AddonInv, SamePeriod
  <2>2. CASE ~ Countable(f)
    <3>1. rows' = rows
      BY <2>2 DEF Count
    <3>. QED
      BY <2>2, <3>1 DEF SamePeriod
  <2>. QED
    BY <2>1, <2>2
<1>6. n \in Nat /\ uses \in Nat /\ Allowed \in Nat /\ used \in Nat
  BY PendingIsNat, LimitIsNat, UsedIsNat DEF IInv, RestInv, RowsInv, Allowed
<1>7. CASE ~ Uncounted(f, month)
  <2>1. ASSUME InForce, ~ crashed
        PROVE  UsedIn(rows', month) = used
    <3>1. CASE ~ Countable(f) \/ ~ SamePeriod(f, month)
      BY <1>5, <3>1
    <3>2. CASE Countable(f) /\ SamePeriod(f, month)
      <4>1. f.delta = -1
        BY <1>1, <1>4, <1>7, <3>2 DEF Uncounted
      <4>2. Added(f.delta) = 0
        BY <1>6, <4>1 DEF Added, Greatest, Least, Allowed
      <4>3. used <= Allowed
        BY <1>6, <2>1 DEF MonthCounted, Least
      <4>4. UsedIn(rows', month) = Least(used + 0, Allowed)
        BY <1>5, <3>2, <4>2
      <4>. HIDE DEF used
      <4>. QED
        BY <1>6, <4>3, <4>4 DEF Least
    <3>. QED
      BY <3>1, <3>2
  <2>2. \A q \in Procs : \/ frame'[q] = frame[q]
                         \/ /\ Early(frame'[q], now)
                            /\ ~ Uncounted(frame'[q], month)
                            /\ ~ Uncounted(frame[q], month)
    BY <1>3, <1>7
  <2>. QED
    BY <1>1, <1>5, <2>1, <2>2, MonthKept
<1>8. CASE Uncounted(f, month)
  <2>1. DatesInv'
    <3>1. \A q \in Procs : Early(frame'[q], now)
      BY <1>3 DEF DatesInv
    <3>. QED
      BY <1>1, <1>5, <3>1 DEF DatesInv, Early, SamePeriod
  <2>2. Pending' = Pending \ {p} /\ p \in Pending
    <3>1. month' = month
      BY <1>1 DEF MonthOf
    <3>2. \A q \in Procs : Uncounted(frame[q], month)' <=> Uncounted(frame'[q], month)
      BY <3>1 DEF Uncounted, SamePeriod
    <3>. QED
      BY <1>3, <1>8, <3>2 DEF Pending
  <2>3. Cardinality(Pending') = n - 1 /\ n # 0
    <3>1. Cardinality(Pending') = n - 1
      BY <2>2, PendingIsNat, FS_RemoveElement
    <3>2. n # 0
      BY <2>2, PendingIsNat, FS_EmptySet
    <3>. QED
      BY <3>1, <3>2
  <2>4. /\ UsedIn(rows, month)' = UsedIn(rows', month) /\ Allowed' = Allowed
        /\ InForce' = InForce /\ uses' = uses /\ crashed' = crashed
    BY <1>1 DEF UsedIn, RowsIn, SamePeriod, MonthOf, Allowed, InForce
  <2>5. ASSUME InForce, ~ crashed
        PROVE  n - 1 <= uses /\ UsedIn(rows', month) = Least(uses - (n - 1), Allowed)
    <3>1. n <= uses /\ used = Least(uses - n, Allowed)
      BY <2>5 DEF MonthCounted
    <3>2. month.from <= now /\ now <= month.to
      BY MonthHolds DEF IInv, RestInv
    <3>3. f.delta = 1 /\ f.from = month.from /\ f.to = month.to
      BY <1>8 DEF Uncounted, SamePeriod
    <3>4. Countable(f) <=> Allowed > 0
      <4>1. plan.to >= f.from /\ plan.from <= f.to
        <5>1. plan.from <= now /\ now <= plan.to
          BY <2>5 DEF DatesInv, InForce
        <5>2. now \in Nat /\ plan.from \in Int /\ plan.to \in Int
          BY DEF IInv, RestInv, PlanRow
        <5>3. f.from \in Int /\ f.to \in Int
          BY FrameOf DEF Frame
        <5>. QED
          BY <3>2, <3>3, <5>1, <5>2, <5>3
      <4>. QED
        BY <4>1 DEF Countable, Allowed
    <3>5. CASE Allowed > 0
      <4>1. UsedIn(rows', month) = Least(used + Added(1), Allowed)
        BY <1>5, <1>8, <3>3, <3>4, <3>5 DEF Uncounted
      <4>2. Added(1) = 1
        BY <1>6, <3>5 DEF Added, Greatest, Least, Allowed
      <4>. HIDE DEF n, used
      <4>. QED
        BY <1>6, <3>1, <3>5, <4>1, <4>2 DEF Least
    <3>6. CASE ~ (Allowed > 0)
      <4>1. UsedIn(rows', month) = used
        BY <1>5, <3>4, <3>6
      <4>. HIDE DEF n, used
      <4>. QED
        BY <1>6, <2>3, <3>1, <3>6, <4>1 DEF Least
    <3>. QED
      BY <3>5, <3>6
  <2>. QED
    BY <2>1, <2>3, <2>4, <2>5 DEF MonthCounted
<1>. QED
  BY <1>7, <1>8

LEMMA TickKeepsMonth ==
  ASSUME IInv, FirstPlan, DatesInv, MonthCounted, Tick
  PROVE  DatesInv' /\ MonthCounted'
<1>1. UNCHANGED <<counter, plan, crashed, rows, frame>> /\ now' = now + 1 /\ now \in Nat
  BY DEF Tick, scenario, IInv, RestInv
<1>2. DatesInv'
  <2>1. plan.from \in Int /\ plan.from <= now + 1
    BY <1>1 DEF DatesInv, IInv, RestInv, PlanRow
  <2>2. ASSUME NEW i \in 1 .. Len(rows) PROVE rows[i].from <= now + 1
    <3>1. rows[i] \in UsageRow
      BY DEF IInv, RowsInv
    <3>. QED
      BY <1>1, <3>1 DEF DatesInv, UsageRow
  <2>3. ASSUME NEW q \in Procs PROVE Early(frame[q], now + 1)
    BY <1>1, FrameOf DEF DatesInv, Early, Frame
  <2>. QED
    BY <1>1, <2>1, <2>2, <2>3 DEF DatesInv
<1>3. InForce' => InForce
  BY <1>1 DEF InForce, IInv, RestInv, PlanRow
<1>4. CASE MonthOf(now + 1) = MonthOf(now)
  <2>1. UNCHANGED <<uses, allow>>
    BY <1>1, <1>4 DEF Tick
  <2>2. MonthOf(now)' = MonthOf(now)
    BY <1>1, <1>4 DEF MonthOf
  <2>3. Pending' = Pending
    BY <1>1, <2>2 DEF Pending, Uncounted, SamePeriod
  <2>4. UsedIn(rows, MonthOf(now))' = UsedIn(rows, MonthOf(now))
    <3>1. UsedIn(rows, MonthOf(now))' = UsedIn(rows', MonthOf(now'))
      BY DEF UsedIn, RowsIn, SamePeriod, MonthOf
    <3>2. UsedIn(rows', MonthOf(now')) = UsedIn(rows, MonthOf(now))
      BY <1>1, <1>4
    <3>. QED
      BY <3>1, <3>2
  <2>5. Allowed' = Allowed
    BY <1>1 DEF Allowed
  <2>. QED
    BY <1>1, <1>2, <1>3, <2>1, <2>3, <2>4, <2>5 DEF MonthCounted
<1>5. CASE MonthOf(now + 1) # MonthOf(now)
  <2>1. uses' = 0
    BY <1>1, <1>5 DEF Tick, FirstPlan
  <2>2. ~ (MonthOf(now + 1).from <= now)
    BY <1>1, <1>5, SameMonth
  <2>3. Pending' = {}
    <3>1. \A q \in Procs : frame[q].pc = "count" => frame[q].from <= now
      BY DEF DatesInv, Early
    <3>. QED
      BY <1>1, <2>2, <3>1 DEF Pending, Uncounted, SamePeriod
  <2>4. RowsIn(rows, MonthOf(now + 1)) = {}
    BY <2>2 DEF DatesInv, RowsIn, SamePeriod
  <2>5. UsedIn(rows, MonthOf(now))' = 0
    BY <1>1, <2>4 DEF UsedIn, RowsIn
  <2>6. Cardinality(Pending') = 0
    BY <2>3, FS_EmptySet
  <2>7. Allowed' \in Nat
    BY <1>1, LimitIsNat DEF IInv, Allowed
  <2>. QED
    BY <1>2, <2>1, <2>5, <2>6, <2>7 DEF MonthCounted, Least
<1>. QED
  BY <1>4, <1>5

LEMMA CounterStays ==
  ASSUME [Next]_vars
  PROVE  counter' = counter /\ faults' = faults /\ changes' \in {changes, changes + 1}
<1>1. CASE Tick \/ Crash
  BY <1>1 DEF Tick, Crash, scenario
<1>2. ASSUME NEW p \in Procs, PostStep(p) \/ AiStep(p)
      PROVE  UNCHANGED <<counter, faults, changes>>
  BY <1>2 DEF PostStep, CheckPosts, Publish, UseUnasked, GiveBack, AiStep, AskAi, ReadPeriod,
              CheckAi, scenario
<1>3. ASSUME NEW p \in Procs, Count(p) PROVE UNCHANGED <<counter, faults, changes>>
  BY <1>3, Zenon DEF Count, scenario
<1>4. ASSUME NEW p \in Procs, AddonStep(p) PROVE UNCHANGED <<counter, faults, changes>>
  BY <1>4, Zenon DEF AddonStep, BuyAddon, FindRow, Raise, scenario
<1>5. ASSUME NEW p \in Procs, ChangeStep(p)
      PROVE  counter' = counter /\ faults' = faults /\ changes' \in {changes, changes + 1}
  <2>1. CASE ChangePlan(p)
    BY <2>1 DEF ChangePlan, EnsurePlan, scenario
  <2>2. CASE ResetRead(p) \/ ResetWrite(p)
    BY <2>2, Zenon DEF ResetRead, ResetWrite, scenario
  <2>. QED
    BY <1>5, <2>1, <2>2 DEF ChangeStep
<1>6. CASE UNCHANGED vars
  BY <1>6 DEF vars
<1>. QED
  BY <1>1, <1>2, <1>3, <1>4, <1>5, <1>6 DEF Next

LEMMA NextKeepsMonth == IInv /\ AddonInv /\ MonthInv /\ [Next]_vars => MonthInv'
<1>. SUFFICES ASSUME IInv, AddonInv, MonthInv, [Next]_vars, FirstPlan'
     PROVE  DatesInv' /\ MonthCounted'
  BY DEF MonthInv
<1>1. FirstPlan
  BY CounterStays DEF FirstPlan, IInv, RestInv
<1>2. DatesInv /\ MonthCounted
  BY <1>1 DEF MonthInv
<1>3. CASE Tick
  BY <1>1, <1>2, <1>3, TickKeepsMonth
<1>4. CASE Crash
  <2>1. crashed' = TRUE /\ UNCHANGED <<now, plan, rows>>
    BY <1>4 DEF Crash
  <2>2. \A q \in Procs : frame'[q].pc = "idle"
    BY <1>4 DEF Crash, Idle
  <2>3. DatesInv'
    BY <1>2, <2>1, <2>2 DEF DatesInv, Early
  <2>. QED
    BY <2>1, <2>3 DEF MonthCounted
<1>5. ASSUME NEW p \in Procs, PostStep(p) \/ AddonStep(p) PROVE DatesInv' /\ MonthCounted'
  BY <1>1, <1>2, <1>5, ReadsKeepMonth, PublishKeepsMonth DEF PostStep, AddonStep
<1>6. ASSUME NEW p \in Procs, Count(p) PROVE DatesInv' /\ MonthCounted'
  BY <1>1, <1>2, <1>6, CountKeepsMonth
<1>7. ASSUME NEW p \in Procs, AiStep(p) \/ ChangeStep(p) PROVE FALSE
  <2>1. frame[p].pc \notin {"period", "quota", "reset", "write"}
    BY <1>2 DEF DatesInv, Early
  <2>2. counter # "ai" /\ changes' = 0 /\ changes \in Nat /\ changes = 0
    BY <1>1 DEF FirstPlan, IInv, RestInv
  <2>3. ~ ChangePlan(p)
    BY <2>2 DEF ChangePlan, EnsurePlan
  <2>. QED
    BY <1>7, <2>1, <2>2, <2>3 DEF AiStep, AskAi, ReadPeriod, CheckAi, ChangeStep, ResetRead,
                                  ResetWrite
<1>8. CASE UNCHANGED vars
  <2>1. \A i \in 1 .. Len(rows') : i \in 1 .. Len(rows) /\ SamePeriod(rows'[i], rows[i])
    BY <1>8 DEF vars, SamePeriod
  <2>2. UNCHANGED <<counter, now, plan, crashed, uses, frame, rows>>
    BY <1>8 DEF vars
  <2>. QED
    BY <1>2, <2>1, <2>2, MonthKept
<1>. QED
  BY <1>3, <1>4, <1>5, <1>6, <1>7, <1>8 DEF Next

LEMMA InitMonth == Init => MonthInv
<1>. SUFFICES ASSUME Init PROVE DatesInv /\ MonthCounted
  BY DEF MonthInv
<1>. DEFINE r == [from |-> now, to |-> now + Month - 1, used |-> 0,
                  limit |-> Limit["FREE"][counter]]
<1>1. rows = <<r>> /\ r.from = now /\ r.used = 0
  BY DEF Init
<1>. HIDE DEF r
<1>2. now \in Nat /\ plan.from = now /\ uses = 0
  BY UsageLimitsAssumption DEF Init
<1>3. Len(rows) = 1 /\ rows[1] = r /\ \A i \in 1 .. Len(rows) : i = 1
  BY <1>1
<1>4. \A q \in Procs : frame[q].pc = "idle"
  BY DEF Init, Idle
<1>5. DatesInv
  BY <1>1, <1>2, <1>3, <1>4 DEF DatesInv, Early
<1>6. Pending = {}
  BY <1>4 DEF Pending, Uncounted
<1>7. UsedIn(rows, MonthOf(now)) = 0
  <2>1. CASE RowsIn(rows, MonthOf(now)) = {}
    BY <2>1 DEF UsedIn
  <2>2. CASE RowsIn(rows, MonthOf(now)) # {}
    <3>1. PICK j : j = CHOOSE k \in RowsIn(rows, MonthOf(now)) : TRUE
      OBVIOUS
    <3>2. j \in 1 .. Len(rows)
      BY <2>2, <3>1 DEF RowsIn
    <3>. QED
      BY <1>1, <1>3, <2>2, <3>1, <3>2 DEF UsedIn
  <2>. QED
    BY <2>1, <2>2
<1>8. Cardinality(Pending) = 0
  BY <1>6, FS_EmptySet
<1>9. Allowed \in Nat
  BY InitIInv, LimitIsNat DEF IInv, Allowed
<1>. QED
  BY <1>2, <1>5, <1>7, <1>8, <1>9 DEF MonthCounted, Least

LEMMA MonthImplies == IInv /\ MonthInv => CountedOrClamped
<1>. SUFFICES ASSUME IInv, MonthInv, counter = "posts", changes = 0, InForce, ~ crashed,
                     \A p \in Procs : frame[p].pc # "count"
     PROVE  Used(MonthOf(now)) = Least(uses, QuotaLimit)
  BY DEF CountedOrClamped
<1>1. Pending = {}
  BY DEF Pending, Uncounted
<1>2. Cardinality(Pending) = 0
  BY <1>1, FS_EmptySet
<1>3. UsedIn(rows, MonthOf(now)) = Least(uses - 0, Allowed)
  BY <1>2 DEF MonthInv, FirstPlan, MonthCounted
<1>4. uses - 0 = uses
  BY DEF IInv, RestInv
<1>. QED
  BY <1>3, <1>4, RowsByPeriod DEF QuotaLimit, Allowed

(* However the checks, jobs, callbacks, deletions and add-ons of a month    *)
(* overlap, updateUserPlanUsage's upsert loses no count of a post: once     *)
(* none is under way, the month's row says what was published, up to the    *)
(* limit the sum is clamped to.  A change of plan or a crash may lose some. *)
THEOREM MonthIsCounted == Spec => []CountedOrClamped
<1>1. Spec => []IInv
  BY InitIInv, NextKeepsIInv, PTL DEF Spec
<1>2. Spec => []AddonInv
  BY AddonInvariance
<1>3. Spec => []MonthInv
  BY <1>1, <1>2, InitMonth, NextKeepsMonth, PTL DEF Spec
<1>. QED
  BY <1>1, <1>3, MonthImplies, PTL

-----------------------------------------------------------------------------
(* One at a time: what the plan in force allows is not used up before its  *)
(* row says so, and the rest was allowed by the plans before it.  A use    *)
(* that a check would have refused adds to both sides.                     *)

\* The period that is checked and counted in.
Looked == IF counter = "posts" THEN MonthOf(now) ELSE [from |-> plan.from, to |-> plan.to]

Slack == allow + excess - Allowed + UsedIn(rows, Looked)

Alone(p) == \A q \in Procs : q # p => frame[q].pc = "idle"

\* A post is used before it is counted.
Owing(f) == counter = "posts" /\ f.pc = "count" /\ f.delta = 1 /\ CheckPasses(Looked)

TurnFrame(f) ==
    /\ f.pc = "publish" => counter = "posts" /\ CheckPasses(Looked)
    /\ f.pc \in {"period", "quota"} => counter = "ai"
    /\ f.pc \in {"quota", "count"} => SamePeriod(f, Looked)
    /\ f.pc = "count" => \/ (f.delta = 1 /\ CheckPasses(Looked))
                         \/ counter = "posts"
    /\ f.pc \in {"reset", "write"} => uses <= allow + excess - Allowed
    /\ IF Owing(f) THEN uses <= Slack + 1 ELSE uses <= Slack

TurnInv ==
    /\ plan.from <= now
    /\ uses <= allow + excess
    /\ AllIdle => uses <= Slack
    /\ \A p \in Procs : frame[p].pc # "idle" => Alone(p) /\ TurnFrame(frame[p])

LEMMA TurnTypes ==
  ASSUME IInv
  PROVE  /\ Slack \in Int /\ Allowed \in Nat /\ allow \in Nat /\ uses \in Nat /\ excess \in Nat
         /\ UsedIn(rows, Looked) \in Nat
<1>1. Allowed \in Nat /\ allow \in Nat /\ uses \in Nat /\ excess \in Nat
  BY LimitIsNat DEF IInv, RestInv, Allowed
<1>2. UsedIn(rows, Looked) \in Nat
  BY UsedIsNat DEF IInv, RowsInv
<1>. QED
  BY <1>1, <1>2 DEF Slack

\* A count that passes the check is below what the plan in force allows.
LEMMA PassesMeans ==
  ASSUME IInv, NEW period, SamePeriod(period, Looked), CheckPasses(period)
  PROVE  InForce /\ UsedIn(rows, Looked) + 1 <= Allowed /\ CheckPasses(Looked)
<1>1. Used(period) = UsedIn(rows, Looked) /\ Used(Looked) = UsedIn(rows, Looked)
  <2>1. RowsIn(rows, period) = RowsIn(rows, Looked)
    BY DEF RowsIn, SamePeriod
  <2>. QED
    BY <2>1, RowsByPeriod DEF UsedIn
<1>2. InForce
  BY DEF CheckPasses, QuotaUsed, QuotaLimit
<1>. QED
  BY <1>1, <1>2 DEF CheckPasses, QuotaUsed, QuotaLimit, Allowed

LEMMA LooksSame ==
  ASSUME UNCHANGED <<counter, now, plan, rows>>
  PROVE  /\ Looked' = Looked /\ UsedIn(rows, Looked)' = UsedIn(rows, Looked)
         /\ Allowed' = Allowed /\ (CheckPasses(Looked)' <=> CheckPasses(Looked))
<1>1. Looked' = Looked
  BY DEF Looked, MonthOf
<1>2. UsedIn(rows, Looked)' = UsedIn(rows, Looked)
  BY <1>1 DEF UsedIn, RowsIn, SamePeriod
<1>3. Allowed' = Allowed
  BY DEF Allowed
<1>4. Used(Looked)' = Used(Looked)
  BY <1>1 DEF Used, RowsOf, SamePeriod
<1>5. CheckPasses(Looked)' <=> CheckPasses(Looked)
  BY <1>4 DEF CheckPasses, QuotaUsed, QuotaLimit, InForce
<1>. QED
  BY <1>1, <1>2, <1>3, <1>5

\* A step of one frame that neither uses, allows, nor writes.
LEMMA TurnKept ==
  ASSUME IInv, TurnInv, UNCHANGED <<counter, now, plan, rows, uses, allow, excess>>,
         NEW p \in Procs, Alone(p), Others(p),
         IF frame'[p].pc = "idle" THEN uses <= Slack ELSE TurnFrame(frame'[p])
  PROVE  TurnInv'
<1>1. Slack' = Slack
  BY LooksSame DEF Slack
<1>2. ASSUME TurnFrame(frame'[p]) PROVE TurnFrame(frame[p])'
  BY <1>1, <1>2, LooksSame DEF TurnFrame, Owing, SamePeriod
<1>3. \A q \in Procs : q # p => frame'[q].pc = "idle"
  BY DEF Alone, Others
<1>4. plan'.from <= now' /\ uses' <= allow' + excess'
  BY DEF TurnInv
<1>5. ASSUME AllIdle' PROVE uses' <= Slack'
  <2>1. frame'[p].pc = "idle"
    BY <1>5 DEF AllIdle
  <2>. QED
    BY <1>1, <2>1
<1>6. ASSUME NEW q \in Procs, frame'[q].pc # "idle" PROVE Alone(q)' /\ TurnFrame(frame[q])'
  <2>1. q = p
    BY <1>3, <1>6
  <2>. QED
    BY <1>2, <1>3, <1>6, <2>1 DEF Alone
<1>. QED
  BY <1>4, <1>5, <1>6 DEF TurnInv

\* A step that ends the one frame there was.
LEMMA TurnEnds ==
  ASSUME IInv', NEW p \in Procs, Alone(p), Others(p), frame'[p].pc = "idle",
         plan'.from <= now', uses' <= allow' + excess', uses' <= Slack'
  PROVE  TurnInv'
<1>1. \A q \in Procs : frame'[q].pc = "idle"
  BY DEF Alone, Others
<1>. QED
  BY <1>1 DEF TurnInv

\* What starts finds everything idle; what goes on is alone.
LEMMA Turns ==
  ASSUME IInv, TurnInv, Orderly, NEW p \in Procs
  PROVE  /\ CanStart(p) => Alone(p) /\ frame[p].pc = "idle" /\ uses <= Slack
         /\ frame[p].pc # "idle" => Alone(p) /\ TurnFrame(frame[p])
         /\ frame[p].pc # "idle" /\ frame[p].pc # "count" => uses <= Slack
<1>1. CanStart(p) => AllIdle
  BY DEF CanStart, Rest, Orderly
<1>2. frame[p].pc # "idle" => Alone(p) /\ TurnFrame(frame[p])
  BY DEF TurnInv
<1>. QED
  BY <1>1, <1>2 DEF TurnInv, AllIdle, Alone, TurnFrame, Owing

LEMMA StartsKeepTurn ==
  ASSUME IInv, TurnInv, Orderly, NEW p \in Procs,
         CheckPosts(p) \/ GiveBack(p) \/ AskAi(p) \/ BuyAddon(p)
  PROVE  TurnInv'
<1>1. UNCHANGED <<counter, now, plan, rows, uses, allow, excess>> /\ CanStart(p)
  BY DEF CheckPosts, GiveBack, AskAi, BuyAddon, scenario, history
<1>2. Alone(p) /\ uses <= Slack
  BY <1>1, Turns
<1>3. CASE CheckPosts(p)
  <2>1. Others(p) /\ frame'[p].pc = "publish" /\ counter = "posts" /\ CheckPasses(MonthOf(now))
    BY <1>3, FrameEffects DEF CheckPosts
  <2>2. TurnFrame(frame'[p])
    BY <1>2, <2>1 DEF TurnFrame, Owing, Looked
  <2>. QED
    BY <1>1, <1>2, <2>1, <2>2, TurnKept
<1>4. CASE GiveBack(p)
  <2>1. /\ Others(p) /\ frame'[p].pc = "count" /\ frame'[p].delta = -1 /\ counter = "posts"
        /\ SamePeriod(frame'[p], MonthOf(now))
    <3>1. counter = "posts"
      BY <1>4, Zenon DEF GiveBack
    <3>. QED
      BY <1>4, <3>1, FrameEffects
  <2>2. TurnFrame(frame'[p])
    BY <1>2, <2>1 DEF TurnFrame, Owing, Looked
  <2>. QED
    BY <1>1, <1>2, <2>1, <2>2, TurnKept
<1>5. CASE AskAi(p)
  <2>1. Others(p) /\ frame'[p].pc = "period" /\ counter = "ai"
    BY <1>5, FrameEffects DEF AskAi
  <2>2. TurnFrame(frame'[p])
    BY <1>2, <2>1 DEF TurnFrame, Owing
  <2>. QED
    BY <1>1, <1>2, <2>1, <2>2, TurnKept
<1>6. CASE BuyAddon(p)
  <2>1. Others(p) /\ frame'[p].pc = "find"
    BY <1>6, FrameEffects
  <2>2. TurnFrame(frame'[p])
    BY <1>2, <2>1 DEF TurnFrame, Owing
  <2>. QED
    BY <1>1, <1>2, <2>1, <2>2, TurnKept
<1>. QED
  BY <1>3, <1>4, <1>5, <1>6

LEMMA ReadsKeepTurn ==
  ASSUME IInv, TurnInv, Orderly, NEW p \in Procs,
         ReadPeriod(p) \/ CheckAi(p) \/ FindRow(p) \/ ResetRead(p)
  PROVE  TurnInv'
<1>1. /\ UNCHANGED <<counter, now, plan, rows, uses, allow, excess>>
      /\ frame[p].pc \in {"period", "quota", "find", "reset"}
  BY DEF ReadPeriod, CheckAi, FindRow, ResetRead, scenario, history
<1>2. Alone(p) /\ TurnFrame(frame[p]) /\ uses <= Slack
  BY <1>1, Turns
<1>3. CASE ReadPeriod(p)
  <2>1. /\ Others(p) /\ frame'[p].pc = "quota" /\ SamePeriod(frame'[p], plan)
        /\ frame[p].pc = "period"
    <3>1. frame[p].pc = "period"
      BY <1>3, Zenon DEF ReadPeriod
    <3>. QED
      BY <1>3, <3>1, FrameEffects
  <2>2. counter = "ai"
    BY <1>2, <2>1 DEF TurnFrame
  <2>3. SamePeriod(frame'[p], Looked)
    BY <2>1, <2>2 DEF Looked, SamePeriod
  <2>4. TurnFrame(frame'[p])
    BY <1>2, <2>1, <2>2, <2>3 DEF TurnFrame, Owing
  <2>. QED
    BY <1>1, <1>2, <2>1, <2>4, TurnKept
<1>4. CASE CheckAi(p)
  <2>1. frame[p].pc = "quota"
    BY <1>4 DEF CheckAi
  <2>2. counter = "ai" /\ SamePeriod(frame[p], Looked)
    BY <1>2, <2>1 DEF TurnFrame
  <2>3. CASE frame'[p].pc = "idle"
    BY <1>1, <1>2, <1>4, <2>3, CheckEffect, TurnKept
  <2>4. CASE frame'[p].pc # "idle"
    <3>1. /\ Others(p) /\ CheckPasses(frame[p]) /\ frame'[p].pc = "count" /\ frame'[p].delta = 1
          /\ SamePeriod(frame'[p], frame[p])
      BY <1>4, <2>4, CheckEffect
    <3>2. CheckPasses(Looked)
      BY <2>2, <3>1, PassesMeans
    <3>3. SamePeriod(frame'[p], Looked)
      BY <2>2, <3>1 DEF SamePeriod
    <3>4. TurnFrame(frame'[p])
      BY <1>2, <2>2, <3>1, <3>2, <3>3 DEF TurnFrame, Owing
    <3>. QED
      BY <1>1, <1>2, <3>1, <3>4, TurnKept
  <2>. QED
    BY <2>3, <2>4
<1>5. CASE FindRow(p)
  <2>1. Others(p) /\ frame'[p].pc = "raise"
    BY <1>5, FindEffect
  <2>2. TurnFrame(frame'[p])
    BY <1>2, <2>1 DEF TurnFrame, Owing
  <2>. QED
    BY <1>1, <1>2, <2>1, <2>2, TurnKept
<1>6. CASE ResetRead(p)
  <2>1. Others(p) /\ frame'[p].pc = "write" /\ frame[p].pc = "reset"
    <3>1. frame[p].pc = "reset"
      BY <1>6, Zenon DEF ResetRead
    <3>. QED
      BY <1>6, <3>1, ReadEffect
  <2>2. uses <= allow + excess - Allowed
    BY <1>2, <2>1 DEF TurnFrame
  <2>3. TurnFrame(frame'[p])
    BY <1>2, <2>1, <2>2 DEF TurnFrame, Owing
  <2>. QED
    BY <1>1, <1>2, <2>1, <2>3, TurnKept
<1>. QED
  BY <1>3, <1>4, <1>5, <1>6

LEMMA PublishKeepsTurn ==
  ASSUME IInv, TurnInv, Orderly, NEW p \in Procs, Publish(p)
  PROVE  TurnInv'
<1>1. /\ UNCHANGED <<counter, now, plan, rows, allow, excess>> /\ uses' = uses + 1
      /\ frame[p].pc = "publish"
  BY DEF Publish, scenario
<1>2. Alone(p) /\ TurnFrame(frame[p]) /\ uses <= Slack
  BY <1>1, Turns
<1>3. /\ Others(p) /\ frame'[p].pc = "count" /\ frame'[p].delta = 1
      /\ SamePeriod(frame'[p], MonthOf(now))
  BY FrameEffects
<1>4. counter = "posts" /\ CheckPasses(Looked)
  BY <1>1, <1>2 DEF TurnFrame
<1>5. UsedIn(rows, Looked) + 1 <= Allowed
  BY <1>4, PassesMeans DEF SamePeriod
<1>6. uses' <= allow' + excess' /\ uses' <= Slack + 1
  BY <1>1, <1>2, <1>5, TurnTypes DEF Slack
<1>7. Slack' = Slack
  BY <1>1, LooksSame DEF Slack
<1>8. TurnFrame(frame[p])'
  <2>1. SamePeriod(frame'[p], Looked')
    BY <1>1, <1>3, <1>4, LooksSame DEF Looked
  <2>2. CheckPasses(Looked)'
    BY <1>1, <1>4, LooksSame
  <2>. QED
    BY <1>1, <1>3, <1>4, <1>6, <1>7, <2>1, <2>2 DEF TurnFrame, Owing, SamePeriod
<1>9. \A q \in Procs : q # p => frame'[q].pc = "idle"
  BY <1>2, <1>3 DEF Alone, Others
<1>10. plan'.from <= now'
  BY <1>1 DEF TurnInv
<1>. QED
  BY <1>3, <1>6, <1>8, <1>9, <1>10 DEF TurnInv, AllIdle, Alone

LEMMA UnaskedKeepsTurn ==
  ASSUME IInv, TurnInv, Orderly, NEW p \in Procs, UseUnasked(p)
  PROVE  TurnInv'
<1>1. /\ UNCHANGED <<counter, now, plan, rows, allow>> /\ uses' = uses + 1
      /\ excess' = IF CheckPasses(Looked) THEN excess ELSE excess + 1
      /\ counter = "posts" /\ CanStart(p)
  BY DEF UseUnasked, scenario, Looked
<1>2. Alone(p) /\ uses <= Slack /\ uses <= allow + excess
  BY <1>1, Turns DEF TurnInv
<1>3. /\ Others(p) /\ frame'[p].pc = "count" /\ frame'[p].delta = 1
      /\ SamePeriod(frame'[p], MonthOf(now))
  BY FrameEffects
<1>4. Looked' = Looked /\ (CheckPasses(Looked)' <=> CheckPasses(Looked))
      /\ Slack' = allow + excess' - Allowed + UsedIn(rows, Looked)
  BY <1>1, LooksSame DEF Slack
<1>5. /\ uses' <= allow' + excess'
      /\ CheckPasses(Looked) => uses' <= Slack' + 1
      /\ ~ CheckPasses(Looked) => uses' <= Slack'
  <2>1. CASE CheckPasses(Looked)
    <3>1. UsedIn(rows, Looked) + 1 <= Allowed
      BY <2>1, PassesMeans DEF SamePeriod
    <3>. QED
      BY <1>1, <1>2, <1>4, <2>1, <3>1, TurnTypes DEF Slack
  <2>2. CASE ~ CheckPasses(Looked)
    BY <1>1, <1>2, <1>4, <2>2, TurnTypes DEF Slack
  <2>. QED
    BY <2>1, <2>2
<1>6. TurnFrame(frame[p])'
  <2>1. SamePeriod(frame'[p], Looked')
    BY <1>1, <1>3, <1>4 DEF Looked
  <2>. QED
    BY <1>1, <1>3, <1>4, <1>5, <2>1 DEF TurnFrame, Owing, SamePeriod
<1>7. \A q \in Procs : q # p => frame'[q].pc = "idle"
  BY <1>2, <1>3 DEF Alone, Others
<1>8. plan'.from <= now'
  BY <1>1 DEF TurnInv
<1>. QED
  BY <1>3, <1>5, <1>6, <1>7, <1>8 DEF TurnInv, AllIdle, Alone

LEMMA CountKeepsTurn ==
  ASSUME IInv, AddonInv, TurnInv, Orderly, NEW p \in Procs, Count(p)
  PROVE  TurnInv'
<1>. DEFINE f == frame[p]
            used == UsedIn(rows, Looked)
<1>1. /\ UNCHANGED <<counter, now, plan, allow, excess>> /\ f.pc = "count"
      /\ uses' = IF counter = "ai" /\ Countable(f) THEN uses + 1 ELSE uses
  BY DEF Count, scenario
<1>2. Alone(p) /\ TurnFrame(f)
  BY <1>1, Turns
<1>3. Others(p) /\ frame'[p].pc = "idle"
  BY FrameEffects DEF Count
<1>4. SamePeriod(f, Looked)
  BY <1>1, <1>2 DEF TurnFrame
<1>5. /\ Looked' = Looked /\ Allowed' = Allowed /\ UsedIn(rows, Looked)' = UsedIn(rows', Looked)
  BY <1>1 DEF Looked, MonthOf, Allowed, UsedIn, RowsIn, SamePeriod
<1>6. Slack' = allow + excess - Allowed + UsedIn(rows', Looked)
  BY <1>1, <1>5 DEF Slack
<1>7. IF Countable(f) THEN UsedIn(rows', Looked) = Least(used + Added(f.delta), Allowed)
                      ELSE UsedIn(rows', Looked) = used
  <2>1. CASE Countable(f)
    BY <1>4, <2>1, CountedRows DEF AddonInv
  <2>2. CASE ~ Countable(f)
    BY <2>2 DEF Count
  <2>. QED
    BY <2>1, <2>2
<1>8. plan'.from <= now' /\ uses <= allow + excess
  BY <1>1 DEF TurnInv
<1>9. IInv'
  BY CountKeepsIInv
<1>10. CASE f.delta = 1 /\ CheckPasses(Looked)
  <2>1. InForce /\ used + 1 <= Allowed
    BY <1>10, PassesMeans DEF SamePeriod
  <2>2. Countable(f)
    <3>1. now \in Nat /\ plan.from \in Int /\ plan.to \in Int /\ plan.from <= now /\ now <= plan.to
      BY <2>1 DEF IInv, RestInv, PlanRow, TurnInv, InForce
    <3>2. CASE counter = "posts"
      <4>1. f.from = MonthOf(now).from /\ f.to = MonthOf(now).to
        BY <1>4, <3>2 DEF Looked, SamePeriod
      <4>2. /\ MonthOf(now).from <= now /\ now <= MonthOf(now).to
            /\ MonthOf(now).from \in Int /\ MonthOf(now).to \in Int
        BY <3>1, MonthHolds
      <4>3. plan.to >= f.from /\ plan.from <= f.to
        BY <3>1, <4>1, <4>2
      <4>. QED
        BY <2>1, <4>3, TurnTypes DEF Countable, Allowed
    <3>3. CASE counter # "posts"
      <4>1. f.from = plan.from /\ f.to = plan.to
        BY <1>4, <3>3 DEF Looked, SamePeriod
      <4>2. plan.to >= f.from /\ plan.from <= f.to
        BY <3>1, <4>1
      <4>. QED
        BY <2>1, <4>2, TurnTypes DEF Countable, Allowed
    <3>. QED
      BY <3>2, <3>3
  <2>3. Added(1) = 1
    BY <2>1, TurnTypes DEF Added, Greatest, Least, Allowed
  <2>4. UsedIn(rows', Looked) = used + 1
    <3>1. UsedIn(rows', Looked) = Least(used + 1, Allowed)
      BY <1>7, <1>10, <2>2, <2>3
    <3>. QED
      BY <2>1, <3>1, TurnTypes DEF Least
  <2>5. Slack' = Slack + 1
    BY <1>6, <2>4, TurnTypes DEF Slack
  <2>6. counter \in {"posts", "ai"}
    BY DEF IInv, RestInv, Counters
  <2>7. uses' <= Slack'
    <3>1. CASE counter = "posts"
      BY <1>1, <1>2, <1>10, <2>5, <3>1, TurnTypes DEF TurnFrame, Owing
    <3>2. CASE counter = "ai"
      BY <1>1, <1>2, <2>2, <2>5, <3>2, TurnTypes DEF TurnFrame, Owing
    <3>. QED
      BY <2>6, <3>1, <3>2
  <2>8. Slack' <= allow + excess
    BY <1>6, <2>1, <2>4, TurnTypes
  <2>9. uses' <= allow' + excess'
    BY <1>1, <2>5, <2>7, <2>8, TurnTypes
  <2>. QED
    BY <1>2, <1>3, <1>8, <1>9, <2>7, <2>9, TurnEnds
<1>11. CASE ~ (f.delta = 1 /\ CheckPasses(Looked)) /\ counter = "posts"
  <2>1. uses' = uses /\ uses <= Slack
    BY <1>1, <1>2, <1>11 DEF TurnFrame, Owing
  <2>2. Added(f.delta) \in Nat
    BY FrameOf, TurnTypes DEF Added, Greatest, Least, Allowed, Frame
  <2>3. /\ UsedIn(rows', Looked) \in Nat
        /\ UsedIn(rows', Looked) >= used \/ UsedIn(rows', Looked) = Allowed
    <3>. DEFINE a == Added(f.delta)
    <3>1. UsedIn(rows', Looked) = Least(used + a, Allowed) \/ UsedIn(rows', Looked) = used
      BY <1>7
    <3>2. a \in Nat /\ used \in Nat /\ Allowed \in Nat
      BY <2>2, TurnTypes
    <3>. HIDE DEF a, used
    <3>. QED
      BY <3>1, <3>2 DEF Least
  <2>4. uses' <= Slack'
    <3>. DEFINE new == UsedIn(rows', Looked)
    <3>1. Slack' = allow + excess - Allowed + new /\ Slack = allow + excess - Allowed + used
      BY <1>6 DEF Slack
    <3>2. new \in Nat /\ used \in Nat /\ (new >= used \/ new = Allowed)
      BY <2>3, TurnTypes
    <3>. HIDE DEF new, used
    <3>. QED
      BY <1>8, <2>1, <3>1, <3>2, TurnTypes
  <2>. QED
    BY <1>1, <1>2, <1>3, <1>8, <1>9, <2>1, <2>4, TurnEnds
<1>. QED
  BY <1>1, <1>2, <1>10, <1>11 DEF TurnFrame

LEMMA WritesKeepTurn ==
  ASSUME IInv, AddonInv, TurnInv, Orderly, NEW p \in Procs, Raise(p) \/ ResetWrite(p)
  PROVE  TurnInv'
<1>1. /\ UNCHANGED <<counter, now, plan, uses, allow, excess>> /\ Return(p)
      /\ frame[p].pc \in {"raise", "write"}
  BY DEF Raise, ResetWrite, scenario
<1>2. Alone(p) /\ TurnFrame(frame[p]) /\ uses <= Slack
  BY <1>1, Turns
<1>3. Others(p) /\ frame'[p].pc = "idle"
  BY <1>1, FrameEffects
<1>4. Looked' = Looked /\ Allowed' = Allowed /\ UsedIn(rows, Looked)' = UsedIn(rows', Looked)
  BY <1>1 DEF Looked, MonthOf, Allowed, UsedIn, RowsIn, SamePeriod
<1>5. Slack' = allow + excess - Allowed + UsedIn(rows', Looked)
  BY <1>1, <1>4 DEF Slack
<1>6. IInv'
  BY RaiseKeepsIInv, ResetWriteKeepsIInv
<1>7. uses <= Slack'
  <2>1. CASE Raise(p)
    <3>1. UsedIn(rows', Looked) = UsedIn(rows, Looked)
      BY <2>1, RaisedRows DEF AddonInv
    <3>. QED
      BY <1>2, <1>5, <3>1 DEF Slack
  <2>2. CASE ResetWrite(p)
    <3>1. frame[p].pc = "write"
      BY <2>2, Zenon DEF ResetWrite
    <3>2. uses <= allow + excess - Allowed
      BY <1>2, <3>1 DEF TurnFrame
    <3>3. UsedIn(rows', Looked) \in Nat
      BY <1>6, UsedIsNat DEF IInv, RowsInv
    <3>. QED
      BY <1>5, <3>2, <3>3, TurnTypes
  <2>. QED
    BY <2>1, <2>2
<1>8. plan'.from <= now' /\ uses' <= allow' + excess'
  BY <1>1 DEF TurnInv
<1>. QED
  BY <1>1, <1>2, <1>3, <1>6, <1>7, <1>8, TurnEnds

LEMMA ChangeKeepsTurn ==
  ASSUME IInv, TurnInv, Orderly, NEW p \in Procs, ChangePlan(p)
  PROVE  TurnInv'
<1>0. PICK name \in Plans : \E period \in NewPeriods(name) : \E reset \in Resets(name) :
          EnsurePlan(p, name, period, reset)
  BY DEF ChangePlan
<1>1. PICK period \in NewPeriods(name) : \E reset : EnsurePlan(p, name, period, reset)
  BY <1>0
<1>2. /\ UNCHANGED <<counter, now, rows, uses, excess>> /\ CanStart(p)
      /\ plan' = [name |-> name, from |-> period.from, to |-> period.to]
      /\ allow' = allow + Limit[name][counter]
      /\ Goto(p, "reset") \/ UNCHANGED frame
  BY <1>1 DEF EnsurePlan, scenario
<1>3. Alone(p) /\ frame[p].pc = "idle" /\ uses <= allow + excess
  BY <1>2, Turns DEF TurnInv
<1>4. plan'.from <= now'
  <2>1. plan.from <= now
    BY DEF TurnInv
  <2>2. period.from <= now
    BY <2>1 DEF NewPeriods, FromToday, IInv, RestInv
  <2>. QED
    BY <1>2, <2>2
<1>5. IInv'
  BY ChangePlanKeepsIInv
<1>6. /\ Allowed' = Limit[name][counter] /\ Allowed' \in Nat /\ allow \in Nat /\ uses \in Nat
      /\ excess \in Nat /\ UsedIn(rows, Looked)' \in Nat
  <2>1. Allowed' = Limit[name][counter]
    BY <1>2 DEF Allowed
  <2>2. allow \in Nat /\ uses \in Nat /\ excess \in Nat
    BY TurnTypes
  <2>3. Limit[name][counter] \in Nat
    BY UsageLimitsAssumption DEF IInv, RestInv
  <2>4. UsedIn(rows', Looked') \in Nat
    BY <1>5, UsedIsNat DEF IInv, RowsInv
  <2>5. UsedIn(rows, Looked)' = UsedIn(rows', Looked')
    BY DEF UsedIn, RowsIn, SamePeriod, Looked, MonthOf
  <2>. QED
    BY <2>1, <2>2, <2>3, <2>4, <2>5
<1>7. Slack' = allow' + excess' - Allowed' + UsedIn(rows, Looked)'
  BY DEF Slack
<1>8. uses' <= Slack' /\ uses' <= allow' + excess' /\ uses' <= allow' + excess' - Allowed'
  <2>. DEFINE a == Allowed'
              u == UsedIn(rows, Looked)'
              s == Slack'
  <2>1. s = allow' + excess' - a + u /\ allow' = allow + a /\ uses' = uses /\ excess' = excess
        /\ uses <= allow + excess
    BY <1>2, <1>3, <1>6, <1>7
  <2>2. a \in Nat /\ u \in Nat /\ allow \in Nat /\ uses \in Nat /\ excess \in Nat
    BY <1>6
  <2>. HIDE DEF a, u, s
  <2>3. uses' <= s /\ uses' <= allow' + excess' /\ uses' <= allow' + excess' - a
    BY <2>1, <2>2
  <2>. QED
    BY <2>3 DEF a, s
<1>9. CASE UNCHANGED frame
  BY <1>3, <1>4, <1>5, <1>8, <1>9, TurnEnds DEF Others
<1>10. CASE Goto(p, "reset")
  <2>1. Others(p) /\ frame'[p].pc = "reset"
    BY <1>10, FrameEffects
  <2>2. TurnFrame(frame[p])'
    BY <1>8, <2>1 DEF TurnFrame, Owing
  <2>3. \A q \in Procs : q # p => frame'[q].pc = "idle"
    BY <1>3, <2>1 DEF Alone, Others
  <2>. QED
    BY <1>4, <1>8, <2>1, <2>2, <2>3 DEF TurnInv, AllIdle, Alone
<1>. QED
  BY <1>2, <1>9, <1>10

LEMMA TickKeepsTurn ==
  ASSUME IInv, TurnInv, Orderly, Tick
  PROVE  TurnInv'
<1>1. /\ UNCHANGED <<counter, plan, rows, frame>> /\ now' = now + 1 /\ now \in Nat
      /\ AllIdle
  BY DEF Tick, scenario, Rest, Orderly, IInv, RestInv
<1>2. uses <= allow + excess /\ uses <= Slack
  BY <1>1 DEF TurnInv
<1>3. plan'.from <= now'
  BY <1>1 DEF TurnInv, IInv, RestInv, PlanRow
<1>4. Allowed' = Allowed /\ Slack' = allow' + excess' - Allowed' + UsedIn(rows, Looked)'
  BY <1>1 DEF Allowed, Slack
<1>5. UsedIn(rows, Looked)' = UsedIn(rows', Looked')
  BY DEF UsedIn, RowsIn, SamePeriod, Looked, MonthOf
<1>6. CASE counter = "posts" /\ MonthOf(now + 1) # MonthOf(now)
  <2>1. uses' = 0 /\ excess' = 0 /\ allow' = Allowed
    BY <1>1, <1>6 DEF Tick, Allowed
  <2>2. UsedIn(rows', Looked') \in Nat
    BY <1>1, UsedIsNat DEF IInv, RowsInv
  <2>3. uses' <= allow' + excess' /\ uses' <= Slack'
    BY <1>4, <1>5, <2>1, <2>2, TurnTypes
  <2>. QED
    BY <1>1, <1>3, <2>3 DEF TurnInv, AllIdle
<1>7. CASE ~ (counter = "posts" /\ MonthOf(now + 1) # MonthOf(now))
  <2>1. UNCHANGED <<uses, allow, excess>>
    BY <1>1, <1>7 DEF Tick
  <2>2. Looked' = Looked
    <3>1. CASE counter = "posts"
      <4>1. MonthOf(now') = MonthOf(now)
        BY <1>1, <1>7, <3>1
      <4>2. Looked' = MonthOf(now')
        BY <1>1, <3>1 DEF Looked, MonthOf
      <4>. QED
        BY <3>1, <4>1, <4>2 DEF Looked
    <3>2. CASE counter # "posts"
      BY <1>1, <3>2 DEF Looked
    <3>. QED
      BY <3>1, <3>2
  <2>3. Slack' = Slack
    BY <1>1, <1>4, <1>5, <2>1, <2>2 DEF Slack
  <2>. QED
    BY <1>1, <1>2, <1>3, <2>1, <2>3 DEF TurnInv, AllIdle
<1>. QED
  BY <1>6, <1>7

LEMMA NextKeepsTurn ==
  IInv /\ AddonInv /\ (Orderly => TurnInv) /\ [Next]_vars => (Orderly => TurnInv)'
<1>. SUFFICES ASSUME IInv, AddonInv, Orderly => TurnInv, [Next]_vars, Orderly' PROVE TurnInv'
  OBVIOUS
<1>1. Orderly /\ TurnInv
  <2>1. Orderly
    BY CounterStays DEF Orderly
  <2>. QED
    BY <2>1
<1>2. CASE Tick
  BY <1>1, <1>2, TickKeepsTurn
<1>3. ASSUME NEW p \in Procs, PostStep(p) PROVE TurnInv'
  BY <1>1, <1>3, StartsKeepTurn, PublishKeepsTurn, UnaskedKeepsTurn DEF PostStep
<1>4. ASSUME NEW p \in Procs, AiStep(p) \/ Count(p) \/ AddonStep(p) PROVE TurnInv'
  BY <1>1, <1>4, StartsKeepTurn, ReadsKeepTurn, CountKeepsTurn, WritesKeepTurn
     DEF AiStep, AddonStep
<1>5. ASSUME NEW p \in Procs, ChangeStep(p) PROVE TurnInv'
  BY <1>1, <1>5, ChangeKeepsTurn, ReadsKeepTurn, WritesKeepTurn DEF ChangeStep
<1>6. ~ Crash
  BY <1>1 DEF Crash, Orderly
<1>7. CASE UNCHANGED vars
  <2>1. UNCHANGED <<counter, now, plan, rows, uses, allow, excess, frame>>
    BY <1>7 DEF vars
  <2>2. Slack' = Slack
    BY <2>1, LooksSame DEF Slack
  <2>3. \A q \in Procs : TurnFrame(frame[q]) => TurnFrame(frame[q])'
    BY <2>1, <2>2, LooksSame DEF TurnFrame, Owing, SamePeriod
  <2>. QED
    BY <1>1, <2>1, <2>2, <2>3 DEF TurnInv, AllIdle, Alone
<1>. QED
  BY <1>2, <1>3, <1>4, <1>5, <1>6, <1>7 DEF Next

LEMMA InitTurn == Init => TurnInv
<1>. SUFFICES ASSUME Init PROVE TurnInv
  OBVIOUS
<1>1. \A q \in Procs : frame[q].pc = "idle"
  BY DEF Init, Idle
<1>2. plan.from <= now /\ uses = 0 /\ excess = 0 /\ allow = Allowed
  BY DEF Init, Allowed
<1>3. uses <= allow + excess /\ uses <= Slack
  BY <1>2, InitIInv, TurnTypes DEF Slack
<1>. QED
  BY <1>1, <1>2, <1>3 DEF TurnInv

(* Handled one at a time, and with no crash, the posts of a month, or the   *)
(* AI requests, stay within what the plans in force in it allow together,   *)
(* however the plan changes and whether or not its counters can be reset,   *)
(* but for the posts that no check precedes and one would have refused:     *)
(* a job, a repeated callback, or an edit that gives a draft its time.      *)
THEOREM AllowancesHold == Spec => []WithinAllowances
<1>1. Spec => []IInv
  BY InitIInv, NextKeepsIInv, PTL DEF Spec
<1>2. Spec => []AddonInv
  BY AddonInvariance
<1>3. Init => (Orderly => TurnInv)
  BY InitTurn
<1>4. Spec => [](Orderly => TurnInv)
  BY <1>1, <1>2, <1>3, NextKeepsTurn, PTL DEF Spec
<1>5. (Orderly => TurnInv) => WithinAllowances
  BY DEF WithinAllowances, TurnInv
<1>. QED
  BY <1>4, <1>5, PTL

===============================================================================
