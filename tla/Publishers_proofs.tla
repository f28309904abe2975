-------------------------- MODULE Publishers_proofs --------------------------
(***************************************************************************)
(* Proofs about Publishers and about ConnectionPool, which say nothing of  *)
(* each other.                                                             *)
(*                                                                         *)
(* PublishersInv is inductive, for any platforms, limits, posts and faults.*)
(* It says of the steps that are left what their order says: Follows tells *)
(* which steps may come before which, Covered that the steps for the media *)
(* (or for what is shown) are taken in turn.  The lists of the nine        *)
(* publishers are first shown to be such lists; then each step keeps it.   *)
(*                                                                         *)
(* PoolInv is inductive for any pool, calls and programs: a connection has *)
(* one user, a statement is pending or committed only if it was executed,  *)
(* and a transaction's statements are pending on its own connection until  *)
(* it ends.                                                                *)
(***************************************************************************)
EXTENDS Publishers, ConnectionPool, SequenceTheorems, FiniteSetTheorems, TLAPS

-----------------------------------------------------------------------------
(* The steps left, as a set of named and numbered steps                    *)

AnyStep == StepNames \X Nat

Left == ToSet(todo)
Has(L, names) == \E x \in L : x[1] \in names

Picked == {"pinterest", "youtube"}

Collectors == IF platform = "tiktok" THEN {"resize"} ELSE {"upload", "item"}
HeldUsers == {"publish", "carousel"} \cup (IF hasVideo THEN {} ELSE {"init"})
Showing == {"publish", "publishUrl", "mediaPublish"}
RootMakers == {"container", "carousel", "reply"}
Makers == {"item", "init"} \cup RootMakers

Phase(x) ==
    CASE x[1] \in RootMakers -> 0
      [] x[1] = "wait" -> 1
      [] x[1] = "mediaPublish" -> 2
      [] OTHER -> 3

\* What the number of a step may be, and whose steps have its name.
Fits(x) ==
    /\ x[1] \in {"upload", "item", "resize", "process"} => x[2] \in 1..n
    /\ x[1] \in {"start", "cleanup", "failed", "publish", "publishUrl", "container", "carousel", "init", "put"}
         => x[2] = 0
    /\ x[1] = "reply" => x[2] > 0 /\ platform = "threads"
    /\ x[1] \in Showing => x[2] < Requested
    /\ x[1] \in {"init", "put", "status"} => platform = "tiktok"
    /\ x[1] \in {"item", "container", "carousel", "wait", "waitItems", "mediaPublish"}
         => platform \in {"instagram", "threads"}
    /\ x[1] \in {"resize"} => platform \in {"facebook", "tiktok"}
    /\ x[1] \in {"process"} => platform = "instagram"
    /\ x[1] = "cleanup" => platform \in {"facebook", "instagram", "tiktok"}
    /\ x[1] \in {"pick", "uploadPicked"} => platform \in Picked
    /\ x[1] = "uploadUrl" => platform = "youtube"
    /\ x[1] = "item" => n > 1
    /\ x[1] = "container" => n <= 1
    /\ platform \in Picked \cup {"tiktok"} => x[1] \notin {"upload", "publishUrl"}

\* a may be earlier than b.
Follows(a, b) ==
    /\ b[1] \notin {"start", "pick"}
    /\ b[1] = "accept" => a[1] \in {"pick", "creatorInfo"}
    /\ a[1] = "done" => b[1] \in {"details", "cleanup"}
    /\ a[1] = "cleanup" => b[1] \in {"status", "done", "failed"}
    /\ a[1] = "failed" => b[1] = "cleanup"
    /\ a[1] \in Collectors /\ b[1] \in Collectors => a[2] < b[2]
    /\ a[1] \in HeldUsers => b[1] \notin Collectors
    /\ a[1] \in Showing /\ b[1] \in Showing => a[2] < b[2]
    /\ Phase(a) < 3 /\ Phase(b) < 3 => a[2] < b[2] \/ (a[2] = b[2] /\ Phase(a) < Phase(b))
    /\ b[1] = "item" => a[1] \notin {"waitItems"} \cup RootMakers
    /\ b[1] = "waitItems" => a[1] \notin RootMakers
    /\ a[1] \in Makers => b[1] # "process"
    /\ a[1] \in {"init", "put", "status"} => b[1] # "init"
    /\ a[1] = "put" => b[1] # "put"

Ordered(s) == \A j, k \in DOMAIN s : j < k => Follows(s[j], s[k])

\* C takes the numbers from lo to hi in turn, before U.
Covered(L, C, U, lo, hi) ==
    /\ \A x \in L : x[1] \in C => x[2] \in lo..hi
    /\ Has(L, C \cup U) => \A i \in lo..hi : \E x \in L : x[1] \in C /\ x[2] = i

\* The steps left fit and are in order; before the start nothing is done.
ShapeInv ==
    /\ \A x \in Left : Fits(x)
    /\ Ordered(todo)
    /\ Has(Left, {"start"}) =>
         /\ Left = {Step("start")} /\ held = <<>> /\ remote = <<>> /\ public = <<>>
         /\ store = {} /\ temps = {} /\ target = "PENDING" /\ hit = {}

\* The steps that need no post the platform takes.
Ungated == {"start", "pick", "creatorInfo", "accept", "failed", "cleanup"}
GateInv == Has(Left, StepNames \ Ungated) => Accepts \/ Has(Left, {"accept"})

\* The ids collected are those of the media so far, the rest is to come.
HeldInv ==
    /\ platform \in Picked =>
         /\ held = <<>> \/ held \in Wanted
         /\ Has(Left, {"pick"}) => held = <<>>
    /\ platform \notin Picked /\ Accepts =>
         /\ Covered(Left, Collectors, HeldUsers, Len(held) + 1, n)
         /\ Len(held) <= n
         /\ \A i \in 1..Len(held) : held[i] = i

\* The newest container is the one with number b.
ReadyFor(b) ==
    /\ remote # <<>>
    /\ IF b = 0 THEN remote[Newest].role = "root" /\ remote[Newest].media = Assets
                ELSE remote[Newest].role = "reply"

HasNumbered(L, names, b) == \E x \in L : x[1] \in names /\ x[2] = b

\* What media_publish is about to show was made, and waited for.
ReadyInv ==
    /\ \A x \in Left : x[1] = "mediaPublish" /\ ~HasNumbered(Left, RootMakers, x[2]) =>
         /\ ReadyFor(x[2]) /\ ~Has(Left, {"item"})
         /\ \A y \in Left : /\ y[1] \in RootMakers => y[2] > x[2]
                            /\ y[1] = "mediaPublish" => y[2] >= x[2]
    /\ \A x \in Left : x[1] = "mediaPublish" /\ ~HasNumbered(Left, {"wait"}, x[2]) =>
         ~HasNumbered(Left, RootMakers, x[2]) /\ Finished(Newest)
    /\ \A x \in Left : x[1] = "wait" => HasNumbered(Left, {"mediaPublish"}, x[2])

\* What is public is what was to be shown so far, the rest is to come.
PublicInv == platform # "tiktok" =>
    /\ Covered(Left, Showing, {"done"}, Len(public), Requested - 1)
    /\ Len(public) <= Requested
    /\ \A k \in DOMAIN public :
         IF k = 1 THEN public[k].role = "root" /\ public[k].media \in Wanted
                  ELSE public[k].role = "reply"

TikTokInv == platform = "tiktok" =>
    /\ Covered(Left, {"init"}, {"put", "status", "done"}, Len(remote), 0)
    /\ Len(remote) <= 1
    /\ \A c \in DOMAIN remote : remote[c].media = Assets /\ (~hasVideo => remote[c].status # "AWAITING")
    /\ Has(Left, {"done"}) /\ hasVideo => Has(Left, {"put"}) \/ (remote # <<>> /\ remote[1].status # "AWAITING")

\* A target marked DONE is complete, and stays so.
DoneInv == target = "DONE" =>
    /\ \A x \in Left : x[1] \in {"details", "cleanup", "failed"}
    /\ IF platform = "tiktok" THEN Len(remote) = 1 /\ remote[1].status # "AWAITING"
       ELSE Len(public) = Requested

Clean == hit \cap {"delete", "crash", "lostReply"} = {}
\* Where a copy is or may be made, the cleanup is to come.
TempsInv ==
    /\ Has(Left, {"resize", "process"}) => Step("cleanup") \in Left
    /\ Clean => store \subseteq temps
    /\ Clean /\ store # {} => Step("cleanup") \in Left

\* A post or a publisher that may fail by itself; a target that has failed.
Excused == ~post.complete \/ platform = "youtube" \/ (platform = "tiktok" /\ post.unfit # {})
Fallen == target = "FAILED" \/ Has(Left, {"failed"})
CauseInv == Fallen =>
    /\ hit # {} \/ ~Accepts \/ Excused
    /\ \A x \in Left : x[1] \in {"failed", "cleanup"}

Pulling(c) == remote[c].status \in {"AWAITING", "IN_PROGRESS"}
Late == {"status", "done", "details"}

\* While nothing adverse has happened, nothing goes wrong at the platform.
CopiesKept(L) == temps \subseteq store \/ \A x \in L : x[1] \in Late
Pullable ==
    \A c \in DOMAIN remote : remote[c].status # "ERROR" /\ (Pulling(c) => remote[c].copies \subseteq store)
TikTokCopies ==
    platform = "tiktok" => temps = {} /\ \A c \in DOMAIN remote : remote[c].copies = {}
FirstMade(L) ==
    /\ platform = "facebook" => remote = <<>>
    /\ platform = "instagram" /\ Has(L, {"container", "process"}) => remote = <<>>
ItemsMade(L) == Has(L, {"carousel"}) =>
    /\ \A c \in DOMAIN remote : remote[c].role = "item"
    /\ Has(L, {"waitItems"}) \/ ((\A c \in Items : Finished(c)) /\ ~Has(L, {"item"}))
LastMade(L) == platform = "instagram" /\ Has(L, {"mediaPublish"}) =>
    \/ Has(L, RootMakers)
    \/ ~Has(L, Makers) /\ \A c \in DOMAIN remote : c # Newest => ~Pulling(c)
CleanedLast(L) == platform = "instagram" /\ Has(L, {"cleanup"}) =>
    \/ Has(L, {"mediaPublish"})
    \/ ~Has(L, Makers) /\ \A c \in DOMAIN remote : ~Pulling(c)
Smooth(L) ==
    /\ CopiesKept(L) /\ Pullable /\ TikTokCopies /\ FirstMade(L)
    /\ ItemsMade(L) /\ LastMade(L) /\ CleanedLast(L)
SmoothInv == hit = {} /\ ~Fallen /\ ~Excused => Smooth(Left)

-----------------------------------------------------------------------------
(* The loops, as lists of steps                                            *)

LEMMA LoopOne ==
  ASSUME NEW a \in StepNames, NEW m \in Nat
  PROVE /\ Loop(<<a>>, m) \in Seq(AnyStep)
        /\ Len(Loop(<<a>>, m)) = m
        /\ \A k \in 1..m : Loop(<<a>>, m)[k] = <<a, k>>
<1>1. Len(<<a>>) = 1
  OBVIOUS
<1>2. \A k \in 1..m : ((k-1) % 1) + 1 = 1 /\ ((k-1) \div 1) + 1 = k
  OBVIOUS
<1>3. <<a>>[1] = a
  OBVIOUS
<1>4. Loop(<<a>>, m) = [k \in 1..m |-> <<a, k>>]
  BY <1>1, <1>2, <1>3 DEF Loop
<1>5. \A k \in 1..m : <<a, k>> \in AnyStep
  BY DEF AnyStep
<1> QED BY <1>4, <1>5

LEMMA LoopTwo ==
  ASSUME NEW a \in StepNames, NEW b \in StepNames, NEW m \in Nat
  PROVE /\ Loop(<<a, b>>, m) \in Seq(AnyStep)
        /\ Len(Loop(<<a, b>>, m)) = 2 * m
        /\ \A k \in 1..2 * m :
             Loop(<<a, b>>, m)[k] = <<IF k % 2 = 1 THEN a ELSE b, ((k - 1) \div 2) + 1>>
<1> DEFINE e(k) == <<IF k % 2 = 1 THEN a ELSE b, ((k - 1) \div 2) + 1>>
<1>1. Len(<<a, b>>) = 2
  OBVIOUS
<1>2. ASSUME NEW k \in 1..2 * m
      PROVE <<a, b>>[((k - 1) % 2) + 1] = IF k % 2 = 1 THEN a ELSE b
  <2>1. k % 2 = 1 => ((k - 1) % 2) + 1 = 1
  OBVIOUS
  <2>2. k % 2 # 1 => ((k - 1) % 2) + 1 = 2
  OBVIOUS
  <2> QED BY <2>1, <2>2
<1>3. Loop(<<a, b>>, m) = [k \in 1..2 * m |-> e(k)]
  BY <1>1, <1>2 DEF Loop
<1>4. \A k \in 1..2 * m : ((k - 1) \div 2) + 1 \in Nat
  OBVIOUS
<1>5. \A k \in 1..2 * m : e(k) \in AnyStep
  BY <1>4 DEF AnyStep
<1>6. \A k \in 1..2 * m : e(k) = <<IF k % 2 = 1 THEN a ELSE b, ((k - 1) \div 2) + 1>>
  OBVIOUS
<1>7. 2 * m \in Nat
  OBVIOUS
<1> HIDE DEF e
<1>8. Loop(<<a, b>>, m) \in Seq(AnyStep) /\ Len(Loop(<<a, b>>, m)) = 2 * m
  BY <1>3, <1>5, <1>7
<1> QED BY <1>3, <1>6, <1>8

LEMMA LoopThree ==
  ASSUME NEW a \in StepNames, NEW b \in StepNames, NEW c \in StepNames, NEW m \in Nat
  PROVE /\ Loop(<<a, b, c>>, m) \in Seq(AnyStep)
        /\ Len(Loop(<<a, b, c>>, m)) = 3 * m
        /\ \A k \in 1..3 * m :
             Loop(<<a, b, c>>, m)[k] =
               <<IF k % 3 = 1 THEN a ELSE IF k % 3 = 2 THEN b ELSE c, ((k - 1) \div 3) + 1>>
<1> DEFINE e(k) == <<IF k % 3 = 1 THEN a ELSE IF k % 3 = 2 THEN b ELSE c, ((k - 1) \div 3) + 1>>
<1>1. Len(<<a, b, c>>) = 3
  OBVIOUS
<1>2. ASSUME NEW k \in 1..3 * m
      PROVE <<a, b, c>>[((k - 1) % 3) + 1] = IF k % 3 = 1 THEN a ELSE IF k % 3 = 2 THEN b ELSE c
  <2>1. k % 3 = 1 => ((k - 1) % 3) + 1 = 1
  OBVIOUS
  <2>2. k % 3 = 2 => ((k - 1) % 3) + 1 = 2
  OBVIOUS
  <2>3. k % 3 \notin {1, 2} => ((k - 1) % 3) + 1 = 3
  OBVIOUS
  <2> QED BY <2>1, <2>2, <2>3
<1>3. Loop(<<a, b, c>>, m) = [k \in 1..3 * m |-> e(k)]
  BY <1>1, <1>2 DEF Loop
<1>4. \A k \in 1..3 * m : ((k - 1) \div 3) + 1 \in Nat
  OBVIOUS
<1>5. \A k \in 1..3 * m : e(k) \in AnyStep
  BY <1>4 DEF AnyStep
<1>6. \A k \in 1..3 * m :
        e(k) = <<IF k % 3 = 1 THEN a ELSE IF k % 3 = 2 THEN b ELSE c, ((k - 1) \div 3) + 1>>
  OBVIOUS
<1>7. 3 * m \in Nat
  OBVIOUS
<1> HIDE DEF e
<1>8. Loop(<<a, b, c>>, m) \in Seq(AnyStep) /\ Len(Loop(<<a, b, c>>, m)) = 3 * m
  BY <1>3, <1>5, <1>7
<1> QED BY <1>3, <1>6, <1>8

LEMMA ConcatOrdered ==
  ASSUME NEW a \in Seq(AnyStep), NEW b \in Seq(AnyStep), Ordered(a), Ordered(b),
         \A x \in ToSet(a), y \in ToSet(b) : Follows(x, y)
  PROVE a \o b \in Seq(AnyStep) /\ Ordered(a \o b) /\ ToSet(a \o b) = ToSet(a) \cup ToSet(b)
<1> DEFINE s == a \o b
<1>1. s \in Seq(AnyStep) /\ Len(s) = Len(a) + Len(b) /\ DOMAIN s = 1..Len(a) + Len(b)
  BY ConcatProperties
<1>2. \A i \in 1..Len(a) + Len(b) : s[i] = IF i <= Len(a) THEN a[i] ELSE b[i - Len(a)]
  BY ConcatProperties
<1>3. Len(a) \in Nat /\ Len(b) \in Nat /\ DOMAIN a = 1..Len(a) /\ DOMAIN b = 1..Len(b)
  BY LenProperties
<1> HIDE DEF s
<1>4. ASSUME NEW j \in DOMAIN s, NEW k \in DOMAIN s, j < k
      PROVE Follows(s[j], s[k])
  <2>1. CASE k <= Len(a)
    <3>1. s[j] = a[j] /\ s[k] = a[k] /\ j \in DOMAIN a /\ k \in DOMAIN a
      BY <1>1, <1>2, <1>3, <1>4, <2>1
    <3> QED BY <3>1, <1>4 DEF Ordered
  <2>2. CASE j > Len(a)
    <3>1. s[j] = b[j - Len(a)] /\ s[k] = b[k - Len(a)]
      BY <1>1, <1>2, <1>3, <1>4, <2>2
    <3>2. j - Len(a) \in DOMAIN b /\ k - Len(a) \in DOMAIN b /\ j - Len(a) < k - Len(a)
      BY <1>1, <1>3, <1>4, <2>2
    <3> QED BY <3>1, <3>2 DEF Ordered
  <2>3. CASE j <= Len(a) /\ k > Len(a)
    <3>1. s[j] = a[j] /\ s[k] = b[k - Len(a)]
      BY <1>1, <1>2, <1>3, <1>4, <2>3
    <3>2. j \in DOMAIN a /\ k - Len(a) \in DOMAIN b
      BY <1>1, <1>3, <1>4, <2>3
    <3>3. s[j] \in ToSet(a) /\ s[k] \in ToSet(b)
      BY <3>1, <3>2 DEF ToSet
    <3> QED BY <3>3
  <2> QED BY <2>1, <2>2, <2>3, <1>1, <1>3
<1>5. ASSUME NEW x \in ToSet(s)
      PROVE x \in ToSet(a) \cup ToSet(b)
  <2>1. PICK k \in DOMAIN s : x = s[k]
    BY DEF ToSet
  <2>2. CASE k <= Len(a)
    <3>1. s[k] = a[k] /\ k \in DOMAIN a
      BY <1>1, <1>2, <1>3, <2>2
    <3> QED BY <2>1, <3>1 DEF ToSet
  <2>3. CASE k > Len(a)
    <3>1. s[k] = b[k - Len(a)] /\ k - Len(a) \in DOMAIN b
      BY <1>1, <1>2, <1>3, <2>3
    <3> QED BY <2>1, <3>1 DEF ToSet
  <2> QED BY <2>2, <2>3, <1>1, <1>3
<1>6. ASSUME NEW x \in ToSet(a)
      PROVE x \in ToSet(s)
  <2>1. PICK k \in DOMAIN a : x = a[k]
    BY DEF ToSet
  <2>2. s[k] = a[k] /\ k \in DOMAIN s
    BY <1>1, <1>2, <1>3
  <2> QED BY <2>1, <2>2 DEF ToSet
<1>7. ASSUME NEW x \in ToSet(b)
      PROVE x \in ToSet(s)
  <2>1. PICK k \in DOMAIN b : x = b[k]
    BY DEF ToSet
  <2> DEFINE i == Len(a) + k
  <2>2. i \in 1..Len(a) + Len(b) /\ ~(i <= Len(a)) /\ i - Len(a) = k
    BY <1>3
  <2> HIDE DEF i
  <2>3. s[i] = b[k] /\ i \in DOMAIN s
    BY <1>1, <1>2, <2>2
  <2> QED BY <2>1, <2>3 DEF ToSet
<1>8. ToSet(s) = ToSet(a) \cup ToSet(b)
  BY <1>5, <1>6, <1>7
<1>9. Ordered(s)
  BY <1>4 DEF Ordered
<1> QED BY <1>1, <1>8, <1>9 DEF s

LEMMA OneOrdered ==
  ASSUME NEW x \in AnyStep
  PROVE <<x>> \in Seq(AnyStep) /\ Ordered(<<x>>) /\ ToSet(<<x>>) = {x}
<1>1. <<x>> \in Seq(AnyStep) /\ DOMAIN <<x>> = {1} /\ <<x>>[1] = x
  OBVIOUS
<1> QED BY <1>1 DEF Ordered, ToSet

LEMMA NoneOrdered == <<>> \in Seq(AnyStep) /\ Ordered(<<>>) /\ ToSet(<<>>) = {}
BY DEF Ordered, ToSet

LEMMA HeadAndTail ==
  ASSUME NEW s \in Seq(AnyStep), s # <<>>, Ordered(s)
  PROVE /\ Tail(s) \in Seq(AnyStep) /\ Ordered(Tail(s))
        /\ Head(s) \in ToSet(s) /\ Head(s) \in AnyStep
        /\ ToSet(s) = {Head(s)} \cup ToSet(Tail(s))
        /\ \A y \in ToSet(Tail(s)) : Follows(Head(s), y)
<1> DEFINE t == Tail(s)
           m == Len(s) - 1
<1>1. /\ t \in Seq(AnyStep) /\ Len(t) = m /\ m \in Nat /\ DOMAIN t = 1..m /\ DOMAIN s = 1..m + 1
      /\ Head(s) \in AnyStep
  BY HeadTailProperties, LenProperties, EmptySeq
<1>2. \A i \in 1..m : t[i] = s[i + 1]
  BY <1>1, HeadTailProperties
<1>3. Head(s) = s[1]
  OBVIOUS
<1> HIDE DEF t, m
<1>4. ASSUME NEW j \in DOMAIN t, NEW k \in DOMAIN t, j < k
      PROVE Follows(t[j], t[k])
  <2>1. t[j] = s[j + 1] /\ t[k] = s[k + 1] /\ j + 1 \in DOMAIN s /\ k + 1 \in DOMAIN s /\ j + 1 < k + 1
    BY <1>1, <1>2, <1>4
  <2> QED BY <2>1 DEF Ordered
<1>5. ASSUME NEW y \in ToSet(t)
      PROVE y \in ToSet(s) /\ Follows(s[1], y)
  <2>1. PICK k \in DOMAIN t : y = t[k]
    BY DEF ToSet
  <2>2. y = s[k + 1] /\ k + 1 \in DOMAIN s /\ 1 \in DOMAIN s /\ 1 < k + 1
    BY <1>1, <1>2, <2>1
  <2> QED BY <2>2 DEF Ordered, ToSet
<1>6. ASSUME NEW y \in ToSet(s), y # s[1]
      PROVE y \in ToSet(t)
  <2>1. PICK k \in DOMAIN s : y = s[k]
    BY DEF ToSet
  <2> DEFINE i == k - 1
  <2>2. i \in 1..m /\ i + 1 = k
    BY <1>1, <2>1, <1>6
  <2> HIDE DEF i
  <2>3. y = t[i] /\ i \in DOMAIN t
    BY <1>1, <1>2, <2>1, <2>2
  <2> QED BY <2>3 DEF ToSet
<1>7. s[1] \in ToSet(s)
  BY <1>1 DEF ToSet
<1>8. Ordered(t)
  BY <1>4 DEF Ordered
<1>9. ToSet(s) = {s[1]} \cup ToSet(t)
  BY <1>5, <1>6, <1>7
<1> QED BY <1>1, <1>3, <1>5, <1>7, <1>8, <1>9 DEF t

-----------------------------------------------------------------------------
(* The loops, as sets of steps in order                                    *)

IsSteps(s, S) == s \in Seq(AnyStep) /\ Ordered(s) /\ ToSet(s) = S

Many(name, m) == {<<name, i>> : i \in 1..m}

InTurn(a, b, c, m) ==
    /\ \A i, j \in 1..m : i < j =>
         \A x \in {a, b, c}, y \in {a, b, c} : Follows(<<x, i>>, <<y, j>>)
    /\ \A i \in 1..m : /\ Follows(<<a, i>>, <<b, i>>) /\ Follows(<<a, i>>, <<c, i>>)
                      /\ Follows(<<b, i>>, <<c, i>>)

LEMMA LoopOneSteps ==
  ASSUME NEW a \in StepNames, NEW m \in Nat,
         \A i, j \in 1..m : i < j => Follows(<<a, i>>, <<a, j>>)
  PROVE /\ Loop(<<a>>, m) \in Seq(AnyStep) /\ Ordered(Loop(<<a>>, m))
        /\ ToSet(Loop(<<a>>, m)) = {<<a, i>> : i \in 1..m}
<1> DEFINE s == Loop(<<a>>, m)
<1>1. s \in Seq(AnyStep) /\ Len(s) = m /\ \A k \in 1..m : s[k] = <<a, k>>
  BY LoopOne, Zenon
<1> HIDE DEF s
<1>2. DOMAIN s = 1..m
  BY <1>1
<1>3. Ordered(s)
  BY <1>1, <1>2 DEF Ordered
<1>4. ToSet(s) = {<<a, i>> : i \in 1..m}
  BY <1>1, <1>2 DEF ToSet
<1> QED BY <1>1, <1>3, <1>4 DEF s

LEMMA LoopTwoSteps ==
  ASSUME NEW a \in StepNames, NEW b \in StepNames, NEW m \in Nat,
         \A i, j \in 1..m : i < j => \A x \in {a, b}, y \in {a, b} : Follows(<<x, i>>, <<y, j>>),
         \A i \in 1..m : Follows(<<a, i>>, <<b, i>>)
  PROVE /\ Loop(<<a, b>>, m) \in Seq(AnyStep) /\ Ordered(Loop(<<a, b>>, m))
        /\ ToSet(Loop(<<a, b>>, m)) = {<<a, i>> : i \in 1..m} \cup {<<b, i>> : i \in 1..m}
<1> DEFINE s == Loop(<<a, b>>, m)
           name(k) == IF k % 2 = 1 THEN a ELSE b
           pass(k) == ((k - 1) \div 2) + 1
<1>1. s \in Seq(AnyStep) /\ Len(s) = 2 * m /\ \A k \in 1..2 * m : s[k] = <<name(k), pass(k)>>
  BY LoopTwo, Zenon
<1>2. DOMAIN s = 1..2 * m
  BY <1>1, LenProperties
<1> HIDE DEF s
<1>3. \A k \in 1..2 * m : pass(k) \in 1..m /\ name(k) \in {a, b}
  OBVIOUS
<1>4. \A j, k \in 1..2 * m : j < k => pass(j) < pass(k) \/ (pass(j) = pass(k) /\ j % 2 = 1 /\ k % 2 # 1)
  OBVIOUS
<1>5. \A k \in 1..2 * m : (k % 2 = 1 => name(k) = a) /\ (k % 2 # 1 => name(k) = b)
  OBVIOUS
<1>6. ASSUME NEW i \in 1..m
      PROVE /\ 2 * i - 1 \in 1..2 * m /\ name(2 * i - 1) = a /\ pass(2 * i - 1) = i
            /\ 2 * i \in 1..2 * m /\ name(2 * i) = b /\ pass(2 * i) = i
  OBVIOUS
<1> HIDE DEF name, pass
<1>7. ASSUME NEW j \in DOMAIN s, NEW k \in DOMAIN s, j < k
      PROVE Follows(s[j], s[k])
  <2>1. CASE pass(j) < pass(k)
    BY <1>1, <1>2, <1>3, <1>7, <2>1
  <2>2. CASE pass(j) = pass(k) /\ j % 2 = 1 /\ k % 2 # 1
    BY <1>1, <1>2, <1>3, <1>5, <1>7, <2>2
  <2> QED BY <1>2, <1>4, <1>7, <2>1, <2>2
<1>8. Ordered(s)
  BY <1>7 DEF Ordered
<1>9. ASSUME NEW x \in ToSet(s)
      PROVE x \in {<<a, i>> : i \in 1..m} \cup {<<b, i>> : i \in 1..m}
  <2>1. PICK k \in DOMAIN s : x = s[k]
    BY DEF ToSet
  <2> QED BY <1>1, <1>2, <1>3, <2>1
<1>10. ASSUME NEW i \in 1..m
       PROVE <<a, i>> \in ToSet(s) /\ <<b, i>> \in ToSet(s)
  BY <1>1, <1>2, <1>6 DEF ToSet
<1> QED BY <1>1, <1>8, <1>9, <1>10 DEF s

LEMMA LoopThreeSteps ==
  ASSUME NEW a \in StepNames, NEW b \in StepNames, NEW c \in StepNames, NEW m \in Nat,
         InTurn(a, b, c, m)
  PROVE IsSteps(Loop(<<a, b, c>>, m), Many(a, m) \cup Many(b, m) \cup Many(c, m))
<1> DEFINE s == Loop(<<a, b, c>>, m)
           name(k) == IF k % 3 = 1 THEN a ELSE IF k % 3 = 2 THEN b ELSE c
           pass(k) == ((k - 1) \div 3) + 1
<1>1. s \in Seq(AnyStep) /\ Len(s) = 3 * m /\ \A k \in 1..3 * m : s[k] = <<name(k), pass(k)>>
  <2>1. /\ Loop(<<a, b, c>>, m) \in Seq(AnyStep)
        /\ Len(Loop(<<a, b, c>>, m)) = 3 * m
        /\ \A k \in 1..3 * m :
             Loop(<<a, b, c>>, m)[k] =
               <<IF k % 3 = 1 THEN a ELSE IF k % 3 = 2 THEN b ELSE c, ((k - 1) \div 3) + 1>>
    BY LoopThree, Zenon
  <2> QED BY <2>1, Zenon
<1>2. DOMAIN s = 1..3 * m
  BY <1>1, LenProperties
<1> HIDE DEF s
<1>3. \A k \in 1..3 * m : pass(k) \in 1..m /\ name(k) \in {a, b, c}
  OBVIOUS
<1>4. \A j, k \in 1..3 * m : j < k =>
        \/ pass(j) < pass(k)
        \/ pass(j) = pass(k) /\ j % 3 = 1 /\ k % 3 = 2
        \/ pass(j) = pass(k) /\ j % 3 = 1 /\ k % 3 = 0
        \/ pass(j) = pass(k) /\ j % 3 = 2 /\ k % 3 = 0
  OBVIOUS
<1>5. \A k \in 1..3 * m : /\ k % 3 = 1 => name(k) = a
                          /\ k % 3 = 2 => name(k) = b
                          /\ k % 3 = 0 => name(k) = c
  OBVIOUS
<1>6. ASSUME NEW i \in 1..m
      PROVE /\ 3 * i - 2 \in 1..3 * m /\ name(3 * i - 2) = a /\ pass(3 * i - 2) = i
            /\ 3 * i - 1 \in 1..3 * m /\ name(3 * i - 1) = b /\ pass(3 * i - 1) = i
            /\ 3 * i \in 1..3 * m /\ name(3 * i) = c /\ pass(3 * i) = i
  OBVIOUS
<1> HIDE DEF name, pass
<1>7. ASSUME NEW j \in DOMAIN s, NEW k \in DOMAIN s, j < k
      PROVE Follows(s[j], s[k])
  <2>1. CASE pass(j) < pass(k)
    BY <1>1, <1>2, <1>3, <1>7, <2>1 DEF InTurn
  <2>2. CASE pass(j) = pass(k) /\ j % 3 = 1 /\ k % 3 = 2
    BY <1>1, <1>2, <1>3, <1>5, <1>7, <2>2 DEF InTurn
  <2>3. CASE pass(j) = pass(k) /\ j % 3 = 1 /\ k % 3 = 0
    BY <1>1, <1>2, <1>3, <1>5, <1>7, <2>3 DEF InTurn
  <2>4. CASE pass(j) = pass(k) /\ j % 3 = 2 /\ k % 3 = 0
    BY <1>1, <1>2, <1>3, <1>5, <1>7, <2>4 DEF InTurn
  <2> QED BY <1>2, <1>4, <1>7, <2>1, <2>2, <2>3, <2>4
<1>8. Ordered(s)
  BY <1>7 DEF Ordered
<1>9. ASSUME NEW x \in ToSet(s)
      PROVE x \in {<<a, i>> : i \in 1..m} \cup {<<b, i>> : i \in 1..m} \cup {<<c, i>> : i \in 1..m}
  <2>1. PICK k \in DOMAIN s : x = s[k]
    BY DEF ToSet
  <2> QED BY <1>1, <1>2, <1>3, <2>1
<1>10. ASSUME NEW i \in 1..m
       PROVE <<a, i>> \in ToSet(s) /\ <<b, i>> \in ToSet(s) /\ <<c, i>> \in ToSet(s)
  <2>1. s[3 * i - 2] = <<a, i>> /\ s[3 * i - 1] = <<b, i>> /\ s[3 * i] = <<c, i>>
    BY <1>1, <1>6
  <2>2. 3 * i - 2 \in DOMAIN s /\ 3 * i - 1 \in DOMAIN s /\ 3 * i \in DOMAIN s
    BY <1>2, <1>6
  <2> QED BY <2>1, <2>2 DEF ToSet
<1> QED BY <1>1, <1>8, <1>9, <1>10 DEF s, IsSteps, Many

-----------------------------------------------------------------------------
(* The steps of each publisher, as a set of steps in order                 *)

\* Every step of A may be earlier than every step of B.
Before(A, B) == \A x \in A, y \in B : Follows(x, y)

LEMMA Joined ==
  ASSUME NEW a, NEW b, NEW A, NEW B, IsSteps(a, A), IsSteps(b, B), Before(A, B)
  PROVE IsSteps(a \o b, A \cup B)
<1>1. a \in Seq(AnyStep) /\ b \in Seq(AnyStep) /\ Ordered(a) /\ Ordered(b)
      /\ ToSet(a) = A /\ ToSet(b) = B
  BY DEF IsSteps
<1>2. \A x \in ToSet(a), y \in ToSet(b) : Follows(x, y)
  BY <1>1 DEF Before
<1>3. a \o b \in Seq(AnyStep) /\ Ordered(a \o b) /\ ToSet(a \o b) = ToSet(a) \cup ToSet(b)
  BY <1>1, <1>2, ConcatOrdered, Zenon
<1> QED BY <1>1, <1>3, Zenon DEF IsSteps

LEMMA JoinedThree ==
  ASSUME NEW a, NEW b, NEW c, NEW A, NEW B, NEW C,
         IsSteps(a, A), IsSteps(b, B), IsSteps(c, C),
         Before(A, B), Before(A, C), Before(B, C)
  PROVE IsSteps(a \o b \o c, A \cup B \cup C)
<1>1. IsSteps(a \o b, A \cup B)
  BY Joined, Zenon
<1>2. Before(A \cup B, C)
  BY DEF Before
<1> QED BY <1>1, <1>2, Joined, Zenon

LEMMA JoinedFour ==
  ASSUME NEW a, NEW b, NEW c, NEW d, NEW A, NEW B, NEW C, NEW D,
         IsSteps(a, A), IsSteps(b, B), IsSteps(c, C), IsSteps(d, D),
         Before(A, B), Before(A, C), Before(B, C), Before(A, D), Before(B, D), Before(C, D)
  PROVE IsSteps(a \o b \o c \o d, A \cup B \cup C \cup D)
<1>1. IsSteps(a \o b \o c, A \cup B \cup C)
  BY JoinedThree, Zenon
<1>2. Before(A \cup B \cup C, D)
  BY DEF Before
<1> QED BY <1>1, <1>2, Joined, Zenon

LEMMA JoinedFive ==
  ASSUME NEW a, NEW b, NEW c, NEW d, NEW e, NEW A, NEW B, NEW C, NEW D, NEW E,
         IsSteps(a, A), IsSteps(b, B), IsSteps(c, C), IsSteps(d, D), IsSteps(e, E),
         Before(A, B), Before(A, C), Before(B, C), Before(A, D), Before(B, D), Before(C, D),
         Before(A, E), Before(B, E), Before(C, E), Before(D, E)
  PROVE IsSteps(a \o b \o c \o d \o e, A \cup B \cup C \cup D \cup E)
<1>1. IsSteps(a \o b \o c \o d, A \cup B \cup C \cup D)
  BY JoinedFour, Zenon
<1>2. Before(A \cup B \cup C \cup D, E)
  BY DEF Before
<1> QED BY <1>1, <1>2, Joined, Zenon

LEMMA One ==
  ASSUME NEW x \in AnyStep PROVE IsSteps(<<x>>, {x})
BY OneOrdered, Zenon DEF IsSteps

LEMMA Maybe ==
  ASSUME NEW c, NEW x \in AnyStep PROVE IsSteps(Optional(c, x), IF c THEN {x} ELSE {})
BY OneOrdered, NoneOrdered, Zenon DEF IsSteps, Optional

LEMMA Two ==
  ASSUME NEW x \in AnyStep, NEW y \in AnyStep, Follows(x, y)
  PROVE IsSteps(<<x, y>>, {x, y})
<1> DEFINE s == <<x, y>>
<1>1. s \in Seq(AnyStep) /\ DOMAIN s = {1, 2} /\ s[1] = x /\ s[2] = y
  OBVIOUS
<1> HIDE DEF s
<1>2. Ordered(s) /\ ToSet(s) = {x, y}
  BY <1>1 DEF Ordered, ToSet
<1> QED BY <1>1, <1>2, Zenon DEF IsSteps, s

LEMMA Three ==
  ASSUME NEW x \in AnyStep, NEW y \in AnyStep, NEW z \in AnyStep,
         Follows(x, y), Follows(x, z), Follows(y, z)
  PROVE IsSteps(<<x, y, z>>, {x, y, z})
<1> DEFINE s == <<x, y, z>>
<1>1. s \in Seq(AnyStep) /\ DOMAIN s = {1, 2, 3} /\ s[1] = x /\ s[2] = y /\ s[3] = z
  OBVIOUS
<1> HIDE DEF s
<1>2. Ordered(s) /\ ToSet(s) = {x, y, z}
  BY <1>1 DEF Ordered, ToSet
<1> QED BY <1>1, <1>2, Zenon DEF IsSteps, s

LEMMA StepInAnyStep ==
  ASSUME NEW name \in StepNames PROVE Step(name) \in AnyStep
BY DEF Step, AnyStep

Given == platform \in AllPlatforms /\ post \in Posts

LEMMA PostFacts ==
  ASSUME Given
  PROVE /\ n \in Nat /\ n <= MaxAssets /\ post.media \in [1..n -> {"image", "video"}]
        /\ post.replies \in Nat /\ Requested \in Nat \ {0}
        /\ post.complete \in BOOLEAN /\ post.linked \in BOOLEAN
        /\ post.unfit \subseteq 1..n
        /\ \A i \in post.unfit : post.media[i] = "image"
        /\ hasVideo \in BOOLEAN /\ hasImage \in BOOLEAN
<1>1. post.media \in Media /\ post.replies \in 0..MaxReplies
      /\ post.complete \in BOOLEAN /\ post.linked \in BOOLEAN
      /\ post.unfit \subseteq {i \in DOMAIN post.media : post.media[i] = "image"}
  BY DEF Given, Posts
<1>2. PICK m \in 0..MaxAssets : post.media \in [1..m -> {"image", "video"}]
  BY <1>1 DEF Media
<1>3. m \in Nat /\ Len(post.media) = m
  BY <1>2, PublishersAssumption DEF PublishersAssumption
<1> QED BY <1>1, <1>2, <1>3, PublishersAssumption DEF PublishersAssumption, n, Requested, hasVideo, hasImage

LEMMA Five ==
  ASSUME NEW u \in AnyStep, NEW v \in AnyStep, NEW w \in AnyStep, NEW x \in AnyStep, NEW y \in AnyStep,
         Follows(u, v), Follows(u, w), Follows(u, x), Follows(u, y),
         Follows(v, w), Follows(v, x), Follows(v, y),
         Follows(w, x), Follows(w, y),
         Follows(x, y)
  PROVE IsSteps(<<u, v, w, x, y>>, {u, v, w, x, y})
<1> DEFINE s == <<u, v, w, x, y>>
<1>1. s \in Seq(AnyStep) /\ DOMAIN s = {1, 2, 3, 4, 5}
  OBVIOUS
<1>2. s[1] = u /\ s[2] = v /\ s[3] = w /\ s[4] = x /\ s[5] = y
  OBVIOUS
<1> HIDE DEF s
<1>3. Ordered(s)
  BY <1>1, <1>2 DEF Ordered
<1>4. ToSet(s) = {u, v, w, x, y}
  BY <1>1, <1>2 DEF ToSet
<1> QED BY <1>1, <1>3, <1>4, Zenon DEF IsSteps, s

LEMMA Six ==
  ASSUME NEW u \in AnyStep, NEW v \in AnyStep, NEW w \in AnyStep, NEW x \in AnyStep, NEW y \in AnyStep, NEW z \in AnyStep,
         Follows(u, v), Follows(u, w), Follows(u, x), Follows(u, y), Follows(u, z),
         Follows(v, w), Follows(v, x), Follows(v, y), Follows(v, z),
         Follows(w, x), Follows(w, y), Follows(w, z),
         Follows(x, y), Follows(x, z),
         Follows(y, z)
  PROVE IsSteps(<<u, v, w, x, y, z>>, {u, v, w, x, y, z})
<1> DEFINE s == <<u, v, w, x, y, z>>
<1>1. s \in Seq(AnyStep) /\ DOMAIN s = {1, 2, 3, 4, 5, 6}
  OBVIOUS
<1>2. s[1] = u /\ s[2] = v /\ s[3] = w /\ s[4] = x /\ s[5] = y /\ s[6] = z
  OBVIOUS
<1> HIDE DEF s
<1>3. Ordered(s)
  BY <1>1, <1>2 DEF Ordered
<1>4. ToSet(s) = {u, v, w, x, y, z}
  BY <1>1, <1>2 DEF ToSet
<1> QED BY <1>1, <1>3, <1>4, Zenon DEF IsSteps, s

BlueskySet ==
    {Step("accept")} \cup Many("upload", n)
    \cup (IF n = 0 /\ post.linked THEN {Step("embed")} ELSE {})
    \cup {Step("fields"), Step("publish"), Step("done")}

FacebookSet ==
    {Step("accept"), Step("done")}
    \cup IF n > 1 THEN Many("resize", n) \cup Many("upload", n) \cup {Step("publish"), Step("cleanup")}
                  ELSE {Step("publishUrl")}

ContainerSet ==
    IF n = 1 THEN (IF hasVideo THEN {<<"process", 1>>} ELSE {}) \cup {Step("container")}
    ELSE Many("item", n) \cup {Step("waitItems"), Step("carousel")}

InstagramSet ==
    {Step("accept")} \cup (IF post.linked THEN {Step("location")} ELSE {}) \cup ContainerSet
    \cup {Step("wait"), Step("mediaPublish"), Step("done"), Step("details"), Step("cleanup")}

LinkedinSet ==
    {Step("accept"), Step("publish"), Step("done")}
    \cup IF hasVideo THEN {<<"upload", 1>>} ELSE Many("upload", n)

PinterestSet ==
    {Step("pick"), Step("accept"), Step("fields"), Step("uploadPicked"), Step("publish"),
     Step("done")}

ThreadsSet ==
    {Step("accept"), Step("wait"), Step("mediaPublish"), Step("done"), Step("details")}
    \cup (IF n > 1 THEN Many("item", n) \cup {Step("waitItems"), Step("carousel")}
          ELSE {Step("container")})
    \cup Many("reply", post.replies) \cup Many("wait", post.replies)
    \cup Many("mediaPublish", post.replies)

TikTokSet ==
    {Step("creatorInfo"), Step("accept"), Step("init"), Step("status"), Step("done")}
    \cup IF hasVideo THEN {Step("duration"), Step("put")}
         ELSE Many("resize", n) \cup {Step("cleanup")}

XSet == {Step("accept"), Step("publish"), Step("done")} \cup Many("upload", n)

YouTubeSet ==
    {Step("pick"), Step("accept"), Step("open"), Step("uploadUrl"), Step("publish"), Step("done")}

LEMMA BlueskyList ==
  ASSUME Given, platform = "bluesky"
  PROVE IsSteps(Steps, BlueskySet)
<1> DEFINE A == {Step("accept")}
           B == Many("upload", n)
           C == IF n = 0 /\ post.linked THEN {Step("embed")} ELSE {}
           D == {Step("fields"), Step("publish"), Step("done")}
           E == A \cup B \cup C \cup D
<1>1. n \in Nat /\ post.replies \in Nat
  BY PostFacts
<1>2. /\ \A x \in {"accept", "done", "embed", "fields", "publish", "upload"} :
           x \in StepNames /\ Step(x) \in AnyStep
      /\ <<"upload", 1>> \in AnyStep /\ <<"process", 1>> \in AnyStep
  BY DEF StepNames, AnyStep, Step
<1> HIDE DEF A, B, C, D, E
<1>3. /\ (\A i, j \in 1..n : i < j => Follows(<<"upload", i>>, <<"upload", j>>))
      /\ Follows(Step("fields"), Step("publish"))
      /\ Follows(Step("fields"), Step("done"))
      /\ Follows(Step("publish"), Step("done"))
      /\ Before(A, B)
      /\ Before(A, C)
      /\ Before(A, D)
      /\ Before(B, C)
      /\ Before(B, D)
      /\ Before(C, D)
  BY <1>1 DEF Step, Many, Follows, Phase, RootMakers, Makers, Collectors, HeldUsers, Showing, Before, A, B, C, D, E
<1>4. IsSteps(<<Step("accept")>>, A)
  BY <1>2, One, Zenon DEF A
<1>5. IsSteps(Each(<<"upload">>), B)
  BY <1>1, <1>2, <1>3, LoopOneSteps, Zenon DEF IsSteps, Many, B, Each
<1>6. IsSteps(Optional(n = 0 /\ post.linked, Step("embed")), C)
  BY <1>2, Maybe, Zenon DEF C
<1>7. IsSteps(<<Step("fields"), Step("publish"), Step("done")>>, D)
  BY <1>2, <1>3, Three, Zenon DEF D
<1>8. IsSteps(BlueskySteps, E)
  BY <1>3, <1>4, <1>5, <1>6, <1>7, JoinedFour, Zenon DEF E, BlueskySteps
<1>9. Steps = BlueskySteps
  BY DEF Steps
<1>10. E = BlueskySet
  BY DEF BlueskySet, A, B, C, D, E
<1> QED BY <1>8, <1>9, <1>10, Zenon

LEMMA FacebookList ==
  ASSUME Given, platform = "facebook"
  PROVE IsSteps(Steps, FacebookSet)
<1> DEFINE A == {Step("accept")}
           B == Many("resize", n) \cup Many("upload", n)
           C == {Step("publish"), Step("cleanup")}
           D == B \cup C
           E == {Step("publishUrl")}
           F == IF n > 1 THEN D ELSE E
           G == {Step("done")}
           H == A \cup F \cup G
<1>1. n \in Nat /\ post.replies \in Nat
  BY PostFacts
<1>2. /\ \A x \in {"accept", "cleanup", "done", "publish", "publishUrl", "resize", "upload"} :
           x \in StepNames /\ Step(x) \in AnyStep
      /\ <<"upload", 1>> \in AnyStep /\ <<"process", 1>> \in AnyStep
  BY DEF StepNames, AnyStep, Step
<1> HIDE DEF A, B, C, D, E, F, G, H
<1>3. /\ (\A i, j \in 1..n : i < j => \A x \in {"resize", "upload"}, y \in {"resize", "upload"} : Follows(<<x, i>>, <<y, j>>))
      /\ (\A i \in 1..n : Follows(<<"resize", i>>, <<"upload", i>>))
      /\ Follows(Step("publish"), Step("cleanup"))
      /\ Before(B, C)
      /\ Before(A, F)
      /\ Before(A, G)
      /\ Before(F, G)
  BY <1>1 DEF Step, Many, Follows, Phase, RootMakers, Makers, Collectors, HeldUsers, Showing, Before, A, B, C, D, E, F, G, H
<1>4. IsSteps(<<Step("accept")>>, A)
  BY <1>2, One, Zenon DEF A
<1>5. IsSteps(Each(<<"resize", "upload">>), B)
  BY <1>1, <1>2, <1>3, LoopTwoSteps, Zenon DEF IsSteps, Many, B, Each
<1>6. IsSteps(<<Step("publish"), Step("cleanup")>>, C)
  BY <1>2, <1>3, Two, Zenon DEF C
<1>7. IsSteps(FacebookPhotos, D)
  BY <1>3, <1>5, <1>6, Joined, Zenon DEF D, FacebookPhotos
<1>8. IsSteps(<<Step("publishUrl")>>, E)
  BY <1>2, One, Zenon DEF E
<1>9. IsSteps((IF n > 1 THEN FacebookPhotos ELSE <<Step("publishUrl")>>), F)
  BY <1>7, <1>8, Zenon DEF F
<1>10. IsSteps(<<Step("done")>>, G)
  BY <1>2, One, Zenon DEF G
<1>11. IsSteps(FacebookSteps, H)
  BY <1>3, <1>4, <1>9, <1>10, JoinedThree, Zenon DEF H, FacebookSteps
<1>12. Steps = FacebookSteps
  BY DEF Steps
<1>13. H = FacebookSet
  BY DEF FacebookSet, A, B, C, D, E, F, G, H
<1> QED BY <1>11, <1>12, <1>13, Zenon

LEMMA InstagramList ==
  ASSUME Given, platform = "instagram"
  PROVE IsSteps(Steps, InstagramSet)
<1> DEFINE A == {Step("accept")}
           B == IF post.linked THEN {Step("location")} ELSE {}
           C == IF hasVideo THEN {<<"process", 1>>} ELSE {}
           D == {Step("container")}
           E == C \cup D
           F == Many("item", n)
           G == {Step("waitItems"), Step("carousel")}
           H == F \cup G
           I == IF n = 1 THEN E ELSE H
           J == {Step("wait"), Step("mediaPublish"), Step("done"), Step("details"), Step("cleanup")}
           K == A \cup B \cup I \cup J
<1>1. n \in Nat /\ post.replies \in Nat
  BY PostFacts
<1>2. /\ \A x \in {"accept", "carousel", "cleanup", "container", "details", "done", "item", "location", "mediaPublish", "process", "wait", "waitItems"} :
           x \in StepNames /\ Step(x) \in AnyStep
      /\ <<"upload", 1>> \in AnyStep /\ <<"process", 1>> \in AnyStep
  BY DEF StepNames, AnyStep, Step
<1> HIDE DEF A, B, C, D, E, F, G, H, I, J, K
<1>3. /\ Before(C, D)
      /\ (\A i, j \in 1..n : i < j => Follows(<<"item", i>>, <<"item", j>>))
      /\ Follows(Step("waitItems"), Step("carousel"))
      /\ Before(F, G)
      /\ Follows(Step("wait"), Step("mediaPublish"))
      /\ Follows(Step("wait"), Step("done"))
      /\ Follows(Step("wait"), Step("details"))
      /\ Follows(Step("wait"), Step("cleanup"))
      /\ Follows(Step("mediaPublish"), Step("done"))
      /\ Follows(Step("mediaPublish"), Step("details"))
      /\ Follows(Step("mediaPublish"), Step("cleanup"))
      /\ Follows(Step("done"), Step("details"))
      /\ Follows(Step("done"), Step("cleanup"))
      /\ Follows(Step("details"), Step("cleanup"))
      /\ Before(A, B)
      /\ Before(A, I)
      /\ Before(A, J)
      /\ Before(B, I)
      /\ Before(B, J)
      /\ Before(I, J)
  BY <1>1 DEF Step, Many, Follows, Phase, RootMakers, Makers, Collectors, HeldUsers, Showing, Before, A, B, C, D, E, F, G, H, I, J, K
<1>4. IsSteps(<<Step("accept")>>, A)
  BY <1>2, One, Zenon DEF A
<1>5. IsSteps(Optional(post.linked, Step("location")), B)
  BY <1>2, Maybe, Zenon DEF B
<1>6. IsSteps(Optional(hasVideo, <<"process", 1>>), C)
  BY <1>2, Maybe, Zenon DEF C
<1>7. IsSteps(<<Step("container")>>, D)
  BY <1>2, One, Zenon DEF D
<1>8. IsSteps(InstagramSingle, E)
  BY <1>3, <1>6, <1>7, Joined, Zenon DEF E, InstagramSingle
<1>9. IsSteps(Each(<<"item">>), F)
  BY <1>1, <1>2, <1>3, LoopOneSteps, Zenon DEF IsSteps, Many, F, Each
<1>10. IsSteps(<<Step("waitItems"), Step("carousel")>>, G)
  BY <1>2, <1>3, Two, Zenon DEF G
<1>11. IsSteps(Carousel, H)
  BY <1>3, <1>9, <1>10, Joined, Zenon DEF H, Carousel
<1>12. IsSteps((IF n = 1 THEN InstagramSingle ELSE Carousel), I)
  BY <1>8, <1>11, Zenon DEF I
<1>13. IsSteps(<<Step("wait"), Step("mediaPublish"), Step("done"), Step("details"), Step("cleanup")>>, J)
  BY <1>2, <1>3, Five, Zenon DEF J
<1>14. IsSteps(InstagramSteps, K)
  BY <1>3, <1>4, <1>5, <1>12, <1>13, JoinedFour, Zenon DEF K, InstagramSteps
<1>15. Steps = InstagramSteps
  BY DEF Steps
<1>16. K = InstagramSet
  BY DEF InstagramSet, ContainerSet, A, B, C, D, E, F, G, H, I, J, K
<1> QED BY <1>14, <1>15, <1>16, Zenon

LEMMA LinkedinList ==
  ASSUME Given, platform = "linkedin"
  PROVE IsSteps(Steps, LinkedinSet)
<1> DEFINE A == {Step("accept")}
           B == {<<"upload", 1>>, Step("publish")}
           C == Many("upload", n)
           D == {Step("publish")}
           E == C \cup D
           F == IF hasVideo THEN B ELSE E
           G == {Step("done")}
           H == A \cup F \cup G
<1>1. n \in Nat /\ post.replies \in Nat
  BY PostFacts
<1>2. /\ \A x \in {"accept", "done", "publish", "upload"} :
           x \in StepNames /\ Step(x) \in AnyStep
      /\ <<"upload", 1>> \in AnyStep /\ <<"process", 1>> \in AnyStep
  BY DEF StepNames, AnyStep, Step
<1> HIDE DEF A, B, C, D, E, F, G, H
<1>3. /\ Follows(<<"upload", 1>>, Step("publish"))
      /\ (\A i, j \in 1..n : i < j => Follows(<<"upload", i>>, <<"upload", j>>))
      /\ Before(C, D)
      /\ Before(A, F)
      /\ Before(A, G)
      /\ Before(F, G)
  BY <1>1 DEF Step, Many, Follows, Phase, RootMakers, Makers, Collectors, HeldUsers, Showing, Before, A, B, C, D, E, F, G, H
<1>4. IsSteps(<<Step("accept")>>, A)
  BY <1>2, One, Zenon DEF A
<1>5. IsSteps(LinkedinVideo, B)
  BY <1>2, <1>3, Two, Zenon DEF B, LinkedinVideo
<1>6. IsSteps(Each(<<"upload">>), C)
  BY <1>1, <1>2, <1>3, LoopOneSteps, Zenon DEF IsSteps, Many, C, Each
<1>7. IsSteps(<<Step("publish")>>, D)
  BY <1>2, One, Zenon DEF D
<1>8. IsSteps(LinkedinImages, E)
  BY <1>3, <1>6, <1>7, Joined, Zenon DEF E, LinkedinImages
<1>9. IsSteps((IF hasVideo THEN LinkedinVideo ELSE LinkedinImages), F)
  BY <1>5, <1>8, Zenon DEF F
<1>10. IsSteps(<<Step("done")>>, G)
  BY <1>2, One, Zenon DEF G
<1>11. IsSteps(LinkedinSteps, H)
  BY <1>3, <1>4, <1>9, <1>10, JoinedThree, Zenon DEF H, LinkedinSteps
<1>12. Steps = LinkedinSteps
  BY DEF Steps
<1>13. H = LinkedinSet
  BY DEF LinkedinSet, A, B, C, D, E, F, G, H
<1> QED BY <1>11, <1>12, <1>13, Zenon

LEMMA PinterestList ==
  ASSUME Given, platform = "pinterest"
  PROVE IsSteps(Steps, PinterestSet)
<1> DEFINE A == {Step("pick"), Step("accept"), Step("fields"), Step("uploadPicked"), Step("publish"), Step("done")}
<1>1. n \in Nat /\ post.replies \in Nat
  BY PostFacts
<1>2. /\ \A x \in {"accept", "done", "fields", "pick", "publish", "uploadPicked"} :
           x \in StepNames /\ Step(x) \in AnyStep
      /\ <<"upload", 1>> \in AnyStep /\ <<"process", 1>> \in AnyStep
  BY DEF StepNames, AnyStep, Step
<1> HIDE DEF A
<1>3. /\ Follows(Step("pick"), Step("accept"))
      /\ Follows(Step("pick"), Step("fields"))
      /\ Follows(Step("pick"), Step("uploadPicked"))
      /\ Follows(Step("pick"), Step("publish"))
      /\ Follows(Step("pick"), Step("done"))
      /\ Follows(Step("accept"), Step("fields"))
      /\ Follows(Step("accept"), Step("uploadPicked"))
      /\ Follows(Step("accept"), Step("publish"))
      /\ Follows(Step("accept"), Step("done"))
      /\ Follows(Step("fields"), Step("uploadPicked"))
      /\ Follows(Step("fields"), Step("publish"))
      /\ Follows(Step("fields"), Step("done"))
      /\ Follows(Step("uploadPicked"), Step("publish"))
      /\ Follows(Step("uploadPicked"), Step("done"))
      /\ Follows(Step("publish"), Step("done"))
  BY <1>1 DEF Step, Many, Follows, Phase, RootMakers, Makers, Collectors, HeldUsers, Showing, Before, A
<1>4. IsSteps(<<Step("pick"), Step("accept"), Step("fields"), Step("uploadPicked"), Step("publish"), Step("done")>>, A)
  BY <1>2, <1>3, Six, Zenon DEF A
<1>5. Steps = PinterestSteps
  BY DEF Steps, PinterestSteps
<1>6. A = PinterestSet
  BY DEF PinterestSet, A
<1> QED BY <1>4, <1>5, <1>6, Zenon DEF PinterestSteps

LEMMA ThreadsList ==
  ASSUME Given, platform = "threads"
  PROVE IsSteps(Steps, ThreadsSet)
<1> DEFINE A == {Step("accept")}
           B == Many("item", n)
           C == {Step("waitItems"), Step("carousel")}
           D == B \cup C
           E == {Step("container")}
           F == IF n > 1 THEN D ELSE E
           G == {Step("wait"), Step("mediaPublish")}
           H == Many("reply", post.replies) \cup Many("wait", post.replies) \cup Many("mediaPublish", post.replies)
           I == {Step("done"), Step("details")}
           J == A \cup F \cup G \cup H \cup I
<1>1. n \in Nat /\ post.replies \in Nat
  BY PostFacts
<1>2. /\ \A x \in {"accept", "carousel", "container", "details", "done", "item", "mediaPublish", "reply", "wait", "waitItems"} :
           x \in StepNames /\ Step(x) \in AnyStep
      /\ <<"upload", 1>> \in AnyStep /\ <<"process", 1>> \in AnyStep
  BY DEF StepNames, AnyStep, Step
<1> HIDE DEF A, B, C, D, E, F, G, H, I, J
<1>3. /\ (\A i, j \in 1..n : i < j => Follows(<<"item", i>>, <<"item", j>>))
      /\ Follows(Step("waitItems"), Step("carousel"))
      /\ Before(B, C)
      /\ Follows(Step("wait"), Step("mediaPublish"))
      /\ (\A i, j \in 1..post.replies : i < j => \A x \in {"reply", "wait", "mediaPublish"}, y \in {"reply", "wait", "mediaPublish"} : Follows(<<x, i>>, <<y, j>>))
      /\ (\A i \in 1..post.replies : Follows(<<"reply", i>>, <<"wait", i>>) /\ Follows(<<"reply", i>>, <<"mediaPublish", i>>) /\ Follows(<<"wait", i>>, <<"mediaPublish", i>>))
      /\ Follows(Step("done"), Step("details"))
      /\ Before(A, F)
      /\ Before(A, G)
      /\ Before(A, H)
      /\ Before(A, I)
      /\ Before(F, G)
      /\ Before(F, H)
      /\ Before(F, I)
      /\ Before(G, H)
      /\ Before(G, I)
      /\ Before(H, I)
  BY <1>1 DEF Step, Many, Follows, Phase, RootMakers, Makers, Collectors, HeldUsers, Showing, Before, A, B, C, D, E, F, G, H, I, J
<1>4. IsSteps(<<Step("accept")>>, A)
  BY <1>2, One, Zenon DEF A
<1>5. IsSteps(Each(<<"item">>), B)
  BY <1>1, <1>2, <1>3, LoopOneSteps, Zenon DEF IsSteps, Many, B, Each
<1>6. IsSteps(<<Step("waitItems"), Step("carousel")>>, C)
  BY <1>2, <1>3, Two, Zenon DEF C
<1>7. IsSteps(Carousel, D)
  BY <1>3, <1>5, <1>6, Joined, Zenon DEF D, Carousel
<1>8. IsSteps(<<Step("container")>>, E)
  BY <1>2, One, Zenon DEF E
<1>9. IsSteps((IF n > 1 THEN Carousel ELSE <<Step("container")>>), F)
  BY <1>7, <1>8, Zenon DEF F
<1>10. IsSteps(<<Step("wait"), Step("mediaPublish")>>, G)
  BY <1>2, <1>3, Two, Zenon DEF G
<1>11. IsSteps(ThreadsReplies, H)
  <2>1. "reply" \in StepNames /\ "wait" \in StepNames /\ "mediaPublish" \in StepNames
    BY <1>2
  <2>2. InTurn("reply", "wait", "mediaPublish", post.replies)
    BY DEF InTurn, Follows, Phase, RootMakers, Makers, Collectors, HeldUsers, Showing
  <2> QED BY <1>1, <2>1, <2>2, LoopThreeSteps, Zenon DEF H, ThreadsReplies
<1>12. IsSteps(<<Step("done"), Step("details")>>, I)
  BY <1>2, <1>3, Two, Zenon DEF I
<1>13. IsSteps(ThreadsSteps, J)
  BY <1>3, <1>4, <1>9, <1>10, <1>11, <1>12, JoinedFive, Zenon DEF J, ThreadsSteps
<1>14. Steps = ThreadsSteps
  BY DEF Steps
<1>15. J = ThreadsSet
  BY DEF ThreadsSet, A, B, C, D, E, F, G, H, I, J
<1> QED BY <1>13, <1>14, <1>15, Zenon

LEMMA TikTokList ==
  ASSUME Given, platform = "tiktok"
  PROVE IsSteps(Steps, TikTokSet)
<1> DEFINE A == {Step("creatorInfo"), Step("accept")}
           B == {Step("duration"), Step("init"), Step("put")}
           C == Many("resize", n)
           D == {Step("init"), Step("cleanup")}
           E == C \cup D
           F == IF hasVideo THEN B ELSE E
           G == {Step("status"), Step("done")}
           H == A \cup F \cup G
<1>1. n \in Nat /\ post.replies \in Nat
  BY PostFacts
<1>2. /\ \A x \in {"accept", "cleanup", "creatorInfo", "done", "duration", "init", "put", "resize", "status"} :
           x \in StepNames /\ Step(x) \in AnyStep
      /\ <<"upload", 1>> \in AnyStep /\ <<"process", 1>> \in AnyStep
  BY DEF StepNames, AnyStep, Step
<1> HIDE DEF A, B, C, D, E, F, G, H
<1>3. /\ Follows(Step("creatorInfo"), Step("accept"))
      /\ Follows(Step("duration"), Step("init"))
      /\ Follows(Step("duration"), Step("put"))
      /\ Follows(Step("init"), Step("put"))
      /\ (\A i, j \in 1..n : i < j => Follows(<<"resize", i>>, <<"resize", j>>))
      /\ Follows(Step("init"), Step("cleanup"))
      /\ Before(C, D)
      /\ Follows(Step("status"), Step("done"))
      /\ Before(A, F)
      /\ Before(A, G)
      /\ Before(F, G)
  BY <1>1 DEF Step, Many, Follows, Phase, RootMakers, Makers, Collectors, HeldUsers, Showing, Before, A, B, C, D, E, F, G, H
<1>4. IsSteps(<<Step("creatorInfo"), Step("accept")>>, A)
  BY <1>2, <1>3, Two, Zenon DEF A
<1>5. IsSteps(TikTokVideo, B)
  BY <1>2, <1>3, Three, Zenon DEF B, TikTokVideo
<1>6. IsSteps(Each(<<"resize">>), C)
  BY <1>1, <1>2, <1>3, LoopOneSteps, Zenon DEF IsSteps, Many, C, Each
<1>7. IsSteps(<<Step("init"), Step("cleanup")>>, D)
  BY <1>2, <1>3, Two, Zenon DEF D
<1>8. IsSteps(TikTokPhotos, E)
  BY <1>3, <1>6, <1>7, Joined, Zenon DEF E, TikTokPhotos
<1>9. IsSteps((IF hasVideo THEN TikTokVideo ELSE TikTokPhotos), F)
  BY <1>5, <1>8, Zenon DEF F
<1>10. IsSteps(<<Step("status"), Step("done")>>, G)
  BY <1>2, <1>3, Two, Zenon DEF G
<1>11. IsSteps(TikTokSteps, H)
  BY <1>3, <1>4, <1>9, <1>10, JoinedThree, Zenon DEF H, TikTokSteps
<1>12. Steps = TikTokSteps
  BY DEF Steps
<1>13. H = TikTokSet
  BY DEF TikTokSet, A, B, C, D, E, F, G, H
<1> QED BY <1>11, <1>12, <1>13, Zenon

LEMMA XList ==
  ASSUME Given, platform = "x"
  PROVE IsSteps(Steps, XSet)
<1> DEFINE A == {Step("accept")}
           B == Many("upload", n)
           C == {Step("publish"), Step("done")}
           D == A \cup B \cup C
<1>1. n \in Nat /\ post.replies \in Nat
  BY PostFacts
<1>2. /\ \A x \in {"accept", "done", "publish", "upload"} :
           x \in StepNames /\ Step(x) \in AnyStep
      /\ <<"upload", 1>> \in AnyStep /\ <<"process", 1>> \in AnyStep
  BY DEF StepNames, AnyStep, Step
<1> HIDE DEF A, B, C, D
<1>3. /\ (\A i, j \in 1..n : i < j => Follows(<<"upload", i>>, <<"upload", j>>))
      /\ Follows(Step("publish"), Step("done"))
      /\ Before(A, B)
      /\ Before(A, C)
      /\ Before(B, C)
  BY <1>1 DEF Step, Many, Follows, Phase, RootMakers, Makers, Collectors, HeldUsers, Showing, Before, A, B, C, D
<1>4. IsSteps(<<Step("accept")>>, A)
  BY <1>2, One, Zenon DEF A
<1>5. IsSteps(Each(<<"upload">>), B)
  BY <1>1, <1>2, <1>3, LoopOneSteps, Zenon DEF IsSteps, Many, B, Each
<1>6. IsSteps(<<Step("publish"), Step("done")>>, C)
  BY <1>2, <1>3, Two, Zenon DEF C
<1>7. IsSteps(XSteps, D)
  BY <1>3, <1>4, <1>5, <1>6, JoinedThree, Zenon DEF D, XSteps
<1>8. Steps = XSteps
  BY DEF Steps
<1>9. D = XSet
  BY DEF XSet, A, B, C, D
<1> QED BY <1>7, <1>8, <1>9, Zenon

LEMMA YouTubeList ==
  ASSUME Given, platform = "youtube"
  PROVE IsSteps(Steps, YouTubeSet)
<1> DEFINE A == {Step("pick"), Step("accept"), Step("open"), Step("uploadUrl"), Step("publish"), Step("done")}
<1>1. n \in Nat /\ post.replies \in Nat
  BY PostFacts
<1>2. /\ \A x \in {"accept", "done", "open", "pick", "publish", "uploadUrl"} :
           x \in StepNames /\ Step(x) \in AnyStep
      /\ <<"upload", 1>> \in AnyStep /\ <<"process", 1>> \in AnyStep
  BY DEF StepNames, AnyStep, Step
<1> HIDE DEF A
<1>3. /\ Follows(Step("pick"), Step("accept"))
      /\ Follows(Step("pick"), Step("open"))
      /\ Follows(Step("pick"), Step("uploadUrl"))
      /\ Follows(Step("pick"), Step("publish"))
      /\ Follows(Step("pick"), Step("done"))
      /\ Follows(Step("accept"), Step("open"))
      /\ Follows(Step("accept"), Step("uploadUrl"))
      /\ Follows(Step("accept"), Step("publish"))
      /\ Follows(Step("accept"), Step("done"))
      /\ Follows(Step("open"), Step("uploadUrl"))
      /\ Follows(Step("open"), Step("publish"))
      /\ Follows(Step("open"), Step("done"))
      /\ Follows(Step("uploadUrl"), Step("publish"))
      /\ Follows(Step("uploadUrl"), Step("done"))
      /\ Follows(Step("publish"), Step("done"))
  BY <1>1 DEF Step, Many, Follows, Phase, RootMakers, Makers, Collectors, HeldUsers, Showing, Before, A
<1>4. IsSteps(<<Step("pick"), Step("accept"), Step("open"), Step("uploadUrl"), Step("publish"), Step("done")>>, A)
  BY <1>2, <1>3, Six, Zenon DEF A
<1>5. Steps = YouTubeSteps
  BY DEF Steps, YouTubeSteps
<1>6. A = YouTubeSet
  BY DEF YouTubeSet, A
<1> QED BY <1>4, <1>5, <1>6, Zenon DEF YouTubeSteps

-----------------------------------------------------------------------------
(* What every publisher's steps have in common                             *)

AllFit(S) == \A x \in S : Fits(x)

Named(S) ==
    ~Has(S, {"start", "failed"}) /\ Has(S, {"accept"})

Collects(S) ==
    platform \notin Picked /\ Accepts => Covered(S, Collectors, HeldUsers, 1, n)

Shows(S) ==
    platform # "tiktok" => Covered(S, Showing, {"done"}, 0, Requested - 1)

Sends(S) ==
    platform = "tiktok" => /\ Covered(S, {"init"}, {"put", "status", "done"}, 0, 0)
                           /\ hasVideo => Has(S, {"put"})

Waits(S) ==
    /\ \A x \in S : x[1] = "mediaPublish" => HasNumbered(S, RootMakers, x[2]) /\ HasNumbered(S, {"wait"}, x[2])
    /\ \A x \in S : x[1] = "wait" => HasNumbered(S, {"mediaPublish"}, x[2])

Cleans(S) ==
    /\ Has(S, {"resize", "process"}) => Step("cleanup") \in S
    /\ Has(S, {"carousel"}) => Has(S, {"waitItems"})
    /\ platform = "instagram" => Has(S, {"mediaPublish"}) /\ Has(S, RootMakers)

Whole(S) ==
    /\ AllFit(S) /\ Named(S) /\ Collects(S) /\ Shows(S)
    /\ Sends(S) /\ Waits(S) /\ Cleans(S)

LEMMA OneEach ==
  ASSUME NEW L, NEW C, NEW U, NEW lo, NEW hi, NEW a \in C,
         \A x \in L : x[1] \in C => x[2] \in lo..hi, \A i \in lo..hi : <<a, i>> \in L
  PROVE Covered(L, C, U, lo, hi)
<1>1. \A i \in lo..hi : <<a, i>>[1] = a /\ <<a, i>>[2] = i
  OBVIOUS
<1> QED BY <1>1 DEF Covered

LEMMA NoUse ==
  ASSUME NEW L, NEW C, NEW U, NEW lo, NEW hi, \A x \in L : x[1] \notin C /\ x[1] \notin U
  PROVE Covered(L, C, U, lo, hi)
BY DEF Covered, Has

LEMMA BlueskyWhole ==
  ASSUME Given, platform = "bluesky"
  PROVE Whole(BlueskySet)
<1> DEFINE S == BlueskySet
<1>1. AllFit(S)
  BY PostFacts DEF AllFit, Fits, Showing, Picked, Requested, hasVideo, BlueskySet, Step, Many
<1>2. /\ \A x \in S : x[1] \in {"accept", "upload", "embed", "fields", "publish", "done"}
      /\ \A x \in S : x[2] \in Nat
  BY PostFacts DEF BlueskySet, Step, Many
<1>3. /\ Step("accept") \in S /\ Step("publish") \in S
      /\ (\A i \in 1..n : <<"upload", i>> \in S)
  BY PostFacts DEF BlueskySet, Step, Many
<1> HIDE DEF S
<1>4. Named(S)
  BY <1>2, <1>3 DEF Named, Has, Step
<1>5. Collects(S)
  BY <1>1, <1>2, <1>3, OneEach DEF Collects, Collectors, AllFit, Fits
<1>6. Shows(S)
  BY <1>1, <1>2, <1>3, PostFacts DEF Shows, Covered, Showing, Requested, AllFit, Fits, Step
<1>7. Sends(S)
  BY <1>1, <1>2, <1>3 DEF Sends, Covered, Has, AllFit, Fits, Step
<1>8. Waits(S)
  BY <1>2 DEF Waits
<1>9. Cleans(S)
  BY <1>2, <1>3, PostFacts DEF Cleans, Has, RootMakers, Step
<1> QED BY <1>1, <1>4, <1>5, <1>6, <1>7, <1>8, <1>9, Zenon DEF Whole, S

LEMMA FacebookWhole ==
  ASSUME Given, platform = "facebook"
  PROVE Whole(FacebookSet)
<1> DEFINE S == FacebookSet
<1>1. AllFit(S)
  BY PostFacts DEF AllFit, Fits, Showing, Picked, Requested, hasVideo, FacebookSet, Step, Many
<1>2. /\ \A x \in S : x[1] \in {"accept", "resize", "upload", "publish", "publishUrl", "cleanup", "done"}
      /\ n <= 1 => \A x \in S : x[1] \in {"accept", "publishUrl", "done"}
      /\ \A x \in S : x[2] \in Nat
  BY PostFacts DEF FacebookSet, Step, Many
<1>3. /\ Step("accept") \in S
      /\ n > 1 => Step("publish") \in S /\ Step("cleanup") \in S /\ (\A i \in 1..n : <<"upload", i>> \in S)
      /\ n <= 1 => Step("publishUrl") \in S
  BY PostFacts DEF FacebookSet, Step, Many
<1> HIDE DEF S
<1>4. Named(S)
  BY <1>2, <1>3 DEF Named, Has, Step
<1>5. Collects(S)
  <2>1. CASE n <= 1
    <3>1. \A x \in S : x[1] \notin Collectors /\ x[1] \notin HeldUsers
      BY <1>2, <2>1 DEF Collectors, HeldUsers
    <3> QED BY <3>1, NoUse DEF Collects
  <2>2. CASE n > 1
    <3>1. \A x \in S : x[1] \in Collectors => x[2] \in 1..n
      BY <1>1, <1>2 DEF Collectors, AllFit, Fits
    <3>2. PICK a \in Collectors : \A i \in 1..n : <<a, i>> \in S
      BY <1>3, <2>2 DEF Collectors
    <3> QED BY <3>1, <3>2, OneEach DEF Collects
  <2> QED BY <2>1, <2>2, PostFacts
<1>6. Shows(S)
  BY <1>1, <1>2, <1>3, PostFacts DEF Shows, Covered, Showing, Requested, AllFit, Fits, Step
<1>7. Sends(S)
  BY <1>1, <1>2, <1>3 DEF Sends, Covered, Has, AllFit, Fits, Step
<1>8. Waits(S)
  BY <1>2 DEF Waits
<1>9. Cleans(S)
  <2>1. CASE n > 1
    BY <1>2, <1>3, <2>1 DEF Cleans, Has
  <2>2. CASE n <= 1
    BY <1>2, <2>2 DEF Cleans, Has
  <2> QED BY <2>1, <2>2, PostFacts
<1> QED BY <1>1, <1>4, <1>5, <1>6, <1>7, <1>8, <1>9, Zenon DEF Whole, S

LEMMA InstagramWhole ==
  ASSUME Given, platform = "instagram"
  PROVE Whole(InstagramSet)
<1> DEFINE S == InstagramSet
<1>1. AllFit(S)
  BY PostFacts DEF AllFit, Fits, Showing, Picked, Requested, hasVideo, InstagramSet, Step, Many, ContainerSet
<1>2. /\ \A x \in S : x[1] \in {"accept", "location", "process", "container", "item", "waitItems", "carousel", "wait", "mediaPublish", "done", "details", "cleanup"}
      /\ n = 1 => \A x \in S : x[1] \notin {"item", "carousel", "waitItems"}
      /\ \A x \in S : x[1] \in {"wait", "mediaPublish"} => x[2] = 0
      /\ \A x \in S : x[2] \in Nat
  BY PostFacts DEF InstagramSet, Step, Many, ContainerSet
<1>3. /\ Step("accept") \in S /\ Step("wait") \in S /\ Step("mediaPublish") \in S /\ Step("cleanup") \in S
      /\ n = 1 => Step("container") \in S
      /\ n # 1 => Step("waitItems") \in S /\ Step("carousel") \in S /\ (\A i \in 1..n : <<"item", i>> \in S)
  BY PostFacts DEF InstagramSet, Step, Many, ContainerSet
<1> HIDE DEF S
<1>4. Named(S)
  BY <1>2, <1>3 DEF Named, Has, Step
<1>5. Collects(S)
  <2>1. CASE n = 1
    <3>1. \A x \in S : x[1] \notin Collectors /\ x[1] \notin HeldUsers
      BY <1>2, <2>1 DEF Collectors, HeldUsers
    <3> QED BY <3>1, NoUse DEF Collects
  <2>2. CASE n # 1
    <3>1. \A x \in S : x[1] \in Collectors => x[2] \in 1..n
      BY <1>1, <1>2 DEF Collectors, AllFit, Fits
    <3>2. PICK a \in Collectors : \A i \in 1..n : <<a, i>> \in S
      BY <1>3, <2>2 DEF Collectors
    <3> QED BY <3>1, <3>2, OneEach DEF Collects
  <2> QED BY <2>1, <2>2, PostFacts
<1>6. Shows(S)
  <2>1. Requested - 1 = 0
    BY PostFacts DEF Requested
  <2>2. \A x \in S : x[1] \in Showing => x[2] \in 0..0
    BY <1>2 DEF Showing
  <2>3. \A i \in 0..0 : <<"mediaPublish", i>> \in S
    BY <1>3 DEF Step
  <2> QED BY <2>1, <2>2, <2>3, OneEach DEF Shows, Showing
<1>7. Sends(S)
  BY <1>1, <1>2, <1>3 DEF Sends, Covered, Has, AllFit, Fits, Step
<1>8. Waits(S)
  <2>1. \A i \in 0..0 : HasNumbered(S, RootMakers, i) /\ HasNumbered(S, {"wait"}, i) /\ HasNumbered(S, {"mediaPublish"}, i)
    <3> TAKE i \in 0..0
    <3>1. <<"wait", i>> \in S /\ <<"mediaPublish", i>> \in S
      BY <1>3, PostFacts DEF Step
    <3>2. \E a \in RootMakers : <<a, i>> \in S
      BY <1>3, PostFacts DEF Step, RootMakers
    <3> QED BY <3>1, <3>2 DEF HasNumbered
  <2> QED BY <1>2, <2>1 DEF Waits
<1>9. Cleans(S)
  <2>1. Has(S, {"carousel"}) => Has(S, {"waitItems"})
    BY <1>2, <1>3 DEF Has, Step
  <2>2. Has(S, {"mediaPublish"}) /\ Has(S, RootMakers)
    BY <1>3 DEF Has, RootMakers, Step
  <2> QED BY <1>3, <2>1, <2>2 DEF Cleans
<1> QED BY <1>1, <1>4, <1>5, <1>6, <1>7, <1>8, <1>9, Zenon DEF Whole, S

LEMMA LinkedinWhole ==
  ASSUME Given, platform = "linkedin"
  PROVE Whole(LinkedinSet)
<1> DEFINE S == LinkedinSet
<1>1. AllFit(S)
  BY PostFacts DEF AllFit, Fits, Showing, Picked, Requested, hasVideo, LinkedinSet, Step, Many
<1>2. /\ \A x \in S : x[1] \in {"accept", "upload", "publish", "done"}
      /\ \A x \in S : x[2] \in Nat
  BY PostFacts DEF LinkedinSet, Step, Many
<1>3. /\ Step("accept") \in S /\ Step("publish") \in S
      /\ IF hasVideo THEN <<"upload", 1>> \in S ELSE (\A i \in 1..n : <<"upload", i>> \in S)
  BY PostFacts DEF LinkedinSet, Step, Many
<1> HIDE DEF S
<1>4. Named(S)
  BY <1>2, <1>3 DEF Named, Has, Step
<1>5. Collects(S)
  <2>1. SUFFICES ASSUME LinkedinAccepts PROVE Covered(S, Collectors, HeldUsers, 1, n)
    BY DEF Collects, Accepts
  <2>2. \A x \in S : x[1] \in Collectors => x[2] \in 1..n
    BY <1>1, <1>2 DEF Collectors, AllFit, Fits
  <2>3. hasVideo => n = 1
    BY <2>1, PostFacts DEF LinkedinAccepts, hasVideo
  <2>4. ASSUME NEW i \in 1..n PROVE <<"upload", i>> \in S
    <3>1. CASE hasVideo
      <4>1. i = 1
        BY <2>3, <3>1
      <4> QED BY <1>3, <3>1, <4>1
    <3>2. CASE ~hasVideo
      BY <1>3, <3>2
    <3> QED BY <3>1, <3>2
  <2> QED BY <2>2, <2>4, OneEach DEF Collectors
<1>6. Shows(S)
  BY <1>1, <1>2, <1>3, PostFacts DEF Shows, Covered, Showing, Requested, AllFit, Fits, Step
<1>7. Sends(S)
  BY <1>1, <1>2, <1>3 DEF Sends, Covered, Has, AllFit, Fits, Step
<1>8. Waits(S)
  BY <1>2 DEF Waits
<1>9. Cleans(S)
  BY <1>2, <1>3, PostFacts DEF Cleans, Has, RootMakers, Step
<1> QED BY <1>1, <1>4, <1>5, <1>6, <1>7, <1>8, <1>9, Zenon DEF Whole, S

LEMMA PinterestWhole ==
  ASSUME Given, platform = "pinterest"
  PROVE Whole(PinterestSet)
<1> DEFINE S == PinterestSet
<1>1. AllFit(S)
  BY PostFacts DEF AllFit, Fits, Showing, Picked, Requested, hasVideo, PinterestSet, Step, Many
<1>2. /\ \A x \in S : x[1] \in {"pick", "accept", "fields", "uploadPicked", "publish", "done"}
      /\ \A x \in S : x[2] \in Nat
  BY PostFacts DEF PinterestSet, Step, Many
<1>3. /\ Step("accept") \in S /\ Step("publish") \in S
  BY PostFacts DEF PinterestSet, Step, Many
<1> HIDE DEF S
<1>4. Named(S)
  BY <1>2, <1>3 DEF Named, Has, Step
<1>5. Collects(S)
  BY DEF Collects, Picked
<1>6. Shows(S)
  BY <1>1, <1>2, <1>3, PostFacts DEF Shows, Covered, Showing, Requested, AllFit, Fits, Step
<1>7. Sends(S)
  BY <1>1, <1>2, <1>3 DEF Sends, Covered, Has, AllFit, Fits, Step
<1>8. Waits(S)
  BY <1>2 DEF Waits
<1>9. Cleans(S)
  BY <1>2, <1>3, PostFacts DEF Cleans, Has, RootMakers, Step
<1> QED BY <1>1, <1>4, <1>5, <1>6, <1>7, <1>8, <1>9, Zenon DEF Whole, S

LEMMA ThreadsWhole ==
  ASSUME Given, platform = "threads"
  PROVE Whole(ThreadsSet)
<1> DEFINE S == ThreadsSet
<1>1. AllFit(S)
  BY PostFacts DEF AllFit, Fits, Showing, Picked, Requested, hasVideo, ThreadsSet, Step, Many
<1>2. /\ \A x \in S : x[1] \in {"accept", "item", "waitItems", "carousel", "container", "wait", "mediaPublish", "reply", "done", "details"}
      /\ n <= 1 => \A x \in S : x[1] \notin {"item", "carousel", "waitItems"}
      /\ \A x \in S : x[2] \in Nat
      /\ \A x \in S : x[1] \in {"wait", "mediaPublish"} => x[2] \in 0..post.replies
  BY PostFacts DEF ThreadsSet, Step, Many
<1>3. /\ Step("accept") \in S /\ Step("wait") \in S /\ Step("mediaPublish") \in S
      /\ IF n > 1 THEN Step("waitItems") \in S /\ Step("carousel") \in S /\ (\A i \in 1..n : <<"item", i>> \in S) ELSE Step("container") \in S
      /\ (\A i \in 1..post.replies : <<"reply", i>> \in S) /\ (\A i \in 1..post.replies : <<"wait", i>> \in S) /\ (\A i \in 1..post.replies : <<"mediaPublish", i>> \in S)
  BY PostFacts DEF ThreadsSet, Step, Many
<1> HIDE DEF S
<1>4. Named(S)
  BY <1>2, <1>3 DEF Named, Has, Step
<1>5. Collects(S)
  <2>1. CASE n <= 1
    <3>1. \A x \in S : x[1] \notin Collectors /\ x[1] \notin HeldUsers
      BY <1>2, <2>1 DEF Collectors, HeldUsers
    <3> QED BY <3>1, NoUse DEF Collects
  <2>2. CASE n > 1
    <3>1. \A x \in S : x[1] \in Collectors => x[2] \in 1..n
      BY <1>1, <1>2 DEF Collectors, AllFit, Fits
    <3>2. PICK a \in Collectors : \A i \in 1..n : <<a, i>> \in S
      BY <1>3, <2>2 DEF Collectors
    <3> QED BY <3>1, <3>2, OneEach DEF Collects
  <2> QED BY <2>1, <2>2, PostFacts
<1>6. Shows(S)
  <2>1. Requested - 1 = post.replies
    BY PostFacts DEF Requested
  <2>2. \A x \in S : x[1] \in Showing => x[2] \in 0..post.replies
    BY <1>2 DEF Showing
  <2>3. ASSUME NEW i \in 0..post.replies PROVE <<"mediaPublish", i>> \in S
    <3>1. CASE i = 0
      BY <1>3, <3>1 DEF Step
    <3>2. CASE i # 0
      <4>1. i \in 1..post.replies
        BY <3>2, PostFacts
      <4> QED BY <1>3, <4>1
    <3> QED BY <3>1, <3>2
  <2> QED BY <2>1, <2>2, <2>3, OneEach DEF Shows, Showing
<1>7. Sends(S)
  BY <1>1, <1>2, <1>3 DEF Sends, Covered, Has, AllFit, Fits, Step
<1>8. Waits(S)
  <2>1. ASSUME NEW i \in 0..post.replies
        PROVE /\ <<"wait", i>> \in S /\ <<"mediaPublish", i>> \in S
              /\ \E a \in RootMakers : <<a, i>> \in S
    <3>1. CASE i = 0
      <4>1. <<"wait", i>> \in S /\ <<"mediaPublish", i>> \in S
        BY <1>3, <3>1 DEF Step
      <4>2. <<"carousel", i>> \in S \/ <<"container", i>> \in S
        BY <1>3, <3>1 DEF Step
      <4> QED BY <4>1, <4>2 DEF RootMakers
    <3>2. CASE i # 0
      <4>1. i \in 1..post.replies
        BY <3>2, PostFacts
      <4> QED BY <1>3, <4>1 DEF RootMakers
    <3> QED BY <3>1, <3>2
  <2>2. \A i \in 0..post.replies :
          HasNumbered(S, RootMakers, i) /\ HasNumbered(S, {"wait"}, i) /\ HasNumbered(S, {"mediaPublish"}, i)
    BY <2>1 DEF HasNumbered
  <2> QED BY <1>2, <2>2 DEF Waits
<1>9. Cleans(S)
  <2>1. CASE n > 1
    BY <1>2, <1>3, <2>1 DEF Cleans, Has, Step
  <2>2. CASE n <= 1
    BY <1>2, <2>2 DEF Cleans, Has
  <2> QED BY <2>1, <2>2, PostFacts
<1> QED BY <1>1, <1>4, <1>5, <1>6, <1>7, <1>8, <1>9, Zenon DEF Whole, S

LEMMA TikTokWhole ==
  ASSUME Given, platform = "tiktok"
  PROVE Whole(TikTokSet)
<1> DEFINE S == TikTokSet
<1>1. AllFit(S)
  BY PostFacts DEF AllFit, Fits, Showing, Picked, Requested, hasVideo, TikTokSet, Step, Many
<1>2. /\ \A x \in S : x[1] \in {"creatorInfo", "accept", "duration", "init", "put", "resize", "cleanup", "status", "done"}
      /\ hasVideo => \A x \in S : x[1] \notin {"resize", "cleanup"}
      /\ \A x \in S : x[2] \in Nat
  BY PostFacts DEF TikTokSet, Step, Many
<1>3. /\ Step("accept") \in S /\ Step("init") \in S
      /\ IF hasVideo THEN Step("put") \in S ELSE Step("cleanup") \in S /\ (\A i \in 1..n : <<"resize", i>> \in S)
  BY PostFacts DEF TikTokSet, Step, Many
<1> HIDE DEF S
<1>4. Named(S)
  BY <1>2, <1>3 DEF Named, Has, Step
<1>5. Collects(S)
  <2>1. CASE hasVideo
    <3>1. \A x \in S : x[1] \notin Collectors /\ x[1] \notin HeldUsers
      BY <1>2, <2>1 DEF Collectors, HeldUsers
    <3> QED BY <3>1, NoUse DEF Collects
  <2>2. CASE ~hasVideo
    <3>1. \A x \in S : x[1] \in Collectors => x[2] \in 1..n
      BY <1>1, <1>2 DEF Collectors, AllFit, Fits
    <3>2. PICK a \in Collectors : \A i \in 1..n : <<a, i>> \in S
      BY <1>3, <2>2 DEF Collectors
    <3> QED BY <3>1, <3>2, OneEach DEF Collects
  <2> QED BY <2>1, <2>2, PostFacts
<1>6. Shows(S)
  BY <1>1, <1>2, <1>3, PostFacts DEF Shows, Covered, Showing, Requested, AllFit, Fits, Step
<1>7. Sends(S)
  BY <1>1, <1>2, <1>3 DEF Sends, Covered, Has, AllFit, Fits, Step
<1>8. Waits(S)
  BY <1>2 DEF Waits
<1>9. Cleans(S)
  BY <1>2, <1>3, PostFacts DEF Cleans, Has, RootMakers, Step
<1> QED BY <1>1, <1>4, <1>5, <1>6, <1>7, <1>8, <1>9, Zenon DEF Whole, S

LEMMA XWhole ==
  ASSUME Given, platform = "x"
  PROVE Whole(XSet)
<1> DEFINE S == XSet
<1>1. AllFit(S)
  BY PostFacts DEF AllFit, Fits, Showing, Picked, Requested, hasVideo, XSet, Step, Many
<1>2. /\ \A x \in S : x[1] \in {"accept", "upload", "publish", "done"}
      /\ \A x \in S : x[2] \in Nat
  BY PostFacts DEF XSet, Step, Many
<1>3. /\ Step("accept") \in S /\ Step("publish") \in S
      /\ (\A i \in 1..n : <<"upload", i>> \in S)
  BY PostFacts DEF XSet, Step, Many
<1> HIDE DEF S
<1>4. Named(S)
  BY <1>2, <1>3 DEF Named, Has, Step
<1>5. Collects(S)
  BY <1>1, <1>2, <1>3, OneEach DEF Collects, Collectors, AllFit, Fits
<1>6. Shows(S)
  BY <1>1, <1>2, <1>3, PostFacts DEF Shows, Covered, Showing, Requested, AllFit, Fits, Step
<1>7. Sends(S)
  BY <1>1, <1>2, <1>3 DEF Sends, Covered, Has, AllFit, Fits, Step
<1>8. Waits(S)
  BY <1>2 DEF Waits
<1>9. Cleans(S)
  BY <1>2, <1>3, PostFacts DEF Cleans, Has, RootMakers, Step
<1> QED BY <1>1, <1>4, <1>5, <1>6, <1>7, <1>8, <1>9, Zenon DEF Whole, S

LEMMA YouTubeWhole ==
  ASSUME Given, platform = "youtube"
  PROVE Whole(YouTubeSet)
<1> DEFINE S == YouTubeSet
<1>1. AllFit(S)
  BY PostFacts DEF AllFit, Fits, Showing, Picked, Requested, hasVideo, YouTubeSet, Step, Many
<1>2. /\ \A x \in S : x[1] \in {"pick", "accept", "open", "uploadUrl", "publish", "done"}
      /\ \A x \in S : x[2] \in Nat
  BY PostFacts DEF YouTubeSet, Step, Many
<1>3. /\ Step("accept") \in S /\ Step("publish") \in S
  BY PostFacts DEF YouTubeSet, Step, Many
<1> HIDE DEF S
<1>4. Named(S)
  BY <1>2, <1>3 DEF Named, Has, Step
<1>5. Collects(S)
  BY DEF Collects, Picked
<1>6. Shows(S)
  BY <1>1, <1>2, <1>3, PostFacts DEF Shows, Covered, Showing, Requested, AllFit, Fits, Step
<1>7. Sends(S)
  BY <1>1, <1>2, <1>3 DEF Sends, Covered, Has, AllFit, Fits, Step
<1>8. Waits(S)
  BY <1>2 DEF Waits
<1>9. Cleans(S)
  BY <1>2, <1>3, PostFacts DEF Cleans, Has, RootMakers, Step
<1> QED BY <1>1, <1>4, <1>5, <1>6, <1>7, <1>8, <1>9, Zenon DEF Whole, S

LEMMA StepsWhole ==
  ASSUME Given
  PROVE Steps \in Seq(AnyStep) /\ Ordered(Steps) /\ Whole(ToSet(Steps))
<1>1. platform \in AllPlatforms
  BY DEF Given
<1>2. CASE platform = "bluesky"
  BY <1>2, BlueskyList, BlueskyWhole, Zenon DEF IsSteps
<1>3. CASE platform = "facebook"
  BY <1>3, FacebookList, FacebookWhole, Zenon DEF IsSteps
<1>4. CASE platform = "instagram"
  BY <1>4, InstagramList, InstagramWhole, Zenon DEF IsSteps
<1>5. CASE platform = "linkedin"
  BY <1>5, LinkedinList, LinkedinWhole, Zenon DEF IsSteps
<1>6. CASE platform = "pinterest"
  BY <1>6, PinterestList, PinterestWhole, Zenon DEF IsSteps
<1>7. CASE platform = "threads"
  BY <1>7, ThreadsList, ThreadsWhole, Zenon DEF IsSteps
<1>8. CASE platform = "tiktok"
  BY <1>8, TikTokList, TikTokWhole, Zenon DEF IsSteps
<1>9. CASE platform = "x"
  BY <1>9, XList, XWhole, Zenon DEF IsSteps
<1>10. CASE platform = "youtube"
  BY <1>10, YouTubeList, YouTubeWhole, Zenon DEF IsSteps
<1> QED BY <1>1, <1>2, <1>3, <1>4, <1>5, <1>6, <1>7, <1>8, <1>9, <1>10 DEF AllPlatforms

-----------------------------------------------------------------------------
(* How the steps left change                                               *)

\* The steps after the first, and those after it when it throws.
After == ToSet(Rest)
Undone == ToSet(Unwound)

LEMMA Ahead ==
  ASSUME todo \in Seq(AnyStep), Ordered(todo), todo # <<>>
  PROVE /\ Head(todo) \in AnyStep /\ Left = {Head(todo)} \cup After
        /\ Rest \in Seq(AnyStep) /\ Ordered(Rest)
        /\ \A y \in After : Follows(Head(todo), y) /\ y \in AnyStep
<1>1. /\ Tail(todo) \in Seq(AnyStep) /\ Ordered(Tail(todo))
      /\ Head(todo) \in AnyStep
      /\ ToSet(todo) = {Head(todo)} \cup ToSet(Tail(todo))
      /\ \A y \in ToSet(Tail(todo)) : Follows(Head(todo), y)
  BY HeadAndTail, Zenon
<1>2. \A s \in Seq(AnyStep) : \A y \in ToSet(s) : y \in AnyStep
  BY DEF ToSet
<1>3. \A y \in After : y \in AnyStep
  BY <1>1, <1>2, Zenon DEF After, Rest
<1> QED BY <1>1, <1>3, Zenon DEF After, Rest, Left

LEMMA Unwinds ==
  /\ Unwound \in Seq(AnyStep) /\ Ordered(Unwound)
  /\ Undone = {Step("failed")} \cup (IF Step("cleanup") \in After THEN {Step("cleanup")} ELSE {})
<1>1. Step("failed") \in AnyStep /\ Step("cleanup") \in AnyStep
  BY DEF Step, AnyStep, StepNames
<1>2. Follows(Step("failed"), Step("cleanup")) /\ Follows(Step("cleanup"), Step("failed"))
  BY DEF Follows, Step, Collectors, HeldUsers, Showing, RootMakers, Makers, Phase
<1>3. IsSteps(<<Step("failed")>>, {Step("failed")})
  BY <1>1, One, Zenon
<1>4. IsSteps(<<Step("failed"), Step("cleanup")>>, {Step("failed"), Step("cleanup")})
  BY <1>1, <1>2, Two, Zenon
<1>5. IsSteps(<<Step("cleanup"), Step("failed")>>, {Step("cleanup"), Step("failed")})
  BY <1>1, <1>2, Two, Zenon
<1> HIDE DEF Step
<1> QED BY <1>3, <1>4, <1>5 DEF IsSteps, Unwound, Undone, After

LEMMA GivenStays ==
  ASSUME [Next]_vars PROVE platform' = platform /\ post' = post
<1>1. CASE Start \/ Pick \/ CheckMedia \/ CheckFields \/ MeasureVideo \/ FindLocation
  BY <1>1, Zenon DEF Start, Pick, CheckMedia, CheckFields, MeasureVideo, FindLocation, given
<1>2. CASE AskCreator \/ EmbedLink \/ OpenUpload \/ UploadUrl \/ Resize \/ ProcessVideo \/ Upload
  BY <1>2, Zenon DEF AskCreator, EmbedLink, OpenUpload, UploadUrl, Resize, ProcessVideo, Upload, given
<1>3. CASE Cleanup \/ CreateContainer \/ CreateCarousel \/ Put \/ GiveUp \/ PollAgain \/ PollEnds
  BY <1>3, Zenon DEF Cleanup, CreateContainer, CreateCarousel, Put, GiveUp, PollAgain, PollEnds, given
<1>4. CASE Publish \/ MediaPublish \/ FetchStatus \/ MarkDone \/ Details \/ MarkFailed \/ Crash
  BY <1>4, Zenon DEF Publish, MediaPublish, FetchStatus, MarkDone, Details, MarkFailed, Crash, given
<1>5. CASE Platform
  BY <1>5, Zenon DEF Platform, ProcessContainer, RefuseContainer, given
<1>6. CASE UNCHANGED vars
  BY <1>6 DEF vars
<1> QED BY <1>1, <1>2, <1>3, <1>4, <1>5, <1>6 DEF Next, PublisherStep

\* What becomes of the steps left.
Passes == todo # <<>> /\ todo' = Rest
Breaks == todo # <<>> /\ todo' = Unwound
Starts == At("start") /\ todo' = Steps
Dies == todo' = <<>> /\ "crash" \in hit'
Onward == Passes \/ Breaks \/ Starts \/ Dies \/ todo' = todo

\* The same of a step that is not one of these.
Quiet(names) ==
    \/ Passes /\ Head(todo)[1] \notin names
    \/ Breaks \/ Starts \/ Dies \/ todo' = todo

LEMMA TodoMoves ==
  ASSUME [Next]_vars PROVE Onward
<1> USE DEF Onward, Passes, Breaks, Starts, Dies, At, Advance, Throw, Throws, Fails, Request
<1>1. CASE Start
  BY <1>1 DEF Start
<1>2. CASE Pick
  BY <1>2 DEF Pick
<1>3. CASE CheckMedia
  BY <1>3 DEF CheckMedia
<1>4. CASE CheckFields
  BY <1>4 DEF CheckFields
<1>5. CASE MeasureVideo
  BY <1>5 DEF MeasureVideo
<1>6. CASE FindLocation
  BY <1>6 DEF FindLocation
<1>7. CASE AskCreator \/ EmbedLink \/ OpenUpload \/ UploadUrl
  BY <1>7 DEF AskCreator, EmbedLink, OpenUpload, UploadUrl
<1>8. CASE Resize
  BY <1>8 DEF Resize
<1>9. CASE ProcessVideo \/ Cleanup
  BY <1>9 DEF ProcessVideo, Cleanup
<1>10. CASE Upload
  BY <1>10 DEF Upload
<1>11. CASE CreateContainer
  BY <1>11 DEF CreateContainer, Create
<1>12. CASE CreateCarousel
  BY <1>12 DEF CreateCarousel, Create
<1>13. CASE Put
  BY <1>13 DEF Put
<1>14. CASE GiveUp \/ PollAgain \/ PollEnds
  BY <1>14 DEF GiveUp, PollAgain, PollEnds, Awaited
<1>15. CASE Publish
  BY <1>15 DEF Publish
<1>16. CASE MediaPublish
  BY <1>16 DEF MediaPublish
<1>17. CASE FetchStatus \/ MarkDone \/ Details \/ MarkFailed
  BY <1>17 DEF FetchStatus, MarkDone, Details, MarkFailed
<1>18. CASE Crash \/ Platform
  BY <1>18 DEF Crash, Happens, Platform, ProcessContainer, RefuseContainer
<1>19. CASE UNCHANGED vars
  BY <1>19 DEF vars
<1> QED BY <1>1, <1>2, <1>3, <1>4, <1>5, <1>6, <1>7, <1>8, <1>9, <1>10, <1>11, <1>12, <1>13,
          <1>14, <1>15, <1>16, <1>17, <1>18, <1>19, Zenon DEF Next, PublisherStep

-----------------------------------------------------------------------------
(* The steps left are in order, and start is left only at the start        *)

Basis == Given /\ todo \in Seq(AnyStep) /\ ShapeInv

LEMMA SameOrder ==
  ASSUME platform' = platform, post' = post
  PROVE (Ordered(todo') => Ordered(todo)') /\ ((\A x \in ToSet(todo') : Fits(x)) => (\A x \in Left : Fits(x))')
<1>1. n' = n /\ Requested' = Requested /\ hasVideo' = hasVideo
  BY DEF n, Requested, hasVideo
<1>2. Collectors' = Collectors /\ HeldUsers' = HeldUsers
  BY <1>1 DEF Collectors, HeldUsers
<1>3. \A a, b : Follows(a, b)' = Follows(a, b)
  BY <1>2 DEF Follows, Showing, RootMakers, Makers, Phase
<1>4. \A x : Fits(x)' = Fits(x)
  BY <1>1 DEF Fits, Showing, Picked
<1> QED BY <1>3, <1>4 DEF Ordered, Left

LEMMA Outset ==
  ASSUME Basis, [Next]_vars, Has(Left, {"start"})
  PROVE Start \/ Crash \/ UNCHANGED vars
<1>1. Left = {Step("start")} /\ remote = <<>>
  BY DEF Basis, ShapeInv
<1>2. todo # <<>> => Head(todo)[1] = "start"
  BY <1>1, Ahead DEF Basis, ShapeInv, Step
<1>3. \A name : At(name) => name = "start"
  BY <1>2 DEF At
<1> HIDE DEF At
<1>4. ~(Pick \/ CheckMedia \/ CheckFields \/ MeasureVideo \/ FindLocation)
  BY <1>3 DEF Pick, CheckMedia, CheckFields, MeasureVideo, FindLocation
<1>5. ~(AskCreator \/ EmbedLink \/ OpenUpload \/ UploadUrl \/ Resize \/ ProcessVideo \/ Upload)
  BY <1>3 DEF AskCreator, EmbedLink, OpenUpload, UploadUrl, Resize, ProcessVideo, Upload
<1>6. ~(Cleanup \/ CreateContainer \/ CreateCarousel \/ Put \/ GiveUp \/ PollAgain \/ PollEnds)
  BY <1>3 DEF Cleanup, CreateContainer, CreateCarousel, Put, GiveUp, PollAgain, PollEnds, Awaited
<1>7. ~(Publish \/ MediaPublish \/ FetchStatus \/ MarkDone \/ Details \/ MarkFailed)
  BY <1>3 DEF Publish, MediaPublish, FetchStatus, MarkDone, Details, MarkFailed
<1>8. ~Platform
  BY <1>1 DEF Platform
<1> QED BY <1>4, <1>5, <1>6, <1>7, <1>8, Zenon DEF Next, PublisherStep

LEMMA StartThrows ==
  ASSUME Basis, Start
  PROVE todo' = Steps \/ todo' = Unwound
BY DEF Start, Fails, Throw

\* The steps that a step leaves are in order, fit, and are not the start.
LEMMA StepsNext ==
  ASSUME Basis, Onward
  PROVE /\ todo' \in Seq(AnyStep) /\ Ordered(todo')
        /\ \A x \in ToSet(todo') : Fits(x)
        /\ Has(ToSet(todo'), {"start"}) => todo' = todo
<1>1. Given /\ todo \in Seq(AnyStep) /\ (\A x \in Left : Fits(x)) /\ Ordered(todo)
  BY DEF Basis, ShapeInv
<1>2. CASE todo # <<>> /\ todo' = Rest
  <2>1. /\ Left = {Head(todo)} \cup After /\ Rest \in Seq(AnyStep) /\ Ordered(Rest)
        /\ \A y \in After : Follows(Head(todo), y)
    BY <1>1, <1>2, Ahead, Zenon
  <2>2. \A y \in After : y[1] # "start"
    BY <2>1 DEF Follows
  <2> HIDE DEF Rest
  <2> QED BY <1>1, <1>2, <2>1, <2>2 DEF After, Has
<1>3. CASE todo # <<>> /\ todo' = Unwound
  <2>1. Left = {Head(todo)} \cup After
    BY <1>1, <1>3, Ahead, Zenon
  <2>2. Fits(Step("failed"))
    BY DEF Fits, Step, Showing
  <2>3. \A x \in Undone : Fits(x) /\ x[1] # "start"
    <3>1. Step("failed")[1] = "failed" /\ Step("cleanup")[1] = "cleanup"
      BY DEF Step
    <3>2. Step("cleanup") \in After => Fits(Step("cleanup"))
      BY <1>1, <2>1
    <3> HIDE DEF Step
    <3> QED BY <2>2, <3>1, <3>2, Unwinds
  <2> QED BY <1>3, <2>3, Unwinds DEF Undone, Has
<1>4. CASE todo' = Steps
  BY <1>1, <1>4, StepsWhole DEF Whole, AllFit, Named, Has
<1>5. CASE todo' = <<>>
  BY <1>5, NoneOrdered DEF Has
<1>6. CASE todo' = todo
  BY <1>1, <1>6, Zenon DEF Left
<1> QED BY <1>2, <1>3, <1>4, <1>5, <1>6, Zenon DEF Onward, Passes, Breaks, Starts, Dies

LEMMA BasisNext ==
  ASSUME Basis, [Next]_vars PROVE Basis'
<1>1. platform' = platform /\ post' = post
  BY GivenStays, Zenon
<1>2. /\ todo' \in Seq(AnyStep) /\ Ordered(todo')
      /\ \A x \in ToSet(todo') : Fits(x)
      /\ Has(ToSet(todo'), {"start"}) => todo' = todo
  BY TodoMoves, StepsNext, Zenon
<1>3. Given' /\ (todo \in Seq(AnyStep))'
  <2>1. Given' <=> Given
    BY <1>1 DEF Given, Posts, Media
  <2> QED BY <1>2, <2>1 DEF Basis, AnyStep, StepNames
<1>4. Ordered(todo)' /\ (\A x \in Left : Fits(x))'
  BY <1>1, <1>2, SameOrder, Zenon
<1>5. Has(Left', {"start"}) => UNCHANGED vars
  <2>1. SUFFICES ASSUME Has(Left', {"start"}) PROVE UNCHANGED vars
    OBVIOUS
  <2>2. todo' = todo
    BY <1>2, <2>1 DEF Left
  <2>3. Has(Left, {"start"})
    BY <2>1, <2>2 DEF Left, Has
  <2>4. ~Has(ToSet(Steps), {"start"}) /\ ~Has(Undone, {"start"}) /\ ~Has(ToSet(<<>>), {"start"})
    <3>1. ~Has(ToSet(Steps), {"start"})
      BY StepsWhole, Zenon DEF Basis, Whole, Named, Has
    <3>2. ~Has(Undone, {"start"}) /\ ~Has(ToSet(<<>>), {"start"})
      BY Unwinds, NoneOrdered DEF Has, Step
    <3> QED BY <3>1, <3>2
  <2>5. todo' # Steps /\ todo' # Unwound /\ todo' # <<>>
    BY <2>1, <2>2, <2>3, <2>4, Zenon DEF Left, Undone
  <2>6. ~Start /\ ~Crash
    BY <2>5, StartThrows, Zenon DEF Crash
  <2> QED BY <2>3, <2>6, Outset, Zenon
<1>6. ShapeInv'
  <2>1. (Has(Left, {"start"}) =>
          /\ Left = {Step("start")} /\ held = <<>> /\ remote = <<>> /\ public = <<>>
          /\ store = {} /\ temps = {} /\ target = "PENDING" /\ hit = {})'
    BY <1>5 DEF Basis, ShapeInv, vars, Left
  <2> QED BY <1>4, <2>1, Zenon DEF ShapeInv
<1> QED BY <1>3, <1>6, Zenon DEF Basis

-----------------------------------------------------------------------------
(* The temporary copies                                                    *)

\* What has happened stays.
LEMMA HitGrows ==
  ASSUME [Next]_vars PROVE hit \subseteq hit'
<1> USE DEF Happens, Throws, Fails, Request
<1>1. CASE Start \/ Pick \/ CheckMedia \/ CheckFields \/ MeasureVideo \/ FindLocation
  BY <1>1 DEF Start, Pick, CheckMedia, CheckFields, MeasureVideo, FindLocation
<1>2. CASE AskCreator \/ EmbedLink \/ OpenUpload \/ UploadUrl \/ Resize \/ ProcessVideo
  BY <1>2 DEF AskCreator, EmbedLink, OpenUpload, UploadUrl, Resize, ProcessVideo
<1>3. CASE Upload \/ Cleanup \/ CreateContainer
  BY <1>3 DEF Upload, Cleanup, CreateContainer, Create
<1>4. CASE CreateCarousel \/ Put \/ GiveUp \/ PollAgain \/ PollEnds
  BY <1>4 DEF CreateCarousel, Create, Put, GiveUp, PollAgain, PollEnds
<1>5. CASE Publish \/ MediaPublish \/ FetchStatus \/ MarkDone \/ Details \/ MarkFailed \/ Crash
  BY <1>5 DEF Publish, MediaPublish, FetchStatus, MarkDone, Details, MarkFailed, Crash
<1>6. CASE Platform
  BY <1>6 DEF Platform, ProcessContainer, RefuseContainer
<1>7. CASE UNCHANGED vars
  BY <1>7 DEF vars
<1> QED BY <1>1, <1>2, <1>3, <1>4, <1>5, <1>6, <1>7, Zenon DEF Next, PublisherStep

LEMMA CopiesMove ==
  ASSUME [Next]_vars
  PROVE \/ Resize \/ ProcessVideo \/ Cleanup
        \/ /\ store' = store /\ temps' = temps
           /\ At("cleanup") => todo' = todo \/ (todo' = <<>> /\ "crash" \in hit')
<1>1. \A name : At(name) /\ At("cleanup") => name = "cleanup"
  BY DEF At
<1> HIDE DEF At
<1>2. CASE Start \/ Pick \/ CheckMedia \/ CheckFields \/ MeasureVideo \/ FindLocation
  BY <1>1, <1>2 DEF Start, Pick, CheckMedia, CheckFields, MeasureVideo, FindLocation, here
<1>3. CASE AskCreator \/ EmbedLink \/ OpenUpload \/ UploadUrl \/ Upload
  BY <1>1, <1>3 DEF AskCreator, EmbedLink, OpenUpload, UploadUrl, Upload, here
<1>4. CASE CreateContainer \/ CreateCarousel \/ Put \/ GiveUp \/ PollAgain \/ PollEnds
  BY <1>1, <1>4 DEF CreateContainer, CreateCarousel, Put, GiveUp, PollAgain, PollEnds, Awaited, here
<1>5. CASE Publish \/ MediaPublish \/ FetchStatus \/ MarkDone \/ Details \/ MarkFailed
  BY <1>1, <1>5 DEF Publish, MediaPublish, FetchStatus, MarkDone, Details, MarkFailed, here
<1>6. CASE Crash
  BY <1>6 DEF Crash, Happens, here
<1>7. CASE Platform
  BY <1>7 DEF Platform, ProcessContainer, RefuseContainer, here
<1>8. CASE UNCHANGED vars
  BY <1>8 DEF vars
<1> QED BY <1>2, <1>3, <1>4, <1>5, <1>6, <1>7, <1>8, Zenon DEF Next, PublisherStep

\* Where a copy may be made, the cleanup is to come.
LEMMA CleanupComes ==
  ASSUME Basis, TempsInv, Onward
  PROVE Has(ToSet(todo'), {"resize", "process"}) => Step("cleanup") \in ToSet(todo')
<1>1. /\ Given /\ todo \in Seq(AnyStep) /\ Ordered(todo)
      /\ Has(Left, {"resize", "process"}) => Step("cleanup") \in Left
  BY DEF Basis, ShapeInv, TempsInv
<1>2. Step("cleanup")[1] = "cleanup"
  BY DEF Step
<1> HIDE DEF Step
<1>3. CASE todo # <<>> /\ todo' = Rest
  <2>1. Left = {Head(todo)} \cup After /\ \A y \in After : Follows(Head(todo), y)
    BY <1>1, <1>3, Ahead, Zenon
  <2>2. Head(todo) = Step("cleanup") => ~Has(After, {"resize", "process"})
    BY <1>2, <2>1 DEF Follows, Has
  <2> QED BY <1>1, <1>3, <2>1, <2>2 DEF After, Has
<1>4. CASE todo' = Unwound
  <2>1. ~Has(Undone, {"resize", "process"})
    BY Unwinds DEF Step, Has
  <2> QED BY <1>4, <2>1 DEF Undone
<1>5. CASE todo' = Steps
  BY <1>1, <1>5, StepsWhole, Zenon DEF Whole, Cleans
<1>6. CASE todo' = <<>>
  BY <1>6, NoneOrdered DEF Has
<1>7. CASE todo' = todo
  BY <1>1, <1>7 DEF Left
<1> QED BY <1>3, <1>4, <1>5, <1>6, <1>7, Zenon DEF Onward, Passes, Breaks, Starts, Dies

LEMMA TempsNext ==
  ASSUME Basis, TempsInv, [Next]_vars PROVE TempsInv'
<1>1. /\ Given /\ todo \in Seq(AnyStep) /\ Ordered(todo)
      /\ Has(Left, {"start"}) => store = {}
      /\ \A x \in Left : Fits(x)
      /\ Has(Left, {"resize", "process"}) => Step("cleanup") \in Left
      /\ Clean => store \subseteq temps
      /\ Clean /\ store # {} => Step("cleanup") \in Left
  BY DEF Basis, ShapeInv, TempsInv
<1>2. hit \subseteq hit' /\ (Clean' => Clean)
  BY HitGrows DEF Clean
<1>3. Step("cleanup")[1] = "cleanup"
  BY DEF Step
<1>4. (Has(Left, {"resize", "process"}) => Step("cleanup") \in Left)'
  BY TodoMoves, CleanupComes, Zenon DEF Left
<1>5. ASSUME todo # <<>>
      PROVE Left = {Head(todo)} \cup After /\ Head(todo) \in Left
  BY <1>1, <1>5, Ahead
<1>6. ASSUME todo # <<>>, Step("cleanup") \in After, todo' = Rest \/ todo' = Unwound
      PROVE Step("cleanup") \in Left'
  BY <1>6, Unwinds DEF After, Undone, Left
<1>7. ASSUME todo # <<>>, Head(todo) # Step("cleanup"), Step("cleanup") \in Left
      PROVE Step("cleanup") \in After
  BY <1>5, <1>7
<1>8. CASE /\ store' = store /\ temps' = temps
           /\ At("cleanup") => todo' = todo \/ (todo' = <<>> /\ "crash" \in hit')
  <2>1. ASSUME Clean', store' # {} PROVE Step("cleanup") \in Left'
    <3>1. Step("cleanup") \in Left
      BY <1>1, <1>2, <1>8, <2>1
    <3>2. CASE todo' = todo
      BY <3>1, <3>2 DEF Left
    <3>3. CASE todo # <<>> /\ (todo' = Rest \/ todo' = Unwound) /\ todo' # todo
      <4>1. Head(todo) # Step("cleanup")
        <5>1. CASE todo' = <<>> /\ "crash" \in hit'
          BY <2>1, <5>1 DEF Clean
        <5>2. CASE ~(todo' = <<>> /\ "crash" \in hit')
          BY <1>3, <1>8, <3>3, <5>2 DEF At
        <5> QED BY <5>1, <5>2
      <4> QED BY <1>6, <1>7, <3>1, <3>3, <4>1, Zenon
    <3>4. CASE At("start") /\ todo' = Steps
      BY <1>1, <1>5, <1>8, <2>1, <3>4 DEF At, Has
    <3>5. CASE todo' = <<>> /\ "crash" \in hit'
      BY <2>1, <3>5 DEF Clean
    <3> QED BY <3>2, <3>3, <3>4, <3>5, TodoMoves, Zenon DEF Onward, Passes, Breaks, Starts, Dies
  <2> QED BY <1>1, <1>2, <1>4, <1>8, <2>1 DEF TempsInv
<1>9. CASE Resize \/ ProcessVideo
  <2>1. todo # <<>> /\ Head(todo)[1] \in {"resize", "process"} /\ (todo' = Rest \/ todo' = Unwound)
    BY <1>9 DEF Resize, ProcessVideo, At, Advance, Fails, Throw
  <2>2. Step("cleanup") \in Left'
    BY <1>1, <1>3, <1>5, <1>6, <1>7, <2>1 DEF Has
  <2>3. Clean' => store' \subseteq temps'
    BY <1>1, <1>2, <1>9 DEF Resize, ProcessVideo, Happens, Fails, Clean, here
  <2> QED BY <1>4, <2>2, <2>3 DEF TempsInv
<1>10. CASE Cleanup
  <2>1. Clean' => store' = {} /\ temps' = temps
    BY <1>1, <1>2, <1>10 DEF Cleanup, Happens, Clean
  <2> QED BY <1>4, <2>1 DEF TempsInv
<1> QED BY <1>8, <1>9, <1>10, CopiesMove, Zenon

-----------------------------------------------------------------------------
(* What changes the other variables, and what becomes of the steps then    *)

\* What changes held.
LEMMA HeldMoves ==
  ASSUME [Next]_vars
  PROVE \/ Pick \/ Resize \/ Upload \/ CreateContainer
        \/ held' = held /\ Quiet({"pick", "resize", "upload", "item"})
<1> USE DEF Quiet, Passes, Breaks, Starts, Dies, At, Advance, Throw, Throws, Fails, Happens, Request
<1>1. CASE Start
  BY <1>1 DEF Start
<1>2. CASE CheckMedia
  BY <1>2 DEF CheckMedia
<1>3. CASE CheckFields
  BY <1>3 DEF CheckFields
<1>4. CASE MeasureVideo
  BY <1>4 DEF MeasureVideo
<1>5. CASE FindLocation
  BY <1>5 DEF FindLocation
<1>6. CASE AskCreator
  BY <1>6 DEF AskCreator
<1>7. CASE EmbedLink
  BY <1>7 DEF EmbedLink
<1>8. CASE OpenUpload
  BY <1>8 DEF OpenUpload
<1>9. CASE UploadUrl
  BY <1>9 DEF UploadUrl
<1>10. CASE ProcessVideo
  BY <1>10 DEF ProcessVideo
<1>11. CASE Cleanup
  BY <1>11 DEF Cleanup
<1>12. CASE CreateCarousel
  BY <1>12 DEF CreateCarousel, Create
<1>13. CASE Put
  BY <1>13 DEF Put
<1>14. CASE GiveUp
  BY <1>14 DEF GiveUp, Awaited
<1>15. CASE PollAgain
  BY <1>15 DEF PollAgain, Awaited
<1>16. CASE PollEnds
  BY <1>16 DEF PollEnds, Awaited
<1>17. CASE Publish
  BY <1>17 DEF Publish
<1>18. CASE MediaPublish
  BY <1>18 DEF MediaPublish
<1>19. CASE FetchStatus
  BY <1>19 DEF FetchStatus
<1>20. CASE MarkDone
  BY <1>20 DEF MarkDone
<1>21. CASE Details
  BY <1>21 DEF Details
<1>22. CASE MarkFailed
  BY <1>22 DEF MarkFailed
<1>23. CASE Crash
  BY <1>23 DEF Crash
<1>24. CASE Platform
  BY <1>24 DEF Platform, ProcessContainer, RefuseContainer
<1>25. CASE UNCHANGED vars
  BY <1>25 DEF vars
<1> QED BY <1>1, <1>2, <1>3, <1>4, <1>5, <1>6, <1>7, <1>8, <1>9, <1>10, <1>11, <1>12, <1>13, <1>14, <1>15, <1>16, <1>17, <1>18, <1>19, <1>20, <1>21, <1>22, <1>23, <1>24, <1>25, Zenon DEF Next, PublisherStep

\* What changes remote.
LEMMA RemoteMoves ==
  ASSUME [Next]_vars
  PROVE \/ CreateContainer \/ CreateCarousel \/ Put \/ MediaPublish \/ Platform
        \/ remote' = remote /\ Quiet({"put", "mediaPublish"} \cup Makers)
<1> USE DEF Quiet, Passes, Breaks, Starts, Dies, At, Advance, Throw, Throws, Fails, Happens, Request
<1>1. CASE Start
  BY <1>1 DEF Start, there, Makers, RootMakers
<1>2. CASE Pick
  BY <1>2 DEF Pick, there, Makers, RootMakers
<1>3. CASE CheckMedia
  BY <1>3 DEF CheckMedia, there, Makers, RootMakers
<1>4. CASE CheckFields
  BY <1>4 DEF CheckFields, there, Makers, RootMakers
<1>5. CASE MeasureVideo
  BY <1>5 DEF MeasureVideo, there, Makers, RootMakers
<1>6. CASE FindLocation
  BY <1>6 DEF FindLocation, there, Makers, RootMakers
<1>7. CASE AskCreator
  BY <1>7 DEF AskCreator, there, Makers, RootMakers
<1>8. CASE EmbedLink
  BY <1>8 DEF EmbedLink, there, Makers, RootMakers
<1>9. CASE OpenUpload
  BY <1>9 DEF OpenUpload, there, Makers, RootMakers
<1>10. CASE UploadUrl
  BY <1>10 DEF UploadUrl, there, Makers, RootMakers
<1>11. CASE Resize
  BY <1>11 DEF Resize, there, Makers, RootMakers
<1>12. CASE ProcessVideo
  BY <1>12 DEF ProcessVideo, there, Makers, RootMakers
<1>13. CASE Upload
  BY <1>13 DEF Upload, there, Makers, RootMakers
<1>14. CASE Cleanup
  BY <1>14 DEF Cleanup, there, Makers, RootMakers
<1>15. CASE GiveUp
  BY <1>15 DEF GiveUp, Awaited, there, Makers, RootMakers
<1>16. CASE PollAgain
  BY <1>16 DEF PollAgain, Awaited, there, Makers, RootMakers
<1>17. CASE PollEnds
  BY <1>17 DEF PollEnds, Awaited, there, Makers, RootMakers
<1>18. CASE Publish
  BY <1>18 DEF Publish, there, Makers, RootMakers
<1>19. CASE FetchStatus
  BY <1>19 DEF FetchStatus, there, Makers, RootMakers
<1>20. CASE MarkDone
  BY <1>20 DEF MarkDone, there, Makers, RootMakers
<1>21. CASE Details
  BY <1>21 DEF Details, there, Makers, RootMakers
<1>22. CASE MarkFailed
  BY <1>22 DEF MarkFailed, there, Makers, RootMakers
<1>23. CASE Crash
  BY <1>23 DEF Crash, there, Makers, RootMakers
<1>24. CASE UNCHANGED vars
  BY <1>24 DEF vars
<1> QED BY <1>1, <1>2, <1>3, <1>4, <1>5, <1>6, <1>7, <1>8, <1>9, <1>10, <1>11, <1>12, <1>13, <1>14, <1>15, <1>16, <1>17, <1>18, <1>19, <1>20, <1>21, <1>22, <1>23, <1>24, Zenon DEF Next, PublisherStep

\* What changes public.
LEMMA PublicMoves ==
  ASSUME [Next]_vars
  PROVE \/ Publish \/ MediaPublish \/ Platform
        \/ public' = public /\ Quiet(Showing)
<1> USE DEF Quiet, Passes, Breaks, Starts, Dies, At, Advance, Throw, Throws, Fails, Happens, Request
<1>1. CASE Start
  BY <1>1 DEF Start, there, Showing
<1>2. CASE Pick
  BY <1>2 DEF Pick, there, Showing
<1>3. CASE CheckMedia
  BY <1>3 DEF CheckMedia, there, Showing
<1>4. CASE CheckFields
  BY <1>4 DEF CheckFields, there, Showing
<1>5. CASE MeasureVideo
  BY <1>5 DEF MeasureVideo, there, Showing
<1>6. CASE FindLocation
  BY <1>6 DEF FindLocation, there, Showing
<1>7. CASE AskCreator
  BY <1>7 DEF AskCreator, there, Showing
<1>8. CASE EmbedLink
  BY <1>8 DEF EmbedLink, there, Showing
<1>9. CASE OpenUpload
  BY <1>9 DEF OpenUpload, there, Showing
<1>10. CASE UploadUrl
  BY <1>10 DEF UploadUrl, there, Showing
<1>11. CASE Resize
  BY <1>11 DEF Resize, there, Showing
<1>12. CASE ProcessVideo
  BY <1>12 DEF ProcessVideo, there, Showing
<1>13. CASE Upload
  BY <1>13 DEF Upload, there, Showing
<1>14. CASE Cleanup
  BY <1>14 DEF Cleanup, there, Showing
<1>15. CASE CreateContainer
  BY <1>15 DEF CreateContainer, Create, there, Showing
<1>16. CASE CreateCarousel
  BY <1>16 DEF CreateCarousel, Create, there, Showing
<1>17. CASE Put
  BY <1>17 DEF Put, there, Showing
<1>18. CASE GiveUp
  BY <1>18 DEF GiveUp, Awaited, there, Showing
<1>19. CASE PollAgain
  BY <1>19 DEF PollAgain, Awaited, there, Showing
<1>20. CASE PollEnds
  BY <1>20 DEF PollEnds, Awaited, there, Showing
<1>21. CASE FetchStatus
  BY <1>21 DEF FetchStatus, there, Showing
<1>22. CASE MarkDone
  BY <1>22 DEF MarkDone, there, Showing
<1>23. CASE Details
  BY <1>23 DEF Details, there, Showing
<1>24. CASE MarkFailed
  BY <1>24 DEF MarkFailed, there, Showing
<1>25. CASE Crash
  BY <1>25 DEF Crash, there, Showing
<1>26. CASE UNCHANGED vars
  BY <1>26 DEF vars
<1> QED BY <1>1, <1>2, <1>3, <1>4, <1>5, <1>6, <1>7, <1>8, <1>9, <1>10, <1>11, <1>12, <1>13, <1>14, <1>15, <1>16, <1>17, <1>18, <1>19, <1>20, <1>21, <1>22, <1>23, <1>24, <1>25, <1>26, Zenon DEF Next, PublisherStep

\* What changes target.
LEMMA TargetMoves ==
  ASSUME [Next]_vars
  PROVE \/ FetchStatus \/ MarkDone \/ MarkFailed
        \/ target' = target /\ Quiet({"status", "done", "failed"})
<1> USE DEF Quiet, Passes, Breaks, Starts, Dies, At, Advance, Throw, Throws, Fails, Happens, Request
<1>1. CASE Start
  BY <1>1 DEF Start
<1>2. CASE Pick
  BY <1>2 DEF Pick
<1>3. CASE CheckMedia
  BY <1>3 DEF CheckMedia
<1>4. CASE CheckFields
  BY <1>4 DEF CheckFields
<1>5. CASE MeasureVideo
  BY <1>5 DEF MeasureVideo
<1>6. CASE FindLocation
  BY <1>6 DEF FindLocation
<1>7. CASE AskCreator
  BY <1>7 DEF AskCreator
<1>8. CASE EmbedLink
  BY <1>8 DEF EmbedLink
<1>9. CASE OpenUpload
  BY <1>9 DEF OpenUpload
<1>10. CASE UploadUrl
  BY <1>10 DEF UploadUrl
<1>11. CASE Resize
  BY <1>11 DEF Resize
<1>12. CASE ProcessVideo
  BY <1>12 DEF ProcessVideo
<1>13. CASE Upload
  BY <1>13 DEF Upload
<1>14. CASE Cleanup
  BY <1>14 DEF Cleanup
<1>15. CASE CreateContainer
  BY <1>15 DEF CreateContainer, Create
<1>16. CASE CreateCarousel
  BY <1>16 DEF CreateCarousel, Create
<1>17. CASE Put
  BY <1>17 DEF Put
<1>18. CASE GiveUp
  BY <1>18 DEF GiveUp, Awaited
<1>19. CASE PollAgain
  BY <1>19 DEF PollAgain, Awaited
<1>20. CASE PollEnds
  BY <1>20 DEF PollEnds, Awaited
<1>21. CASE Publish
  BY <1>21 DEF Publish
<1>22. CASE MediaPublish
  BY <1>22 DEF MediaPublish
<1>23. CASE Details
  BY <1>23 DEF Details
<1>24. CASE Crash
  BY <1>24 DEF Crash
<1>25. CASE Platform
  BY <1>25 DEF Platform, ProcessContainer, RefuseContainer
<1>26. CASE UNCHANGED vars
  BY <1>26 DEF vars
<1> QED BY <1>1, <1>2, <1>3, <1>4, <1>5, <1>6, <1>7, <1>8, <1>9, <1>10, <1>11, <1>12, <1>13, <1>14, <1>15, <1>16, <1>17, <1>18, <1>19, <1>20, <1>21, <1>22, <1>23, <1>24, <1>25, <1>26, Zenon DEF Next, PublisherStep

\* The check of the post.
LEMMA GateMoves ==
  ASSUME [Next]_vars
  PROVE CheckMedia \/ Quiet({"accept"})
<1> USE DEF Quiet, Passes, Breaks, Starts, Dies, At, Advance, Throw, Throws, Fails, Happens, Request
<1>1. CASE Start
  BY <1>1 DEF Start
<1>2. CASE Pick
  BY <1>2 DEF Pick
<1>3. CASE CheckFields
  BY <1>3 DEF CheckFields
<1>4. CASE MeasureVideo
  BY <1>4 DEF MeasureVideo
<1>5. CASE FindLocation
  BY <1>5 DEF FindLocation
<1>6. CASE AskCreator
  BY <1>6 DEF AskCreator
<1>7. CASE EmbedLink
  BY <1>7 DEF EmbedLink
<1>8. CASE OpenUpload
  BY <1>8 DEF OpenUpload
<1>9. CASE UploadUrl
  BY <1>9 DEF UploadUrl
<1>10. CASE Resize
  BY <1>10 DEF Resize
<1>11. CASE ProcessVideo
  BY <1>11 DEF ProcessVideo
<1>12. CASE Upload
  BY <1>12 DEF Upload
<1>13. CASE Cleanup
  BY <1>13 DEF Cleanup
<1>14. CASE CreateContainer
  BY <1>14 DEF CreateContainer, Create
<1>15. CASE CreateCarousel
  BY <1>15 DEF CreateCarousel, Create
<1>16. CASE Put
  BY <1>16 DEF Put
<1>17. CASE GiveUp
  BY <1>17 DEF GiveUp, Awaited
<1>18. CASE PollAgain
  BY <1>18 DEF PollAgain, Awaited
<1>19. CASE PollEnds
  BY <1>19 DEF PollEnds, Awaited
<1>20. CASE Publish
  BY <1>20 DEF Publish
<1>21. CASE MediaPublish
  BY <1>21 DEF MediaPublish
<1>22. CASE FetchStatus
  BY <1>22 DEF FetchStatus
<1>23. CASE MarkDone
  BY <1>23 DEF MarkDone
<1>24. CASE Details
  BY <1>24 DEF Details
<1>25. CASE MarkFailed
  BY <1>25 DEF MarkFailed
<1>26. CASE Crash
  BY <1>26 DEF Crash
<1>27. CASE Platform
  BY <1>27 DEF Platform, ProcessContainer, RefuseContainer
<1>28. CASE UNCHANGED vars
  BY <1>28 DEF vars
<1> QED BY <1>1, <1>2, <1>3, <1>4, <1>5, <1>6, <1>7, <1>8, <1>9, <1>10, <1>11, <1>12, <1>13, <1>14, <1>15, <1>16, <1>17, <1>18, <1>19, <1>20, <1>21, <1>22, <1>23, <1>24, <1>25, <1>26, <1>27, <1>28, Zenon DEF Next, PublisherStep

\* The waits for a container.
LEMMA WaitMoves ==
  ASSUME [Next]_vars
  PROVE PollEnds \/ Quiet({"wait", "waitItems"})
<1> USE DEF Quiet, Passes, Breaks, Starts, Dies, At, Advance, Throw, Throws, Fails, Happens, Request
<1>1. CASE Start
  BY <1>1 DEF Start
<1>2. CASE Pick
  BY <1>2 DEF Pick
<1>3. CASE CheckMedia
  BY <1>3 DEF CheckMedia
<1>4. CASE CheckFields
  BY <1>4 DEF CheckFields
<1>5. CASE MeasureVideo
  BY <1>5 DEF MeasureVideo
<1>6. CASE FindLocation
  BY <1>6 DEF FindLocation
<1>7. CASE AskCreator
  BY <1>7 DEF AskCreator
<1>8. CASE EmbedLink
  BY <1>8 DEF EmbedLink
<1>9. CASE OpenUpload
  BY <1>9 DEF OpenUpload
<1>10. CASE UploadUrl
  BY <1>10 DEF UploadUrl
<1>11. CASE Resize
  BY <1>11 DEF Resize
<1>12. CASE ProcessVideo
  BY <1>12 DEF ProcessVideo
<1>13. CASE Upload
  BY <1>13 DEF Upload
<1>14. CASE Cleanup
  BY <1>14 DEF Cleanup
<1>15. CASE CreateContainer
  BY <1>15 DEF CreateContainer, Create
<1>16. CASE CreateCarousel
  BY <1>16 DEF CreateCarousel, Create
<1>17. CASE Put
  BY <1>17 DEF Put
<1>18. CASE GiveUp
  BY <1>18 DEF GiveUp, Awaited
<1>19. CASE PollAgain
  BY <1>19 DEF PollAgain, Awaited
<1>20. CASE Publish
  BY <1>20 DEF Publish
<1>21. CASE MediaPublish
  BY <1>21 DEF MediaPublish
<1>22. CASE FetchStatus
  BY <1>22 DEF FetchStatus
<1>23. CASE MarkDone
  BY <1>23 DEF MarkDone
<1>24. CASE Details
  BY <1>24 DEF Details
<1>25. CASE MarkFailed
  BY <1>25 DEF MarkFailed
<1>26. CASE Crash
  BY <1>26 DEF Crash
<1>27. CASE Platform
  BY <1>27 DEF Platform, ProcessContainer, RefuseContainer
<1>28. CASE UNCHANGED vars
  BY <1>28 DEF vars
<1> QED BY <1>1, <1>2, <1>3, <1>4, <1>5, <1>6, <1>7, <1>8, <1>9, <1>10, <1>11, <1>12, <1>13, <1>14, <1>15, <1>16, <1>17, <1>18, <1>19, <1>20, <1>21, <1>22, <1>23, <1>24, <1>25, <1>26, <1>27, <1>28, Zenon DEF Next, PublisherStep

-----------------------------------------------------------------------------
(* The ids collected are those of the media so far                         *)

\* The ids so far, for a publisher that takes its media in turn.
InTurnSoFar ==
    /\ Covered(Left, Collectors, HeldUsers, Len(held) + 1, n)
    /\ Len(held) <= n
    /\ \A i \in 1..Len(held) : held[i] = i

LEMMA LeftOfUnwound ==
  ASSUME Breaks \/ Dies
  PROVE \A x \in Left' : x = Step("failed") \/ (x = Step("cleanup") /\ Breaks /\ Step("cleanup") \in After)
BY Unwinds, NoneOrdered DEF Breaks, Dies, Left, Undone

\* A step that is not a collector leaves the media still to be collected.
LEMMA CoveredPasses ==
  ASSUME NEW C, NEW U, NEW lo, NEW hi, Covered(Left, C, U, lo, hi),
         todo # <<>>, Left = {Head(todo)} \cup After, Head(todo)[1] \notin C
  PROVE Covered(After, C, U, lo, hi)
BY DEF Covered, Has

\* A collector takes the number that is due.
LEMMA CoveredTakes ==
  ASSUME NEW C, NEW U, NEW lo \in Int, NEW hi \in Int, Covered(Left, C, U, lo, hi),
         todo # <<>>, Left = {Head(todo)} \cup After, Head(todo)[1] \in C,
         \A y \in After : y[1] \in C => Head(todo)[2] < y[2]
  PROVE Head(todo)[2] = lo /\ lo <= hi /\ Covered(After, C, U, lo + 1, hi)
<1> DEFINE h == Head(todo)
<1>1. h \in Left /\ h[2] \in lo..hi
  BY DEF Covered
<1>2. \A i \in lo..hi : \E x \in Left : x[1] \in C /\ x[2] = i
  BY <1>1 DEF Covered, Has
<1> HIDE DEF h
<1>3. h[2] = lo
  <2>1. lo \in lo..hi
    BY <1>1
  <2>2. PICK x \in Left : x[1] \in C /\ x[2] = lo
    BY <1>2, <2>1
  <2>3. x = h \/ h[2] < lo
    BY <2>2 DEF h
  <2> QED BY <1>1, <2>2, <2>3
<1>4. \A x \in After : x[1] \in C => x[2] \in lo + 1..hi
  BY <1>3 DEF Covered, h
<1>5. ASSUME NEW i \in lo + 1..hi PROVE \E x \in After : x[1] \in C /\ x[2] = i
  <2>1. PICK x \in Left : x[1] \in C /\ x[2] = i
    BY <1>2
  <2>2. x # h
    BY <1>3, <2>1
  <2> QED BY <2>1, <2>2 DEF h
<1> QED BY <1>1, <1>3, <1>4, <1>5 DEF Covered, h

LEMMA NothingCovered ==
  ASSUME NEW C, NEW U, NEW lo, NEW hi, NEW L, \A x \in L : x[1] \notin C /\ x[1] \notin U
  PROVE Covered(L, C, U, lo, hi)
BY DEF Covered, Has

LEMMA SameAccepts ==
  ASSUME platform' = platform, post' = post, platform \notin Picked, Given
  PROVE Accepts' = Accepts
BY DEF Accepts, Picked, Given, AllPlatforms, BlueskyAccepts, FacebookAccepts, InstagramAccepts, LinkedinAccepts,
       ThreadsAccepts, TikTokAccepts, XAccepts, Few, OneKind, LoneVideo, hasVideo, hasImage, n

LEMMA SameNumbers ==
  ASSUME platform' = platform, post' = post
  PROVE /\ n' = n /\ Requested' = Requested /\ hasVideo' = hasVideo /\ Assets' = Assets
        /\ Wanted' = Wanted /\ Collectors' = Collectors /\ HeldUsers' = HeldUsers
<1>1. n' = n /\ Requested' = Requested /\ hasVideo' = hasVideo
  BY DEF n, Requested, hasVideo
<1> QED BY <1>1 DEF Assets, Wanted, Collectors, HeldUsers

LEMMA HeldKept ==
  ASSUME Basis, InTurnSoFar, platform' = platform, post' = post, held' = held, Quiet(Collectors),
         platform \notin Picked, Accepts
  PROVE InTurnSoFar'
<1>1. Given /\ todo \in Seq(AnyStep) /\ Ordered(todo) /\ (Has(Left, {"start"}) => held = <<>>)
  BY DEF Basis, ShapeInv
<1>2. /\ n' = n /\ Collectors' = Collectors /\ HeldUsers' = HeldUsers
  BY SameNumbers
<1>3. Covered(Left', Collectors, HeldUsers, Len(held) + 1, n)
  <2>1. CASE Passes /\ Head(todo)[1] \notin Collectors
    <3>1. Left = {Head(todo)} \cup After /\ Left' = After /\ todo # <<>>
      BY <1>1, <2>1, Ahead DEF Passes, After, Left
    <3> QED BY <2>1, <3>1, CoveredPasses, Zenon DEF InTurnSoFar
  <2>2. CASE Breaks \/ Dies
    <3>1. \A x \in Left' : x[1] \notin Collectors /\ x[1] \notin HeldUsers
      BY <2>2, LeftOfUnwound DEF Step, Collectors, HeldUsers
    <3> QED BY <3>1, NothingCovered
  <2>3. CASE Starts
    <3>1. held = <<>> /\ Len(held) + 1 = 1
      BY <1>1, <2>3, Ahead DEF Starts, At, Has
    <3>2. Collects(ToSet(Steps))
      BY <1>1, StepsWhole, Zenon DEF Whole
    <3>3. Left' = ToSet(Steps)
      BY <2>3 DEF Starts, Left
    <3> QED BY <3>1, <3>2, <3>3 DEF Collects
  <2>4. CASE todo' = todo
    BY <2>4 DEF InTurnSoFar, Left
  <2> QED BY <2>1, <2>2, <2>3, <2>4 DEF Quiet
<1> QED BY <1>2, <1>3 DEF InTurnSoFar

LEMMA HeldGrows ==
  ASSUME Basis, InTurnSoFar, platform' = platform, post' = post, held \in Seq(Nat),
         held' = Append(held, Asset), Passes \/ Breaks, Head(todo)[1] \in Collectors
  PROVE InTurnSoFar'
<1>1. Given /\ todo \in Seq(AnyStep) /\ Ordered(todo) /\ todo # <<>>
  BY DEF Basis, ShapeInv, Passes, Breaks
<1>2. /\ n' = n /\ Collectors' = Collectors /\ HeldUsers' = HeldUsers
  BY SameNumbers
<1>3. Left = {Head(todo)} \cup After /\ \A y \in After : Follows(Head(todo), y)
  BY <1>1, Ahead, Zenon
<1>4. \A y \in After : y[1] \in Collectors => Head(todo)[2] < y[2]
  BY <1>3 DEF Follows
<1>5. Len(held) + 1 \in Int /\ n \in Int /\ Len(held) \in Nat
  BY <1>1, PostFacts
<1>6. /\ Head(todo)[2] = Len(held) + 1 /\ Len(held) + 1 <= n
      /\ Covered(After, Collectors, HeldUsers, Len(held) + 1 + 1, n)
  BY <1>1, <1>3, <1>4, <1>5, CoveredTakes, Zenon DEF InTurnSoFar
<1>7. Len(held') = Len(held) + 1 /\ held'[Len(held) + 1] = Len(held) + 1
      /\ \A i \in 1..Len(held) : held'[i] = held[i]
  <2> DEFINE a == Len(held) + 1
  <2>1. a \in Nat /\ held' = Append(held, a)
    BY <1>5, <1>6 DEF Asset
  <2> QED BY <2>1, AppendProperties
<1>8. \A i \in 1..Len(held') : held'[i] = i
  <2>1. TAKE i \in 1..Len(held')
  <2>2. CASE i = Len(held) + 1
    BY <1>7, <2>2
  <2>3. CASE i # Len(held) + 1
    <3>1. i \in 1..Len(held)
      BY <1>5, <1>7, <2>3
    <3> QED BY <1>7, <3>1 DEF InTurnSoFar
  <2> QED BY <2>2, <2>3
<1>9. Covered(Left', Collectors, HeldUsers, Len(held') + 1, n)
  <2>1. CASE Passes
    BY <1>6, <1>7, <2>1 DEF Passes, After, Left
  <2>2. CASE Breaks
    <3>1. \A x \in Left' : x[1] \notin Collectors /\ x[1] \notin HeldUsers
      BY <2>2, LeftOfUnwound DEF Step, Collectors, HeldUsers
    <3> QED BY <3>1, NothingCovered
  <2> QED BY <2>1, <2>2
<1> QED BY <1>2, <1>6, <1>7, <1>8, <1>9 DEF InTurnSoFar

LEMMA HeldInTurn ==
  ASSUME Basis, TypeOK, InTurnSoFar, [Next]_vars, platform \notin Picked, Accepts
  PROVE InTurnSoFar'
<1>1. platform' = platform /\ post' = post
  BY GivenStays, Zenon
<1>2. held \in Seq(Nat)
  BY PublishersAssumption DEF TypeOK, PublishersAssumption
<1>3. /\ Given /\ todo \in Seq(AnyStep) /\ Ordered(todo) /\ \A x \in Left : Fits(x)
  BY DEF Basis, ShapeInv
<1>4. \A name : At(name) => todo # <<>> /\ Head(todo) \in Left /\ Head(todo)[1] = name /\ Fits(Head(todo))
  BY <1>3, Ahead DEF At
<1>5. CASE held' = held /\ Quiet({"pick", "resize", "upload", "item"})
  <2>1. Quiet(Collectors)
    BY <1>5 DEF Quiet, Collectors
  <2> QED BY <1>1, <1>5, <2>1, HeldKept, Zenon
<1>6. CASE Pick
  BY <1>4, <1>6 DEF Pick, Fits
<1>7. CASE Resize
  <2>1. At("resize") /\ (Passes \/ Breaks)
    BY <1>4, <1>7 DEF Resize, Advance, Throw, Fails, Passes, Breaks
  <2>2. CASE platform = "tiktok"
    <3>1. held' = Append(held, Asset) /\ Head(todo)[1] \in Collectors
      BY <1>4, <1>7, <2>1, <2>2 DEF Resize, Collect, Collectors
    <3> QED BY <1>1, <1>2, <2>1, <3>1, HeldGrows, Zenon
  <2>3. CASE platform # "tiktok"
    <3>1. held' = held /\ Head(todo)[1] \notin Collectors
      BY <1>4, <1>7, <2>1, <2>3 DEF Resize, Collectors
    <3>2. Quiet(Collectors)
      BY <2>1, <3>1 DEF Quiet
    <3> QED BY <1>1, <3>1, <3>2, HeldKept, Zenon
  <2> QED BY <2>2, <2>3
<1>8. CASE Upload
  <2>1. At("upload")
    BY <1>4, <1>8 DEF Upload, Fits
  <2>2. Head(todo)[1] \in Collectors
    BY <1>4, <2>1 DEF Fits, Collectors
  <2>3. \/ (Passes \/ Breaks) /\ held' = Append(held, Asset)
        \/ Breaks /\ held' = held
    BY <1>4, <1>8, <2>1 DEF Upload, At, Request, Advance, Throw, Fails, Collect, Passes, Breaks
  <2>4. CASE (Passes \/ Breaks) /\ held' = Append(held, Asset)
    BY <1>1, <1>2, <2>2, <2>4, HeldGrows, Zenon
  <2>5. CASE Breaks /\ held' = held
    BY <1>1, <2>5, HeldKept, Zenon DEF Quiet
  <2> QED BY <2>3, <2>4, <2>5
<1>9. CASE CreateContainer
  <2>1. Passes \/ Breaks
    BY <1>4, <1>9 DEF CreateContainer, Create, Request, Advance, Throw, Fails, Passes, Breaks
  <2>2. CASE At("item") /\ held' = Append(held, Asset)
    <3>1. Head(todo)[1] \in Collectors
      BY <1>4, <2>2 DEF Fits, Collectors
    <3> QED BY <1>1, <1>2, <2>1, <2>2, <3>1, HeldGrows, Zenon
  <2>3. CASE (At("container") \/ At("reply") \/ At("init")) /\ held' = held
    <3>1. Head(todo)[1] \notin Collectors
      BY <1>4, <2>3 DEF Collectors
    <3>2. Quiet(Collectors)
      BY <2>1, <3>1 DEF Quiet
    <3> QED BY <1>1, <2>3, <3>2, HeldKept, Zenon
  <2> QED BY <1>9, <2>2, <2>3 DEF CreateContainer, Collect
<1> QED BY <1>5, <1>6, <1>7, <1>8, <1>9, HeldMoves, Zenon

LEMMA PickedOne ==
  ASSUME Basis, TypeOK, HeldInv, [Next]_vars, platform \in Picked
  PROVE (held' = <<>> \/ held' \in Wanted) /\ (Has(Left', {"pick"}) => held' = <<>>)
<1>1. /\ Given /\ todo \in Seq(AnyStep) /\ Ordered(todo) /\ \A x \in Left : Fits(x)
      /\ Has(Left, {"start"}) => held = <<>>
      /\ held = <<>> \/ held \in Wanted
      /\ Has(Left, {"pick"}) => held = <<>>
  BY DEF Basis, ShapeInv, HeldInv
<1>2. \A name : At(name) => todo # <<>> /\ Head(todo) \in Left /\ Head(todo)[1] = name /\ Fits(Head(todo))
  BY <1>1, Ahead DEF At
<1>3. ASSUME Passes \/ Breaks PROVE ~Has(Left', {"pick"})
  <2>1. CASE Passes
    <3>1. \A y \in After : Follows(Head(todo), y)
      BY <1>1, <2>1, Ahead DEF Passes
    <3> QED BY <2>1, <3>1 DEF Passes, After, Left, Has, Follows
  <2>2. CASE Breaks
    BY <2>2, LeftOfUnwound DEF Step, Has
  <2> QED BY <1>3, <2>1, <2>2
<1>4. CASE held' = held /\ Quiet({"pick", "resize", "upload", "item"})
  <2>1. CASE Passes \/ Breaks
    BY <1>1, <1>3, <1>4, <2>1
  <2>2. CASE Starts
    BY <1>1, <1>2, <1>4, <2>2 DEF Starts, Has
  <2>3. CASE Dies
    BY <1>1, <1>4, <2>3, LeftOfUnwound DEF Step, Has
  <2>4. CASE todo' = todo
    BY <1>1, <1>4, <2>4 DEF Left
  <2> QED BY <1>4, <2>1, <2>2, <2>3, <2>4 DEF Quiet
<1>5. CASE Pick
  <2>1. Passes \/ Breaks
    BY <1>2, <1>5 DEF Pick, Throws, Advance, Throw, Fails, Passes, Breaks
  <2>2. held' = <<>> \/ held' \in Wanted \/ held' = held
    BY <1>5 DEF Pick, Wanted, Picked
  <2> QED BY <1>1, <1>3, <2>1, <2>2
<1>6. CASE Resize \/ CreateContainer
  BY <1>2, <1>6 DEF Resize, CreateContainer, Fits, Picked
<1>7. CASE Upload
  <2>1. held' = held /\ (Passes \/ Breaks)
    BY <1>2, <1>7 DEF Upload, Fits, Request, Throws, Advance, Throw, Fails, Passes, Breaks
  <2> QED BY <1>1, <1>3, <2>1
<1> QED BY <1>4, <1>5, <1>6, <1>7, HeldMoves, Zenon

LEMMA HeldNext ==
  ASSUME Basis, TypeOK, HeldInv, [Next]_vars PROVE HeldInv'
<1>1. platform' = platform /\ post' = post /\ Wanted' = Wanted
  BY GivenStays, SameNumbers
<1>2. CASE platform \in Picked
  BY <1>1, <1>2, PickedOne DEF HeldInv, Picked
<1>3. CASE platform \notin Picked
  <2>1. Accepts' = Accepts
    BY <1>1, <1>3, SameAccepts DEF Basis
  <2>2. Accepts => InTurnSoFar'
    BY <1>3, HeldInTurn DEF HeldInv, InTurnSoFar
  <2> QED BY <1>1, <1>3, <2>1, <2>2 DEF HeldInv, InTurnSoFar, Picked
<1> QED BY <1>2, <1>3
-----------------------------------------------------------------------------
(* Past the check, the post is one that the publisher takes                *)

LEMMA AcceptsStays ==
  ASSUME Basis, [Next]_vars, ~Pick PROVE Accepts' = Accepts
<1>1. platform' = platform /\ post' = post
  BY GivenStays
<1>2. /\ Given /\ todo \in Seq(AnyStep) /\ Ordered(todo) /\ \A x \in Left : Fits(x)
  BY DEF Basis, ShapeInv
<1>3. \A name : At(name) => todo # <<>> /\ Head(todo) \in Left /\ Head(todo)[1] = name /\ Fits(Head(todo))
  BY <1>2, Ahead DEF At
<1>4. CASE platform \in Picked
  <2>1. CASE held' = held
    BY <1>1, <1>4, <2>1 DEF Accepts, Picked, PinterestAccepts, YouTubeAccepts, n, ToSet
  <2>2. CASE Resize \/ CreateContainer
    BY <1>3, <1>4, <2>2 DEF Resize, CreateContainer, Fits, Picked
  <2>3. CASE Upload
    <3>1. held' = held
      BY <1>3, <1>4, <2>3 DEF Upload, Fits
    <3> QED BY <2>1, <3>1
  <2> QED BY <2>1, <2>2, <2>3, HeldMoves
<1>5. CASE platform \notin Picked
  BY <1>1, <1>2, <1>5, SameAccepts
<1> QED BY <1>4, <1>5

LEMMA GateNext ==
  ASSUME Basis, HeldInv, GateInv, [Next]_vars PROVE GateInv'
<1>1. /\ Given /\ todo \in Seq(AnyStep) /\ Ordered(todo) /\ \A x \in Left : Fits(x)
      /\ Has(Left, StepNames \ Ungated) => Accepts \/ Has(Left, {"accept"})
  BY DEF Basis, ShapeInv, GateInv
<1>2. ASSUME todo # <<>>
      PROVE Left = {Head(todo)} \cup After
  BY <1>1, <1>2, Ahead
<1>3. CASE CheckMedia
  <2>1. Breaks \/ Accepts'
    <3>1. ~Pick
      BY <1>3 DEF CheckMedia, Pick, At
    <3>2. Accepts' = Accepts
      BY <3>1, AcceptsStays
    <3> QED BY <1>3, <3>2 DEF CheckMedia, At, Throws, Throw, Breaks
  <2>2. Breaks => ~Has(Left', StepNames \ Ungated)
    BY LeftOfUnwound DEF Step, Has, Ungated
  <2> QED BY <2>1, <2>2 DEF GateInv
<1>4. CASE Passes /\ Head(todo)[1] # "accept"
  <2>1. Left' = After /\ todo # <<>>
    BY <1>4 DEF Passes, After, Left
  <2>2. Has(After, StepNames \ Ungated) => Has(Left, StepNames \ Ungated)
    BY <1>2, <2>1 DEF Has
  <2>3. Has(Left, {"accept"}) => Has(After, {"accept"})
    BY <1>2, <1>4, <2>1 DEF Has
  <2>4. Accepts => Accepts'
    <3>1. CASE Pick
      <4>1. Head(todo) \in Left /\ Head(todo)[1] = "pick"
        BY <1>2, <3>1 DEF Pick, At
      <4>2. platform \in Picked /\ held = <<>>
        BY <1>1, <4>1 DEF HeldInv, Has, Fits
      <4>3. ToSet(<<>>) = {}
        BY NoneOrdered
      <4>4. ~Accepts
        <5>1. CASE platform = "pinterest"
          BY <4>2, <5>1 DEF Accepts, PinterestAccepts
        <5>2. CASE platform = "youtube"
          BY <4>2, <4>3, <5>2 DEF Accepts, YouTubeAccepts
        <5> QED BY <4>2, <5>1, <5>2 DEF Picked
      <4> QED BY <4>4
    <3>2. CASE ~Pick
      <4>1. Accepts' = Accepts
        BY <3>2, AcceptsStays
      <4> QED BY <4>1, Zenon
    <3> QED BY <3>1, <3>2
  <2> QED BY <1>1, <2>1, <2>2, <2>3, <2>4 DEF GateInv
<1>5. CASE Breaks \/ Dies
  BY <1>5, LeftOfUnwound DEF GateInv, Step, Has, Ungated
<1>6. CASE Starts
  <2>1. Has(ToSet(Steps), {"accept"}) /\ Left' = ToSet(Steps)
    BY <1>1, <1>6, StepsWhole, Zenon DEF Whole, Named, Starts, Left
  <2> QED BY <2>1 DEF GateInv
<1>7. CASE todo' = todo
  <2>1. CASE Pick
    <3>1. todo # <<>> /\ (Passes \/ Breaks)
      BY <2>1 DEF Pick, At, Throws, Advance, Throw, Fails, Passes, Breaks
    <3>2. CASE Passes
      BY <1>4, <2>1, <3>2 DEF Pick, At
    <3> QED BY <1>5, <3>1, <3>2
  <2>2. CASE ~Pick
    BY <1>1, <1>7, <2>2, AcceptsStays DEF GateInv, Left
  <2> QED BY <2>1, <2>2
<1> QED BY <1>3, <1>4, <1>5, <1>6, <1>7, GateMoves DEF Quiet

-----------------------------------------------------------------------------
(* The containers                                                          *)

Statuses == {"AWAITING", "IN_PROGRESS", "FINISHED", "ERROR", "PUBLISHED"}
Containers ==
    [role : {"item", "root", "reply"}, media : Seq(1..MaxAssets), status : Statuses,
     copies : SUBSET (1..MaxAssets)]

\* The containers are the same but for the status of one.
Turns(c, status) ==
    /\ DOMAIN remote' = DOMAIN remote /\ Len(remote') = Len(remote) /\ remote' \in Seq(Containers)
    /\ \A k \in DOMAIN remote : /\ remote'[k].role = remote[k].role
                                /\ remote'[k].media = remote[k].media
                                /\ remote'[k].copies = remote[k].copies
                                /\ remote'[k].status = IF k = c THEN status ELSE remote[k].status

LEMMA StatusSet ==
  ASSUME remote \in Seq(Containers), NEW c, NEW status \in Statuses,
         remote' = [remote EXCEPT ![c].status = status]
  PROVE Turns(c, status)
<1> DEFINE f == [remote[c] EXCEPT !.status = status]
<1>1. remote' = [remote EXCEPT ![c] = f]
  OBVIOUS
<1>2. c \in DOMAIN remote =>
        /\ f \in Containers /\ f.role = remote[c].role /\ f.media = remote[c].media
        /\ f.copies = remote[c].copies /\ f.status = status
  <2>1. \A r \in Containers :
          /\ [r EXCEPT !.status = status] \in Containers
          /\ [r EXCEPT !.status = status].role = r.role
          /\ [r EXCEPT !.status = status].media = r.media
          /\ [r EXCEPT !.status = status].copies = r.copies
          /\ [r EXCEPT !.status = status].status = status
    BY DEF Containers
  <2>2. c \in DOMAIN remote => remote[c] \in Containers
    BY ElementOfSeq, LenProperties
  <2> QED BY <2>1, <2>2, Zenon
<1> HIDE DEF f
<1>3. DOMAIN remote' = DOMAIN remote /\ \A k \in DOMAIN remote : remote'[k] = IF k = c THEN f ELSE remote[k]
  BY <1>1
<1>4. remote' \in Seq(Containers) /\ Len(remote') = Len(remote)
  <2>1. CASE c \in DOMAIN remote
    BY <1>1, <1>2, <2>1, ExceptSeq
  <2>2. CASE c \notin DOMAIN remote
    <3>1. remote' = remote
      BY <1>1, <2>2
    <3> QED BY <3>1
  <2> QED BY <2>1, <2>2
<1> QED BY <1>2, <1>3, <1>4 DEF Turns

Adds(r) ==
    /\ Len(remote') = Len(remote) + 1 /\ remote' \in Seq(Containers)
    /\ DOMAIN remote' = 1..Len(remote) + 1
    /\ \A k \in 1..Len(remote) : remote'[k] = remote[k]
    /\ remote'[Len(remote) + 1] = r

LEMMA Added ==
  ASSUME remote \in Seq(Containers), NEW r \in Containers, remote' = Append(remote, r)
  PROVE Adds(r)
BY AppendProperties, LenProperties DEF Adds

LEMMA NewTyped ==
  ASSUME NEW role \in {"item", "root", "reply"}, NEW media \in Seq(1..MaxAssets),
         NEW status \in Statuses, temps \subseteq 1..MaxAssets
  PROVE /\ NewContainer(role, media, status) \in Containers
        /\ NewContainer(role, media, status).role = role
        /\ NewContainer(role, media, status).media = media
        /\ NewContainer(role, media, status).status = status
        /\ NewContainer(role, media, status).copies = temps \cap ToSet(media)
BY DEF NewContainer, Containers

-----------------------------------------------------------------------------
(* What is published is the container that was made and waited for         *)

MadeForIt(L) ==
    \A x \in L : x[1] = "mediaPublish" /\ ~HasNumbered(L, RootMakers, x[2]) =>
       /\ ReadyFor(x[2]) /\ ~Has(L, {"item"})
       /\ \A y \in L : /\ y[1] \in RootMakers => y[2] > x[2]
                       /\ y[1] = "mediaPublish" => y[2] >= x[2]
WaitedIsFinished(L) ==
    \A x \in L : x[1] = "mediaPublish" /\ ~HasNumbered(L, {"wait"}, x[2]) =>
       ~HasNumbered(L, RootMakers, x[2]) /\ Finished(Newest)
WaitedForOne(L) == \A x \in L : x[1] = "wait" => HasNumbered(L, {"mediaPublish"}, x[2])

LEMMA ReadyParts == ReadyInv <=> MadeForIt(Left) /\ WaitedIsFinished(Left) /\ WaitedForOne(Left)
BY Zenon DEF ReadyInv, MadeForIt, WaitedIsFinished, WaitedForOne

LEMMA ReadyPartsNext ==
  ASSUME MadeForIt(Left)', WaitedIsFinished(Left)', WaitedForOne(Left)' PROVE ReadyInv'
BY Zenon DEF ReadyInv, MadeForIt, WaitedIsFinished, WaitedForOne

LEMMA NothingReady ==
  ASSUME Breaks \/ Dies PROVE ReadyInv'
<1>1. \A x \in Left' : x[1] \notin {"mediaPublish", "wait"}
  BY LeftOfUnwound DEF Step
<1> QED BY <1>1 DEF ReadyInv

\* The steps passed, and what is known of the first.
LEMMA StepTaken ==
  ASSUME Basis, Passes
  PROVE /\ Left = {Head(todo)} \cup After /\ Left' = After
        /\ Fits(Head(todo)) /\ Head(todo) \in AnyStep
        /\ \A y \in After : Follows(Head(todo), y) /\ Fits(y) /\ y \in AnyStep
<1>1. /\ Given /\ todo \in Seq(AnyStep) /\ Ordered(todo) /\ \A x \in Left : Fits(x)
  BY DEF Basis, ShapeInv
<1>2. /\ Head(todo) \in AnyStep /\ Left = {Head(todo)} \cup After
      /\ \A y \in After : Follows(Head(todo), y) /\ y \in AnyStep
  BY <1>1, Ahead, Zenon DEF Passes
<1> QED BY <1>1, <1>2 DEF Passes, After, Left

LEMMA ReadyKept ==
  ASSUME Basis, ReadyInv, platform' = platform, post' = post, remote' = remote,
         Quiet({"mediaPublish", "wait"} \cup RootMakers)
  PROVE ReadyInv'
<1>1. MadeForIt(Left) /\ WaitedIsFinished(Left) /\ WaitedForOne(Left)
  BY ReadyParts
<1>2. Assets' = Assets /\ Newest' = Newest
  BY SameNumbers DEF Newest
<1>3. CASE Passes /\ Head(todo)[1] \notin {"mediaPublish", "wait"} \cup RootMakers
  <2>1. Left = {Head(todo)} \cup After /\ Left' = After
    BY <1>3, StepTaken
  <2>2. \A i : (HasNumbered(After, RootMakers, i) <=> HasNumbered(Left, RootMakers, i))
    BY <1>3, <2>1 DEF HasNumbered
  <2>3. \A i : (HasNumbered(After, {"wait"}, i) <=> HasNumbered(Left, {"wait"}, i))
    BY <1>3, <2>1 DEF HasNumbered
  <2>4. \A i : (HasNumbered(After, {"mediaPublish"}, i) <=> HasNumbered(Left, {"mediaPublish"}, i))
    BY <1>3, <2>1 DEF HasNumbered
  <2>5. MadeForIt(After) /\ WaitedIsFinished(After) /\ WaitedForOne(After)
    BY <1>1, <2>1, <2>2, <2>3, <2>4 DEF MadeForIt, WaitedIsFinished, WaitedForOne, Has
  <2> QED BY <1>2, <2>1, <2>5, ReadyPartsNext DEF MadeForIt, WaitedIsFinished, WaitedForOne, ReadyFor, Finished
<1>4. CASE Breaks \/ Dies
  BY <1>4, NothingReady
<1>5. CASE Starts
  <2>1. Waits(ToSet(Steps)) /\ Left' = ToSet(Steps)
    BY <1>5, StepsWhole, Zenon DEF Whole, Starts, Left, Basis
  <2> QED BY <2>1 DEF Waits, ReadyInv
<1>6. CASE todo' = todo
  BY <1>1, <1>2, <1>6, ReadyPartsNext DEF Left, MadeForIt, WaitedIsFinished, WaitedForOne, ReadyFor, Finished
<1> QED BY <1>3, <1>4, <1>5, <1>6 DEF Quiet

\* The wait is over when the newest container is finished.
LEMMA ReadyWaited ==
  ASSUME Basis, ReadyInv, PollEnds, platform' = platform, post' = post PROVE ReadyInv'
<1>1. MadeForIt(Left) /\ WaitedIsFinished(Left) /\ WaitedForOne(Left)
  BY ReadyParts
<1>2. Assets' = Assets /\ Newest' = Newest /\ remote' = remote
  BY SameNumbers DEF Newest, PollEnds, there
<1>3. \/ Breaks
      \/ Passes /\ Head(todo)[1] = "waitItems"
      \/ Passes /\ Head(todo)[1] = "wait" /\ Finished(Newest)
  BY DEF PollEnds, Awaited, At, Throws, Fails, Advance, Throw, Passes, Breaks
<1>4. CASE Breaks
  BY <1>4, NothingReady
<1>5. CASE Passes /\ Head(todo)[1] = "waitItems"
  BY <1>2, <1>5, ReadyKept DEF Quiet, RootMakers
<1>6. CASE Passes /\ Head(todo)[1] = "wait" /\ Finished(Newest)
  <2> DEFINE h == Head(todo)
  <2>1. Left = {h} \cup After /\ Left' = After /\ h \in AnyStep
        /\ \A y \in After : Follows(h, y) /\ y \in AnyStep
    BY <1>6, StepTaken
  <2>2. h[1] = "wait" /\ h[2] \in Nat /\ \A y \in After : y[2] \in Nat
    BY <1>6, <2>1 DEF AnyStep
  <2>3. \A y \in After : y[1] \in RootMakers => h[2] < y[2]
    BY <2>1, <2>2 DEF Follows, Phase, RootMakers
  <2> HIDE DEF h
  <2>4. \A i : (HasNumbered(After, RootMakers, i) <=> HasNumbered(Left, RootMakers, i))
    BY <2>1, <2>2 DEF HasNumbered, RootMakers
  <2>5. \A i : (HasNumbered(After, {"mediaPublish"}, i) <=> HasNumbered(Left, {"mediaPublish"}, i))
    BY <2>1, <2>2 DEF HasNumbered
  <2>6. MadeForIt(After) /\ WaitedForOne(After)
    BY <1>1, <2>1, <2>4, <2>5 DEF MadeForIt, WaitedForOne, Has
  <2>7. ASSUME NEW x \in After, x[1] = "mediaPublish", ~HasNumbered(After, {"wait"}, x[2])
        PROVE ~HasNumbered(After, RootMakers, x[2]) /\ Finished(Newest)
    <3>1. CASE x[2] = h[2]
      BY <1>6, <2>2, <2>3, <3>1 DEF HasNumbered
    <3>2. CASE x[2] # h[2]
      <4>1. ~HasNumbered(Left, {"wait"}, x[2])
        BY <2>1, <2>7, <3>2 DEF HasNumbered
      <4> QED BY <1>1, <2>1, <2>4, <2>7, <4>1 DEF WaitedIsFinished
    <3> QED BY <3>1, <3>2
  <2> QED BY <1>2, <2>1, <2>6, <2>7, ReadyPartsNext DEF MadeForIt, WaitedIsFinished, WaitedForOne, ReadyFor, Finished
<1> QED BY <1>3, <1>4, <1>5, <1>6

LEMMA PastTheCheck ==
  ASSUME Basis, GateInv, todo # <<>>, Head(todo)[1] \notin Ungated PROVE Accepts
<1>1. /\ Given /\ todo \in Seq(AnyStep) /\ Ordered(todo)
      /\ Has(Left, StepNames \ Ungated) => Accepts \/ Has(Left, {"accept"})
  BY DEF Basis, ShapeInv, GateInv
<1>2. /\ Head(todo) \in AnyStep /\ Left = {Head(todo)} \cup After
      /\ \A y \in After : Follows(Head(todo), y)
  BY <1>1, Ahead, Zenon
<1>3. Has(Left, StepNames \ Ungated)
  BY <1>2 DEF Has, AnyStep
<1>4. ~Has(Left, {"accept"})
  <2>1. \A y \in After : y[1] = "accept" => Head(todo)[1] \in {"pick", "creatorInfo"}
    BY <1>2 DEF Follows
  <2> QED BY <1>2, <2>1 DEF Has, Ungated
<1> QED BY <1>1, <1>3, <1>4

\* When the ids are used, every medium has one.
LEMMA AllHeld ==
  ASSUME Basis, TypeOK, HeldInv, Accepts, todo # <<>>, Head(todo)[1] \in HeldUsers,
         Head(todo)[1] \notin Collectors, platform \notin Picked
  PROVE held = Assets
<1>1. /\ Given /\ todo \in Seq(AnyStep) /\ Ordered(todo)
      /\ Covered(Left, Collectors, HeldUsers, Len(held) + 1, n)
      /\ Len(held) <= n /\ \A i \in 1..Len(held) : held[i] = i
  BY DEF Basis, ShapeInv, HeldInv
<1>2. /\ Left = {Head(todo)} \cup After /\ \A y \in After : Follows(Head(todo), y)
  BY <1>1, Ahead, Zenon
<1>3. \A x \in Left : x[1] \notin Collectors
  BY <1>2 DEF Follows
<1>4. \A i \in Len(held) + 1..n : FALSE
  BY <1>1, <1>2, <1>3 DEF Covered, Has
<1>5. n \in Nat /\ Len(held) \in Nat /\ DOMAIN held = 1..Len(held) /\ held = [i \in 1..Len(held) |-> held[i]]
  BY <1>1, PostFacts, LenProperties DEF TypeOK
<1>6. Len(held) = n
  BY <1>1, <1>4, <1>5
<1> QED BY <1>1, <1>5, <1>6 DEF Assets

LEMMA ReadyShown ==
  ASSUME Basis, ReadyInv, MediaPublish PROVE ReadyInv'
<1>1. MadeForIt(Left) /\ WaitedIsFinished(Left) /\ WaitedForOne(Left)
  BY ReadyParts
<1>2. Breaks \/ Passes
  BY DEF MediaPublish, At, Request, Throws, Fails, Advance, Throw, Passes, Breaks
<1>3. CASE Breaks
  BY <1>3, NothingReady
<1>4. CASE Passes
  <2> DEFINE h == Head(todo)
  <2>1. Left = {h} \cup After /\ Left' = After /\ h \in AnyStep
        /\ \A y \in After : Follows(h, y) /\ y \in AnyStep
    BY <1>4, StepTaken
  <2>2. h[1] = "mediaPublish" /\ h[2] \in Nat /\ \A y \in After : y[2] \in Nat
    BY <2>1 DEF AnyStep, MediaPublish, At
  <2>3. \A y \in After : y[1] \in {"mediaPublish", "wait"} => h[2] < y[2]
    BY <2>1, <2>2 DEF Follows, Phase, RootMakers
  <2> HIDE DEF h
  <2>4. \A i : (HasNumbered(After, RootMakers, i) <=> HasNumbered(Left, RootMakers, i))
    BY <2>1, <2>2 DEF HasNumbered, RootMakers
  <2>5. \A i : (HasNumbered(After, {"wait"}, i) <=> HasNumbered(Left, {"wait"}, i))
    BY <2>1, <2>2 DEF HasNumbered
  <2>6. ASSUME NEW x \in After, x[1] = "mediaPublish" PROVE HasNumbered(After, RootMakers, x[2]) /\ HasNumbered(After, {"wait"}, x[2])
    <3>1. HasNumbered(Left, RootMakers, x[2])
      <4>1. SUFFICES ASSUME ~HasNumbered(Left, RootMakers, x[2]) PROVE FALSE
        OBVIOUS
      <4>2. h[2] >= x[2]
        BY <1>1, <2>1, <2>2, <2>6, <4>1 DEF MadeForIt
      <4> QED BY <2>2, <2>3, <2>6, <4>2
    <3>2. HasNumbered(Left, {"wait"}, x[2])
      BY <1>1, <2>1, <2>6, <3>1 DEF WaitedIsFinished
    <3> QED BY <2>4, <2>5, <3>1, <3>2
  <2>7. ASSUME NEW x \in After, x[1] = "wait" PROVE HasNumbered(After, {"mediaPublish"}, x[2])
    <3>1. PICK y \in Left : y[1] = "mediaPublish" /\ y[2] = x[2]
      BY <1>1, <2>1, <2>7 DEF WaitedForOne, HasNumbered
    <3>2. y # h
      BY <2>2, <2>3, <2>7, <3>1
    <3> QED BY <2>1, <3>1, <3>2 DEF HasNumbered
  <2> QED BY <2>1, <2>6, <2>7, ReadyPartsNext DEF MadeForIt, WaitedIsFinished, WaitedForOne
<1> QED BY <1>2, <1>3, <1>4

\* A container for what will be published: it is the newest.
LEMMA ReadyMade ==
  ASSUME NEW CONSTANT b, Basis, ReadyInv, Passes, Head(todo)[1] \in RootMakers,
         Head(todo)[2] = b, ReadyFor(b)'
  PROVE ReadyInv'
<1>1. MadeForIt(Left) /\ WaitedIsFinished(Left) /\ WaitedForOne(Left)
  BY ReadyParts
<1> DEFINE h == Head(todo)
<1>2. Left = {h} \cup After /\ Left' = After /\ h \in AnyStep
      /\ \A y \in After : Follows(h, y) /\ y \in AnyStep
  BY StepTaken
<1>3. h[1] \in RootMakers /\ h[2] \in Nat /\ \A y \in After : y[2] \in Nat
  BY <1>2 DEF AnyStep
<1>4. \A y \in After : /\ y[1] \in RootMakers => h[2] < y[2]
                       /\ y[1] = "mediaPublish" => h[2] <= y[2]
                       /\ y[1] # "item"
  BY <1>2, <1>3 DEF Follows, Phase, RootMakers
<1>5. h[2] = b
  OBVIOUS
<1> HIDE DEF h
<1>6. \A i : (HasNumbered(After, {"wait"}, i) <=> HasNumbered(Left, {"wait"}, i))
  BY <1>2, <1>3 DEF HasNumbered, RootMakers
<1>7. \A i : (HasNumbered(After, {"mediaPublish"}, i) <=> HasNumbered(Left, {"mediaPublish"}, i))
  BY <1>2, <1>3 DEF HasNumbered, RootMakers
<1>8. ASSUME NEW x \in After, x[1] = "mediaPublish", x[2] # h[2]
      PROVE HasNumbered(After, RootMakers, x[2]) /\ HasNumbered(After, {"wait"}, x[2])
  <2>1. HasNumbered(Left, RootMakers, x[2])
    <3>1. SUFFICES ASSUME ~HasNumbered(Left, RootMakers, x[2]) PROVE FALSE
      OBVIOUS
    <3>2. h[2] > x[2]
      BY <1>1, <1>2, <1>3, <1>8, <3>1 DEF MadeForIt
    <3> QED BY <1>3, <1>4, <1>8, <3>2
  <2>2. HasNumbered(After, RootMakers, x[2])
    BY <1>2, <1>8, <2>1 DEF HasNumbered
  <2>3. HasNumbered(Left, {"wait"}, x[2])
    BY <1>1, <1>2, <1>8, <2>1 DEF WaitedIsFinished
  <2> QED BY <1>6, <2>2, <2>3
<1>9. ASSUME NEW x \in After, x[1] = "mediaPublish", x[2] = h[2]
      PROVE HasNumbered(After, {"wait"}, x[2])
  <2>1. HasNumbered(Left, RootMakers, x[2])
    BY <1>2, <1>3, <1>9 DEF HasNumbered
  <2>2. HasNumbered(Left, {"wait"}, x[2])
    BY <1>1, <1>2, <1>9, <2>1 DEF WaitedIsFinished
  <2> QED BY <1>6, <2>2
<1>10. MadeForIt(Left)'
  <2>1. ASSUME NEW x \in After, x[1] = "mediaPublish", ~HasNumbered(After, RootMakers, x[2])
        PROVE /\ ReadyFor(x[2])' /\ ~Has(After, {"item"})
              /\ \A y \in After : /\ y[1] \in RootMakers => y[2] > x[2]
                                  /\ y[1] = "mediaPublish" => y[2] >= x[2]
    <3>1. x[2] = h[2] /\ x[2] = b
      BY <1>5, <1>8, <2>1
    <3>2. ReadyFor(x[2])'
      BY <3>1, Zenon
    <3> QED BY <1>3, <1>4, <3>1, <3>2 DEF Has
  <2> QED BY <1>2, <2>1 DEF MadeForIt
<1>11. WaitedIsFinished(Left)'
  BY <1>2, <1>8, <1>9 DEF WaitedIsFinished
<1>12. WaitedForOne(Left)'
  BY <1>1, <1>2, <1>7 DEF WaitedForOne
<1> QED BY <1>10, <1>11, <1>12, ReadyPartsNext

LEMMA NoWaits ==
  ASSUME \A x \in Left' : x[1] \notin {"mediaPublish", "wait"} PROVE ReadyInv'
BY DEF ReadyInv

LEMMA ReadyItem ==
  ASSUME Basis, ReadyInv, Passes, Head(todo)[1] = "item" PROVE ReadyInv'
<1>1. MadeForIt(Left) /\ WaitedIsFinished(Left) /\ WaitedForOne(Left)
  BY ReadyParts
<1> DEFINE h == Head(todo)
<1>2. Left = {h} \cup After /\ Left' = After /\ h[1] = "item" /\ Has(Left, {"item"})
  BY StepTaken DEF Has
<1> HIDE DEF h
<1>3. \A i : (HasNumbered(After, RootMakers, i) <=> HasNumbered(Left, RootMakers, i))
  BY <1>2 DEF HasNumbered, RootMakers
<1>4. \A i : (HasNumbered(After, {"wait"}, i) <=> HasNumbered(Left, {"wait"}, i))
  BY <1>2 DEF HasNumbered
<1>5. \A i : (HasNumbered(After, {"mediaPublish"}, i) <=> HasNumbered(Left, {"mediaPublish"}, i))
  BY <1>2 DEF HasNumbered
<1>6. ASSUME NEW x \in After, x[1] = "mediaPublish"
      PROVE HasNumbered(After, RootMakers, x[2]) /\ HasNumbered(After, {"wait"}, x[2])
  <2>1. HasNumbered(Left, RootMakers, x[2])
    BY <1>1, <1>2, <1>6 DEF MadeForIt
  <2>2. HasNumbered(Left, {"wait"}, x[2])
    BY <1>1, <1>2, <1>6, <2>1 DEF WaitedIsFinished
  <2> QED BY <1>3, <1>4, <2>1, <2>2
<1>7. WaitedForOne(After)
  BY <1>1, <1>2, <1>5 DEF WaitedForOne
<1> QED BY <1>2, <1>6, <1>7, ReadyPartsNext DEF MadeForIt, WaitedIsFinished, WaitedForOne

LEMMA ReadyTurned ==
  ASSUME NEW CONSTANT c, NEW CONSTANT status, Basis, ReadyInv, platform' = platform, post' = post, todo' = todo,
         Turns(c, status), c \in DOMAIN remote, remote[c].status = "IN_PROGRESS", remote \in Seq(Containers)
  PROVE ReadyInv'
<1>1. MadeForIt(Left) /\ WaitedIsFinished(Left) /\ WaitedForOne(Left)
  BY ReadyParts
<1>2. Assets' = Assets /\ Newest' = Newest /\ Left' = Left
  BY SameNumbers DEF Newest, Turns, Left
<1>3. remote # <<>> /\ remote' # <<>> /\ Newest \in DOMAIN remote
  BY LenProperties, EmptySeq DEF Turns, Newest
<1>4. \A b : ReadyFor(b)' = ReadyFor(b)
  BY <1>2, <1>3 DEF ReadyFor, Turns
<1>5. Finished(Newest) => Finished(Newest)'
  BY <1>2, <1>3 DEF Finished, Turns
<1>6. MadeForIt(Left)' /\ WaitedForOne(Left)'
  BY <1>1, <1>2, <1>4 DEF MadeForIt, WaitedForOne
<1>7. WaitedIsFinished(Left)'
  BY <1>1, <1>2, <1>5 DEF WaitedIsFinished
<1> QED BY <1>6, <1>7, ReadyPartsNext

\* What a request for a container comes to.
LEMMA Creates ==
  ASSUME NEW role, NEW media, NEW status, todo # <<>>, Create(role, media, status)
  PROVE \/ Passes /\ remote' = Append(remote, NewContainer(role, media, status))
        \/ Breaks /\ remote' \in {remote, Append(remote, NewContainer(role, media, status))}
BY DEF Create, Request, Advance, Throw, Fails, Passes, Breaks

LEMMA TypedRemote ==
  ASSUME TypeOK PROVE remote \in Seq(Containers) /\ temps \subseteq 1..MaxAssets /\ held \in Seq(1..MaxAssets)
BY DEF TypeOK, Containers, Statuses

LEMMA TypedAssets ==
  ASSUME Given PROVE Assets \in Seq(1..MaxAssets) /\ Len(Assets) = n
<1>1. n \in Nat /\ MaxAssets \in Nat /\ n <= MaxAssets
  BY PostFacts, PublishersAssumption DEF PublishersAssumption
<1>2. \A i \in 1..n : i \in 1..MaxAssets
  BY <1>1
<1> QED BY <1>1, <1>2 DEF Assets

LEMMA NewestReady ==
  ASSUME NEW CONSTANT b \in Nat, NEW CONSTANT role, NEW CONSTANT status, NEW media, TypeOK, Given,
         platform' = platform, post' = post,
         role = IF b = 0 THEN "root" ELSE "reply", b = 0 => media = Assets, media \in Seq(1..MaxAssets),
         status \in Statuses, remote' = Append(remote, NewContainer(role, media, status))
  PROVE ReadyFor(b)'
<1> DEFINE r == NewContainer(role, media, status)
<1>1. r \in Containers /\ r.role = role /\ r.media = media
  BY NewTyped, TypedRemote
<1> HIDE DEF r
<1>2. Adds(r)
  BY <1>1, Added, TypedRemote DEF r
<1>3. Assets' = Assets /\ Newest' = Len(remote) + 1 /\ Len(remote) \in Nat
  BY <1>2, SameNumbers, TypedRemote DEF Newest, Adds
<1>4. remote' # <<>>
  BY <1>2, <1>3 DEF Adds
<1> QED BY <1>1, <1>2, <1>3, <1>4 DEF ReadyFor, Adds

LEMMA ReadyNext ==
  ASSUME Basis, TypeOK, HeldInv, GateInv, ReadyInv, [Next]_vars PROVE ReadyInv'
<1>1. platform' = platform /\ post' = post
  BY GivenStays
<1>2. /\ Given /\ todo \in Seq(AnyStep) /\ Ordered(todo) /\ \A x \in Left : Fits(x)
  BY DEF Basis, ShapeInv
<1>3. \A name : At(name) => /\ todo # <<>> /\ Head(todo) \in Left /\ Head(todo)[1] = name /\ Fits(Head(todo))
                            /\ Head(todo) \in AnyStep /\ Head(todo)[2] \in Nat
  BY <1>2, Ahead DEF At, AnyStep
<1>4. ASSUME platform = "tiktok", Passes \/ Breaks PROVE ReadyInv'
  <2>1. CASE Passes
    <3>1. \A x \in Left' : Fits(x)
      BY <2>1, StepTaken
    <3> QED BY <1>4, <3>1, NoWaits DEF Fits
  <2>2. CASE Breaks
    BY <2>2, NothingReady
  <2> QED BY <1>4, <2>1, <2>2
<1>5. CASE remote' = remote /\ Quiet({"put", "mediaPublish"} \cup Makers)
  <2>1. CASE PollEnds
    BY <1>1, <2>1, ReadyWaited
  <2>2. CASE Quiet({"wait", "waitItems"})
    <3>1. Quiet({"mediaPublish", "wait"} \cup RootMakers)
      BY <1>5, <2>2 DEF Quiet, Makers, RootMakers
    <3> QED BY <1>1, <1>5, <3>1, ReadyKept
  <2> QED BY <2>1, <2>2, WaitMoves
<1>6. CASE CreateContainer
  <2>1. CASE At("item") /\ Create("item", <<Asset>>, "IN_PROGRESS")
    <3>1. Passes \/ Breaks
      BY <1>3, <2>1, Creates
    <3> QED BY <1>3, <2>1, <3>1, ReadyItem, NothingReady
  <2>2. CASE At("container") /\ Create("root", Assets, "IN_PROGRESS")
    <3>1. Breaks \/ (Passes /\ remote' = Append(remote, NewContainer("root", Assets, "IN_PROGRESS")))
      BY <1>3, <2>2, Creates
    <3>2. CASE Passes /\ remote' = Append(remote, NewContainer("root", Assets, "IN_PROGRESS"))
      <4>1. ReadyFor(0)'
        BY <1>1, <1>2, <3>2, NewestReady, TypedAssets DEF Statuses
      <4>2. Head(todo)[1] \in RootMakers /\ Head(todo)[2] = 0
        BY <1>3, <2>2 DEF Fits, RootMakers
      <4> QED BY <3>2, <4>1, <4>2, ReadyMade
    <3> QED BY <3>1, <3>2, NothingReady
  <2>3. CASE At("reply") /\ Create("reply", <<>>, "IN_PROGRESS")
    <3>1. Breaks \/ (Passes /\ remote' = Append(remote, NewContainer("reply", <<>>, "IN_PROGRESS")))
      BY <1>3, <2>3, Creates
    <3>2. CASE Passes /\ remote' = Append(remote, NewContainer("reply", <<>>, "IN_PROGRESS"))
      <4>1. PICK b \in Nat : b = Head(todo)[2]
        BY <1>3, <2>3
      <4>2. Head(todo)[1] \in RootMakers /\ b > 0
        BY <1>3, <2>3, <4>1 DEF Fits, RootMakers
      <4>3. "reply" = (IF b = 0 THEN "root" ELSE "reply") /\ (b = 0 => <<>> = Assets)
        BY <4>2
      <4>4. <<>> \in Seq(1..MaxAssets) /\ "IN_PROGRESS" \in Statuses
        BY DEF Statuses
      <4>5. ReadyFor(b)'
        BY <1>1, <1>2, <3>2, <4>3, <4>4, NewestReady, Zenon
      <4> QED BY <3>2, <4>1, <4>2, <4>5, ReadyMade
    <3> QED BY <3>1, <3>2, NothingReady
  <2>4. CASE At("init")
    <3>1. Passes \/ Breaks
      BY <1>3, <1>6, <2>4, Creates DEF CreateContainer
    <3>2. platform = "tiktok"
      BY <1>3, <2>4 DEF Fits
    <3> QED BY <1>4, <3>1, <3>2
  <2> QED BY <1>6, <2>1, <2>2, <2>3, <2>4 DEF CreateContainer
<1>7. CASE CreateCarousel
  <2>1. At("carousel") /\ (Breaks \/ (Passes /\ remote' = Append(remote, NewContainer("root", held, "IN_PROGRESS"))))
    BY <1>3, <1>7, Creates DEF CreateCarousel, Throws, Throw, Breaks
  <2>2. CASE Passes /\ remote' = Append(remote, NewContainer("root", held, "IN_PROGRESS"))
    <3>1. /\ todo # <<>> /\ Head(todo)[1] \notin Ungated /\ Head(todo)[1] \in HeldUsers
          /\ Head(todo)[1] \notin Collectors /\ platform \notin Picked
          /\ Head(todo)[1] \in RootMakers /\ Head(todo)[2] = 0
      BY <1>3, <2>1 DEF Fits, RootMakers, HeldUsers, Collectors, Ungated, Picked
    <3>2. held = Assets
      BY <3>1, PastTheCheck, AllHeld
    <3>3. ReadyFor(0)'
      BY <1>1, <1>2, <2>2, <3>2, NewestReady, TypedAssets DEF Statuses
    <3> QED BY <2>2, <3>1, <3>3, ReadyMade
  <2> QED BY <2>1, <2>2, NothingReady
<1>8. CASE Put
  <2>1. platform = "tiktok" /\ (Passes \/ Breaks)
    BY <1>3, <1>8 DEF Put, Fits, Request, Advance, Throw, Fails, Passes, Breaks
  <2> QED BY <1>4, <2>1
<1>9. CASE MediaPublish
  BY <1>9, ReadyShown
<1>10. CASE Platform
  <2>1. PICK c \in DOMAIN remote : ProcessContainer(c) \/ RefuseContainer(c)
    BY <1>10 DEF Platform
  <2>2. PICK status \in {"FINISHED", "ERROR"} : remote' = [remote EXCEPT ![c].status = status]
    BY <2>1 DEF ProcessContainer, RefuseContainer
  <2>3. Turns(c, status)
    BY <2>2, StatusSet, TypedRemote DEF Statuses
  <2>4. todo' = todo /\ remote[c].status = "IN_PROGRESS"
    BY <2>1 DEF ProcessContainer, RefuseContainer
  <2> QED BY <1>1, <2>3, <2>4, ReadyTurned, TypedRemote
<1> QED BY <1>5, <1>6, <1>7, <1>8, <1>9, <1>10, RemoteMoves

-----------------------------------------------------------------------------
(* What is public is the part of the post that was shown so far            *)

Posted == [role : {"root", "reply"}, media : Seq(1..MaxAssets)]

\* The post comes first, the replies after it.
Due(k, entry) ==
    IF k = 1 THEN entry.role = "root" /\ entry.media \in Wanted ELSE entry.role = "reply"

ShownSoFar ==
    /\ Covered(Left, Showing, {"done"}, Len(public), Requested - 1)
    /\ Len(public) <= Requested
    /\ \A k \in DOMAIN public : Due(k, public[k])

LEMMA PublicParts == PublicInv <=> (platform # "tiktok" => ShownSoFar)
BY Zenon DEF PublicInv, ShownSoFar, Due

LEMMA PublicPartsNext ==
  ASSUME platform' = platform, platform # "tiktok" => ShownSoFar' PROVE PublicInv'
BY DEF PublicInv, ShownSoFar, Due

LEMMA TypedPublic ==
  ASSUME TypeOK PROVE public \in Seq(Posted)
BY DEF TypeOK, Posted

LEMMA PublicKept ==
  ASSUME Basis, ShownSoFar, platform' = platform, post' = post, public' = public,
         platform # "tiktok", Quiet(Showing)
  PROVE ShownSoFar'
<1>1. Given /\ todo \in Seq(AnyStep) /\ Ordered(todo) /\ (Has(Left, {"start"}) => public = <<>>)
  BY DEF Basis, ShapeInv
<1>2. Requested' = Requested
  BY SameNumbers
<1>3. Covered(Left', Showing, {"done"}, Len(public), Requested - 1)
  <2>1. CASE Passes /\ Head(todo)[1] \notin Showing
    <3>1. Left = {Head(todo)} \cup After /\ Left' = After /\ todo # <<>>
      BY <2>1, StepTaken DEF Passes
    <3> QED BY <2>1, <3>1, CoveredPasses, Zenon DEF ShownSoFar
  <2>2. CASE Breaks \/ Dies
    <3>1. \A x \in Left' : x[1] \notin Showing /\ x[1] \notin {"done"}
      BY <2>2, LeftOfUnwound DEF Step, Showing
    <3> QED BY <3>1, NothingCovered
  <2>3. CASE Starts
    <3>1. public = <<>> /\ Len(public) = 0
      BY <1>1, <2>3, Ahead DEF Starts, At, Has
    <3>2. Shows(ToSet(Steps))
      BY <1>1, StepsWhole, Zenon DEF Whole
    <3>3. Left' = ToSet(Steps)
      BY <2>3 DEF Starts, Left
    <3> QED BY <3>1, <3>2, <3>3 DEF Shows
  <2>4. CASE todo' = todo
    BY <2>4 DEF ShownSoFar, Left
  <2> QED BY <2>1, <2>2, <2>3, <2>4 DEF Quiet
<1>4. (\A k \in DOMAIN public : Due(k, public[k]))'
  <2>1. Wanted' = Wanted
    BY SameNumbers
  <2> QED BY <2>1 DEF ShownSoFar, Due
<1> QED BY <1>2, <1>3, <1>4 DEF ShownSoFar

LEMMA PublicGrows ==
  ASSUME Basis, ShownSoFar, platform' = platform, post' = post, public \in Seq(Posted),
         NEW entry \in Posted, public' = Append(public, entry), Passes \/ Breaks,
         Head(todo)[1] \in Showing, Due(Head(todo)[2] + 1, entry)
  PROVE ShownSoFar'
<1>1. Given /\ todo \in Seq(AnyStep) /\ Ordered(todo) /\ todo # <<>>
  BY DEF Basis, ShapeInv, Passes, Breaks
<1>2. Requested' = Requested
  BY SameNumbers
<1>3. Left = {Head(todo)} \cup After /\ \A y \in After : Follows(Head(todo), y)
  BY <1>1, Ahead, Zenon
<1>4. \A y \in After : y[1] \in Showing => Head(todo)[2] < y[2]
  BY <1>3 DEF Follows
<1>5. Len(public) \in Nat /\ Requested \in Nat
  BY <1>1, PostFacts DEF Requested
<1>6. /\ Head(todo)[2] = Len(public) /\ Len(public) <= Requested - 1
      /\ Covered(After, Showing, {"done"}, Len(public) + 1, Requested - 1)
  <2>1. Len(public) \in Int /\ Requested - 1 \in Int
    BY <1>5
  <2> QED BY <1>1, <1>3, <1>4, <2>1, CoveredTakes, Zenon DEF ShownSoFar
<1>7. /\ Len(public') = Len(public) + 1 /\ public'[Len(public) + 1] = entry
      /\ \A k \in 1..Len(public) : public'[k] = public[k]
  BY AppendProperties
<1>8. public' \in Seq(Posted) /\ DOMAIN public' = 1..Len(public) + 1 /\ DOMAIN public = 1..Len(public)
  BY <1>7, AppendProperties, LenProperties
<1>9. ASSUME NEW k \in 1..Len(public) + 1 PROVE Due(k, public'[k])
  <2>1. CASE k = Len(public) + 1
    BY <1>6, <1>7, <2>1
  <2>2. CASE k # Len(public) + 1
    <3>1. k \in 1..Len(public)
      BY <1>5, <2>2
    <3> QED BY <1>7, <1>8, <3>1 DEF ShownSoFar
  <2> QED BY <2>1, <2>2
<1>10. (\A k \in DOMAIN public : Due(k, public[k]))'
  <2>1. Wanted' = Wanted
    BY SameNumbers
  <2> QED BY <1>8, <1>9, <2>1 DEF Due
<1>11. Covered(Left', Showing, {"done"}, Len(public'), Requested - 1)
  <2>1. CASE Passes
    BY <1>6, <1>7, <2>1 DEF Passes, After, Left
  <2>2. CASE Breaks
    <3>1. \A x \in Left' : x[1] \notin Showing /\ x[1] \notin {"done"}
      BY <2>2, LeftOfUnwound DEF Step, Showing
    <3> QED BY <3>1, NothingCovered
  <2> QED BY <2>1, <2>2
<1>12. Len(public') <= Requested
  BY <1>5, <1>6, <1>7
<1> QED BY <1>2, <1>10, <1>11, <1>12 DEF ShownSoFar

\* What media_publish makes public is the container of its number.
LEMMA ShownReady ==
  ASSUME Basis, ReadyInv, At("mediaPublish")
  PROVE /\ Finished(Newest) /\ ReadyFor(Head(todo)[2])
        /\ ~HasNumbered(Left, RootMakers, Head(todo)[2]) /\ ~Has(Left, {"item"})
<1> DEFINE h == Head(todo)
<1>1. MadeForIt(Left) /\ WaitedIsFinished(Left)
  BY ReadyParts
<1>2. /\ Left = {h} \cup After /\ h \in AnyStep
      /\ \A y \in After : Follows(h, y) /\ y \in AnyStep
  BY Ahead, Zenon DEF Basis, ShapeInv, At
<1>3. h[1] = "mediaPublish" /\ h[2] \in Nat /\ \A y \in After : y[2] \in Nat
  BY <1>2 DEF AnyStep, At
<1>4. \A y \in After : y[1] = "wait" => h[2] < y[2]
  BY <1>2, <1>3 DEF Follows, Phase, RootMakers
<1> HIDE DEF h
<1>5. ~HasNumbered(Left, {"wait"}, h[2])
  BY <1>2, <1>3, <1>4 DEF HasNumbered
<1>6. ~HasNumbered(Left, RootMakers, h[2]) /\ Finished(Newest)
  BY <1>1, <1>2, <1>3, <1>5 DEF WaitedIsFinished
<1>7. ReadyFor(h[2]) /\ ~Has(Left, {"item"})
  BY <1>1, <1>2, <1>3, <1>6 DEF MadeForIt
<1> QED BY <1>6, <1>7 DEF h

\* The ids that a post is published with are those of what was wanted.
LEMMA HeldWanted ==
  ASSUME Basis, TypeOK, HeldInv, GateInv, At("publish") PROVE held \in Wanted
<1>1. Accepts
  BY PastTheCheck DEF At, Ungated
<1>2. CASE platform \in Picked
  <2>1. held # <<>>
    <3>1. ToSet(<<>>) = {}
      BY NoneOrdered
    <3>2. CASE platform = "pinterest"
      BY <1>1, <3>2 DEF Accepts, PinterestAccepts
    <3>3. CASE platform = "youtube"
      BY <1>1, <3>1, <3>3 DEF Accepts, YouTubeAccepts
    <3> QED BY <1>2, <3>2, <3>3 DEF Picked
  <2> QED BY <1>2, <2>1 DEF HeldInv
<1>3. CASE platform \notin Picked
  <2>1. held = Assets
    BY <1>1, <1>3, AllHeld DEF At, HeldUsers, Collectors
  <2> QED BY <1>3, <2>1 DEF Wanted, Picked
<1> QED BY <1>2, <1>3

LEMMA PublicNext ==
  ASSUME Basis, TypeOK, HeldInv, GateInv, ReadyInv, PublicInv, [Next]_vars PROVE PublicInv'
<1>1. platform' = platform /\ post' = post
  BY GivenStays
<1> SUFFICES ASSUME platform # "tiktok" PROVE ShownSoFar'
  BY <1>1, PublicPartsNext
<1>2. ShownSoFar /\ public \in Seq(Posted)
  BY PublicParts, TypedPublic
<1>3. /\ Given /\ todo \in Seq(AnyStep) /\ Ordered(todo) /\ \A x \in Left : Fits(x)
  BY DEF Basis, ShapeInv
<1>4. \A name : At(name) => todo # <<>> /\ Head(todo)[1] = name /\ Fits(Head(todo)) /\ Head(todo) \in AnyStep
  BY <1>3, Ahead DEF At
<1>5. CASE public' = public /\ Quiet(Showing)
  BY <1>1, <1>2, <1>5, PublicKept
<1>6. CASE Publish
  <2>1. PICK media \in {held, Assets} :
          /\ media \in Wanted /\ Head(todo)[1] \in Showing /\ Head(todo)[2] = 0
          /\ \/ (Passes \/ Breaks) /\ Show("root", media)
             \/ Breaks /\ public' = public
    <3>1. CASE At("publish") /\ Request(Show("root", held), UNCHANGED public)
      <4>1. held \in Wanted /\ Head(todo)[1] \in Showing /\ Head(todo)[2] = 0
        BY <1>4, <3>1, HeldWanted DEF Fits, Showing
      <4> QED BY <1>4, <3>1, <4>1 DEF Request, Advance, Throw, Fails, Passes, Breaks
    <3>2. CASE At("publishUrl") /\ Request(Show("root", Assets), UNCHANGED public)
      <4>1. Assets \in Wanted /\ Head(todo)[1] \in Showing /\ Head(todo)[2] = 0
        BY <1>4, <3>2 DEF Fits, Showing, Wanted, Picked
      <4> QED BY <1>4, <3>2, <4>1 DEF Request, Advance, Throw, Fails, Passes, Breaks
    <3> QED BY <1>6, <3>1, <3>2 DEF Publish
  <2>2. CASE (Passes \/ Breaks) /\ Show("root", media)
    <3> DEFINE entry == [role |-> "root", media |-> media]
    <3>1. entry \in Posted
      BY <1>3, TypedAssets, TypedRemote DEF Posted
    <3>2. Due(0 + 1, entry)
      BY <2>1 DEF Due
    <3>3. public' = Append(public, entry)
      BY <2>2 DEF Show
    <3> HIDE DEF entry
    <3> QED BY <1>1, <1>2, <2>1, <2>2, <3>1, <3>2, <3>3, PublicGrows
  <2>3. CASE Breaks /\ public' = public
    BY <1>1, <1>2, <2>3, PublicKept DEF Quiet
  <2> QED BY <2>1, <2>2, <2>3
<1>7. CASE MediaPublish
  <2>1. At("mediaPublish")
    BY <1>7 DEF MediaPublish
  <2>2. Finished(Newest) /\ ReadyFor(Head(todo)[2])
    BY <2>1, ShownReady
  <2>3. /\ platform \notin Picked /\ Head(todo)[1] \in Showing /\ Head(todo)[2] \in Nat
    BY <1>4, <2>1 DEF Fits, Picked, Showing, AnyStep
  <2>4. \/ (Passes \/ Breaks) /\ Show(remote[Newest].role, remote[Newest].media)
        \/ Breaks /\ public' = public
    BY <1>4, <1>7, <2>1, <2>2 DEF MediaPublish, Request, Advance, Throw, Fails, Passes, Breaks, there
  <2>5. CASE (Passes \/ Breaks) /\ Show(remote[Newest].role, remote[Newest].media)
    <3> DEFINE entry == [role |-> remote[Newest].role, media |-> remote[Newest].media]
    <3>1. remote[Newest] \in Containers
      BY <2>2, TypedRemote, EmptySeq, LenProperties, ElementOfSeq DEF ReadyFor, Newest
    <3>2. entry.role = (IF Head(todo)[2] = 0 THEN "root" ELSE "reply")
          /\ (Head(todo)[2] = 0 => entry.media = Assets)
      BY <2>2 DEF ReadyFor
    <3>3. entry \in Posted
      BY <2>2, <3>1 DEF Posted, Containers, ReadyFor
    <3>4. Due(Head(todo)[2] + 1, entry)
      <4>1. Assets \in Wanted
        BY <2>3 DEF Wanted, Picked
      <4> HIDE DEF entry
      <4> QED BY <2>3, <3>2, <4>1 DEF Due
    <3>5. public' = Append(public, entry)
      BY <2>5 DEF Show
    <3> HIDE DEF entry
    <3> QED BY <1>1, <1>2, <2>3, <2>5, <3>3, <3>4, <3>5, PublicGrows
  <2>6. CASE Breaks /\ public' = public
    BY <1>1, <1>2, <2>6, PublicKept DEF Quiet
  <2> QED BY <2>4, <2>5, <2>6
<1>8. CASE Platform
  <2>1. public' = public /\ todo' = todo
    BY <1>8 DEF Platform, ProcessContainer, RefuseContainer
  <2> QED BY <1>1, <1>2, <2>1, PublicKept DEF Quiet
<1> QED BY <1>5, <1>6, <1>7, <1>8, PublicMoves

-----------------------------------------------------------------------------
(* What TikTok was sent                                                    *)

AllSent ==
    /\ Len(remote) <= 1
    /\ \A c \in DOMAIN remote : remote[c].media = Assets /\ (~hasVideo => remote[c].status # "AWAITING")
VideoSent == remote # <<>> /\ remote[1].status # "AWAITING"
SentSoFar ==
    /\ Covered(Left, {"init"}, {"put", "status", "done"}, Len(remote), 0)
    /\ AllSent
    /\ Has(Left, {"done"}) /\ hasVideo => Has(Left, {"put"}) \/ VideoSent

LEMMA TikTokParts == TikTokInv <=> (platform = "tiktok" => SentSoFar)
BY Zenon DEF TikTokInv, SentSoFar, AllSent, VideoSent

LEMMA TikTokPartsNext ==
  ASSUME platform' = platform, platform = "tiktok" => SentSoFar' PROVE TikTokInv'
BY DEF TikTokInv, SentSoFar, AllSent, VideoSent

LEMMA SentGone ==
  ASSUME Breaks \/ Dies, AllSent' PROVE SentSoFar'
<1>1. \A x \in Left' : x[1] \notin {"init"} /\ x[1] \notin {"put", "status", "done"}
  BY LeftOfUnwound DEF Step
<1>2. Covered(Left, {"init"}, {"put", "status", "done"}, Len(remote), 0)'
  BY <1>1 DEF Covered, Has
<1>3. ~Has(Left', {"done"})
  BY <1>1 DEF Has
<1> QED BY <1>2, <1>3 DEF SentSoFar

LEMMA AllSentStays ==
  ASSUME AllSent, platform' = platform, post' = post, remote' = remote PROVE AllSent'
<1>1. Assets' = Assets /\ hasVideo' = hasVideo
  BY SameNumbers
<1> QED BY <1>1 DEF AllSent

LEMMA AllSentTurned ==
  ASSUME AllSent, platform' = platform, post' = post, remote \in Seq(Containers),
         NEW CONSTANT c, NEW CONSTANT status, status # "AWAITING", Turns(c, status)
  PROVE AllSent' /\ Len(remote') = Len(remote) /\ (VideoSent \/ (c = 1 /\ remote # <<>>) => VideoSent')
<1>1. Assets' = Assets /\ hasVideo' = hasVideo
  BY SameNumbers
<1>2. AllSent' /\ Len(remote') = Len(remote)
  BY <1>1 DEF AllSent, Turns
<1>3. ASSUME remote # <<>> PROVE remote' # <<>> /\ 1 \in DOMAIN remote
  BY <1>3, EmptySeq, LenProperties DEF Turns
<1>4. VideoSent \/ (c = 1 /\ remote # <<>>) => VideoSent'
  BY <1>3 DEF VideoSent, Turns
<1> QED BY <1>2, <1>4

LEMMA SentKept ==
  ASSUME Basis, SentSoFar, platform' = platform, post' = post, remote' = remote,
         platform = "tiktok", Quiet({"put", "init"})
  PROVE SentSoFar'
<1>1. Given /\ todo \in Seq(AnyStep) /\ Ordered(todo) /\ (Has(Left, {"start"}) => remote = <<>>)
  BY DEF Basis, ShapeInv
<1>2. hasVideo' = hasVideo /\ AllSent' /\ VideoSent' = VideoSent
  BY SameNumbers, AllSentStays DEF SentSoFar, VideoSent
<1>3. CASE Passes /\ Head(todo)[1] \notin {"put", "init"}
  <2>1. Left = {Head(todo)} \cup After /\ Left' = After /\ todo # <<>>
    BY <1>3, StepTaken DEF Passes
  <2>2. Covered(After, {"init"}, {"put", "status", "done"}, Len(remote), 0)
    BY <1>3, <2>1, CoveredPasses DEF SentSoFar
  <2>3. /\ Has(After, {"done"}) => Has(Left, {"done"})
        /\ Has(Left, {"put"}) => Has(After, {"put"})
    BY <1>3, <2>1 DEF Has
  <2> QED BY <1>2, <2>1, <2>2, <2>3 DEF SentSoFar
<1>4. CASE Breaks \/ Dies
  BY <1>2, <1>4, SentGone
<1>5. CASE Starts
  <2>1. remote = <<>> /\ Len(remote) = 0
    BY <1>1, <1>5, Ahead DEF Starts, At, Has
  <2>2. Sends(ToSet(Steps))
    BY <1>1, StepsWhole, Zenon DEF Whole
  <2>3. Left' = ToSet(Steps)
    BY <1>5 DEF Starts, Left
  <2> QED BY <1>2, <2>1, <2>2, <2>3 DEF Sends, SentSoFar
<1>6. CASE todo' = todo
  BY <1>2, <1>6 DEF SentSoFar, Left
<1> QED BY <1>3, <1>4, <1>5, <1>6 DEF Quiet

LEMMA SentInit ==
  ASSUME Basis, TypeOK, HeldInv, GateInv, SentSoFar, platform' = platform, post' = post,
         platform = "tiktok", CreateContainer
  PROVE SentSoFar'
<1>1. /\ Given /\ todo \in Seq(AnyStep) /\ Ordered(todo) /\ \A x \in Left : Fits(x)
  BY DEF Basis, ShapeInv
<1>2. \A name : At(name) => todo # <<>> /\ Head(todo)[1] = name /\ Fits(Head(todo))
  BY <1>1, Ahead DEF At
<1>3. At("init") /\ Head(todo)[2] = 0
  BY <1>2 DEF CreateContainer, Fits
<1>4. Left = {Head(todo)} \cup After /\ \A y \in After : Follows(Head(todo), y)
  BY <1>1, <1>3, Ahead DEF At
<1>5. /\ Len(remote) = 0 /\ Covered(After, {"init"}, {"put", "status", "done"}, 1, 0)
  <2>1. \A y \in After : y[1] \in {"init"} => Head(todo)[2] < y[2]
    BY <1>3, <1>4 DEF Follows, At
  <2>2. Len(remote) \in Int
    BY TypedRemote
  <2>3. Head(todo)[2] = Len(remote) /\ Covered(After, {"init"}, {"put", "status", "done"}, Len(remote) + 1, 0)
    <3>1. todo # <<>> /\ Head(todo)[1] \in {"init"} /\ 0 \in Int
      BY <1>3 DEF At
    <3>2. Covered(Left, {"init"}, {"put", "status", "done"}, Len(remote), 0)
      BY DEF SentSoFar
    <3> QED BY <1>4, <2>1, <2>2, <3>1, <3>2, CoveredTakes, Zenon
  <2> QED BY <1>3, <2>3
<1>6. /\ hasVideo' = hasVideo /\ Assets' = Assets
  BY SameNumbers
<1>7. PICK status \in {"AWAITING", "IN_PROGRESS"} :
        /\ ~hasVideo => status # "AWAITING"
        /\ \/ (Passes \/ Breaks) /\ remote' = Append(remote, NewContainer("root", Assets, status))
           \/ Breaks /\ remote' = remote
  <2>1. CASE hasVideo
    <3>1. Create("root", Assets, "AWAITING") /\ todo # <<>>
      BY <1>3, <2>1 DEF CreateContainer, At
    <3> QED BY <2>1, <3>1, Creates
  <2>2. CASE ~hasVideo
    <3>1. Create("root", held, "IN_PROGRESS") /\ todo # <<>>
      BY <1>3, <2>2 DEF CreateContainer, At
    <3>2. Accepts
      BY <1>3, PastTheCheck DEF At, Ungated
    <3>3. held = Assets
      BY <1>3, <2>2, <3>2, AllHeld DEF At, HeldUsers, Collectors, Picked
    <3> QED BY <2>2, <3>1, <3>3, Creates
  <2> QED BY <2>1, <2>2
<1>8. CASE Breaks /\ remote' = remote
  BY <1>8, SentGone, AllSentStays DEF SentSoFar
<1>9. CASE (Passes \/ Breaks) /\ remote' = Append(remote, NewContainer("root", Assets, status))
  <2> DEFINE r == NewContainer("root", Assets, status)
  <2>1. r \in Containers /\ r.media = Assets /\ r.status = status
    BY <1>1, NewTyped, TypedRemote, TypedAssets DEF Statuses
  <2> HIDE DEF r
  <2>2. Adds(r)
    BY <1>9, <2>1, Added, TypedRemote DEF r
  <2>3. Len(remote') = 1 /\ DOMAIN remote' = {1} /\ remote'[1] = r
    BY <1>5, <2>2 DEF Adds
  <2>4. AllSent'
    BY <1>6, <1>7, <2>1, <2>3 DEF AllSent
  <2>5. CASE Passes
    <3>1. Left' = After
      BY <2>5 DEF Passes, After, Left
    <3>2. remote = <<>>
      BY <1>5, TypedRemote, EmptySeq, LenProperties
    <3>3. Has(After, {"done"}) /\ hasVideo => Has(After, {"put"})
      BY <1>3, <1>4, <3>2 DEF SentSoFar, VideoSent, Has, At
    <3> QED BY <1>5, <1>6, <2>3, <2>4, <3>1, <3>3 DEF SentSoFar
  <2> QED BY <1>9, <2>4, <2>5, SentGone
<1> QED BY <1>7, <1>8, <1>9

\* Nothing is put before the upload was initialised.
LEMMA SentFirst ==
  ASSUME Basis, SentSoFar, remote \in Seq(Containers), todo # <<>>,
         Head(todo)[1] \in {"put", "status", "done"}
  PROVE Len(remote) = 1 /\ remote # <<>> /\ DOMAIN remote = {1} /\ Newest = 1
<1>1. /\ Left = {Head(todo)} \cup After /\ \A y \in After : Follows(Head(todo), y)
  BY Ahead, Zenon DEF Basis, ShapeInv
<1>2. \A x \in Left : x[1] # "init"
  BY <1>1 DEF Follows
<1>3. Has(Left, {"init"} \cup {"put", "status", "done"})
  BY <1>1 DEF Has
<1>4. \A i \in Len(remote)..0 : FALSE
  BY <1>2, <1>3 DEF SentSoFar, Covered
<1>5. Len(remote) \in Nat /\ DOMAIN remote = 1..Len(remote)
  BY LenProperties
<1>6. Len(remote) = 1
  BY <1>4, <1>5 DEF SentSoFar, AllSent
<1> QED BY <1>5, <1>6 DEF Newest

LEMMA SentPut ==
  ASSUME Basis, TypeOK, SentSoFar, platform' = platform, post' = post, platform = "tiktok", Put
  PROVE SentSoFar'
<1>1. At("put") /\ todo # <<>> /\ Head(todo)[1] = "put"
  BY DEF Put, At
<1>2. Len(remote) = 1 /\ remote # <<>> /\ Newest = 1
  BY <1>1, SentFirst, TypedRemote
<1>3. \/ (Passes \/ Breaks) /\ remote' = [remote EXCEPT ![Newest].status = "IN_PROGRESS"]
      \/ Breaks /\ remote' = remote
  BY <1>1 DEF Put, Request, Advance, Throw, Fails, Passes, Breaks
<1>4. CASE Breaks /\ remote' = remote
  BY <1>4, SentGone, AllSentStays DEF SentSoFar
<1>5. CASE (Passes \/ Breaks) /\ remote' = [remote EXCEPT ![Newest].status = "IN_PROGRESS"]
  <2>1. Turns(1, "IN_PROGRESS")
    BY <1>2, <1>5, StatusSet, TypedRemote DEF Statuses
  <2>2. AllSent' /\ Len(remote') = Len(remote) /\ VideoSent'
    BY <1>2, <2>1, AllSentTurned, TypedRemote DEF SentSoFar
  <2>3. CASE Passes
    <3>1. Left = {Head(todo)} \cup After /\ Left' = After
      BY <2>3, StepTaken
    <3>2. Covered(After, {"init"}, {"put", "status", "done"}, Len(remote), 0)
      BY <1>1, <3>1, CoveredPasses DEF SentSoFar
    <3> QED BY <2>2, <3>1, <3>2 DEF SentSoFar
  <2> QED BY <1>5, <2>2, <2>3, SentGone
<1> QED BY <1>3, <1>4, <1>5

LEMMA TikTokNext ==
  ASSUME Basis, TypeOK, HeldInv, GateInv, TikTokInv, [Next]_vars PROVE TikTokInv'
<1>1. platform' = platform /\ post' = post
  BY GivenStays
<1> SUFFICES ASSUME platform = "tiktok" PROVE SentSoFar'
  BY <1>1, TikTokPartsNext
<1>2. SentSoFar /\ remote \in Seq(Containers)
  BY TikTokParts, TypedRemote
<1>3. /\ Given /\ todo \in Seq(AnyStep) /\ Ordered(todo) /\ \A x \in Left : Fits(x)
  BY DEF Basis, ShapeInv
<1>4. \A name : At(name) => Head(todo)[1] = name /\ Fits(Head(todo))
  BY <1>3, Ahead DEF At
<1>5. CASE remote' = remote /\ Quiet({"put", "mediaPublish"} \cup Makers)
  <2>1. Quiet({"put", "init"})
    BY <1>5 DEF Quiet, Makers
  <2> QED BY <1>1, <1>2, <1>5, <2>1, SentKept
<1>6. CASE CreateContainer
  BY <1>1, <1>2, <1>6, SentInit
<1>7. CASE CreateCarousel \/ MediaPublish
  BY <1>4, <1>7 DEF CreateCarousel, MediaPublish, Fits
<1>8. CASE Put
  BY <1>1, <1>2, <1>8, SentPut
<1>9. CASE Platform
  <2>1. PICK c \in DOMAIN remote : ProcessContainer(c) \/ RefuseContainer(c)
    BY <1>9 DEF Platform
  <2>2. PICK status \in {"FINISHED", "ERROR"} : remote' = [remote EXCEPT ![c].status = status]
    BY <2>1 DEF ProcessContainer, RefuseContainer
  <2>3. Turns(c, status)
    BY <1>2, <2>2, StatusSet DEF Statuses
  <2>4. todo' = todo /\ Left' = Left
    BY <2>1 DEF ProcessContainer, RefuseContainer, Left
  <2>5. AllSent' /\ Len(remote') = Len(remote) /\ (VideoSent => VideoSent') /\ hasVideo' = hasVideo
    BY <1>1, <1>2, <2>3, AllSentTurned, SameNumbers DEF SentSoFar
  <2> QED BY <1>2, <2>4, <2>5 DEF SentSoFar
<1> QED BY <1>5, <1>6, <1>7, <1>8, <1>9, RemoteMoves

-----------------------------------------------------------------------------
(* A target marked DONE                                                    *)

Over == {"details", "cleanup", "failed"}
Complete ==
    IF platform = "tiktok" THEN Len(remote) = 1 /\ remote[1].status # "AWAITING"
    ELSE Len(public) = Requested

LEMMA DoneParts ==
  DoneInv <=> (target = "DONE" => (\A x \in Left : x[1] \in Over) /\ Complete)
BY Zenon DEF DoneInv, Over, Complete

LEMMA DonePartsNext ==
  ASSUME target' = "DONE" => (\A x \in Left' : x[1] \in Over) /\ Complete' PROVE DoneInv'
BY DEF DoneInv, Over, Complete

\* The row is updated when the last thing was shown, or sent.
LEMMA DoneMarked ==
  ASSUME Basis, TypeOK, PublicInv, TikTokInv, At("done") PROVE Complete
<1>1. /\ Given /\ todo \in Seq(AnyStep) /\ Ordered(todo) /\ todo # <<>> /\ Head(todo)[1] = "done"
  BY DEF Basis, ShapeInv, At
<1>2. /\ Left = {Head(todo)} \cup After /\ \A y \in After : Follows(Head(todo), y)
  BY <1>1, Ahead, Zenon
<1>3. \A y \in After : y[1] \in {"details", "cleanup"}
  BY <1>1, <1>2 DEF Follows
<1>4. CASE platform = "tiktok"
  <2>1. SentSoFar
    BY <1>4, TikTokParts
  <2>2. Len(remote) = 1 /\ DOMAIN remote = {1}
    BY <1>1, <2>1, SentFirst, TypedRemote
  <2>3. Has(Left, {"done"}) /\ ~Has(Left, {"put"})
    BY <1>1, <1>2, <1>3 DEF Has
  <2>4. remote[1].status # "AWAITING"
    BY <2>1, <2>2, <2>3 DEF SentSoFar, AllSent, VideoSent
  <2> QED BY <1>4, <2>2, <2>4 DEF Complete
<1>5. CASE platform # "tiktok"
  <2>1. ShownSoFar
    BY <1>5, PublicParts
  <2>2. \A x \in Left : x[1] \notin Showing
    BY <1>1, <1>2, <1>3 DEF Showing
  <2>3. Has(Left, Showing \cup {"done"})
    BY <1>1, <1>2 DEF Has
  <2>4. \A i \in Len(public)..Requested - 1 : FALSE
    BY <2>1, <2>2, <2>3 DEF ShownSoFar, Covered
  <2>5. Len(public) \in Nat /\ Requested \in Nat
    BY <1>1, PostFacts, TypedPublic DEF Requested
  <2>6. Len(public) <= Requested
    BY <2>1 DEF ShownSoFar
  <2>7. Len(public) = Requested
    BY <2>4, <2>5, <2>6
  <2> QED BY <1>5, <2>7 DEF Complete
<1> QED BY <1>4, <1>5

\* What was complete stays so while only the details and the cleanup are left.
LEMMA CompleteStays ==
  ASSUME Basis, TypeOK, \A x \in Left : x[1] \in Over, Complete, [Next]_vars PROVE Complete'
<1>1. platform' = platform /\ post' = post /\ Requested' = Requested
  BY GivenStays, SameNumbers
<1>2. \A name : At(name) => name \in Over
  BY Ahead DEF Basis, ShapeInv, At
<1> HIDE DEF At
<1>3. ~(CreateContainer \/ CreateCarousel \/ Put \/ MediaPublish \/ Publish)
  <2>1. /\ ~At("item") /\ ~At("container") /\ ~At("reply") /\ ~At("init") /\ ~At("carousel")
        /\ ~At("put") /\ ~At("mediaPublish") /\ ~At("publish") /\ ~At("publishUrl")
    BY <1>2 DEF Over
  <2> QED BY <2>1, Zenon DEF CreateContainer, CreateCarousel, Put, MediaPublish, Publish
<1>4. CASE Platform
  <2>1. PICK c \in DOMAIN remote : ProcessContainer(c) \/ RefuseContainer(c)
    BY <1>4 DEF Platform
  <2>2. PICK status \in {"FINISHED", "ERROR"} : remote' = [remote EXCEPT ![c].status = status]
    BY <2>1 DEF ProcessContainer, RefuseContainer
  <2>3. Turns(c, status)
    BY <2>2, StatusSet, TypedRemote DEF Statuses
  <2>4. CASE platform = "tiktok"
    <3>1. Len(remote) = 1 /\ remote[1].status # "AWAITING" /\ 1 \in DOMAIN remote
      BY <2>4, TypedRemote, LenProperties DEF Complete
    <3>2. Len(remote') = 1 /\ remote'[1].status # "AWAITING"
      BY <2>3, <3>1 DEF Turns
    <3> QED BY <1>1, <2>4, <3>2 DEF Complete
  <2>5. CASE platform # "tiktok"
    <3>1. public' = public
      BY <2>1, <2>5 DEF ProcessContainer, RefuseContainer
    <3> QED BY <1>1, <2>5, <3>1 DEF Complete
  <2> QED BY <2>4, <2>5
<1>5. CASE ~Platform
  <2>1. remote' = remote
    BY <1>3, <1>5, RemoteMoves
  <2>2. public' = public
    BY <1>3, <1>5, PublicMoves
  <2> QED BY <1>1, <2>1, <2>2 DEF Complete
<1> QED BY <1>4, <1>5

LEMMA DoneNext ==
  ASSUME Basis, TypeOK, PublicInv, TikTokInv, DoneInv, [Next]_vars PROVE DoneInv'
<1>1. /\ Given /\ todo \in Seq(AnyStep) /\ Ordered(todo)
  BY DEF Basis, ShapeInv
<1> SUFFICES ASSUME target' = "DONE" PROVE (\A x \in Left' : x[1] \in Over) /\ Complete'
  BY DonePartsNext
<1>2. CASE target = "DONE"
  <2>1. (\A x \in Left : x[1] \in Over) /\ Complete
    BY <1>2, DoneParts
  <2>2. \A x \in Left' : x[1] \in Over
    <3>1. CASE Passes
      BY <2>1, <3>1, StepTaken
    <3>2. CASE Breaks \/ Dies
      BY <3>2, LeftOfUnwound DEF Step, Over
    <3>3. CASE Starts
      BY <1>1, <2>1, <3>3, Ahead DEF Starts, At, Over
    <3>4. CASE todo' = todo
      BY <2>1, <3>4 DEF Left
    <3> QED BY <3>1, <3>2, <3>3, <3>4, TodoMoves DEF Onward
  <2> QED BY <2>1, <2>2, CompleteStays
<1>3. CASE target # "DONE"
  <2>1. MarkDone /\ Passes
    <3>1. MarkDone
      BY <1>3, TargetMoves DEF FetchStatus, MarkFailed
    <3> QED BY <1>3, <3>1 DEF MarkDone, At, Throws, Advance, Passes
  <2>2. At("done") /\ remote' = remote /\ public' = public
    BY <2>1 DEF MarkDone, there
  <2>3. Complete'
    <3>1. Complete
      BY <2>2, DoneMarked
    <3>2. platform' = platform /\ Requested' = Requested
      BY GivenStays, SameNumbers
    <3> QED BY <2>2, <3>1, <3>2 DEF Complete
  <2>4. \A x \in Left' : x[1] \in Over
    <3>1. Left' = After /\ \A y \in After : Follows(Head(todo), y)
      BY <2>1, StepTaken
    <3> QED BY <2>2, <3>1 DEF Follows, At, Over
  <2> QED BY <2>3, <2>4
<1> QED BY <1>2, <1>3

-----------------------------------------------------------------------------
(* The types                                                               *)

LEMMA RemoteTyped ==
  ASSUME Basis, TypeOK, [Next]_vars PROVE remote' \in Seq(Containers)
<1>1. /\ Given /\ todo \in Seq(AnyStep) /\ Ordered(todo) /\ \A x \in Left : Fits(x)
  BY DEF Basis, ShapeInv
<1>2. \A name : At(name) => todo # <<>> /\ Head(todo)[1] = name /\ Fits(Head(todo))
  BY <1>1, Ahead DEF At
<1>3. remote \in Seq(Containers) /\ temps \subseteq 1..MaxAssets /\ held \in Seq(1..MaxAssets)
      /\ Assets \in Seq(1..MaxAssets)
  BY <1>1, TypedRemote, TypedAssets
<1>4. ASSUME NEW CONSTANT role \in {"item", "root", "reply"}, NEW media \in Seq(1..MaxAssets),
             NEW CONSTANT status \in Statuses, todo # <<>>, Create(role, media, status)
      PROVE remote' \in Seq(Containers)
  <2> DEFINE r == NewContainer(role, media, status)
  <2>1. r \in Containers
    BY <1>3, <1>4, NewTyped
  <2>2. remote' = remote \/ remote' = Append(remote, r)
    BY <1>4, Creates
  <2> HIDE DEF r
  <2>3. Append(remote, r) \in Seq(Containers)
    BY <1>3, <2>1, AppendProperties
  <2> QED BY <1>3, <2>2, <2>3, Zenon
<1>5. CASE CreateContainer
  <2>1. CASE At("item") /\ Create("item", <<Asset>>, "IN_PROGRESS")
    <3>1. Asset \in 1..MaxAssets
      BY <1>1, <1>2, <2>1, PostFacts, PublishersAssumption DEF Fits, Asset, PublishersAssumption
    <3>2. <<Asset>> \in Seq(1..MaxAssets) /\ todo # <<>>
      BY <1>2, <2>1, <3>1
    <3> QED BY <1>4, <2>1, <3>2 DEF Statuses
  <2>2. CASE At("container") /\ Create("root", Assets, "IN_PROGRESS")
    BY <1>2, <1>3, <1>4, <2>2 DEF Statuses
  <2>3. CASE At("reply") /\ Create("reply", <<>>, "IN_PROGRESS")
    <3>1. <<>> \in Seq(1..MaxAssets)
      OBVIOUS
    <3> QED BY <1>2, <1>4, <2>3, <3>1 DEF Statuses
  <2>4. CASE At("init") /\ Create("root", Assets, "AWAITING")
    BY <1>2, <1>3, <1>4, <2>4 DEF Statuses
  <2>5. CASE At("init") /\ Create("root", held, "IN_PROGRESS")
    BY <1>2, <1>3, <1>4, <2>5 DEF Statuses
  <2> QED BY <1>5, <2>1, <2>2, <2>3, <2>4, <2>5 DEF CreateContainer
<1>6. CASE CreateCarousel
  <2>1. todo # <<>> /\ (Create("root", held, "IN_PROGRESS") \/ remote' = remote)
    BY <1>2, <1>6 DEF CreateCarousel
  <2> QED BY <1>3, <1>4, <2>1 DEF Statuses
<1>7. CASE Put \/ MediaPublish \/ Platform
  <2>1. \/ remote' = remote
        \/ \E c : \E status \in Statuses : remote' = [remote EXCEPT ![c].status = status]
    <3>1. CASE Put
      <4>1. remote' = remote \/ remote' = [remote EXCEPT ![Newest].status = "IN_PROGRESS"]
        BY <3>1 DEF Put, Request
      <4> HIDE DEF Newest
      <4> QED BY <4>1, Zenon DEF Statuses
    <3>2. CASE MediaPublish
      <4>1. remote' = remote \/ remote' = [remote EXCEPT ![Newest].status = "PUBLISHED"]
        BY <3>2 DEF MediaPublish, Request, there
      <4> HIDE DEF Newest
      <4> QED BY <4>1, Zenon DEF Statuses
    <3>3. CASE Platform
      <4>1. PICK c \in DOMAIN remote : ProcessContainer(c) \/ RefuseContainer(c)
        BY <3>3 DEF Platform
      <4>2. PICK status \in {"FINISHED", "ERROR"} : remote' = [remote EXCEPT ![c].status = status]
        BY <4>1 DEF ProcessContainer, RefuseContainer
      <4> QED BY <4>2, Zenon DEF Statuses
    <3> QED BY <1>7, <3>1, <3>2, <3>3
  <2>2. CASE remote' # remote
    <3>1. PICK c, status : status \in Statuses /\ remote' = [remote EXCEPT ![c].status = status]
      BY <2>1, <2>2, Zenon
    <3>2. Turns(c, status)
      BY <1>3, <3>1, StatusSet
    <3> QED BY <3>2 DEF Turns
  <2> QED BY <1>3, <2>2
<1>8. CASE remote' = remote
  BY <1>3, <1>8
<1> QED BY <1>5, <1>6, <1>7, <1>8, RemoteMoves

LEMMA HeldTyped ==
  ASSUME Basis, TypeOK, [Next]_vars PROVE held' \in Seq(1..MaxAssets)
<1>1. /\ Given /\ todo \in Seq(AnyStep) /\ Ordered(todo) /\ \A x \in Left : Fits(x)
  BY DEF Basis, ShapeInv
<1>2. \A name : At(name) => todo # <<>> /\ Head(todo)[1] = name /\ Fits(Head(todo))
  BY <1>1, Ahead DEF At
<1>3. held \in Seq(1..MaxAssets) /\ 1..n \subseteq 1..MaxAssets
  BY <1>1, PostFacts, TypedRemote, PublishersAssumption DEF PublishersAssumption
<1>4. ASSUME Asset \in 1..n, held' = held \/ Collect PROVE held' \in Seq(1..MaxAssets)
  <2>1. Asset \in 1..MaxAssets
    BY <1>3, <1>4
  <2>2. Append(held, Asset) \in Seq(1..MaxAssets)
    BY <1>3, <2>1, AppendProperties
  <2> QED BY <1>3, <1>4, <2>2, Zenon DEF Collect
<1>5. CASE Pick
  <2>1. held' = held \/ held' = <<>> \/ \E i \in 1..n : held' = <<i>>
    BY <1>5 DEF Pick
  <2>2. \A i \in 1..n : <<i>> \in Seq(1..MaxAssets)
    BY <1>3
  <2>3. <<>> \in Seq(1..MaxAssets)
    OBVIOUS
  <2> QED BY <1>3, <2>1, <2>2, <2>3, Zenon
<1>6. CASE Resize
  <2>1. Asset \in 1..n
    BY <1>2, <1>6 DEF Resize, Fits, Asset
  <2> QED BY <1>4, <1>6, <2>1 DEF Resize
<1>7. CASE Upload
  <2>1. held' = held \/ (At("upload") /\ Collect)
    BY <1>7 DEF Upload, Request
  <2>2. At("upload") => Asset \in 1..n
    BY <1>2 DEF Fits, Asset
  <2> QED BY <1>3, <1>4, <2>1, <2>2, Zenon
<1>8. CASE CreateContainer
  <2>1. held' = held \/ (At("item") /\ Collect)
    BY <1>8 DEF CreateContainer
  <2>2. At("item") => Asset \in 1..n
    BY <1>2 DEF Fits, Asset
  <2> QED BY <1>3, <1>4, <2>1, <2>2, Zenon
<1>9. CASE held' = held
  BY <1>3, <1>9
<1> QED BY <1>5, <1>6, <1>7, <1>8, <1>9, HeldMoves, Zenon

LEMMA CopiesTyped ==
  ASSUME Basis, TypeOK, [Next]_vars PROVE temps' \subseteq 1..MaxAssets /\ store' \subseteq 1..MaxAssets
<1>1. /\ Given /\ todo \in Seq(AnyStep) /\ Ordered(todo) /\ \A x \in Left : Fits(x)
  BY DEF Basis, ShapeInv
<1>2. \A name : At(name) => todo # <<>> /\ Head(todo)[1] = name /\ Fits(Head(todo))
  BY <1>1, Ahead DEF At
<1>3. temps \subseteq 1..MaxAssets /\ store \subseteq 1..MaxAssets /\ 1..n \subseteq 1..MaxAssets
  BY <1>1, PostFacts, PublishersAssumption DEF PublishersAssumption, TypeOK
<1>4. CASE Resize \/ ProcessVideo
  <2>1. Asset \in 1..MaxAssets
    <3>1. Asset \in 1..n
      BY <1>2, <1>4 DEF Resize, ProcessVideo, Fits, Asset
    <3> QED BY <1>3, <3>1
  <2>2. CASE Resize
    BY <1>3, <2>1, <2>2 DEF Resize, here
  <2>3. CASE ProcessVideo
    BY <1>3, <2>1, <2>3 DEF ProcessVideo, here
  <2> QED BY <1>4, <2>2, <2>3
<1>5. CASE Cleanup
  <2>1. temps' = temps /\ store' \subseteq store
    BY <1>5 DEF Cleanup
  <2> QED BY <1>3, <2>1
<1>6. CASE store' = store /\ temps' = temps
  BY <1>3, <1>6
<1> QED BY <1>4, <1>5, <1>6, CopiesMove, Zenon

LEMMA PublicTyped ==
  ASSUME Basis, TypeOK, ReadyInv, [Next]_vars PROVE public' \in Seq(Posted)
<1>1. /\ Given /\ todo \in Seq(AnyStep) /\ Ordered(todo) /\ \A x \in Left : Fits(x)
  BY DEF Basis, ShapeInv
<1>2. /\ public \in Seq(Posted) /\ held \in Seq(1..MaxAssets) /\ Assets \in Seq(1..MaxAssets)
      /\ remote \in Seq(Containers)
  BY <1>1, TypedPublic, TypedRemote, TypedAssets
<1>3. ASSUME NEW role \in {"root", "reply"}, NEW media \in Seq(1..MaxAssets), Show(role, media)
      PROVE public' \in Seq(Posted)
  <2> DEFINE entry == [role |-> role, media |-> media]
  <2>1. entry \in Posted
    BY DEF Posted
  <2>2. public' = Append(public, entry)
    BY <1>3 DEF Show
  <2> HIDE DEF entry
  <2> QED BY <1>2, <2>1, <2>2, AppendProperties
<1>4. CASE Publish
  <2>1. public' = public \/ Show("root", held) \/ Show("root", Assets)
    BY <1>4 DEF Publish, Request
  <2> QED BY <1>2, <1>3, <2>1
<1>5. CASE MediaPublish
  <2>1. At("mediaPublish")
    BY <1>5 DEF MediaPublish
  <2>2. ReadyFor(Head(todo)[2])
    BY <2>1, ShownReady
  <2>3. remote[Newest] \in Containers /\ remote[Newest].role \in {"root", "reply"}
    BY <1>2, <2>2, EmptySeq, LenProperties, ElementOfSeq DEF ReadyFor, Newest
  <2>4. remote[Newest].media \in Seq(1..MaxAssets)
    BY <2>3 DEF Containers
  <2>5. public' = public \/ Show(remote[Newest].role, remote[Newest].media)
    BY <1>5 DEF MediaPublish, Request, there
  <2> QED BY <1>2, <1>3, <2>3, <2>4, <2>5
<1>6. CASE Platform
  <2>1. PICK c \in DOMAIN remote : ProcessContainer(c) \/ RefuseContainer(c)
    BY <1>6 DEF Platform
  <2>2. remote[c].media \in Seq(1..MaxAssets)
    <3>1. remote[c] \in Containers
      BY <1>2, ElementOfSeq, LenProperties
    <3> QED BY <3>1 DEF Containers
  <2>3. public' = public \/ Show("root", remote[c].media)
    BY <2>1 DEF ProcessContainer, RefuseContainer
  <2> QED BY <1>2, <1>3, <2>2, <2>3
<1>7. CASE public' = public
  BY <1>2, <1>7
<1> QED BY <1>4, <1>5, <1>6, <1>7, PublicMoves, Zenon

LEMMA HitTyped ==
  ASSUME hit \subseteq Faults \cup {"slow"}, [Next]_vars PROVE hit' \subseteq Faults \cup {"slow"}
<1> USE DEF Happens, Throws, Fails, Request
<1>1. CASE Start \/ Pick \/ CheckMedia \/ CheckFields \/ MeasureVideo \/ FindLocation
  BY <1>1 DEF Start, Pick, CheckMedia, CheckFields, MeasureVideo, FindLocation
<1>2. CASE AskCreator \/ EmbedLink \/ OpenUpload \/ UploadUrl \/ Resize \/ ProcessVideo
  BY <1>2 DEF AskCreator, EmbedLink, OpenUpload, UploadUrl, Resize, ProcessVideo
<1>3. CASE Upload \/ Cleanup \/ CreateContainer
  BY <1>3 DEF Upload, Cleanup, CreateContainer, Create
<1>4. CASE CreateCarousel \/ Put \/ GiveUp \/ PollAgain \/ PollEnds
  BY <1>4 DEF CreateCarousel, Create, Put, GiveUp, PollAgain, PollEnds
<1>5. CASE Publish \/ MediaPublish \/ FetchStatus \/ MarkDone \/ Details \/ MarkFailed \/ Crash
  BY <1>5 DEF Publish, MediaPublish, FetchStatus, MarkDone, Details, MarkFailed, Crash
<1>6. CASE Platform
  BY <1>6 DEF Platform, ProcessContainer, RefuseContainer
<1>7. CASE UNCHANGED vars
  BY <1>7 DEF vars
<1> QED BY <1>1, <1>2, <1>3, <1>4, <1>5, <1>6, <1>7, Zenon DEF Next, PublisherStep

LEMMA PollsTyped ==
  ASSUME polls \in 0..maxPolls, [Next]_vars PROVE polls' \in 0..maxPolls
<1>1. CASE GiveUp \/ PollAgain \/ PollEnds
  <2>1. maxPolls \in Nat
    BY PublishersAssumption DEF PublishersAssumption
  <2>2. polls' = 0 \/ (polls + 1 < maxPolls /\ polls' = polls + 1)
    BY <1>1, Zenon DEF GiveUp, PollAgain, PollEnds
  <2> QED BY <2>1, <2>2
<1>2. CASE Start \/ Pick \/ CheckMedia \/ CheckFields \/ MeasureVideo \/ FindLocation
  BY <1>2 DEF Start, Pick, CheckMedia, CheckFields, MeasureVideo, FindLocation
<1>3. CASE AskCreator \/ EmbedLink \/ OpenUpload \/ UploadUrl \/ Resize \/ ProcessVideo \/ Upload
  BY <1>3 DEF AskCreator, EmbedLink, OpenUpload, UploadUrl, Resize, ProcessVideo, Upload
<1>4. CASE Cleanup \/ CreateContainer \/ CreateCarousel \/ Put
  BY <1>4 DEF Cleanup, CreateContainer, CreateCarousel, Put
<1>5. CASE Publish \/ MediaPublish \/ FetchStatus \/ MarkDone \/ Details \/ MarkFailed \/ Crash
  BY <1>5 DEF Publish, MediaPublish, FetchStatus, MarkDone, Details, MarkFailed, Crash
<1>6. CASE Platform
  BY <1>6 DEF Platform, ProcessContainer, RefuseContainer
<1>7. CASE UNCHANGED vars
  BY <1>7 DEF vars
<1> QED BY <1>1, <1>2, <1>3, <1>4, <1>5, <1>6, <1>7, Zenon DEF Next, PublisherStep

LEMMA TypeNext ==
  ASSUME Basis, TypeOK, ReadyInv, [Next]_vars PROVE TypeOK'
<1>1. platform' = platform /\ post' = post
  BY GivenStays
<1>2. (platform \in Platforms /\ post \in Posts)'
  BY <1>1 DEF TypeOK, Posts, Media
<1>3. todo' \in Seq(StepNames \X Nat)
  BY BasisNext DEF Basis, AnyStep
<1>4. target' \in {"PENDING", "DONE", "FAILED"}
  BY TargetMoves DEF TypeOK, FetchStatus, MarkDone, MarkFailed
<1>5. remote' \in Seq(Containers) /\ public' \in Seq(Posted) /\ held' \in Seq(1..MaxAssets)
  BY RemoteTyped, PublicTyped, HeldTyped
<1>6. /\ temps' \subseteq 1..MaxAssets /\ store' \subseteq 1..MaxAssets
      /\ polls' \in 0..maxPolls /\ hit' \subseteq Faults \cup {"slow"}
  BY CopiesTyped, PollsTyped, HitTyped DEF TypeOK
<1> QED BY <1>2, <1>3, <1>4, <1>5, <1>6 DEF TypeOK, Containers, Posted, Statuses

-----------------------------------------------------------------------------
(* A target is marked FAILED for a cause                                   *)

Caused == hit # {} \/ ~Accepts \/ Excused
Ended == {"failed", "cleanup"}

Unhurt == hit = {} /\ ~Fallen /\ ~Excused

LEMMA CauseParts == CauseInv <=> (Fallen => Caused /\ \A x \in Left : x[1] \in Ended)
BY Zenon DEF CauseInv, Caused, Ended

LEMMA SmoothParts == SmoothInv <=> (Unhurt => Smooth(Left))
BY Zenon DEF SmoothInv, Unhurt

LEMMA CausePartsNext ==
  ASSUME Fallen' => Caused' /\ \A x \in Left' : x[1] \in Ended PROVE CauseInv'
BY DEF CauseInv, Caused, Ended

LEMMA SmoothPartsNext ==
  ASSUME Unhurt' => Smooth(Left)' PROVE SmoothInv'
BY Zenon DEF SmoothInv, Unhurt

LEMMA ExcusedStays ==
  ASSUME platform' = platform, post' = post PROVE Excused' = Excused
BY DEF Excused

\* The cause stays.
LEMMA CausedStays ==
  ASSUME Basis, Caused, ~Pick, [Next]_vars PROVE Caused'
<1>1. hit \subseteq hit' /\ Accepts' = Accepts /\ Excused' = Excused
  BY HitGrows, AcceptsStays, GivenStays, ExcusedStays
<1>2. CASE hit # {}
  BY <1>1, <1>2 DEF Caused
<1>3. CASE ~Accepts
  <2>1. ~Accepts'
    BY <1>1, <1>3, Zenon
  <2> QED BY <2>1 DEF Caused
<1>4. CASE Excused
  <2>1. Excused'
    BY <1>1, <1>4, Zenon
  <2> QED BY <2>1 DEF Caused
<1> QED BY <1>2, <1>3, <1>4 DEF Caused

\* A wait is for containers that were made.
LEMMA WaitedFor ==
  ASSUME Basis, TypeOK, ReadyInv PROVE \A c \in Awaited : c \in DOMAIN remote
<1>1. CASE At("wait")
  <2> DEFINE h == Head(todo)
  <2>1. MadeForIt(Left) /\ WaitedForOne(Left)
    BY ReadyParts
  <2>2. /\ Left = {h} \cup After /\ h \in AnyStep
        /\ \A y \in After : Follows(h, y) /\ y \in AnyStep
    BY <1>1, Ahead, Zenon DEF Basis, ShapeInv, At
  <2>3. h[1] = "wait" /\ h[2] \in Nat /\ \A y \in After : y[2] \in Nat
    BY <1>1, <2>2 DEF AnyStep, At
  <2>4. \A y \in After : y[1] \in RootMakers => h[2] < y[2]
    BY <2>2, <2>3 DEF Follows, Phase, RootMakers
  <2> HIDE DEF h
  <2>5. ~HasNumbered(Left, RootMakers, h[2])
    BY <2>2, <2>3, <2>4 DEF HasNumbered, RootMakers
  <2>6. PICK x \in Left : x[1] = "mediaPublish" /\ x[2] = h[2]
    BY <2>1, <2>2, <2>3 DEF WaitedForOne, HasNumbered
  <2>7. remote # <<>>
    BY <2>1, <2>5, <2>6 DEF MadeForIt, ReadyFor
  <2>8. Newest \in DOMAIN remote
    BY <2>7, TypedRemote, EmptySeq, LenProperties DEF Newest
  <2> QED BY <1>1, <2>8 DEF Awaited, At
<1>2. CASE ~At("wait")
  BY <1>2 DEF Awaited, Items
<1> QED BY <1>1, <1>2

\* A carousel is asked for when its items are finished.
LEMMA ItemsFinished ==
  ASSUME Basis, Smooth(Left), At("carousel") PROVE \A c \in Items : Finished(c)
<1>1. /\ Left = {Head(todo)} \cup After /\ \A y \in After : Follows(Head(todo), y)
  BY Ahead, Zenon DEF Basis, ShapeInv, At
<1>2. ~Has(Left, {"waitItems"}) /\ Has(Left, {"carousel"})
  BY <1>1 DEF Follows, Has, At, RootMakers
<1> QED BY <1>2 DEF Smooth, ItemsMade

\* A publisher throws because of something outside, or because of its post.
LEMMA ThrowsForCause ==
  ASSUME Basis, TypeOK, ReadyInv, TikTokInv, SmoothInv, ~Fallen, [Next]_vars,
         Has(Left', {"failed"}), ~(hit' # {} \/ Excused)
  PROVE CheckMedia /\ ~Accepts
<1>1. hit = {} /\ hit' = {} /\ ~Excused /\ Smooth(Left)
  BY HitGrows, SmoothParts DEF Unhurt
<1>2. /\ Given /\ todo \in Seq(AnyStep) /\ Ordered(todo) /\ \A x \in Left : Fits(x)
      /\ ~Has(Left, {"failed"})
  BY DEF Basis, ShapeInv, Fallen
<1>3. ~Passes /\ todo' # todo /\ Left' # Left
  <2>1. Left' # Left
    BY <1>2 DEF Left
  <2>2. ~Passes
    <3>1. Passes => Left = {Head(todo)} \cup After /\ Left' = After
      BY StepTaken
    <3> QED BY <1>2, <3>1 DEF Has
  <2>3. todo' # todo
    BY <2>1 DEF Left
  <2> QED BY <2>1, <2>2, <2>3
<1>4. todo' # Steps
  <2>1. ~Has(ToSet(Steps), {"failed"})
    BY <1>2, StepsWhole, Zenon DEF Whole, Named, Has
  <2> QED BY <2>1 DEF Left
<1>5. \A name : At(name) => todo # <<>> /\ Head(todo)[1] = name /\ Head(todo) \in Left /\ Fits(Head(todo))
  BY <1>2, Ahead DEF At
<1>6. \A kind : ~Happens(kind)
  BY <1>1 DEF Happens
<1>7. ~(todo # <<>> /\ Advance)
  BY <1>3 DEF Advance, Passes
<1>8. ASSUME todo # <<>> PROVE ~Throws(FALSE) /\ \A kind : ~Fails(kind)
  BY <1>6, <1>7, <1>8 DEF Throws, Fails
<1>9. ASSUME NEW Effect, NEW Nothing, todo # <<>> PROVE ~Request(Effect, Nothing)
  BY <1>7, <1>8, <1>9 DEF Request
<1>10. todo # <<>> => post.complete /\ ~Throws(~post.complete)
  BY <1>1, <1>7 DEF Excused, Throws
<1> HIDE DEF Throws, Fails, Request, Advance, Happens
<1>11. ~(Start \/ Pick \/ CheckFields \/ MeasureVideo)
  BY <1>4, <1>5, <1>8, <1>10, Zenon DEF Start, Pick, CheckFields, MeasureVideo
<1>12. ~(FindLocation \/ AskCreator \/ EmbedLink \/ OpenUpload)
  BY <1>5, <1>7, <1>9, <1>10, Zenon DEF FindLocation, AskCreator, EmbedLink, OpenUpload
<1>13. ~UploadUrl
  BY <1>1, <1>5 DEF UploadUrl, Fits, Excused
<1>14. ~(Resize \/ ProcessVideo \/ Cleanup)
  BY <1>5, <1>7, <1>8, Zenon DEF Resize, ProcessVideo, Cleanup
<1>15. ~Upload
  BY <1>5, <1>8, <1>9, Zenon DEF Upload
<1>16. ~CreateContainer
  BY <1>5, <1>9, Zenon DEF CreateContainer, Create
<1>17. ~CreateCarousel
  <2>1. At("carousel") => \A c \in Items : Finished(c)
    BY <1>1, ItemsFinished
  <2> QED BY <1>5, <1>9, <2>1, Zenon DEF CreateCarousel, Create
<1>18. ~(Put \/ Publish \/ Details)
  BY <1>5, <1>8, <1>9, Zenon DEF Put, Publish, Details
<1>19. ~(GiveUp \/ PollAgain \/ PollEnds)
  <2>1. ~GiveUp
    BY <1>1 DEF GiveUp
  <2>2. ~PollAgain
    BY <1>3 DEF PollAgain
  <2>3. ~PollEnds
    <3>1. \A c \in Awaited : remote[c].status # "ERROR"
      BY <1>1, WaitedFor DEF Smooth, Pullable
    <3>2. Awaited # {} => todo # <<>>
      BY DEF Awaited, At
    <3> QED BY <1>8, <3>1, <3>2, Zenon DEF PollEnds
  <2> QED BY <2>1, <2>2, <2>3
<1>20. ~MediaPublish
  BY <1>5, <1>9, ShownReady, Zenon DEF MediaPublish
<1>21. ~FetchStatus
  <2>1. At("status") => platform = "tiktok"
    BY <1>5 DEF Fits
  <2>2. At("status") => Newest \in DOMAIN remote
    BY <1>5, <2>1, SentFirst, TikTokParts, TypedRemote
  <2>3. At("status") => remote[Newest].status # "ERROR"
    BY <1>1, <2>2 DEF Smooth, Pullable
  <2> QED BY <1>5, <1>8, <2>3, Zenon DEF FetchStatus
<1>22. ~(MarkDone \/ MarkFailed)
  <2>1. ~MarkDone
    BY <1>5, <1>8, Zenon DEF MarkDone
  <2>2. ~MarkFailed
    BY <1>5, <1>7, Zenon DEF MarkFailed
  <2> QED BY <2>1, <2>2
<1>23. ~(Crash \/ Platform \/ UNCHANGED vars)
  <2>1. ~Crash
    BY <1>6, Zenon DEF Crash
  <2>2. ~Platform
    BY <1>3, Zenon DEF Platform, ProcessContainer, RefuseContainer
  <2>3. ~UNCHANGED vars
    BY <1>3 DEF vars
  <2> QED BY <2>1, <2>2, <2>3
<1>24. CheckMedia
  BY <1>11, <1>12, <1>13, <1>14, <1>15, <1>16, <1>17, <1>18, <1>19, <1>20, <1>21, <1>22, <1>23, Zenon
     DEF Next, PublisherStep
<1> QED BY <1>5, <1>7, <1>24 DEF CheckMedia, Throws

LEMMA CauseNext ==
  ASSUME Basis, TypeOK, ReadyInv, TikTokInv, SmoothInv, CauseInv, [Next]_vars PROVE CauseInv'
<1>1. /\ Given /\ todo \in Seq(AnyStep) /\ Ordered(todo)
  BY DEF Basis, ShapeInv
<1> SUFFICES ASSUME Fallen' PROVE Caused' /\ \A x \in Left' : x[1] \in Ended
  BY CausePartsNext
<1>2. \A name : At(name) => todo # <<>> /\ Head(todo)[1] = name /\ Head(todo) \in Left
  BY <1>1, Ahead DEF At
<1>3. CASE Fallen
  <2>1. Caused /\ \A x \in Left : x[1] \in Ended
    BY <1>3, CauseParts
  <2>2. ~Pick
    <3>1. ~At("pick")
      BY <1>2, <2>1 DEF Ended
    <3> QED BY <3>1, Zenon DEF Pick
  <2>3. \A x \in Left' : x[1] \in Ended
    <3>1. CASE Passes
      BY <2>1, <3>1, StepTaken
    <3>2. CASE Breaks \/ Dies
      BY <3>2, LeftOfUnwound DEF Step, Ended
    <3>3. CASE Starts
      BY <1>2, <2>1, <3>3 DEF Starts, Ended
    <3>4. CASE todo' = todo
      BY <2>1, <3>4 DEF Left
    <3> QED BY <3>1, <3>2, <3>3, <3>4, TodoMoves DEF Onward
  <2> QED BY <2>1, <2>2, <2>3, CausedStays
<1>4. CASE ~Fallen
  <2>1. Has(Left', {"failed"}) /\ (Breaks \/ Dies)
    <3>1. target' = "FAILED" => FetchStatus /\ Throws(TRUE)
      <4>1. ~MarkFailed
        BY <1>2, <1>4 DEF MarkFailed, Fallen, Has
      <4> QED BY <1>4, <4>1, TargetMoves DEF Fallen, MarkDone, FetchStatus
    <3>2. FetchStatus /\ Throws(TRUE) => Breaks
      BY <1>2 DEF FetchStatus, Throws, Throw, Breaks
    <3>3. Breaks => Has(Left', {"failed"})
      <4>1. Step("failed") \in Undone /\ Step("failed")[1] = "failed"
        BY Unwinds DEF Step
      <4>2. Breaks => Left' = Undone
        BY DEF Breaks, Left, Undone
      <4> QED BY <4>1, <4>2 DEF Has
    <3>4. Has(Left', {"failed"})
      BY <3>1, <3>2, <3>3 DEF Fallen
    <3>5. ~Passes
      <4>1. Passes => Left = {Head(todo)} \cup After /\ Left' = After
        BY StepTaken
      <4> QED BY <1>4, <3>4, <4>1 DEF Has, Fallen
    <3>6. ~Starts
      <4>1. ~Has(ToSet(Steps), {"failed"})
        BY <1>1, StepsWhole, Zenon DEF Whole, Named, Has
      <4> QED BY <3>4, <4>1 DEF Left, Starts
    <3>7. todo' # todo
      BY <1>4, <3>4 DEF Left, Fallen
    <3> QED BY <3>4, <3>5, <3>6, <3>7, TodoMoves DEF Onward
  <2>2. \A x \in Left' : x[1] \in Ended
    BY <2>1, LeftOfUnwound DEF Step, Ended
  <2>3. Caused'
    <3>1. CASE hit' # {}
      BY <3>1 DEF Caused
    <3>2. CASE Excused
      BY <3>2, GivenStays, ExcusedStays DEF Caused
    <3>3. CASE ~(hit' # {} \/ Excused)
      <4>1. CheckMedia /\ ~Accepts
        BY <1>4, <2>1, <3>3, ThrowsForCause
      <4>2. ~Pick
        <5>1. At("accept")
          BY <4>1, Zenon DEF CheckMedia
        <5>2. ~At("pick")
          BY <5>1 DEF At
        <5> QED BY <5>2, Zenon DEF Pick
      <4> QED BY <4>1, <4>2, CausedStays DEF Caused
    <3> QED BY <3>1, <3>2, <3>3
  <2> QED BY <2>2, <2>3
<1> QED BY <1>3, <1>4

-----------------------------------------------------------------------------
(* While nothing adverse happens, nothing goes wrong                       *)

Watched == {"waitItems", "mediaPublish"} \cup RootMakers

\* A step that changes no container.
LEMMA SmoothPassed ==
  ASSUME Basis, Smooth(Left), platform' = platform, Passes, Head(todo)[1] \notin Watched, remote' = remote,
         CopiesKept(Left)', Pullable', TikTokCopies'
  PROVE Smooth(Left)'
<1>1. Left = {Head(todo)} \cup After /\ Left' = After
  BY StepTaken
<1>2. \A N : Has(After, N) => Has(Left, N)
  BY <1>1 DEF Has
<1>3. /\ Has(Left, {"waitItems"}) => Has(After, {"waitItems"})
      /\ Has(Left, {"mediaPublish"}) => Has(After, {"mediaPublish"})
      /\ Has(Left, RootMakers) => Has(After, RootMakers)
  BY <1>1 DEF Has, Watched
<1>4. FirstMade(Left)'
  BY <1>1, <1>2 DEF Smooth, FirstMade
<1>5. ItemsMade(Left)'
  BY <1>1, <1>2, <1>3 DEF Smooth, ItemsMade, Items, Finished
<1>6. LastMade(Left)'
  <2>1. LastMade(After)
    BY <1>2, <1>3 DEF Smooth, LastMade
  <2> QED BY <1>1, <2>1 DEF LastMade, Newest, Pulling
<1>7. CleanedLast(Left)'
  <2>1. CleanedLast(After)
    BY <1>2, <1>3 DEF Smooth, CleanedLast
  <2> QED BY <1>1, <2>1 DEF CleanedLast, Pulling
<1> QED BY <1>4, <1>5, <1>6, <1>7 DEF Smooth

LEMMA SmoothQuiet ==
  ASSUME Basis, Smooth(Left), platform' = platform, post' = post, remote' = remote, store' = store, temps' = temps,
         Quiet(Watched), ~Has(Left', {"failed"}), "crash" \notin hit'
  PROVE Smooth(Left)'
<1>1. Given /\ todo \in Seq(AnyStep) /\ Ordered(todo)
      /\ (Has(Left, {"start"}) => remote = <<>> /\ store = {} /\ temps = {})
  BY DEF Basis, ShapeInv
<1>2. Pullable' /\ TikTokCopies'
  BY DEF Smooth, Pullable, TikTokCopies, Pulling
<1>3. CASE Passes /\ Head(todo)[1] \notin Watched
  <2>1. CopiesKept(Left)'
    <3>1. Left = {Head(todo)} \cup After /\ Left' = After
      BY <1>3, StepTaken
    <3> QED BY <3>1 DEF Smooth, CopiesKept, Late
  <2> QED BY <1>2, <1>3, <2>1, SmoothPassed
<1>4. ~Breaks
  <2>1. Step("failed") \in Undone /\ Step("failed")[1] = "failed"
    BY Unwinds DEF Step
  <2>2. Breaks => Left' = Undone
    BY DEF Breaks, Left, Undone
  <2> QED BY <2>1, <2>2 DEF Has
<1>5. CASE Starts
  <2>1. remote = <<>> /\ store = {} /\ temps = {} /\ Left' = ToSet(Steps)
    BY <1>1, <1>5, Ahead DEF Starts, At, Has, Left
  <2>2. Cleans(ToSet(Steps))
    BY <1>1, StepsWhole, Zenon DEF Whole
  <2> HIDE DEF Steps
  <2>3. CopiesKept(Left)' /\ FirstMade(Left)'
    BY <2>1 DEF CopiesKept, FirstMade
  <2>4. ItemsMade(Left)'
    BY <2>1, <2>2 DEF ItemsMade, Cleans
  <2>5. LastMade(Left)' /\ CleanedLast(Left)'
    BY <2>1, <2>2 DEF LastMade, CleanedLast, Cleans
  <2> QED BY <1>2, <2>3, <2>4, <2>5 DEF Smooth
<1>6. CASE todo' = todo
  <2>1. Left' = Left /\ Items' = Items /\ Newest' = Newest
    BY <1>6 DEF Left, Items, Newest
  <2>2. CopiesKept(Left)' /\ FirstMade(Left)'
    BY <2>1 DEF Smooth, CopiesKept, Late, FirstMade
  <2>3. ItemsMade(Left)'
    BY <2>1 DEF Smooth, ItemsMade, Finished
  <2>4. LastMade(Left)' /\ CleanedLast(Left)'
    BY <2>1 DEF Smooth, LastMade, CleanedLast, Pulling
  <2> QED BY <1>2, <2>2, <2>3, <2>4 DEF Smooth
<1> QED BY <1>3, <1>4, <1>5, <1>6 DEF Quiet, Dies

\* The carousel's items were waited for.
LEMMA SmoothWaited ==
  ASSUME Basis, Smooth(Left), platform' = platform, remote' = remote, store' = store, temps' = temps,
         Passes, Head(todo)[1] = "waitItems", \A c \in Items : Finished(c)
  PROVE Smooth(Left)'
<1>1. /\ Left = {Head(todo)} \cup After /\ Left' = After
      /\ \A y \in After : Follows(Head(todo), y)
  BY StepTaken
<1>2. /\ \A N : Has(After, N) => Has(Left, N)
      /\ ~Has(After, {"item"})
  BY <1>1 DEF Has, Follows
<1>3. /\ Has(Left, {"mediaPublish"}) => Has(After, {"mediaPublish"})
      /\ Has(Left, RootMakers) => Has(After, RootMakers)
  BY <1>1 DEF Has, RootMakers
<1>4. Pullable' /\ TikTokCopies' /\ CopiesKept(Left)' /\ FirstMade(Left)'
  BY <1>1, <1>2 DEF Smooth, Pullable, TikTokCopies, CopiesKept, Late, FirstMade, Pulling
<1>5. ItemsMade(Left)'
  BY <1>1, <1>2, <1>3 DEF Smooth, ItemsMade, Items, Finished
<1>6. LastMade(Left)'
  <2>1. LastMade(After)
    BY <1>2, <1>3 DEF Smooth, LastMade
  <2> QED BY <1>1, <2>1 DEF LastMade, Newest, Pulling
<1>7. CleanedLast(Left)'
  <2>1. CleanedLast(After)
    BY <1>2, <1>3 DEF Smooth, CleanedLast
  <2> QED BY <1>1, <2>1 DEF CleanedLast, Pulling
<1> QED BY <1>4, <1>5, <1>6, <1>7 DEF Smooth

\* Every photo that is resized is there to be pulled.
LEMMA SmoothResized ==
  ASSUME Basis, Smooth(Left), platform' = platform, post' = post, Resize, Passes, hit' = {}, ~Excused
  PROVE Smooth(Left)'
<1>1. Fits(Head(todo)) /\ Head(todo)[1] = "resize" /\ remote' = remote
  BY StepTaken DEF Resize, At, there
<1>2. platform \in {"facebook", "tiktok"}
  BY <1>1 DEF Fits
<1>3. store' = store \cup ({Asset} \cap post.unfit) /\ temps' = temps \cup ({Asset} \cap post.unfit)
  <2>1. \A kind : ~Fails(kind)
    BY DEF Fails, Happens
  <2> QED BY <2>1 DEF Resize
<1>4. Head(todo) \in Left
  BY StepTaken
<1>5. temps \subseteq store
  BY <1>1, <1>4 DEF Smooth, CopiesKept, Late
<1>6. CopiesKept(Left)'
  BY <1>3, <1>5 DEF CopiesKept
<1>7. Pullable' /\ TikTokCopies'
  <2>1. CASE platform = "facebook"
    <3>1. remote = <<>>
      BY <2>1 DEF Smooth, FirstMade
    <3> QED BY <1>1, <2>1, <3>1 DEF Pullable, TikTokCopies
  <2>2. CASE platform = "tiktok"
    <3>1. post.unfit = {}
      BY <2>2 DEF Excused
    <3>2. store' = store /\ temps' = temps
      BY <1>3, <3>1
    <3> QED BY <1>1, <3>2 DEF Smooth, Pullable, TikTokCopies, Pulling
  <2> QED BY <1>2, <2>1, <2>2
<1> QED BY <1>1, <1>6, <1>7, SmoothPassed DEF Watched, RootMakers

\* The video is processed before a container names it.
LEMMA SmoothProcessed ==
  ASSUME Basis, Smooth(Left), platform' = platform, ProcessVideo, Passes, hit' = {}
  PROVE Smooth(Left)'
<1>1. Fits(Head(todo)) /\ Head(todo)[1] = "process" /\ remote' = remote /\ Head(todo) \in Left
  BY StepTaken DEF ProcessVideo, At, there
<1>2. platform = "instagram"
  BY <1>1 DEF Fits
<1>3. store' = {Asset} /\ temps' = {Asset}
  BY DEF ProcessVideo, Happens
<1>4. remote = <<>>
  BY <1>1, <1>2 DEF Smooth, FirstMade, Has
<1>5. CopiesKept(Left)' /\ Pullable' /\ TikTokCopies'
  BY <1>1, <1>2, <1>3, <1>4 DEF CopiesKept, Pullable, TikTokCopies
<1> QED BY <1>1, <1>5, SmoothPassed DEF Watched, RootMakers

\* The copies are deleted when no container is to be pulled any more.
LEMMA SmoothCleaned ==
  ASSUME Basis, Smooth(Left), platform' = platform, Cleanup, Passes, hit' = {}, ~Has(Left', {"failed"})
  PROVE Smooth(Left)'
<1>1. /\ Left = {Head(todo)} \cup After /\ Left' = After /\ Fits(Head(todo))
      /\ \A y \in After : Follows(Head(todo), y)
      /\ Head(todo)[1] = "cleanup" /\ remote' = remote
  BY StepTaken DEF Cleanup, At, there
<1>2. platform \in {"facebook", "instagram", "tiktok"}
  BY <1>1 DEF Fits
<1>3. store' = store \ temps /\ temps' = temps
  BY DEF Cleanup, Happens
<1>4. \A y \in After : y[1] \in {"status", "done"}
  BY <1>1 DEF Follows, Has
<1>5. CopiesKept(Left)'
  BY <1>1, <1>4 DEF CopiesKept, Late
<1>6. Pullable' /\ TikTokCopies'
  <2>1. CASE platform = "facebook"
    <3>1. remote = <<>>
      BY <2>1 DEF Smooth, FirstMade
    <3> QED BY <1>1, <2>1, <3>1 DEF Pullable, TikTokCopies
  <2>2. CASE platform = "tiktok"
    <3>1. store' = store
      BY <1>3, <2>2 DEF Smooth, TikTokCopies
    <3> QED BY <1>1, <1>3, <3>1 DEF Smooth, Pullable, TikTokCopies, Pulling
  <2>3. CASE platform = "instagram"
    <3>1. Has(Left, {"cleanup"}) /\ ~Has(Left, {"mediaPublish"})
      BY <1>1, <1>4 DEF Has
    <3>2. \A c \in DOMAIN remote : ~Pulling(c)
      BY <2>3, <3>1 DEF Smooth, CleanedLast
    <3> QED BY <1>1, <2>3, <3>2 DEF Smooth, Pullable, TikTokCopies, Pulling
  <2> QED BY <1>2, <2>1, <2>2, <2>3
<1> QED BY <1>1, <1>5, <1>6, SmoothPassed DEF Watched, RootMakers

\* What a container leaves to be done.
LEMMA AfterMaker ==
  ASSUME Basis, Passes, Head(todo)[1] \in Makers
  PROVE /\ ~Has(After, {"process"}) /\ platform \in {"instagram", "threads", "tiktok"}
        /\ platform = "instagram" => ~Has(After, {"container"})
        /\ Has(After, {"carousel"}) => Head(todo)[1] = "item"
        /\ platform = "instagram" /\ Head(todo)[1] # "item" =>
             Head(todo)[1] \in {"container", "carousel"} /\ ~Has(After, Makers)
<1>1. /\ Fits(Head(todo)) /\ Head(todo) \in AnyStep
      /\ \A y \in After : Follows(Head(todo), y) /\ Fits(y) /\ y \in AnyStep
  BY StepTaken
<1> DEFINE h == Head(todo)
<1>2. h[1] \in Makers /\ h[2] \in Nat /\ \A y \in After : y[2] \in Nat
  BY <1>1 DEF AnyStep
<1>3. platform \in {"instagram", "threads", "tiktok"} /\ ~Has(After, {"process"})
  BY <1>1 DEF Fits, Makers, RootMakers, Follows, Has
<1>4. ASSUME NEW y \in After, y[1] \in {"container", "carousel"}, h[1] # "item"
      PROVE platform = "tiktok"
  <2>1. /\ Fits(h) /\ Fits(y) /\ Follows(h, y) /\ y[2] \in Nat
    BY <1>1, <1>2, <1>4
  <2>2. y[2] = 0
    BY <1>4, <2>1 DEF Fits
  <2> HIDE DEF h
  <2>3. CASE h[1] \in RootMakers
    <3>1. h[2] < y[2]
      BY <1>4, <2>1, <2>3 DEF Follows, Phase, RootMakers
    <3> QED BY <1>2, <2>2, <3>1
  <2>4. CASE h[1] = "init"
    BY <2>1, <2>4 DEF Fits
  <2> QED BY <1>2, <1>4, <2>3, <2>4 DEF Makers
<1>5. ASSUME platform = "instagram" PROVE ~Has(After, {"container"})
  <2>1. CASE h[1] = "item"
    <3>1. n > 1
      BY <1>1, <2>1 DEF Fits
    <3>2. \A y \in After : y[1] = "container" => n <= 1
      BY <1>1 DEF Fits
    <3>3. n \in Nat
      BY PostFacts DEF Basis
    <3> QED BY <3>1, <3>2, <3>3 DEF Has
  <2>2. CASE h[1] # "item"
    BY <1>4, <1>5, <2>2 DEF Has
  <2> QED BY <2>1, <2>2
<1>6. ASSUME Has(After, {"carousel"}) PROVE h[1] = "item"
  <2>1. PICK y \in After : y[1] = "carousel"
    BY <1>6 DEF Has
  <2>2. platform \in {"instagram", "threads"}
    BY <1>1, <2>1 DEF Fits
  <2> QED BY <1>4, <2>1, <2>2
<1>7. ASSUME platform = "instagram", h[1] # "item"
      PROVE h[1] \in {"container", "carousel"} /\ ~Has(After, Makers)
  <2>1. h[1] \in {"container", "carousel"}
    BY <1>1, <1>2, <1>7 DEF Fits, Makers, RootMakers
  <2>2. \A y \in After : y[1] \notin Makers
    <3>1. SUFFICES ASSUME NEW y \in After, y[1] \in Makers PROVE FALSE
      OBVIOUS
    <3>2. Fits(y) /\ Follows(h, y)
      BY <1>1, <3>1
    <3>3. y[1] \in {"item", "container", "carousel"}
      BY <1>7, <3>1, <3>2 DEF Fits, Makers, RootMakers
    <3>4. CASE y[1] = "item"
      BY <2>1, <3>2, <3>4 DEF Follows, RootMakers
    <3>5. CASE y[1] \in {"container", "carousel"}
      BY <1>4, <1>7, <3>5
    <3> QED BY <3>3, <3>4, <3>5
  <2> QED BY <2>1, <2>2 DEF Has
<1> QED BY <1>3, <1>5, <1>6, <1>7

LEMMA SmoothAdds ==
  ASSUME Basis, Smooth(Left), remote \in Seq(Containers), platform' = platform, store' = store, temps' = temps,
         Passes, Head(todo)[1] \in Makers,
         NEW r, Adds(r), r.status # "ERROR", r.copies \subseteq temps,
         Head(todo)[1] = "item" => r.role = "item",
         Head(todo)[1] = "carousel" => \A c \in DOMAIN remote : ~Pulling(c)
  PROVE Smooth(Left)'
<1> DEFINE h == Head(todo)
<1>1. /\ Left = {h} \cup After /\ Left' = After /\ Fits(h)
  BY StepTaken
<1>2. \A N : Has(After, N) => Has(Left, N)
  BY <1>1 DEF Has
<1>3. /\ ~Has(After, {"process"}) /\ platform \in {"instagram", "threads", "tiktok"}
      /\ platform = "instagram" => ~Has(After, {"container"})
      /\ Has(After, {"carousel"}) => h[1] = "item"
      /\ platform = "instagram" /\ h[1] # "item" => h[1] \in {"container", "carousel"} /\ ~Has(After, Makers)
  BY AfterMaker
<1>4. h[1] \in Makers /\ Has(Left, Makers)
  BY <1>1 DEF Has
<1>5. Len(remote) \in Nat /\ DOMAIN remote = 1..Len(remote) /\ DOMAIN remote' = 1..Len(remote) + 1
      /\ Len(remote') = Len(remote) + 1
      /\ remote'[Len(remote) + 1] = r /\ \A c \in DOMAIN remote : remote'[c] = remote[c]
  BY LenProperties DEF Adds
<1> DEFINE a == Len(remote) + 1
<1>6. DOMAIN remote' = DOMAIN remote \cup {a}
  BY <1>5
<1>7. remote'[a] = r /\ \A c \in DOMAIN remote : remote'[c] = remote[c]
  BY <1>5
<1>8. Newest' = a
  BY <1>5 DEF Newest
<1> HIDE DEF a, h
<1>9. temps \subseteq store
  <2>1. h[1] \notin Late
    BY <1>4 DEF Makers, RootMakers, Late
  <2> QED BY <1>1, <2>1 DEF Smooth, CopiesKept
<1>10. CopiesKept(Left)'
  BY <1>9 DEF CopiesKept
<1>11. Pullable'
  BY <1>6, <1>7, <1>9 DEF Smooth, Pullable, Pulling
<1>12. TikTokCopies'
  BY <1>6, <1>7 DEF Smooth, TikTokCopies
<1>13. FirstMade(Left)'
  BY <1>1, <1>3 DEF FirstMade, Has
<1>14. ItemsMade(Left)'
  <2>1. SUFFICES ASSUME Has(After, {"carousel"})
                 PROVE (\A c \in DOMAIN remote' : remote'[c].role = "item") /\ Has(After, {"waitItems"})
    BY <1>1 DEF ItemsMade
  <2>2. h[1] = "item" /\ r.role = "item"
    BY <1>3, <2>1 DEF h
  <2>3. Has(Left, {"item"}) /\ Has(Left, {"carousel"})
    BY <1>1, <1>2, <2>1, <2>2 DEF Has
  <2>4. (\A c \in DOMAIN remote : remote[c].role = "item") /\ Has(Left, {"waitItems"})
    BY <2>3 DEF Smooth, ItemsMade
  <2>5. Has(After, {"waitItems"})
    BY <1>1, <2>2, <2>4 DEF Has
  <2> QED BY <1>6, <1>7, <2>2, <2>4, <2>5
<1>15. LastMade(Left)'
  <2>1. SUFFICES ASSUME platform = "instagram", Has(After, {"mediaPublish"})
                 PROVE \/ Has(After, RootMakers)
                       \/ ~Has(After, Makers) /\ (\A c \in DOMAIN remote : c # Newest => ~Pulling(c))'
    BY <1>1 DEF LastMade
  <2>2. CASE h[1] = "item"
    <3>1. Has(Left, RootMakers)
      BY <1>2, <1>4, <2>1 DEF Smooth, LastMade
    <3>2. Has(After, RootMakers)
      BY <1>1, <2>2, <3>1 DEF Has, RootMakers
    <3> QED BY <3>2
  <2>3. CASE h[1] # "item"
    <3>1. \A c \in DOMAIN remote : ~Pulling(c)
      <4>1. CASE h[1] = "carousel"
        BY <4>1 DEF h
      <4>2. CASE h[1] = "container"
        <5>1. remote = <<>>
          BY <1>1, <2>1, <4>2 DEF Smooth, FirstMade, Has
        <5> QED BY <5>1
      <4> QED BY <1>3, <2>1, <2>3, <4>1, <4>2
    <3> QED BY <1>3, <1>6, <1>7, <1>8, <2>1, <2>3, <3>1 DEF Pulling
  <2> QED BY <2>2, <2>3
<1>16. CleanedLast(Left)'
  <2>1. SUFFICES ASSUME platform = "instagram", Has(After, {"cleanup"}) PROVE Has(After, {"mediaPublish"})
    BY <1>1 DEF CleanedLast
  <2>2. Has(Left, {"mediaPublish"})
    BY <1>2, <1>4, <2>1 DEF Smooth, CleanedLast
  <2> QED BY <1>1, <1>4, <2>2 DEF Has, Makers, RootMakers
<1> QED BY <1>10, <1>11, <1>12, <1>13, <1>14, <1>15, <1>16 DEF Smooth

LEMMA SmoothMade ==
  ASSUME Basis, TypeOK, Smooth(Left), platform' = platform, CreateContainer \/ CreateCarousel,
         Passes, ~Breaks
  PROVE Smooth(Left)'
<1>1. /\ Given /\ todo \in Seq(AnyStep) /\ Ordered(todo) /\ \A x \in Left : Fits(x)
  BY DEF Basis, ShapeInv
<1>2. \A name : At(name) => Head(todo)[1] = name /\ Fits(Head(todo)) /\ todo # <<>>
  BY <1>1, Ahead DEF At
<1>3. remote \in Seq(Containers) /\ temps \subseteq 1..MaxAssets /\ held \in Seq(1..MaxAssets)
      /\ Assets \in Seq(1..MaxAssets) /\ store' = store /\ temps' = temps
  BY <1>1, TypedRemote, TypedAssets DEF CreateContainer, CreateCarousel, here
<1>4. ASSUME NEW CONSTANT role \in {"item", "root", "reply"}, NEW media \in Seq(1..MaxAssets),
             NEW CONSTANT status \in {"AWAITING", "IN_PROGRESS"}, Create(role, media, status),
             Head(todo)[1] \in Makers, Head(todo)[1] = "item" => role = "item",
             Head(todo)[1] = "carousel" => \A c \in DOMAIN remote : ~Pulling(c)
      PROVE Smooth(Left)'
  <2> DEFINE r == NewContainer(role, media, status)
  <2>1. /\ r \in Containers /\ r.status # "ERROR" /\ r.copies \subseteq temps /\ r.role = role
    <3>1. status \in Statuses /\ status # "ERROR"
      BY DEF Statuses
    <3>2. r \in Containers /\ r.role = role /\ r.status = status /\ r.copies = temps \cap ToSet(media)
      <4>1. temps \subseteq 1..MaxAssets /\ media \in Seq(1..MaxAssets) /\ role \in {"item", "root", "reply"}
        BY <1>3
      <4>2. r \in Containers
        BY <3>1, <4>1 DEF NewContainer, Containers
      <4> QED BY <4>2 DEF NewContainer
    <3> HIDE DEF r
    <3> QED BY <3>1, <3>2
  <2>2. remote' = Append(remote, r)
    BY <1>4, Creates DEF Passes
  <2> HIDE DEF r
  <2>3. Adds(r)
    BY <1>3, <2>1, <2>2, Added
  <2> QED BY <1>3, <1>4, <2>1, <2>3, SmoothAdds
<1>5. CASE CreateContainer
  <2>1. CASE At("item") /\ Create("item", <<Asset>>, "IN_PROGRESS")
    <3>1. Asset \in 1..MaxAssets
      BY <1>1, <1>2, <2>1, PostFacts, PublishersAssumption DEF Fits, Asset, PublishersAssumption
    <3>2. <<Asset>> \in Seq(1..MaxAssets)
      BY <3>1
    <3>3. Head(todo)[1] \in Makers /\ Head(todo)[1] = "item" /\ "item" # "carousel"
      BY <1>2, <2>1 DEF Makers
    <3> QED BY <1>4, <2>1, <3>2, <3>3, Zenon
  <2>2. CASE At("container") /\ Create("root", Assets, "IN_PROGRESS")
    BY <1>2, <1>3, <1>4, <2>2 DEF Makers, RootMakers
  <2>3. CASE At("reply") /\ Create("reply", <<>>, "IN_PROGRESS")
    <3>1. <<>> \in Seq(1..MaxAssets)
      OBVIOUS
    <3>2. Head(todo)[1] \in Makers /\ Head(todo)[1] = "reply" /\ "reply" # "carousel" /\ "reply" # "item"
      BY <1>2, <2>3 DEF Makers, RootMakers
    <3> QED BY <1>4, <2>3, <3>1, <3>2, Zenon
  <2>4. CASE At("init") /\ Create("root", Assets, "AWAITING")
    BY <1>2, <1>3, <1>4, <2>4 DEF Makers
  <2>5. CASE At("init") /\ Create("root", held, "IN_PROGRESS")
    BY <1>2, <1>3, <1>4, <2>5 DEF Makers
  <2> QED BY <1>5, <2>1, <2>2, <2>3, <2>4, <2>5 DEF CreateContainer
<1>6. CASE CreateCarousel
  <2>1. At("carousel") /\ Create("root", held, "IN_PROGRESS")
    BY <1>2, <1>6 DEF CreateCarousel, Throws, Throw, Breaks
  <2>2. \A c \in Items : Finished(c)
    BY <2>1, ItemsFinished
  <2>3. \A c \in DOMAIN remote : remote[c].role = "item"
    <3>1. Has(Left, {"carousel"})
      BY <1>2, <2>1, StepTaken DEF Has
    <3> QED BY <3>1 DEF Smooth, ItemsMade
  <2>4. \A c \in DOMAIN remote : ~Pulling(c)
    BY <2>2, <2>3 DEF Items, Finished, Pulling
  <2> QED BY <1>2, <1>3, <1>4, <2>1, <2>4 DEF Makers, RootMakers
<1> QED BY <1>5, <1>6

LEMMA SmoothPut ==
  ASSUME Basis, Smooth(Left), remote \in Seq(Containers), platform' = platform, Put, Passes, ~Breaks
  PROVE Smooth(Left)'
<1>1. /\ Left' = After /\ \A y \in After : Fits(y) /\ Follows(Head(todo), y)
      /\ Fits(Head(todo)) /\ Head(todo)[1] = "put" /\ Head(todo) \in Left
  BY StepTaken DEF Put, At
<1>2. platform = "tiktok" /\ store' = store /\ temps' = temps
  BY <1>1 DEF Fits, Put, here
<1>3. remote' = [remote EXCEPT ![Newest].status = "IN_PROGRESS"]
  BY DEF Put, Request, Fails, Throw, Breaks, Passes
<1>4. Turns(Newest, "IN_PROGRESS")
  BY <1>3, StatusSet DEF Statuses
<1>5. temps = {} /\ \A c \in DOMAIN remote : remote[c].copies = {} /\ remote[c].status # "ERROR"
  BY <1>2 DEF Smooth, TikTokCopies, Pullable
<1>6. Pullable' /\ TikTokCopies' /\ CopiesKept(Left)'
  BY <1>2, <1>4, <1>5 DEF Pullable, TikTokCopies, CopiesKept, Turns
<1>7. ~Has(After, {"carousel"})
  BY <1>1, <1>2 DEF Fits, Has
<1> QED BY <1>1, <1>2, <1>6, <1>7 DEF Smooth, FirstMade, ItemsMade, LastMade, CleanedLast

LEMMA SmoothShown ==
  ASSUME Basis, TypeOK, ReadyInv, Smooth(Left), platform' = platform, MediaPublish, Passes, ~Breaks
  PROVE Smooth(Left)'
<1> DEFINE h == Head(todo)
<1>1. /\ Left = {h} \cup After /\ Left' = After /\ h \in AnyStep /\ Fits(h)
      /\ \A y \in After : Follows(h, y) /\ Fits(y) /\ y \in AnyStep
      /\ h[1] = "mediaPublish"
  BY StepTaken DEF MediaPublish, At
<1>2. /\ Finished(Newest) /\ ReadyFor(h[2]) /\ remote \in Seq(Containers)
  BY ShownReady, TypedRemote DEF MediaPublish
<1>3. platform \in {"instagram", "threads"} /\ store' = store /\ temps' = temps
  BY <1>1 DEF Fits, MediaPublish, here
<1>4. Turns(Newest, "PUBLISHED")
  <2>1. remote' = [remote EXCEPT ![Newest].status = "PUBLISHED"]
    BY <1>2 DEF MediaPublish, Request, Fails, Throw, Throws, Breaks, Passes
  <2> QED BY <1>2, <2>1, StatusSet DEF Statuses
<1>5. h[2] \in Nat /\ \A y \in After : y[2] \in Nat
  BY <1>1 DEF AnyStep
<1> HIDE DEF h
<1>6. \A N : Has(After, N) => Has(Left, N)
  BY <1>1 DEF Has
<1>7. Newest' = Newest /\ DOMAIN remote' = DOMAIN remote
  BY <1>4 DEF Newest, Turns
<1>8. Pullable' /\ TikTokCopies' /\ CopiesKept(Left)'
  <2>1. Pullable'
    BY <1>3, <1>4 DEF Smooth, Pullable, Pulling, Turns
  <2> QED BY <1>1, <1>3, <2>1 DEF Smooth, TikTokCopies, CopiesKept, Late
<1>9. FirstMade(Left)'
  <2>1. remote # <<>>
    BY <1>2 DEF ReadyFor
  <2>2. platform = "instagram" => ~Has(After, {"container", "process"})
    BY <1>6, <2>1 DEF Smooth, FirstMade
  <2> QED BY <1>1, <1>3, <2>2 DEF FirstMade
<1>10. \A y \in After : y[1] \in RootMakers => h[2] < y[2]
  BY <1>1, <1>5 DEF Follows, Phase, RootMakers
<1>11. ~Has(After, {"carousel"})
  <2>1. \A y \in After : y[1] = "carousel" => y[2] = 0
    BY <1>1 DEF Fits
  <2> QED BY <1>5, <1>10, <2>1 DEF Has, RootMakers
<1>12. ItemsMade(Left)'
  BY <1>1, <1>11 DEF ItemsMade
<1>13. ASSUME platform = "instagram" PROVE ~Has(After, {"mediaPublish"}) /\ ~Has(After, RootMakers)
  <2>1. Requested = 1
    BY <1>13 DEF Requested
  <2>2. \A y \in After : y[1] = "mediaPublish" => y[2] = 0
    BY <1>1, <1>5, <2>1 DEF Fits, Showing
  <2>3. \A y \in After : y[1] \in RootMakers => y[2] = 0
    BY <1>1, <1>13 DEF Fits, RootMakers
  <2>4. \A y \in After : y[1] = "mediaPublish" => h[2] < y[2]
    BY <1>1, <1>5 DEF Follows, Phase, RootMakers
  <2> QED BY <1>5, <1>10, <2>2, <2>3, <2>4 DEF Has
<1>14. LastMade(Left)'
  BY <1>1, <1>3, <1>13 DEF LastMade
<1>15. CleanedLast(Left)'
  <2>1. SUFFICES ASSUME platform = "instagram"
                 PROVE ~Has(After, Makers) /\ (\A c \in DOMAIN remote : ~Pulling(c))'
    BY <1>1 DEF CleanedLast
  <2>2. Has(Left, {"mediaPublish"}) /\ ~Has(Left, RootMakers)
    BY <1>1, <1>13, <2>1 DEF Has, RootMakers
  <2>3. ~Has(Left, Makers) /\ \A c \in DOMAIN remote : c # Newest => ~Pulling(c)
    BY <2>1, <2>2 DEF Smooth, LastMade
  <2>4. (\A c \in DOMAIN remote : ~Pulling(c))'
    BY <1>4, <1>7, <2>3 DEF Pulling, Turns
  <2> QED BY <1>6, <2>3, <2>4
<1> QED BY <1>8, <1>9, <1>12, <1>14, <1>15 DEF Smooth

\* A container whose media are there is finished.
LEMMA SmoothTurned ==
  ASSUME Smooth(Left), remote \in Seq(Containers), platform' = platform,
         NEW CONSTANT c \in DOMAIN remote, ProcessContainer(c)
  PROVE Smooth(Left)'
<1>1. /\ remote[c].status = "IN_PROGRESS" /\ todo' = todo /\ store' = store /\ temps' = temps
      /\ remote[c].copies \subseteq store
  BY DEF ProcessContainer, here, Smooth, Pullable, Pulling
<1>2. Turns(c, "FINISHED")
  <2>1. remote' = [remote EXCEPT ![c].status = "FINISHED"]
    BY <1>1 DEF ProcessContainer
  <2> QED BY <2>1, StatusSet DEF Statuses
<1>3. Left' = Left /\ Newest' = Newest /\ DOMAIN remote' = DOMAIN remote
      /\ (\A k \in DOMAIN remote : Pulling(k)' => Pulling(k))
      /\ Items' = Items /\ \A k \in DOMAIN remote : Finished(k) => Finished(k)'
  BY <1>1, <1>2 DEF Left, Newest, Turns, Pulling, Items, Finished
<1>4. remote # <<>>
  OBVIOUS
<1>5. Pullable' /\ TikTokCopies' /\ CopiesKept(Left)'
  <2>1. Pullable'
    BY <1>1, <1>2 DEF Smooth, Pullable, Pulling, Turns
  <2>2. TikTokCopies'
    BY <1>1, <1>2 DEF Smooth, TikTokCopies, Turns
  <2> QED BY <1>1, <1>3, <2>1, <2>2 DEF Smooth, CopiesKept, Late
<1>6. FirstMade(Left)'
  BY <1>3, <1>4 DEF Smooth, FirstMade
<1>7. ItemsMade(Left)'
  <2>1. Has(Left, {"carousel"}) => (\A k \in DOMAIN remote : remote[k].role = "item")'
    BY <1>2 DEF Smooth, ItemsMade, Turns
  <2>2. (\A k \in Items : Finished(k)) => (\A k \in Items : Finished(k))'
    BY <1>3 DEF Items
  <2> QED BY <1>3, <2>1, <2>2, Zenon DEF Smooth, ItemsMade
<1>8. LastMade(Left)'
  BY <1>3 DEF Smooth, LastMade
<1>9. CleanedLast(Left)'
  BY <1>3 DEF Smooth, CleanedLast
<1> QED BY <1>5, <1>6, <1>7, <1>8, <1>9 DEF Smooth

\* A publication that has failed without a fault outside stays failed.
LEMMA StaysFallen ==
  ASSUME Basis, CauseInv, Fallen, [Next]_vars, hit' = {} PROVE Fallen'
<1>1. \A x \in Left : x[1] \in Ended
  BY CauseParts
<1>2. \A name : At(name) => name \in Ended /\ todo # <<>> /\ Head(todo)[1] = name
  <2>1. \A name : At(name) => todo # <<>> /\ Head(todo)[1] = name /\ Head(todo) \in Left
    BY Ahead DEF Basis, ShapeInv, At
  <2> QED BY <1>1, <2>1
<1>3. ~At("start") /\ ~At("status") /\ ~At("done")
  BY <1>2 DEF Ended
<1>4. ~FetchStatus /\ ~MarkDone
  BY <1>3, Zenon DEF FetchStatus, MarkDone
<1>5. CASE MarkFailed
  BY <1>5 DEF MarkFailed, Happens, Fallen
<1>6. CASE target' = target /\ Quiet({"status", "done", "failed"})
  <2>1. ASSUME Has(Left, {"failed"}) PROVE Has(Left', {"failed"})
    <3>1. CASE Passes /\ Head(todo)[1] \notin {"status", "done", "failed"}
      <4>1. Left = {Head(todo)} \cup After /\ Left' = After
        BY <3>1, StepTaken
      <4> QED BY <2>1, <3>1, <4>1 DEF Has
    <3>2. CASE Breaks
      <4>1. Step("failed") \in Undone /\ Step("failed")[1] = "failed"
        BY Unwinds DEF Step
      <4>2. Left' = Undone
        BY <3>2 DEF Breaks, Left, Undone
      <4> QED BY <4>1, <4>2 DEF Has
    <3>3. ~Starts /\ ~Dies
      BY <1>3 DEF Starts, Dies
    <3>4. CASE todo' = todo
      BY <2>1, <3>4 DEF Left
    <3> QED BY <1>6, <3>1, <3>2, <3>3, <3>4 DEF Quiet
  <2> QED BY <1>6, <2>1 DEF Fallen
<1> QED BY <1>4, <1>5, <1>6, TargetMoves

LEMMA SmoothNext ==
  ASSUME Basis, TypeOK, ReadyInv, CauseInv, SmoothInv, [Next]_vars PROVE SmoothInv'
<1>1. platform' = platform /\ post' = post /\ Excused' = Excused
  BY GivenStays, ExcusedStays
<1> SUFFICES ASSUME Unhurt' PROVE Smooth(Left)'
  BY SmoothPartsNext
<1>2. hit = {} /\ hit' = {} /\ ~Excused /\ ~Has(Left', {"failed"})
  <2>1. hit' = {} /\ ~Excused' /\ ~Has(Left', {"failed"})
    BY DEF Unhurt, Fallen
  <2> QED BY <1>1, <2>1, HitGrows, Zenon
<1>3. Smooth(Left)
  <2>1. ~Fallen
    BY <1>2, StaysFallen DEF Unhurt
  <2> QED BY <1>2, <2>1, SmoothParts DEF Unhurt
<1>4. ~Breaks
  <2>1. Step("failed") \in Undone /\ Step("failed")[1] = "failed"
    BY Unwinds DEF Step
  <2>2. Breaks => Left' = Undone
    BY DEF Breaks, Left, Undone
  <2> QED BY <1>2, <2>1, <2>2 DEF Has
<1>5. remote \in Seq(Containers)
  BY TypedRemote
<1>6. CASE Resize
  <2>1. Passes
    BY <1>4, <1>6 DEF Resize, At, Advance, Fails, Throw, Passes, Breaks
  <2> QED BY <1>1, <1>2, <1>3, <1>6, <2>1, SmoothResized
<1>7. CASE ProcessVideo
  <2>1. Passes
    BY <1>7 DEF ProcessVideo, At, Advance, Passes
  <2> QED BY <1>1, <1>2, <1>3, <1>7, <2>1, SmoothProcessed
<1>8. CASE Cleanup
  <2>1. Passes
    BY <1>8 DEF Cleanup, At, Advance, Passes
  <2> QED BY <1>1, <1>2, <1>3, <1>8, <2>1, SmoothCleaned
<1>9. CASE CreateContainer \/ CreateCarousel
  <2>1. Passes
    <3>1. CASE CreateContainer
      BY <1>4, <3>1 DEF CreateContainer, Create, At, Request, Advance, Fails, Throw, Passes, Breaks
    <3>2. CASE CreateCarousel
      BY <1>4, <3>2 DEF CreateCarousel, Create, At, Request, Advance, Fails, Throws, Throw, Passes, Breaks
    <3> QED BY <1>9, <3>1, <3>2
  <2> QED BY <1>1, <1>3, <1>4, <1>9, <2>1, SmoothMade
<1>10. CASE Put
  <2>1. Passes
    BY <1>4, <1>10 DEF Put, At, Request, Advance, Fails, Throw, Passes, Breaks
  <2> QED BY <1>1, <1>3, <1>4, <1>5, <1>10, <2>1, SmoothPut
<1>11. CASE MediaPublish
  <2>1. Passes
    BY <1>4, <1>11 DEF MediaPublish, At, Request, Advance, Fails, Throws, Throw, Passes, Breaks
  <2> QED BY <1>1, <1>3, <1>4, <1>11, <2>1, SmoothShown
<1>12. CASE Platform
  <2>1. PICK c \in DOMAIN remote : ProcessContainer(c)
    BY <1>2, <1>12 DEF Platform, RefuseContainer, Happens
  <2> QED BY <1>1, <1>3, <1>5, <2>1, SmoothTurned
<1>13. CASE /\ store' = store /\ temps' = temps
            /\ remote' = remote /\ Quiet({"put", "mediaPublish"} \cup Makers)
  <2>1. CASE PollEnds /\ At("waitItems")
    <3>1. Passes /\ (\A c \in Items : Finished(c)) /\ Head(todo)[1] = "waitItems"
      BY <1>4, <2>1 DEF PollEnds, Awaited, At, Throws, Throw, Advance, Fails, Passes, Breaks
    <3> QED BY <1>1, <1>3, <1>13, <3>1, SmoothWaited
  <2>2. CASE Quiet({"wait", "waitItems"}) \/ (PollEnds /\ ~At("waitItems"))
    <3>1. Quiet(Watched)
      <4>1. CASE PollEnds /\ ~At("waitItems")
        BY <1>13, <4>1 DEF Quiet, Watched, Makers, RootMakers, Passes, At
      <4>2. CASE Quiet({"wait", "waitItems"})
        BY <1>13, <4>2 DEF Quiet, Watched, Makers, RootMakers
      <4> QED BY <2>2, <4>1, <4>2
    <3>2. "crash" \notin hit'
      BY <1>2
    <3> QED BY <1>1, <1>2, <1>3, <1>13, <3>1, <3>2, SmoothQuiet
  <2> QED BY <2>1, <2>2, WaitMoves
<1> QED BY <1>6, <1>7, <1>8, <1>9, <1>10, <1>11, <1>12, <1>13, CopiesMove, RemoteMoves

-----------------------------------------------------------------------------
(* The invariant of the specification                                      *)

\* The steps left are in their order (Basis); a publisher is past its check only
\* with a post it takes (GateInv); the ids held are those of the media so far
\* (HeldInv); the container that is published was made and waited for
\* (ReadyInv); and what is public, sent, marked and left behind follows.
PublishersInv ==
    /\ Basis /\ TypeOK /\ GateInv /\ HeldInv /\ ReadyInv
    /\ PublicInv /\ TikTokInv /\ DoneInv /\ TempsInv
    /\ CauseInv /\ SmoothInv

LEMMA InitPublishersInv ==
  ASSUME Init PROVE PublishersInv
<1>1. /\ platform \in Platforms /\ post \in Posts /\ todo = <<Step("start")>> /\ held = <<>>
      /\ temps = {} /\ polls = 0 /\ store = {} /\ remote = <<>> /\ public = <<>>
      /\ target = "PENDING" /\ hit = {}
  BY DEF Init
<1>2. Step("start") \in AnyStep /\ Step("start")[1] = "start" /\ Step("start")[2] = 0
  BY DEF Step, AnyStep, StepNames
<1>3. IsSteps(todo, {Step("start")})
  BY <1>1, <1>2, One, Zenon
<1>4. todo \in Seq(AnyStep) /\ Ordered(todo) /\ Left = {Step("start")}
  BY <1>3, Zenon DEF IsSteps, Left
<1>5. Given
  BY <1>1, PublishersAssumption DEF Given, PublishersAssumption
<1>6. \A x \in Left : Fits(x)
  <2>1. Fits(Step("start"))
    BY DEF Fits, Step, Showing, Picked
  <2> QED BY <1>4, <2>1
<1>7. \A N : Has(Left, N) <=> "start" \in N
  BY <1>2, <1>4 DEF Has
<1> HIDE DEF Step
<1>8. Basis
  BY <1>1, <1>4, <1>5, <1>6 DEF Basis, ShapeInv
<1>9. TypeOK
  <2>1. maxPolls \in Nat
    BY PublishersAssumption DEF PublishersAssumption
  <2>2. todo \in Seq(StepNames \X Nat)
    BY <1>4 DEF AnyStep
  <2> QED BY <1>1, <2>1, <2>2 DEF TypeOK
<1>10. GateInv
  BY <1>7 DEF GateInv, Ungated
<1>11. Requested \in Nat \ {0} /\ n \in Nat
  BY <1>5, PostFacts DEF Requested
<1>12. /\ Covered(Left, Collectors, HeldUsers, Len(held) + 1, n)
       /\ Covered(Left, Showing, {"done"}, Len(public), Requested - 1)
       /\ Covered(Left, {"init"}, {"put", "status", "done"}, Len(remote), 0)
  BY <1>2, <1>4, NothingCovered DEF Collectors, HeldUsers, Showing
<1>13. HeldInv
  BY <1>1, <1>11, <1>12 DEF HeldInv
<1>14. ReadyInv
  BY <1>2, <1>4 DEF ReadyInv
<1>15. PublicInv
  BY <1>1, <1>11, <1>12 DEF PublicInv
<1>16. TikTokInv
  BY <1>1, <1>7, <1>12 DEF TikTokInv
<1>17. DoneInv /\ TempsInv /\ CauseInv
  BY <1>1, <1>7 DEF DoneInv, TempsInv, CauseInv, Fallen
<1>18. SmoothInv
  BY <1>1, <1>7 DEF SmoothInv, Smooth, CopiesKept, Pullable, TikTokCopies, FirstMade, ItemsMade, LastMade,
     CleanedLast
<1> QED BY <1>8, <1>9, <1>10, <1>13, <1>14, <1>15, <1>16, <1>17, <1>18 DEF PublishersInv

LEMMA PublishersInvNext ==
  ASSUME PublishersInv, [Next]_vars PROVE PublishersInv'
<1>1. Basis' /\ TypeOK' /\ GateInv' /\ HeldInv' /\ ReadyInv'
  BY BasisNext, TypeNext, GateNext, HeldNext, ReadyNext DEF PublishersInv
<1>2. PublicInv' /\ TikTokInv' /\ DoneInv' /\ TempsInv'
  BY PublicNext, TikTokNext, DoneNext, TempsNext DEF PublishersInv
<1>3. CauseInv' /\ SmoothInv'
  BY CauseNext, SmoothNext DEF PublishersInv
<1> QED BY <1>1, <1>2, <1>3, Zenon DEF PublishersInv

LEMMA AlwaysPublishersInv == Spec => []PublishersInv
<1>1. Init => PublishersInv
  BY InitPublishersInv
<1>2. PublishersInv /\ [Next]_vars => PublishersInv'
  BY PublishersInvNext
<1> QED BY <1>1, <1>2, PTL DEF Spec

\* The state of a publication is what it is taken for: every step left is one of
\* a publisher's, every id one of a medium's.
THEOREM PublicationTyped == Spec => []TypeOK
<1>1. PublishersInv => TypeOK
  BY DEF PublishersInv
<1> QED BY <1>1, AlwaysPublishersInv, PTL

\* Whatever the post, the platform and the number of media and replies, a target
\* that updatePostTarget marks DONE has its post and all its replies public: the
\* media of the post, all of them, in their order; at TikTok, all was sent.
THEOREM MarkedWhenPublic == Spec => []DoneIsPublic
<1>1. PublishersInv => DoneIsPublic
  <2> SUFFICES ASSUME PublishersInv, target = "DONE"
               PROVE IF platform = "tiktok"
                     THEN remote[Newest].status # "AWAITING" /\ remote[Newest].media = Assets
                     ELSE /\ Cardinality(Roots) = 1 /\ Len(public) = Requested
                          /\ \A k \in Roots : public[k].media \in Wanted
    BY DEF DoneIsPublic
  <2>1. Complete
    BY DoneParts DEF PublishersInv
  <2>2. CASE platform = "tiktok"
    <3>1. SentSoFar
      BY <2>2, TikTokParts DEF PublishersInv
    <3>2. Len(remote) = 1 /\ 1 \in DOMAIN remote
      BY <2>1, <2>2, TypedRemote, LenProperties DEF Complete, PublishersInv
    <3> QED BY <2>1, <2>2, <3>1, <3>2 DEF Complete, SentSoFar, AllSent, Newest
  <2>3. CASE platform # "tiktok"
    <3>1. ShownSoFar /\ Len(public) = Requested /\ Requested \in Nat \ {0}
      BY <2>1, <2>3, PublicParts, PostFacts DEF PublishersInv, Basis, Complete, Requested
    <3>2. 1 \in DOMAIN public
      BY <3>1, TypedPublic, LenProperties DEF PublishersInv
    <3>3. Roots = {1}
      BY <3>1, <3>2 DEF Roots, ShownSoFar, Due
    <3>4. Cardinality(Roots) = 1
      BY <3>3, FS_Singleton
    <3>5. \A k \in Roots : public[k].media \in Wanted
      BY <3>1, <3>2, <3>3 DEF ShownSoFar, Due
    <3> QED BY <2>3, <3>1, <3>4, <3>5
  <2> QED BY <2>2, <2>3
<1> QED BY <1>1, AlwaysPublishersInv, PTL

\* A target that handleSocialMediaError marks FAILED has a cause: a post that the
\* platform does not take, or something outside that failed; but for YouTube's
\* publisher and TikTok's resized photos, no publisher defeats itself.
THEOREM FailuresHaveCauses == Spec => []FailedForCause
<1>1. PublishersInv => FailedForCause
  <2> SUFFICES ASSUME PublishersInv, target = "FAILED"
               PROVE hit # {} \/ ~Accepts \/ Excused
    BY DEF FailedForCause, Excused
  <2>1. Fallen
    BY DEF Fallen
  <2> QED BY <2>1, CauseParts DEF PublishersInv, Caused
<1> QED BY <1>1, AlwaysPublishersInv, PTL

\* The finally of each publisher deletes every temporary copy, however the
\* publication ends: but for a failing deletion, a crash and a lost reply,
\* nothing is left in the store.
THEOREM CopiesDeleted == Spec => []TempsCleaned
<1>1. PublishersInv => TempsCleaned
  <2> SUFFICES ASSUME PublishersInv, todo = <<>>, Clean PROVE store = {}
    BY DEF TempsCleaned, Clean
  <2>1. Left = {}
    BY NoneOrdered DEF Left
  <2> QED BY <2>1 DEF PublishersInv, TempsInv
<1> QED BY <1>1, AlwaysPublishersInv, PTL

-----------------------------------------------------------------------------
(* The pool                                                                *)

Exclusive ==
    \A j, k \in Calls : conn[j] = conn[k] /\ conn[j] \in Connections => j = k

\* What is written was executed; a transaction's is pending where it runs.
WriteInv ==
    /\ \A k \in Calls, i \in Nat : <<k, i>> \in committed => i \in 1..next[k]
    /\ \A c \in Connections : pending[c] # {} => tx[c] = "open"
    /\ \A c \in Connections, k \in Calls, i \in Nat :
          <<k, i>> \in pending[c] =>
            /\ i \in 1..next[k]
            /\ program[k].kind = "transaction" =>
                  conn[k] = c /\ at[k] \in {"run", "rollback"}

Unwritten(k) == \A i \in Nat : <<k, i>> \notin committed

\* A call follows its program.
CourseInv(k) ==
    /\ next[k] <= Len(program[k].rows)
    /\ at[k] \in {"connect", "begin"} => next[k] = 0
    /\ at[k] \in {"connect", "begin", "run"} => result[k] = "none"
    /\ at[k] \in {"begin", "rollback"} => Begins(k)
    /\ at[k] = "rollback" => result[k] = "error"
    /\ at[k] = "release" => result[k] # "none"
    /\ ~Begins(k) =>
          /\ at[k] = "run" \/ result[k] = "error" => next[k] = 0
          /\ result[k] = "ok" => next[k] = 1

\* A transaction is open while it runs, closed when it is over, and has
\* written everything or nothing.
TransactionInv(k) ==
    /\ Begins(k) /\ at[k] = "run" => tx[conn[k]] = "open"
    /\ program[k].kind = "transaction" =>
          /\ at[k] = "run" => \A i \in 1..next[k] : <<k, i>> \in pending[conn[k]]
          /\ at[k] = "release" => tx[conn[k]] = "none"
          /\ at[k] \in {"connect", "begin", "run"} \/ result[k] = "error" => Unwritten(k)
          /\ result[k] = "ok" => \A i \in Statements(k) : <<k, i>> \in committed
          /\ Unwritten(k) \/ \A i \in Statements(k) : <<k, i>> \in committed

CallInv == \A k \in Calls : CourseInv(k) /\ TransactionInv(k)

PoolInv == PoolTypeOK /\ Exclusive /\ WriteInv /\ CallInv

-----------------------------------------------------------------------------
(* The programs *)

LEMMA ProgramType ==
  ASSUME PoolTypeOK, NEW k \in Calls
  PROVE  /\ program[k].kind \in Kinds
         /\ Len(program[k].rows) \in Nat
         /\ ~Begins(k) => Len(program[k].rows) = 1
         /\ program[k].kind = "openRead" => Len(program[k].rows) = 0
<1>1. program[k] \in Programs
  BY PoolAssumption DEF PoolTypeOK
<1>2. program[k].kind \in Kinds /\ program[k].rows \in Seq(Rows)
  BY <1>1 DEF Programs
<1>3. Len(program[k].rows) \in Nat
  BY <1>2
<1>4. Begins(k) \/ Len(program[k].rows) = 1
  BY <1>1, <1>2 DEF Programs, Begins, Kinds
<1>5. program[k].kind = "openRead" => Len(program[k].rows) = 0
  BY <1>1 DEF Programs
<1>. QED
  BY <1>2, <1>3, <1>4, <1>5

LEMMA InitPoolInv == PoolInit => PoolInv
<1>. SUFFICES ASSUME PoolInit PROVE PoolInv
  OBVIOUS
<1>1. PoolTypeOK
  BY PoolAssumption DEF PoolInit, PoolTypeOK
<1>2. \A k \in Calls : Len(program[k].rows) \in Nat
  BY <1>1, ProgramType
<1>3. Exclusive
  BY PoolAssumption DEF PoolInit, Exclusive
<1>4. WriteInv
  BY DEF PoolInit, WriteInv
<1>5. CallInv
  BY <1>2 DEF PoolInit, CallInv, CourseInv, TransactionInv, Unwritten
<1>. QED
  BY <1>1, <1>3, <1>4, <1>5 DEF PoolInv

-----------------------------------------------------------------------------
(* The calls that do not move *)

LEMMA CourseKept ==
  ASSUME NEW j \in Calls, CourseInv(j), UNCHANGED program,
         at'[j] = at[j], next'[j] = next[j], result'[j] = result[j]
  PROVE  CourseInv(j)'
BY DEF CourseInv, Begins

LEMMA TransactionKept ==
  ASSUME NEW j \in Calls, TransactionInv(j), PoolTypeOK, UNCHANGED program,
         at'[j] = at[j], next'[j] = next[j], result'[j] = result[j], conn'[j] = conn[j],
         conn[j] \in Connections =>
             tx'[conn[j]] = tx[conn[j]] /\ pending[conn[j]] \subseteq pending'[conn[j]],
         program[j].kind = "transaction" =>
             \A i \in Nat : <<j, i>> \in committed' <=> <<j, i>> \in committed
  PROVE  TransactionInv(j)'
<1>1. Len(program[j].rows) \in Nat
  BY ProgramType
<1>2. Statements(j)' = Statements(j) /\ Statements(j) \subseteq Nat
  BY <1>1 DEF Statements
<1>3. program[j].kind = "transaction" => (Unwritten(j)' <=> Unwritten(j))
  BY DEF Unwritten
<1>4. at[j] \in {"run", "release"} => conn[j] \in Connections
  BY DEF PoolTypeOK
<1>5. Begins(j)' <=> Begins(j)
  BY DEF Begins
<1>. QED
  BY <1>2, <1>3, <1>4, <1>5 DEF TransactionInv

-----------------------------------------------------------------------------
(* The steps of a call *)

LEMMA ConnectKeeps ==
  ASSUME PoolInv, NEW k \in Calls, Connect(k)
  PROVE  PoolInv'
<1>1. PICK c \in Connections : (\A j \in Calls : conn[j] # c) /\ conn' = [conn EXCEPT ![k] = c]
  BY DEF Connect
<1>. USE DEF PoolInv
<1>2. PoolTypeOK'
  BY <1>1, PoolAssumption DEF PoolTypeOK, Connect, Begins
<1>3. Exclusive'
  BY <1>1 DEF Exclusive, PoolTypeOK
<1>4. WriteInv'
  BY <1>1 DEF WriteInv, Connect, PoolTypeOK
<1>5. ASSUME NEW j \in Calls PROVE CourseInv(j)' /\ TransactionInv(j)'
  <2>1. CourseInv(j) /\ TransactionInv(j)
    BY DEF CallInv
  <2>2. CASE j # k
    <3>1. CourseInv(j)'
      BY <2>1, <2>2, <1>1, CourseKept DEF Connect, PoolTypeOK
    <3>2. TransactionInv(j)'
      BY <2>1, <2>2, <1>1, TransactionKept DEF Connect, PoolTypeOK, Exclusive
    <3>. QED
      BY <3>1, <3>2
  <2>3. CASE j = k
    <3>1. CourseInv(k)'
      BY <2>1, <2>3, <1>1, ProgramType DEF CourseInv, Begins, Connect, PoolTypeOK
    <3>2. TransactionInv(k)'
      BY <2>1, <2>3, <1>1, ProgramType DEF TransactionInv, CourseInv, Unwritten, Statements, Begins, Connect, PoolTypeOK
    <3>. QED
      BY <2>3, <3>1, <3>2
  <2>. QED
    BY <2>2, <2>3
<1>. QED
  BY <1>2, <1>3, <1>4, <1>5 DEF CallInv

LEMMA BeginKeeps ==
  ASSUME PoolInv, NEW k \in Calls, Begin(k)
  PROVE  PoolInv'
<1>. USE DEF PoolInv
<1>1. conn[k] \in Connections /\ Begins(k)
  BY DEF Begin, PoolTypeOK, CallInv, CourseInv
<1>2. PoolTypeOK'
  BY <1>1 DEF PoolTypeOK, Begin
<1>3. Exclusive'
  BY DEF Exclusive, Begin
<1>4. WriteInv'
  BY <1>1 DEF WriteInv, Begin, PoolTypeOK
<1>5. ASSUME NEW j \in Calls PROVE CourseInv(j)' /\ TransactionInv(j)'
  <2>1. CourseInv(j) /\ TransactionInv(j)
    BY DEF CallInv
  <2>2. CASE j # k
    <3>1. CourseInv(j)'
      BY <2>1, <2>2, <1>1, CourseKept DEF Begin, PoolTypeOK
    <3>2. TransactionInv(j)'
      BY <2>1, <2>2, <1>1, TransactionKept DEF Begin, PoolTypeOK, Exclusive
    <3>. QED
      BY <3>1, <3>2
  <2>3. CASE j = k
    <3>1. CourseInv(k)'
      BY <2>1, <2>3, <1>1, ProgramType DEF CourseInv, Begins, Begin, PoolTypeOK
    <3>2. TransactionInv(k)'
      BY <2>1, <2>3, <1>1, ProgramType DEF TransactionInv, CourseInv, Unwritten, Statements, Begins, Begin, PoolTypeOK
    <3>. QED
      BY <2>3, <3>1, <3>2
  <2>. QED
    BY <2>2, <2>3
<1>. QED
  BY <1>2, <1>3, <1>4, <1>5 DEF CallInv

LEMMA OpenReadKeeps ==
  ASSUME PoolInv, NEW k \in Calls, OpenRead(k)
  PROVE  PoolInv'
<1>. USE DEF PoolInv
<1>2. PoolTypeOK'
  BY DEF PoolTypeOK, OpenRead, Succeed
<1>3. Exclusive'
  BY DEF Exclusive, OpenRead
<1>4. WriteInv'
  BY DEF WriteInv, OpenRead, Succeed, PoolTypeOK
<1>5. CallInv'
  BY ProgramType DEF CallInv, CourseInv, TransactionInv, Unwritten, Statements, Begins, OpenRead, Succeed, PoolTypeOK
<1>. QED
  BY <1>2, <1>3, <1>4, <1>5

LEMMA CodeThrowsKeeps ==
  ASSUME PoolInv, NEW k \in Calls, CodeThrows(k)
  PROVE  PoolInv'
<1>. USE DEF PoolInv
<1>2. PoolTypeOK'
  BY DEF PoolTypeOK, CodeThrows
<1>3. Exclusive'
  BY DEF Exclusive, CodeThrows
<1>4. WriteInv'
  BY DEF WriteInv, CodeThrows, PoolTypeOK
<1>5. CallInv'
  BY ProgramType DEF CallInv, CourseInv, TransactionInv, Unwritten, Statements, Begins, CodeThrows, PoolTypeOK
<1>. QED
  BY <1>2, <1>3, <1>4, <1>5

LEMMA ExecuteKeeps ==
  ASSUME PoolInv, NEW k \in Calls, Execute(k)
  PROVE  PoolInv'
<1>. USE DEF PoolInv
<1>1. conn[k] \in Connections /\ next[k] \in Nat /\ next[k] + 1 <= Len(program[k].rows)
  BY ProgramType DEF Execute, Statements, PoolTypeOK
<1>2. PoolTypeOK'
  <2>1. <<k, next[k] + 1>> \in Calls \X Nat
    BY <1>1
  <2>2. next' \in [Calls -> Nat]
    BY <1>1 DEF PoolTypeOK, Execute
  <2>3. committed' \subseteq Calls \X Nat /\ pending' \in [Connections -> SUBSET (Calls \X Nat)]
    <3>1. CASE tx[conn[k]] = "none"
      BY <2>1, <3>1 DEF PoolTypeOK, Execute
    <3>2. CASE tx[conn[k]] # "none"
      <4>1. /\ pending' = [pending EXCEPT ![conn[k]] = @ \cup {<<k, next[k] + 1>>}]
            /\ committed' = committed
        BY <3>2 DEF Execute
      <4>2. pending[conn[k]] \cup {<<k, next[k] + 1>>} \in SUBSET (Calls \X Nat)
        BY <1>1, <2>1 DEF PoolTypeOK
      <4>. QED
        BY <4>1, <4>2 DEF PoolTypeOK
    <3>. QED
      BY <3>1, <3>2
  <2>4. /\ at' \in [Calls -> {"connect", "begin", "run", "rollback", "release", "done"}]
        /\ result' \in [Calls -> {"none", "ok", "error"}]
        /\ \A j \in Calls :
              at'[j] \in {"begin", "run", "rollback", "release"} <=>
              at[j] \in {"begin", "run", "rollback", "release"}
    BY DEF PoolTypeOK, Execute, Succeed
  <2>. QED
    BY <2>2, <2>3, <2>4 DEF PoolTypeOK, Execute
<1>3. Exclusive'
  BY DEF Exclusive, Execute
<1>4. WriteInv'
  <2>1. /\ \A j \in Calls : next'[j] = IF j = k THEN next[k] + 1 ELSE next[j]
        /\ \A j \in Calls : 1..next[j] \subseteq 1..next'[j]
        /\ next[k] + 1 \in 1..next'[k]
    BY <1>1 DEF Execute, PoolTypeOK
  <2>2. /\ committed' \subseteq committed \cup {<<k, next[k] + 1>>}
        /\ \A c \in Connections : pending'[c] = pending[c] \/
              /\ c = conn[k] /\ tx[c] = "open"
              /\ pending'[c] = pending[c] \cup {<<k, next[k] + 1>>}
    BY <1>1 DEF Execute, PoolTypeOK
  <2>3. \A j \in Calls, i \in Nat : <<j, i>> \in committed' => i \in 1..next'[j]
    BY <2>1, <2>2 DEF WriteInv
  <2>4. \A c \in Connections : pending'[c] # {} => tx'[c] = "open"
    BY <2>2 DEF WriteInv, Execute
  <2>5. \A j \in Calls : program'[j] = program[j] /\ conn'[j] = conn[j]
    BY DEF Execute
  <2>6. \A j \in Calls : program[j].kind = "transaction" => at'[j] = at[j]
    BY DEF Execute, Succeed, Begins, PoolTypeOK
  <2>7. ASSUME NEW c \in Connections, NEW j \in Calls, NEW i \in Nat, <<j, i>> \in pending'[c]
        PROVE  /\ i \in 1..next'[j]
               /\ program'[j].kind = "transaction" =>
                     conn'[j] = c /\ at'[j] \in {"run", "rollback"}
    <3>1. CASE <<j, i>> \in pending[c]
      BY <2>1, <2>5, <2>6, <3>1 DEF WriteInv
    <3>2. CASE j = k /\ i = next[k] + 1 /\ c = conn[k]
      BY <2>1, <2>5, <2>6, <3>2 DEF Execute
    <3>. QED
      BY <2>2, <2>7, <3>1, <3>2
  <2>. QED
    BY <2>3, <2>4, <2>7 DEF WriteInv
<1>5. ASSUME NEW j \in Calls PROVE CourseInv(j)' /\ TransactionInv(j)'
  <2>1. CourseInv(j) /\ TransactionInv(j)
    BY DEF CallInv
  <2>2. CASE j # k
    <3>1. CourseInv(j)'
      BY <2>1, <2>2, <1>1, CourseKept DEF Execute, Succeed, PoolTypeOK
    <3>2. TransactionInv(j)'
      BY <2>1, <2>2, <1>1, TransactionKept DEF Execute, Succeed, PoolTypeOK, Exclusive
    <3>. QED
      BY <3>1, <3>2
  <2>3. CASE j = k
    <3>1. CourseInv(k)'
      BY <2>1, <2>3, <1>1, ProgramType DEF CourseInv, Begins, Execute, Succeed, PoolTypeOK
    <3>2. TransactionInv(k)'
      BY <2>1, <2>3, <1>1, ProgramType DEF TransactionInv, CourseInv, Unwritten, Statements, Begins, Execute, Succeed, PoolTypeOK
    <3>. QED
      BY <2>3, <3>1, <3>2
  <2>. QED
    BY <2>2, <2>3
<1>. QED
  BY <1>2, <1>3, <1>4, <1>5 DEF CallInv

LEMMA StatementThrowsKeeps ==
  ASSUME PoolInv, NEW k \in Calls, StatementThrows(k)
  PROVE  PoolInv'
<1>. USE DEF PoolInv
<1>1. conn[k] \in Connections
  BY DEF StatementThrows, PoolTypeOK
<1>2. PoolTypeOK'
  BY <1>1 DEF PoolTypeOK, StatementThrows
<1>3. Exclusive'
  BY DEF Exclusive, StatementThrows
<1>4. WriteInv'
  BY <1>1 DEF WriteInv, StatementThrows, PoolTypeOK
<1>5. ASSUME NEW j \in Calls PROVE CourseInv(j)' /\ TransactionInv(j)'
  <2>1. CourseInv(j) /\ TransactionInv(j)
    BY DEF CallInv
  <2>2. CASE j # k
    <3>1. CourseInv(j)'
      BY <2>1, <2>2, <1>1, CourseKept DEF StatementThrows, PoolTypeOK
    <3>2. TransactionInv(j)'
      BY <2>1, <2>2, <1>1, TransactionKept DEF StatementThrows, PoolTypeOK, Exclusive
    <3>. QED
      BY <3>1, <3>2
  <2>3. CASE j = k
    <3>1. CourseInv(k)'
      BY <2>1, <2>3, <1>1, ProgramType DEF CourseInv, Begins, StatementThrows, PoolTypeOK
    <3>2. TransactionInv(k)'
      BY <2>1, <2>3, <1>1, ProgramType DEF TransactionInv, CourseInv, Unwritten, Statements, Begins, StatementThrows, PoolTypeOK
    <3>. QED
      BY <2>3, <3>1, <3>2
  <2>. QED
    BY <2>2, <2>3
<1>. QED
  BY <1>2, <1>3, <1>4, <1>5 DEF CallInv

LEMMA CommitKeeps ==
  ASSUME PoolInv, NEW k \in Calls, Commit(k)
  PROVE  PoolInv'
<1>. USE DEF PoolInv
<1>1. conn[k] \in Connections
  BY DEF Commit, PoolTypeOK
<1>2. PoolTypeOK'
  BY <1>1 DEF PoolTypeOK, Commit, Succeed, Discard
<1>3. Exclusive'
  BY DEF Exclusive, Commit
<1>4. WriteInv'
  BY <1>1 DEF WriteInv, Commit, Succeed, Discard, PoolTypeOK, Exclusive
<1>5. ASSUME NEW j \in Calls PROVE CourseInv(j)' /\ TransactionInv(j)'
  <2>1. CourseInv(j) /\ TransactionInv(j)
    BY DEF CallInv
  <2>2. CASE j # k
    <3>1. CourseInv(j)'
      BY <2>1, <2>2, <1>1, CourseKept DEF Commit, Succeed, Discard, PoolTypeOK
    <3>2. TransactionInv(j)'
      <4>1. conn[j] # conn[k] \/ conn[j] \notin Connections
        BY <2>2 DEF Exclusive
      <4>2. ASSUME program[j].kind = "transaction", NEW i \in Nat
            PROVE  <<j, i>> \notin pending[conn[k]]
        BY <1>1, <4>1, <4>2 DEF WriteInv
      <4>. QED
        BY <1>1, <2>1, <2>2, <4>1, <4>2, TransactionKept DEF Commit, Succeed, Discard, PoolTypeOK
    <3>. QED
      BY <3>1, <3>2
  <2>3. CASE j = k
    <3>1. CourseInv(k)'
      BY <2>1, <2>3, <1>1, ProgramType DEF CourseInv, Begins, Commit, Succeed, Discard, PoolTypeOK
    <3>2. TransactionInv(k)'
      BY <2>1, <2>3, <1>1, ProgramType DEF TransactionInv, CourseInv, Unwritten, Statements, Begins, Commit, Succeed, Discard, PoolTypeOK, WriteInv
    <3>. QED
      BY <2>3, <3>1, <3>2
  <2>. QED
    BY <2>2, <2>3
<1>. QED
  BY <1>2, <1>3, <1>4, <1>5 DEF CallInv

LEMMA RollbackKeeps ==
  ASSUME PoolInv, NEW k \in Calls, Rollback(k)
  PROVE  PoolInv'
<1>. USE DEF PoolInv
<1>1. conn[k] \in Connections
  BY DEF Rollback, PoolTypeOK
<1>2. PoolTypeOK'
  BY <1>1 DEF PoolTypeOK, Rollback, Discard
<1>3. Exclusive'
  BY DEF Exclusive, Rollback
<1>4. WriteInv'
  BY <1>1 DEF WriteInv, Rollback, Discard, PoolTypeOK, Exclusive
<1>5. ASSUME NEW j \in Calls PROVE CourseInv(j)' /\ TransactionInv(j)'
  <2>1. CourseInv(j) /\ TransactionInv(j)
    BY DEF CallInv
  <2>2. CASE j # k
    <3>1. CourseInv(j)'
      BY <2>1, <2>2, <1>1, CourseKept DEF Rollback, Discard, PoolTypeOK
    <3>2. TransactionInv(j)'
      BY <2>1, <2>2, <1>1, TransactionKept DEF Rollback, Discard, PoolTypeOK, Exclusive
    <3>. QED
      BY <3>1, <3>2
  <2>3. CASE j = k
    <3>1. CourseInv(k)'
      BY <2>1, <2>3, <1>1, ProgramType DEF CourseInv, Begins, Rollback, Discard, PoolTypeOK
    <3>2. TransactionInv(k)'
      BY <2>1, <2>3, <1>1, ProgramType DEF TransactionInv, CourseInv, Unwritten, Statements, Begins, Rollback, Discard, PoolTypeOK
    <3>. QED
      BY <2>3, <3>1, <3>2
  <2>. QED
    BY <2>2, <2>3
<1>. QED
  BY <1>2, <1>3, <1>4, <1>5 DEF CallInv

LEMMA ReleaseKeeps ==
  ASSUME PoolInv, NEW k \in Calls, Release(k)
  PROVE  PoolInv'
<1>. USE DEF PoolInv
<1>1. conn[k] \in Connections
  BY DEF Release, PoolTypeOK
<1>2. PoolTypeOK'
  BY <1>1, PoolAssumption DEF PoolTypeOK, Release, Discard
<1>3. Exclusive'
  BY PoolAssumption DEF Exclusive, Release, PoolTypeOK
<1>4. WriteInv'
  <2>1. \A c \in Connections :
           pending'[c] = {} \/ (pending'[c] = pending[c] /\ tx'[c] = tx[c])
    BY <1>1 DEF Release, Discard, PoolTypeOK
  <2>2. \A c \in Connections : pending'[c] # {} => tx'[c] = "open"
    BY <2>1 DEF WriteInv
  <2>3. \A j \in Calls, i \in Nat : <<j, i>> \in committed' => i \in 1..next'[j]
    BY DEF WriteInv, Release
  <2>4. ASSUME NEW c \in Connections, NEW j \in Calls, NEW i \in Nat, <<j, i>> \in pending'[c]
        PROVE  /\ i \in 1..next'[j]
               /\ program'[j].kind = "transaction" =>
                     conn'[j] = c /\ at'[j] \in {"run", "rollback"}
    <3>1. <<j, i>> \in pending[c]
      BY <2>1, <2>4
    <3>2. /\ i \in 1..next[j]
          /\ program[j].kind = "transaction" => conn[j] = c /\ at[j] \in {"run", "rollback"}
      BY <3>1 DEF WriteInv
    <3>. QED
      BY <3>2 DEF Release, PoolTypeOK
  <2>. QED
    BY <2>2, <2>3, <2>4 DEF WriteInv
<1>5. ASSUME NEW j \in Calls PROVE CourseInv(j)' /\ TransactionInv(j)'
  <2>1. CourseInv(j) /\ TransactionInv(j)
    BY DEF CallInv
  <2>2. CASE j # k
    <3>1. CourseInv(j)'
      BY <2>1, <2>2, <1>1, CourseKept DEF Release, Discard, PoolTypeOK
    <3>2. TransactionInv(j)'
      BY <2>1, <2>2, <1>1, TransactionKept DEF Release, Discard, PoolTypeOK, Exclusive
    <3>. QED
      BY <3>1, <3>2
  <2>3. CASE j = k
    <3>1. CourseInv(k)'
      BY <2>1, <2>3, <1>1, ProgramType DEF CourseInv, Begins, Release, Discard, PoolTypeOK
    <3>2. TransactionInv(k)'
      BY <2>1, <2>3, <1>1, ProgramType DEF TransactionInv, CourseInv, Unwritten, Statements, Begins, Release, Discard, PoolTypeOK
    <3>. QED
      BY <2>3, <3>1, <3>2
  <2>. QED
    BY <2>2, <2>3
<1>. QED
  BY <1>2, <1>3, <1>4, <1>5 DEF CallInv

-----------------------------------------------------------------------------
(* The pool and the process *)

LEMMA IdleTimeoutKeeps ==
  ASSUME PoolInv, NEW c \in Connections, IdleTimeout(c)
  PROVE  PoolInv'
<1>. USE DEF PoolInv
<1>2. PoolTypeOK'
  BY DEF PoolTypeOK, IdleTimeout, Discard
<1>3. Exclusive'
  BY DEF Exclusive, IdleTimeout
<1>4. WriteInv'
  BY DEF WriteInv, IdleTimeout, Discard, PoolTypeOK
<1>5. CallInv'
  BY DEF CallInv, CourseInv, TransactionInv, Unwritten, Statements, Begins, IdleTimeout, Discard, PoolTypeOK
<1>. QED
  BY <1>2, <1>3, <1>4, <1>5

LEMMA ProcessDiesKeeps ==
  ASSUME PoolInv, ProcessDies
  PROVE  PoolInv'
<1>. USE DEF PoolInv
<1>2. PoolTypeOK'
  BY PoolAssumption DEF PoolTypeOK, ProcessDies
<1>3. Exclusive'
  BY PoolAssumption DEF Exclusive, ProcessDies
<1>4. WriteInv'
  BY DEF WriteInv, ProcessDies
<1>5. CallInv'
  BY DEF CallInv, CourseInv, TransactionInv, Unwritten, Statements, Begins, ProcessDies, PoolTypeOK
<1>. QED
  BY <1>2, <1>3, <1>4, <1>5

LEMMA PoolInvStep == PoolInv /\ [PoolNext]_poolVars => PoolInv'
<1>. SUFFICES ASSUME PoolInv, [PoolNext]_poolVars PROVE PoolInv'
  OBVIOUS
<1>1. CASE \E k \in Calls : CallStep(k) \/ StatementThrows(k) \/ CodeThrows(k)
  BY <1>1, ConnectKeeps, BeginKeeps, ExecuteKeeps, OpenReadKeeps, CommitKeeps,
     RollbackKeeps, ReleaseKeeps, StatementThrowsKeeps, CodeThrowsKeeps DEF CallStep
<1>2. CASE \E c \in Connections : IdleTimeout(c)
  BY <1>2, IdleTimeoutKeeps
<1>3. CASE ProcessDies
  BY <1>3, ProcessDiesKeeps
<1>4. CASE UNCHANGED poolVars
  <2>1. PoolTypeOK' /\ Exclusive' /\ WriteInv'
    BY <1>4 DEF poolVars, PoolInv, PoolTypeOK, Exclusive, WriteInv
  <2>2. ASSUME NEW j \in Calls PROVE CourseInv(j)' /\ TransactionInv(j)'
    BY <1>4, CourseKept, TransactionKept DEF poolVars, PoolInv, CallInv
  <2>. QED
    BY <2>1, <2>2 DEF PoolInv, CallInv
<1>. QED
  BY <1>1, <1>2, <1>3, <1>4 DEF PoolNext

LEMMA PoolInvHolds == PoolSpec => []PoolInv
<1>. QED
  BY InitPoolInv, PoolInvStep, PTL DEF PoolSpec

-----------------------------------------------------------------------------
(* The theorems *)

(* Every reachable state is well typed, and a call has a connection exactly *)
(* while it uses it (client.release in every finally block).                *)
THEOREM PoolTypeCorrect == PoolSpec => []PoolTypeOK
<1>1. PoolInv => PoolTypeOK
  BY DEF PoolInv
<1>. QED
  BY <1>1, PoolInvHolds, PTL

(* The statements of a transaction are committed together or not at all,    *)
(* also on a connection that came with an open or aborted transaction.      *)
THEOREM TransactionsAtomic == PoolSpec => []AllOrNothing
<1>1. PoolInv => AllOrNothing
  <2>. SUFFICES ASSUME PoolInv, NEW k \in Calls, program[k].kind = "transaction"
                PROVE  Committed(k) = {} \/ Committed(k) = Statements(k)
    BY DEF AllOrNothing
  <2>1. Unwritten(k) \/ \A i \in Statements(k) : <<k, i>> \in committed
    BY DEF PoolInv, CallInv, TransactionInv
  <2>. QED
    BY <2>1, ProgramType DEF PoolInv, Committed, Unwritten, Statements
<1>. QED
  BY <1>1, PoolInvHolds, PTL

(* Whoever is told of an error has written nothing, and a transaction that  *)
(* is reported successful is committed.                                     *)
THEOREM AnswersTrue == PoolSpec => []AnswerIsTrue
<1>1. PoolInv => AnswerIsTrue
  <2>. SUFFICES ASSUME PoolInv, NEW k \in Calls, at[k] = "done"
                PROVE  /\ result[k] = "error" => Written(k) = {}
                       /\ result[k] = "ok" /\ program[k].kind = "transaction" =>
                             Committed(k) = Statements(k)
    BY DEF AnswerIsTrue
  <2>1. ASSUME result[k] = "error", NEW i \in Statements(k)
        PROVE  /\ <<k, i>> \notin committed
               /\ \A c \in Connections : <<k, i>> \notin pending[c]
    BY <2>1, ProgramType DEF PoolInv, WriteInv, CallInv, CourseInv, TransactionInv, Unwritten,
       Statements, Begins, Kinds
  <2>2. ASSUME result[k] = "ok", program[k].kind = "transaction"
        PROVE  \A i \in Statements(k) : <<k, i>> \in committed
    BY <2>2 DEF PoolInv, CallInv, TransactionInv
  <2>. QED
    BY <2>1, <2>2 DEF Written, Committed
<1>. QED
  BY <1>1, PoolInvHolds, PTL
=============================================================================
