--------------------------- MODULE Accounts_proofs ---------------------------
(***************************************************************************)
(* Proofs about Accounts for any pages, platforms, posts, numbers of       *)
(* requests and refresh jobs, and faults.  The invariant IInv says, beside *)
(* what is needed of the types, that a post which only the account being   *)
(* deleted targets is still on the list of its orphans, unless it changed  *)
(* since (Covered).  TokInv is about the tokens, page by page: what a page *)
(* shows is gathered in a record (View) of which the invariant says that   *)
(* it is Sound, so that each step is first a fact about two such records,  *)
(* and then one about the action that leads from the one to the other.     *)
(* Typed, at the end, adds what these do not say of the types.             *)
(***************************************************************************)
EXTENDS Accounts, TLAPS

\* A deletion before its listing, after it, after a failure, and at its end.
Unlisted == <<"list", "orphans", "row">>
Emptying == <<"orphans", "row">>
Sparing == <<"orphans">>
Ending == <<"row">>

\* A frame is a record of five fields; a deletion has one of the four lists of
\* steps, and no orphans left when it deletes the row.
Shape(f) ==
    /\ f = [kind |-> f.kind, pages |-> f.pages, rest |-> f.rest, todo |-> f.todo,
            orphans |-> f.orphans]
    /\ f.kind = "delete" =>
          /\ f.rest = {} /\ f.todo \in {Unlisted, Emptying, Sparing, Ending}
          /\ f.todo = Ending => f.orphans = {}

Framed(frames) ==
    /\ frames = [s \in Requests |-> frames[s]]
    /\ \A s \in Requests : Shape(frames[s])

TypeInv ==
    /\ Framed(req)
    /\ former \in [Pages -> SUBSET (Batches \cup Requests)]
    /\ posts \in [Posts -> [targets : SUBSET Pages, exists : BOOLEAN]]

\* The frame is of a deletion that has listed its orphans and goes for the row.
Going(f) == f.kind = "delete" /\ f.todo \in {Emptying, Ending}

\* Request r is going to delete the account of page p, which is still the one it
\* has listed the orphans of.
Bound(r, p) == Going(req[r]) /\ req[r].pages = {p} /\ r \notin former[p]

Covered ==
    \A r \in Requests, p \in Pages, x \in Posts :
        Bound(r, p) /\ posts[x].exists /\ posts[x].targets = {p} /\ x \notin raced
            => x \in req[r].orphans

IInv == TypeInv /\ EmptyPostRaced /\ Covered

-----------------------------------------------------------------------------
(* The lists of steps *)

LEMMA Lists ==
  /\ Head(Unlisted) = "list" /\ Tail(Unlisted) = Emptying
  /\ Head(Emptying) = "orphans" /\ Tail(Emptying) = Ending
  /\ Head(Sparing) = "orphans" /\ Tail(Sparing) = <<>>
  /\ Head(Ending) = "row" /\ Ending # <<>>
  /\ Sparing # Ending /\ Emptying # Ending /\ Unlisted # Ending
  /\ Sparing # Emptying /\ Unlisted # Emptying
<1>1. Head(Unlisted) = "list" /\ Head(Emptying) = "orphans"
  BY DEF Unlisted, Emptying
<1>2. Head(Sparing) = "orphans" /\ Head(Ending) = "row"
  BY DEF Sparing, Ending
<1>3. Ending # <<>>
  BY DEF Ending
<1>4. Len(Emptying) = 2 /\ Len(Sparing) = 1
  BY DEF Emptying, Sparing
<1>5. Tail(Unlisted) = Emptying
  BY DEF Unlisted, Emptying
<1>6. Tail(Emptying) = Ending
  BY DEF Emptying, Ending
<1>7. Tail(Sparing) = <<>>
  BY DEF Sparing
<1>8. Sparing # Emptying
  BY <1>4
<1>. QED
  BY <1>1, <1>2, <1>3, <1>5, <1>6, <1>7, <1>8

\* What Goes makes of a connector's request.
LEMMA GoesOn ==
  ASSUME Framed(req), NEW r \in Requests, NEW todo, req[r].kind = "connect"
  PROVE  /\ Framed(Goes(r, todo))
         /\ \A s \in Requests \ {r} : Goes(r, todo)[s] = req[s]
         /\ Goes(r, todo)[r].kind # "delete"
<1>1. Shape(req[r]) /\ req = [s \in Requests |-> req[s]]
  BY DEF Framed
<1>2. CASE todo # <<>>
  BY <1>1, <1>2 DEF Goes, Framed, Shape
<1>3. CASE todo = <<>> /\ req[r].rest # {}
  BY <1>1, <1>3 DEF Goes, Framed, Shape, Free
<1>4. CASE todo = <<>> /\ req[r].rest = {}
  BY <1>1, <1>4 DEF Goes, Framed, Shape, Free
<1>. QED
  BY <1>2, <1>3, <1>4

\* A step that leaves the posts alone, and every deletion that goes for its row.
LEMMA Apart ==
  ASSUME IInv, posts' = posts, raced' = raced, Framed(req'),
         former' \in [Pages -> SUBSET (Batches \cup Requests)],
         \A s \in Requests : Going(req'[s]) =>
             /\ req'[s] = req[s]
             /\ \A p \in Pages : s \in former[p] => s \in former'[p]
  PROVE  IInv'
<1>1. TypeInv' /\ EmptyPostRaced'
  BY DEF IInv, TypeInv, EmptyPostRaced
<1>2. Covered'
  BY DEF IInv, Covered, Bound
<1>. QED
  BY <1>1, <1>2 DEF IInv

LEMMA ConnectGoes ==
  ASSUME IInv, NEW r \in Requests, NEW todo, req[r].kind = "connect",
         req' = Goes(r, todo), UNCHANGED <<former, posts, raced>>
  PROVE  IInv'
<1>1. Framed(req)
  BY DEF IInv, TypeInv
<1>2. Framed(req') /\ req'[r].kind # "delete" /\ \A s \in Requests \ {r} : req'[s] = req[s]
  BY <1>1, GoesOn
<1>3. \A s \in Requests : Going(req'[s]) => req'[s] = req[s]
  BY <1>2 DEF Going
<1>. QED
  BY <1>2, <1>3, Apart DEF IInv, TypeInv

-----------------------------------------------------------------------------
(* The steps *)

LEMMA ConnectStartKeeps ==
  ASSUME IInv, NEW r \in Requests, ConnectStart(r)
  PROVE  IInv'
<1>1. Framed(req)
  BY DEF IInv, TypeInv
<1>2. PICK S \in SUBSET Pages : \E todo :
        req' = [req EXCEPT ![r] =
            [Free EXCEPT !.kind = "connect", !.todo = todo,
               !.pages = IF platform[CHOOSE p \in S : TRUE] = "facebook" THEN {} ELSE S,
               !.rest = IF platform[CHOOSE p \in S : TRUE] = "facebook" THEN S ELSE {}]]
  BY DEF ConnectStart
<1>3. PICK todo, P, Q :
        req' = [req EXCEPT ![r] = [Free EXCEPT !.kind = "connect", !.todo = todo,
                                               !.pages = P, !.rest = Q]]
  BY <1>2
<1>4. Framed(req')
  BY <1>1, <1>3 DEF Framed, Shape, Free
<1>5. \A s \in Requests : Going(req'[s]) => req'[s] = req[s]
  BY <1>1, <1>3 DEF Framed, Free, Going
<1>. QED
  BY <1>4, <1>5, Apart DEF ConnectStart, IInv, TypeInv

LEMMA ConnectKeeps ==
  ASSUME IInv, NEW r \in Requests, ConnectStep(r) \/ ConnectFails(r)
  PROVE  IInv'
<1>1. CASE Read(r)
  BY <1>1, ConnectGoes DEF Read, Connecting
<1>2. CASE Page(r)
  <2>1. Framed(req)
    BY DEF IInv, TypeInv
  <2>2. PICK P, Q, todo :
          req' = [req EXCEPT ![r] = [req[r] EXCEPT !.pages = P, !.rest = Q, !.todo = todo]]
    BY <1>2 DEF Page
  <2>3. req[r].kind = "connect"
    BY <1>2 DEF Page, Connecting
  <2>. Shape(req[r]) /\ req = [s \in Requests |-> req[s]]
    BY <2>1 DEF Framed
  <2>4. req'[r] = [kind |-> "connect", pages |-> P, rest |-> Q, todo |-> todo,
                   orphans |-> req[r].orphans]
    BY <2>2, <2>3 DEF Shape
  <2>5. /\ req' = [s \in Requests |-> req'[s]]
        /\ \A s \in Requests \ {r} : req'[s] = req[s]
    BY <2>1, <2>2 DEF Framed
  <2>6. Framed(req')
    BY <2>1, <2>4, <2>5 DEF Framed, Shape
  <2>7. \A s \in Requests : Going(req'[s]) => req'[s] = req[s]
    BY <2>4, <2>5 DEF Going
  <2>. QED
    BY <1>2, <2>6, <2>7, Apart DEF Page, IInv, TypeInv
<1>3. ASSUME NEW p \in Pages, Grant(r, p)
      PROVE  IInv'
  BY <1>3, ConnectGoes DEF Grant, Connecting
<1>4. ASSUME NEW p \in Pages, Find(r, p)
      PROVE  IInv'
  BY <1>4, ConnectGoes DEF Find, Connecting
<1>5. ASSUME NEW p \in Pages, Store(r, p)
      PROVE  IInv'
  BY <1>5, ConnectGoes DEF Store, Connecting
<1>6. CASE ConnectFails(r)
  BY <1>6, ConnectGoes DEF ConnectFails
<1>. QED
  BY <1>1, <1>2, <1>3, <1>4, <1>5, <1>6 DEF ConnectStep

LEMMA RequestDiesKeeps ==
  ASSUME IInv, NEW r \in Requests, RequestDies(r)
  PROVE  IInv'
<1>1. TypeInv
  BY DEF IInv
<1>2. Framed(req')
  BY <1>1 DEF RequestDies, TypeInv, Framed, Shape, Free
<1>3. \A s \in Requests : Going(req'[s]) =>
          req'[s] = req[s] /\ \A p \in Pages : s \in former[p] => s \in former'[p]
  BY <1>1 DEF RequestDies, TypeInv, Framed, Free, Going
<1>4. former' \in [Pages -> SUBSET (Batches \cup Requests)]
  BY <1>1 DEF RequestDies, TypeInv
<1>. QED
  BY <1>2, <1>3, <1>4, Apart DEF RequestDies

\* Of former, a refresh job touches nothing but its own entries.
LEMMA BatchKeeps ==
  ASSUME IInv, NEW b \in Batches,
         \/ BatchStart(b) \/ BatchDies(b)
         \/ \E p \in Pages : RefreshStep(b, p) \/ RefreshFails(b, p)
  PROVE  IInv'
<1>1. TypeInv /\ b \notin Requests
  BY AccountsAssumption DEF IInv
<1>2. UNCHANGED <<req, posts, raced>>
  BY DEF BatchStart, BatchDies, RefreshStep, RefreshFails, Ask, Refused, Write
<1>3. \/ former' = former \/ former' = [p \in Pages |-> former[p] \ {b}]
      \/ \E p \in Pages : former' = [former EXCEPT ![p] = @ \ {b}]
  BY DEF BatchStart, BatchDies, RefreshStep, RefreshFails, Ask, Refused, Write, Settles
<1>4. former' \in [Pages -> SUBSET (Batches \cup Requests)]
  BY <1>1, <1>3 DEF TypeInv
<1>5. \A s \in Requests, p \in Pages : s \in former[p] => s \in former'[p]
  BY <1>1, <1>3 DEF TypeInv
<1>. QED
  BY <1>1, <1>2, <1>4, <1>5, Apart DEF TypeInv

LEMMA DeleteStartKeeps ==
  ASSUME IInv, NEW r \in Requests, NEW p \in Pages, DeleteStart(r, p)
  PROVE  IInv'
<1>1. TypeInv
  BY DEF IInv
<1>2. req' = [req EXCEPT ![r] = [Free EXCEPT !.kind = "delete", !.pages = {p},
                                             !.todo = Unlisted]]
  BY DEF DeleteStart, Unlisted
<1>3. Framed(req')
  BY <1>1, <1>2, Lists DEF TypeInv, Framed, Shape, Free
<1>4. \A s \in Requests : Going(req'[s]) => req'[s] = req[s]
  BY <1>1, <1>2, Lists DEF TypeInv, Framed, Free, Going
<1>. QED
  BY <1>1, <1>3, <1>4, Apart DEF DeleteStart, TypeInv

\* A deletion about to take a step has that step at the head of its list.
LEMMA AtStep ==
  ASSUME TypeInv, NEW r \in Requests
  PROVE  /\ Deleting(r, "list") => req[r].todo = Unlisted
         /\ Deleting(r, "orphans") => req[r].todo \in {Emptying, Sparing}
         /\ Deleting(r, "row") => req[r].todo = Ending /\ req[r].orphans = {}
         /\ Going(req[r]) => Head(req[r].todo) # "list"
         /\ req[r].kind = "delete" => req[r].rest = {}
  BY Lists DEF TypeInv, Framed, Shape, Deleting, Going

LEMMA ListOrphansKeeps ==
  ASSUME IInv, NEW r \in Requests, NEW p \in Pages, ListOrphans(r, p)
  PROVE  IInv'
<1>1. TypeInv /\ req[r].kind = "delete" /\ req[r].todo = Unlisted /\ req[r].pages = {p}
  BY AtStep DEF IInv, ListOrphans, Deleting
<1> DEFINE O == {x \in Posts : posts[x].targets = {p} /\ r \notin former[p]}
<1>2. req' = [req EXCEPT ![r] = [req[r] EXCEPT !.todo = Emptying, !.orphans = O]]
  BY <1>1, Lists DEF ListOrphans
<1>3. UNCHANGED <<former, posts, raced>>
  BY DEF ListOrphans
<1> HIDE DEF O
<1>. Shape(req[r]) /\ req = [s \in Requests |-> req[s]] /\ req[r].rest = {}
  BY <1>1, AtStep DEF TypeInv, Framed
<1>4. req'[r] = [kind |-> "delete", pages |-> {p}, rest |-> {}, todo |-> Emptying,
                 orphans |-> O]
  BY <1>1, <1>2 DEF Shape
<1>5. /\ req' = [s \in Requests |-> req'[s]]
      /\ \A s \in Requests \ {r} : req'[s] = req[s]
  BY <1>1, <1>2 DEF TypeInv, Framed
<1>6. TypeInv'
  <2>1. Shape(req'[r])
    BY <1>4, Lists DEF Shape
  <2>2. \A s \in Requests \ {r} : Shape(req'[s])
    BY <1>1, <1>5 DEF TypeInv, Framed
  <2>. QED
    BY <1>1, <1>3, <1>5, <2>1, <2>2 DEF TypeInv, Framed
<1>7. EmptyPostRaced'
  BY <1>3 DEF IInv, EmptyPostRaced
<1>8. ASSUME NEW s \in Requests, NEW q \in Pages, NEW x \in Posts, Bound(s, q)',
             posts'[x].exists, posts'[x].targets = {q}, x \notin raced'
      PROVE  x \in req'[s].orphans
  <2>1. CASE s = r
    BY <1>3, <1>4, <1>8, <2>1 DEF O, Bound
  <2>2. CASE s # r
    BY <1>3, <1>5, <1>8, <2>2 DEF IInv, Covered, Bound
  <2>. QED
    BY <2>1, <2>2
<1>. QED
  BY <1>6, <1>7, <1>8 DEF IInv, Covered

LEMMA DeleteOrphanKeeps ==
  ASSUME IInv, NEW r \in Requests, NEW x \in Posts, DeleteOrphan(r, x)
  PROVE  IInv'
<1>1. TypeInv /\ Shape(req[r]) /\ req = [s \in Requests |-> req[s]]
  BY DEF IInv, TypeInv, Framed
<1>2. req[r].kind = "delete" /\ req[r].todo \in {Emptying, Sparing} /\ req[r].rest = {}
  BY <1>1, AtStep DEF DeleteOrphan, Deleting
<1> DEFINE O == req[r].orphans \ {x}
<1>3. CASE /\ posts' = [posts EXCEPT ![x] = Absent] /\ raced' = raced \ {x}
           /\ req' = [req EXCEPT ![r].orphans = @ \ {x}]
  <2>1. former' = former
    BY DEF DeleteOrphan
  <2>2. req' = [req EXCEPT ![r] = [req[r] EXCEPT !.orphans = O]]
    BY <1>3
  <2> HIDE DEF O
  <2>3. req'[r] = [kind |-> "delete", pages |-> req[r].pages, rest |-> {},
                   todo |-> req[r].todo, orphans |-> O]
    BY <1>1, <1>2, <2>2 DEF Shape
  <2>4. /\ req' = [s \in Requests |-> req'[s]]
        /\ \A s \in Requests \ {r} : req'[s] = req[s]
    BY <1>1, <2>2
  <2>5. posts' \in [Posts -> [targets : SUBSET Pages, exists : BOOLEAN]]
    BY <1>1, <1>3 DEF TypeInv, Absent
  <2>6. TypeInv'
    <3>1. Shape(req'[r])
      BY <1>2, <2>3, Lists DEF Shape
    <3>2. \A s \in Requests \ {r} : Shape(req'[s])
      BY <1>1, <2>4 DEF TypeInv, Framed
    <3>. QED
      BY <1>1, <2>1, <2>4, <2>5, <3>1, <3>2 DEF TypeInv, Framed
  <2>7. /\ ~posts'[x].exists
        /\ \A y \in Posts \ {x} : posts'[y] = posts[y] /\ (y \in raced' <=> y \in raced)
    BY <1>1, <1>3 DEF TypeInv, Absent
  <2>8. EmptyPostRaced'
    BY <2>7 DEF IInv, EmptyPostRaced
  <2>9. ASSUME NEW s \in Requests, NEW q \in Pages, NEW y \in Posts, Bound(s, q)',
               posts'[y].exists, posts'[y].targets = {q}, y \notin raced'
        PROVE  y \in req'[s].orphans
    <3>1. y # x
      BY <2>7, <2>9
    <3>2. Bound(s, q)
      BY <1>2, <2>1, <2>3, <2>4, <2>9 DEF Bound, Going
    <3>3. y \in req[s].orphans
      BY <2>7, <2>9, <3>1, <3>2 DEF IInv, Covered
    <3>. QED
      BY <2>3, <2>4, <3>1, <3>3 DEF O
  <2>. QED
    BY <2>6, <2>8, <2>9 DEF IInv, Covered
<1>4. CASE /\ UNCHANGED <<posts, raced>>
           /\ req' = [req EXCEPT ![r] = [@ EXCEPT !.orphans = req[r].orphans \ {x},
                                                  !.todo = <<"orphans">>]]
  <2>1. req' = [req EXCEPT ![r] = [req[r] EXCEPT !.orphans = O, !.todo = Sparing]]
    BY <1>4 DEF Sparing
  <2> HIDE DEF O
  <2>2. req'[r] = [kind |-> "delete", pages |-> req[r].pages, rest |-> {},
                   todo |-> Sparing, orphans |-> O]
    BY <1>1, <1>2, <2>1 DEF Shape
  <2>3. /\ req' = [s \in Requests |-> req'[s]]
        /\ \A s \in Requests \ {r} : req'[s] = req[s]
    BY <1>1, <2>1
  <2>4. Shape(req'[r])
    BY <2>2, Lists DEF Shape
  <2>5. Framed(req')
    BY <1>1, <2>3, <2>4 DEF TypeInv, Framed
  <2>6. \A s \in Requests : Going(req'[s]) => req'[s] = req[s]
    BY <2>2, <2>3, Lists DEF Going
  <2>7. former' = former
    BY DEF DeleteOrphan
  <2>. QED
    BY <1>1, <1>4, <2>5, <2>6, <2>7, Apart DEF TypeInv
<1>. QED
  BY <1>3, <1>4 DEF DeleteOrphan

LEMMA OrphansDoneKeeps ==
  ASSUME IInv, NEW r \in Requests, OrphansDone(r)
  PROVE  IInv'
<1>1. TypeInv /\ Shape(req[r]) /\ req = [s \in Requests |-> req[s]]
  BY DEF IInv, TypeInv, Framed
<1>2. /\ req[r].kind = "delete" /\ req[r].todo \in {Emptying, Sparing}
      /\ req[r].rest = {} /\ req[r].orphans = {}
  BY <1>1, AtStep DEF OrphansDone, Deleting
<1>3. UNCHANGED <<posts, raced>>
  BY DEF OrphansDone
<1>4. CASE req[r].todo = Emptying
  <2>1. req' = [req EXCEPT ![r] = [req[r] EXCEPT !.todo = Ending]]
    BY <1>4, Lists DEF OrphansDone, Goes
  <2>2. req'[r] = [kind |-> "delete", pages |-> req[r].pages, rest |-> {},
                   todo |-> Ending, orphans |-> {}]
    BY <1>1, <1>2, <2>1 DEF Shape
  <2>3. /\ req' = [s \in Requests |-> req'[s]]
        /\ \A s \in Requests \ {r} : req'[s] = req[s]
    BY <1>1, <2>1
  <2>4. former' = former
    BY <2>2 DEF OrphansDone, Free
  <2>5. TypeInv'
    <3>1. Shape(req'[r])
      BY <2>2, Lists DEF Shape
    <3>. QED
      BY <1>1, <1>3, <2>3, <2>4, <3>1 DEF TypeInv, Framed
  <2>6. EmptyPostRaced'
    BY <1>3 DEF IInv, EmptyPostRaced
  <2>7. ASSUME NEW s \in Requests, NEW q \in Pages, NEW y \in Posts, Bound(s, q)',
               posts'[y].exists, posts'[y].targets = {q}, y \notin raced'
        PROVE  y \in req'[s].orphans
    <3>1. Bound(s, q) /\ req'[s].orphans = req[s].orphans
      BY <1>2, <1>4, <2>2, <2>3, <2>4, <2>7 DEF Bound, Going
    <3>. QED
      BY <1>3, <2>7, <3>1 DEF IInv, Covered
  <2>. QED
    BY <2>5, <2>6, <2>7 DEF IInv, Covered
<1>5. CASE req[r].todo = Sparing
  <2>1. req' = [req EXCEPT ![r] = Free]
    BY <1>2, <1>5, Lists DEF OrphansDone, Goes
  <2>2. Framed(req')
    BY <1>1, <2>1 DEF TypeInv, Framed, Shape, Free
  <2>3. req'[r] = Free /\ former' = [p \in Pages |-> former[p] \ {r}]
    BY <1>1, <2>1 DEF OrphansDone
  <2>4. \A s \in Requests : Going(req'[s]) =>
            req'[s] = req[s] /\ \A p \in Pages : s \in former[p] => s \in former'[p]
    BY <1>1, <2>1, <2>3 DEF TypeInv, Free, Going
  <2>5. former' \in [Pages -> SUBSET (Batches \cup Requests)]
    BY <1>1, <2>3 DEF TypeInv
  <2>. QED
    BY <1>3, <2>2, <2>4, <2>5, Apart
<1>. QED
  BY <1>2, <1>4, <1>5

LEMMA DeleteRowKeeps ==
  ASSUME IInv, NEW r \in Requests, NEW p \in Pages, DeleteRow(r, p)
  PROVE  IInv'
<1>1. TypeInv /\ req[r].pages = {p} /\ req' = [req EXCEPT ![r] = Free]
  BY DEF IInv, DeleteRow
<1>2. Going(req[r]) /\ req[r].orphans = {}
  BY <1>1, AtStep DEF DeleteRow, Deleting, Going
<1>3. Framed(req') /\ ~Going(req'[r]) /\ \A s \in Requests \ {r} : req'[s] = req[s]
  BY <1>1 DEF TypeInv, Framed, Shape, Free, Going
<1>4. CASE r \notin former[p]
  <2>1. former' = [former EXCEPT ![p] = Referring(p) \ {r}]
    BY <1>4 DEF DeleteRow
  <2>2. posts' = [x \in Posts |-> [posts[x] EXCEPT !.targets = posts[x].targets \ {p}]]
    BY <1>4 DEF DeleteRow
  <2>3. /\ raced \subseteq raced'
        /\ \A x \in Posts, s \in Requests \ {r} : \A q \in posts'[x].targets :
              p \in posts[x].targets /\ Listed(s, q) => x \in raced'
    BY <1>4 DEF DeleteRow
  <2>4. \A x \in Posts : /\ posts'[x].exists = posts[x].exists
                         /\ posts'[x].targets = posts[x].targets \ {p}
    BY <1>1, <2>2 DEF TypeInv
  <2>5. TypeInv'
    <3>1. posts' \in [Posts -> [targets : SUBSET Pages, exists : BOOLEAN]]
      BY <1>1, <2>2 DEF TypeInv
    <3>2. former' \in [Pages -> SUBSET (Batches \cup Requests)]
      BY <1>1, <2>1 DEF TypeInv, Referring
    <3>. QED
      BY <1>3, <3>1, <3>2 DEF TypeInv
  <2>6. ASSUME NEW x \in Posts, posts'[x].exists, posts'[x].targets = {}
        PROVE  x \in raced'
    <3>1. CASE posts[x].targets = {}
      BY <2>3, <2>4, <2>6, <3>1 DEF IInv, EmptyPostRaced
    <3>2. CASE posts[x].targets = {p}
      <4>1. Bound(r, p)
        BY <1>1, <1>2, <1>4 DEF Bound
      <4>2. x \in raced
        BY <1>2, <2>4, <2>6, <3>2, <4>1 DEF IInv, Covered
      <4>. QED
        BY <2>3, <4>2
    <3>. QED
      BY <2>4, <2>6, <3>1, <3>2
  <2>7. ASSUME NEW s \in Requests, NEW q \in Pages, NEW x \in Posts, Bound(s, q)',
               posts'[x].exists, posts'[x].targets = {q}, x \notin raced'
        PROVE  x \in req'[s].orphans
    <3>1. s # r /\ req'[s] = req[s] /\ Going(req[s]) /\ req[s].pages = {q}
      BY <1>3, <2>7 DEF Bound
    <3>2. q # p
      <4>1. s \in Referring(req[s].pages) \/ s \in Referring(q)
        BY <3>1 DEF Referring, Going
      <4>. QED
        BY <2>4, <2>7
    <3>3. Bound(s, q)
      BY <1>1, <2>1, <2>7, <3>1, <3>2 DEF Bound, TypeInv
    <3>4. Listed(s, q)
      BY <1>1, <3>1, AtStep DEF Listed, Going
    <3>5. posts[x].targets = {q}
      BY <2>3, <2>4, <2>7, <3>1, <3>4
    <3>. QED
      BY <2>3, <2>4, <2>7, <3>1, <3>3, <3>5 DEF IInv, Covered
  <2>. QED
    BY <2>5, <2>6, <2>7 DEF IInv, EmptyPostRaced, Covered
<1>5. CASE r \in former[p]
  <2>1. former' = [former EXCEPT ![p] = @ \ {r}] /\ UNCHANGED <<posts, raced>>
    BY <1>5 DEF DeleteRow
  <2>2. former' \in [Pages -> SUBSET (Batches \cup Requests)]
    BY <1>1, <2>1 DEF TypeInv
  <2>3. \A s \in Requests : Going(req'[s]) =>
            req'[s] = req[s] /\ \A q \in Pages : s \in former[q] => s \in former'[q]
    BY <1>1, <1>3, <2>1 DEF TypeInv
  <2>. QED
    BY <1>3, <2>1, <2>2, <2>3, Apart
<1>. QED
  BY <1>4, <1>5

LEMMA TargetPostKeeps ==
  ASSUME IInv, NEW x \in Posts, TargetPost(x)
  PROVE  IInv'
<1>1. TypeInv /\ UNCHANGED <<req, former>>
  BY DEF IInv, TargetPost
<1>2. PICK S \in (SUBSET Pages) \ {{}} :
        /\ posts' = [posts EXCEPT ![x] = [targets |-> S, exists |-> TRUE]]
        /\ raced' = IF \E r \in Requests, q \in S : Listed(r, q)
                    THEN raced \cup {x} ELSE raced \ {x}
  BY DEF TargetPost
<1>3. posts' \in [Posts -> [targets : SUBSET Pages, exists : BOOLEAN]]
  BY <1>1, <1>2 DEF TypeInv
<1>4. TypeInv'
  BY <1>1, <1>3 DEF TypeInv
<1>5. \A y \in Posts \ {x} : posts'[y] = posts[y] /\ (y \in raced' <=> y \in raced)
  BY <1>1, <1>2 DEF TypeInv
<1>6. posts'[x].targets = S
  BY <1>1, <1>2 DEF TypeInv
<1>7. EmptyPostRaced'
  BY <1>2, <1>5, <1>6 DEF IInv, EmptyPostRaced
<1>8. ASSUME NEW s \in Requests, NEW q \in Pages, NEW y \in Posts, Bound(s, q)',
             posts'[y].exists, posts'[y].targets = {q}, y \notin raced'
      PROVE  y \in req'[s].orphans
  <2>1. Bound(s, q)
    BY <1>1, <1>8 DEF Bound
  <2>2. Listed(s, q)
    BY <1>1, <2>1, AtStep DEF Listed, Bound, Going
  <2>3. y # x
    BY <1>2, <1>6, <1>8, <2>2
  <2>. QED
    BY <1>1, <1>5, <1>8, <2>1, <2>3 DEF IInv, Covered
<1>. QED
  BY <1>4, <1>7, <1>8 DEF IInv, Covered

-----------------------------------------------------------------------------
(* The theorem *)

LEMMA InitIInv == Init => IInv
<1> SUFFICES ASSUME Init
             PROVE  IInv
  OBVIOUS
<1>1. Framed(req)
  BY DEF Init, Framed, Shape, Free
<1>2. TypeInv
  BY <1>1 DEF Init, TypeInv, Absent
<1>3. EmptyPostRaced /\ Covered
  BY DEF Init, EmptyPostRaced, Covered, Absent
<1>. QED
  BY <1>2, <1>3 DEF IInv

LEMMA IInvStep ==
  ASSUME IInv, [Next]_vars
  PROVE  IInv'
<1>1. ASSUME NEW r \in Requests, ConnectStart(r)
      PROVE  IInv'
  BY <1>1, ConnectStartKeeps
<1>2. ASSUME NEW r \in Requests, ConnectStep(r) \/ ConnectFails(r)
      PROVE  IInv'
  BY <1>2, ConnectKeeps
<1>3. ASSUME NEW r \in Requests, RequestDies(r)
      PROVE  IInv'
  BY <1>3, RequestDiesKeeps
<1>4. ASSUME NEW r \in Requests, DeleteStep(r)
      PROVE  IInv'
  BY <1>4, OrphansDoneKeeps, ListOrphansKeeps, DeleteRowKeeps, DeleteOrphanKeeps
     DEF DeleteStep
<1>5. ASSUME NEW r \in Requests, NEW p \in Pages, DeleteStart(r, p)
      PROVE  IInv'
  BY <1>5, DeleteStartKeeps
<1>6. ASSUME NEW b \in Batches,
             \/ BatchStart(b) \/ BatchDies(b)
             \/ \E p \in Pages : RefreshStep(b, p) \/ RefreshFails(b, p)
      PROVE  IInv'
  BY <1>6, BatchKeeps
<1>7. ASSUME UNCHANGED <<req, former, posts, raced>>
      PROVE  IInv'
  BY <1>7 DEF IInv, TypeInv, EmptyPostRaced, Covered, Bound
<1>8. ASSUME NEW p \in Pages, Ages(p) \/ Withdrawn(p)
      PROVE  IInv'
  BY <1>7, <1>8 DEF Ages, Withdrawn
<1>9. ASSUME NEW x \in Posts, TargetPost(x)
      PROVE  IInv'
  BY <1>9, TargetPostKeeps
<1>10. CASE UNCHANGED vars
  BY <1>7, <1>10 DEF vars
<1>. QED
  BY <1>1, <1>2, <1>3, <1>4, <1>5, <1>6, <1>8, <1>9, <1>10 DEF Next

(* A post is left without targets only when it changed between a deletion's *)
(* listing of the orphans and that deletion's end (deleteAccount), for any  *)
(* number of concurrent requests, jobs and failures.                        *)
THEOREM OrphansGoWithAccount == Spec => []EmptyPostRaced
<1>1. IInv => EmptyPostRaced
  BY DEF IInv
<1>. QED
  BY InitIInv, IInvStep, <1>1, PTL DEF Spec

-----------------------------------------------------------------------------
(* Tokens and those who hold them *)

HasIn(T, h) == \E t \in T : h \in t

\* What a request holds nobody else does.
SoleIn(T) == \A t \in T : \A r \in Requests : r \in t => t = {r}

\* The refresh jobs that hold a token are at work with the page, those that share
\* one know the same account, and with the row the account there is.
HeldIn(T, busy, old) ==
    \A t \in T : \A b \in Batches : b \in t =>
        /\ b \in busy
        /\ "row" \in t => b \notin old
        /\ \A c \in Batches : c \in t => (b \in old <=> c \in old)

LEMMA Apartness ==
  /\ "row" \notin Requests /\ "row" \notin Batches
  /\ \A r \in Requests : r \notin Batches
BY AccountsAssumption

LEMMA ExceptHas ==
  ASSUME NEW T, NEW h, SoleIn(T)
  PROVE  /\ \A k : HasIn(Except(T, h), k) <=> k # h /\ HasIn(T, k)
         /\ SoleIn(Except(T, h))
         /\ \A busy, old : HeldIn(T, busy, old) => HeldIn(Except(T, h), busy, old)
         /\ \A busy, old : HeldIn(T, busy, old) => HeldIn(Except(T, h), busy \ {h}, old \ {h})
<1>1. \A u : u \in Except(T, h) <=> u # {} /\ \E t \in T : u = t \ {h}
  BY DEF Except
<1>2. ASSUME NEW k PROVE HasIn(Except(T, h), k) <=> k # h /\ HasIn(T, k)
  <2>1. ASSUME k # h, NEW t \in T, k \in t PROVE t \ {h} \in Except(T, h) /\ k \in t \ {h}
    BY <1>1, <2>1
  <2>2. ASSUME NEW u \in Except(T, h), k \in u PROVE k # h /\ \E t \in T : k \in t
    BY <1>1, <2>2
  <2>. QED
    BY <2>1, <2>2 DEF HasIn
<1>3. SoleIn(Except(T, h))
  <2>1. ASSUME NEW u \in Except(T, h), NEW r \in Requests, r \in u PROVE u = {r}
    <3>1. PICK t \in T : u = t \ {h}
      BY <1>1
    <3>2. r \in t
      BY <2>1, <3>1
    <3>3. t = {r}
      BY <3>2 DEF SoleIn
    <3>. QED
      BY <2>1, <3>1, <3>3
  <2>. QED
    BY <2>1 DEF SoleIn
<1>4. ASSUME NEW busy, NEW old, HeldIn(T, busy, old)
      PROVE  HeldIn(Except(T, h), busy, old) /\ HeldIn(Except(T, h), busy \ {h}, old \ {h})
  <2>1. ASSUME NEW u \in Except(T, h), NEW b \in Batches, b \in u
        PROVE  /\ b \in busy /\ b # h /\ ("row" \in u => b \notin old)
               /\ \A c \in Batches : c \in u => c # h /\ (b \in old <=> c \in old)
    <3>1. PICK t \in T : u = t \ {h}
      BY <1>1
    <3>. QED
      BY <1>4, <2>1, <3>1 DEF HeldIn
  <2>. QED
    BY <2>1 DEF HeldIn
<1>. QED
  BY <1>2, <1>3, <1>4

LEMMA IssueHas ==
  ASSUME NEW T, NEW h \in Batches \cup Requests, SoleIn(T)
  PROVE  LET U == Except(T, h) \cup {{h}}
         IN  /\ \A k : HasIn(U, k) <=> k = h \/ HasIn(T, k)
             /\ SoleIn(U)
             /\ \A busy, old : HeldIn(T, busy, old) /\ (h \in Batches => h \in busy)
                                   => HeldIn(U, busy, old)
<1>. DEFINE U == Except(T, h) \cup {{h}}
<1>1. \A k : HasIn(U, k) <=> k = h \/ HasIn(Except(T, h), k)
  BY DEF HasIn
<1>2. \A k : HasIn(U, k) <=> k = h \/ HasIn(T, k)
  BY <1>1, ExceptHas
<1>3. SoleIn(U)
  BY ExceptHas DEF SoleIn
<1>4. ASSUME NEW busy, NEW old, HeldIn(T, busy, old), h \in Batches => h \in busy
      PROVE  HeldIn(U, busy, old)
  BY <1>4, ExceptHas, Apartness DEF HeldIn
<1>. QED
  BY <1>2, <1>3, <1>4

\* k lets go of its token and h has it instead: Copied, and then Except.
Passed(T, k, h) == Except({IF k \in t THEN t \cup {h} ELSE t \ {h} : t \in T} \ {{}}, k)

LEMMA PassedHas ==
  ASSUME NEW T, NEW k \in Batches \cup Requests, SoleIn(T)
  PROVE  LET U == Passed(T, k, "row")
         IN  /\ \A j : HasIn(U, j) <=> IF j = "row" THEN HasIn(T, k) ELSE j # k /\ HasIn(T, j)
             /\ SoleIn(U)
             /\ \A busy, old : HeldIn(T, busy, old) /\ k \notin old
                                   => HeldIn(U, busy \ {k}, old \ {k})
<1>. DEFINE C == {IF k \in t THEN t \cup {"row"} ELSE t \ {"row"} : t \in T} \ {{}}
            U == Passed(T, k, "row")
<1>1. \A u : u \in C <=> u # {} /\ \E t \in T : u = IF k \in t THEN t \cup {"row"} ELSE t \ {"row"}
  OBVIOUS
<1>2. U = Except(C, k)
  BY DEF Passed
<1>. HIDE DEF C, U
<1>3. \A u : u \in U <=> u # {} /\ \E t \in T :
                            u = IF k \in t THEN (t \cup {"row"}) \ {k} ELSE t \ {"row"}
  <2>1. \A u : u \in U <=> u # {} /\ \E c \in C : u = c \ {k}
    BY <1>2 DEF Except
  <2>2. ASSUME NEW u, u # {}, NEW c \in C, u = c \ {k}
        PROVE  \E t \in T : u = IF k \in t THEN (t \cup {"row"}) \ {k} ELSE t \ {"row"}
    <3>1. PICK t \in T : c = IF k \in t THEN t \cup {"row"} ELSE t \ {"row"}
      BY <1>1
    <3>. QED
      BY <2>2, <3>1
  <2>3. ASSUME NEW u, u # {}, NEW t \in T,
               u = IF k \in t THEN (t \cup {"row"}) \ {k} ELSE t \ {"row"}
        PROVE  \E c \in C : u = c \ {k}
    <3>. DEFINE c == IF k \in t THEN t \cup {"row"} ELSE t \ {"row"}
    <3>1. u = c \ {k} /\ c # {}
      BY <2>3
    <3>2. c \in C
      BY <1>1, <3>1
    <3>. QED
      BY <3>1, <3>2
  <2>. QED
    BY <2>1, <2>2, <2>3
<1>4. k # "row"
  BY Apartness
<1>5. ASSUME NEW j
      PROVE  HasIn(U, j) <=> IF j = "row" THEN HasIn(T, k) ELSE j # k /\ HasIn(T, j)
  <2>1. ASSUME NEW u \in U, j \in u
        PROVE  IF j = "row" THEN HasIn(T, k) ELSE j # k /\ HasIn(T, j)
    <3>1. PICK t \in T : u = IF k \in t THEN (t \cup {"row"}) \ {k} ELSE t \ {"row"}
      BY <1>3
    <3>. QED
      BY <2>1, <3>1 DEF HasIn
  <2>2. ASSUME NEW t \in T, j # "row", j # k, j \in t PROVE \E u \in U : j \in u
    <3>. DEFINE u == IF k \in t THEN (t \cup {"row"}) \ {k} ELSE t \ {"row"}
    <3>1. j \in u
      BY <2>2
    <3>. QED
      BY <1>3, <3>1
  <2>3. ASSUME NEW t \in T, k \in t PROVE \E u \in U : "row" \in u
    <3>. DEFINE u == (t \cup {"row"}) \ {k}
    <3>1. "row" \in u
      BY <1>4
    <3>. QED
      BY <1>3, <2>3, <3>1
  <2>. QED
    BY <2>1, <2>2, <2>3 DEF HasIn
<1>6. SoleIn(U)
  <2>1. ASSUME NEW u \in U, NEW r \in Requests, r \in u PROVE u = {r}
    <3>1. PICK t \in T : u = IF k \in t THEN (t \cup {"row"}) \ {k} ELSE t \ {"row"}
      BY <1>3
    <3>2. r \in t
      BY <2>1, <3>1, Apartness
    <3>3. t = {r}
      BY <3>2 DEF SoleIn
    <3>. QED
      BY <2>1, <3>1, <3>3, Apartness
  <2>. QED
    BY <2>1 DEF SoleIn
<1>7. ASSUME NEW busy, NEW old, HeldIn(T, busy, old), k \notin old
      PROVE  HeldIn(U, busy \ {k}, old \ {k})
  <2>1. ASSUME NEW u \in U, NEW b \in Batches, b \in u
        PROVE  /\ b \in busy \ {k} /\ ("row" \in u => b \notin old)
               /\ \A c \in Batches : c \in u => (b \in old <=> c \in old)
    <3>1. PICK t \in T : u = IF k \in t THEN (t \cup {"row"}) \ {k} ELSE t \ {"row"}
      BY <1>3
    <3>2. b \in t /\ b # k
      BY <2>1, <3>1, Apartness
    <3>3. \A c \in Batches : c \in u => c \in t
      BY <3>1, Apartness
    <3>4. "row" \in u => k \in t
      BY <3>1
    <3>5. k \in t => k \in Batches
      BY <3>2 DEF SoleIn
    <3>. QED
      BY <1>7, <3>2, <3>3, <3>4, <3>5 DEF HeldIn
  <2>. QED
    BY <2>1 DEF HeldIn
<1>. QED
  BY <1>5, <1>6, <1>7 DEF U

-----------------------------------------------------------------------------
(* What a page's tokens depend on *)

\* A connector's lists of steps before the platform has answered a token, and
\* after it.
Early == {<<"read", "page">>, <<"page">>, <<"grant", "find">>, <<"grant", "read", "find">>,
          <<"read", "grant", "find">>, <<"read", "grant", "read", "find">>}
Late == {<<"read", "find">>, <<"find">>, <<"update">>, <<"save">>}

\* Request r carries a token of the page that it is going to store.
StoresOf(f, p) == f.kind = "connect" /\ f.pages = {p} /\ f.todo \in Late

Busy(p) == {b \in Batches : task[b][p] # "settled"}
Writers(p) == {b \in Batches : task[b][p] = "write"}
Storers(p) == {r \in Requests : StoresOf(req[r], p)}
Updaters(p) == {r \in Storers(p) : req[r].todo # <<"save">>}

View(p) ==
    [on |-> platform[p], row |-> rows[p], tokens |-> tokens[p], busy |-> Busy(p),
     writers |-> Writers(p), former |-> former[p] \cap Batches, storers |-> Storers(p),
     updaters |-> Updaters(p), excused |-> excused \cap {p}]

\* The row's token works, or it is excused, or the one that replaced it is on its
\* way to the row, which is the row meant.
Backed(v) ==
    \/ v.row = "none" \/ v.excused # {} \/ v.on = "youtube"
    \/ HasIn(v.tokens, "row")
    \/ \E b \in v.writers \ v.former : HasIn(v.tokens, b)
    \/ \E r \in v.updaters : HasIn(v.tokens, r)

Sound(v) ==
    /\ SoleIn(v.tokens) /\ HeldIn(v.tokens, v.busy, v.former)
    /\ v.busy # {} => v.on # "linkedin"
    /\ v.writers \subseteq v.busy
    /\ v.excused # {} \/ v.on = "youtube" \/ \A b \in v.writers : HasIn(v.tokens, b)
    /\ v.excused # {} \/ \A r \in v.storers : HasIn(v.tokens, r)
    /\ Backed(v)

\* The sets of a view are made of requests and of refresh jobs.
Viewed(v) ==
    /\ v.busy \subseteq Batches /\ v.writers \subseteq Batches /\ v.former \subseteq Batches
    /\ v.storers \subseteq Requests /\ v.updaters \subseteq v.storers

LEMMA ViewFields ==
  ASSUME NEW p
  PROVE  /\ View(p).on = platform[p] /\ View(p).row = rows[p]
         /\ View(p).tokens = tokens[p] /\ View(p).excused = excused \cap {p}
         /\ View(p).busy = Busy(p) /\ View(p).writers = Writers(p)
         /\ View(p).former = former[p] \cap Batches
         /\ View(p).storers = Storers(p) /\ View(p).updaters = Updaters(p)
         /\ Viewed(View(p))
BY DEF View, Viewed, Busy, Writers, Storers, Updaters

-----------------------------------------------------------------------------
(* The steps, as one page sees them *)


\* A connector's token is answered; the platform voids the older ones or not.
LEMMA GrantSees ==
  ASSUME NEW v, NEW w, NEW r \in Requests, Sound(v), Viewed(v), Viewed(w),
         w.on = v.on, w.row = v.row, w.busy = v.busy, w.writers = v.writers,
         w.former = v.former,
         w.storers = v.storers \cup {r}, w.updaters = v.updaters \cup {r},
         \/ w.tokens = Except(v.tokens, r) \cup {{r}} /\ w.excused = v.excused
         \/ /\ w.tokens = Except({}, r) \cup {{r}}
            /\ w.excused # {} \/ (v.busy = {} /\ v.storers = {})
  PROVE  Sound(w)
<1>. r \in Batches \cup Requests /\ r \notin Batches
  BY Apartness
<1>1. CASE w.tokens = Except(v.tokens, r) \cup {{r}} /\ w.excused = v.excused
  <2>1. SoleIn(v.tokens) /\ HeldIn(v.tokens, v.busy, v.former)
    BY DEF Sound
  <2>2. /\ \A k : HasIn(w.tokens, k) <=> (k = r \/ HasIn(v.tokens, k))
        /\ SoleIn(w.tokens) /\ HeldIn(w.tokens, v.busy, v.former)
    <3>. DEFINE U == Except(v.tokens, r) \cup {{r}}
    <3>1. \A k : HasIn(U, k) <=> (k = r \/ HasIn(v.tokens, k))
      BY <2>1, IssueHas
    <3>2. SoleIn(U)
      BY <2>1, IssueHas
    <3>3. HeldIn(U, v.busy, v.former)
      BY <2>1, IssueHas
    <3>. QED
      BY <1>1, <3>1, <3>2, <3>3
  <2>. QED
    BY <1>1, <2>2 DEF Sound, Backed
<1>2. CASE /\ w.tokens = Except({}, r) \cup {{r}}
           /\ w.excused # {} \/ (v.busy = {} /\ v.storers = {})
  <2>1. SoleIn({}) /\ HeldIn({}, v.busy, v.former)
    BY DEF SoleIn, HeldIn
  <2>2. /\ \A k : HasIn(w.tokens, k) <=> (k = r \/ HasIn({}, k))
        /\ SoleIn(w.tokens) /\ HeldIn(w.tokens, v.busy, v.former)
    <3>. DEFINE U == Except({}, r) \cup {{r}}
    <3>1. \A k : HasIn(U, k) <=> (k = r \/ HasIn({}, k))
      BY <2>1, IssueHas
    <3>2. SoleIn(U)
      BY <2>1, IssueHas
    <3>3. HeldIn(U, v.busy, v.former)
      BY <2>1, IssueHas
    <3>. QED
      BY <1>2, <3>1, <3>2, <3>3
  <2>. QED
    BY <1>2, <2>2 DEF Sound, Backed, Viewed
<1>. QED
  BY <1>1, <1>2

\* A request is over, and with it the token it carried.
LEMMA DropSees ==
  ASSUME NEW v, NEW w, NEW r \in Requests, Sound(v), Viewed(v),
         w.on = v.on, w.row = v.row, w.busy = v.busy, w.writers = v.writers,
         w.former = v.former,
         w.storers = v.storers \ {r}, w.updaters = v.updaters \ {r},
         w.tokens = Except(v.tokens, r), v.excused \subseteq w.excused,
         r \in v.updaters => v.row = "none" \/ HasIn(w.tokens, "row") \/ w.excused # {}
  PROVE  Sound(w)
<1>1. /\ \A k : HasIn(w.tokens, k) <=> k # r /\ HasIn(v.tokens, k)
      /\ SoleIn(w.tokens) /\ HeldIn(w.tokens, v.busy, v.former)
  BY ExceptHas DEF Sound
<1>2. r \notin v.writers /\ r # "row"
  BY Apartness DEF Viewed
<1>3. Backed(w)
  BY <1>1, <1>2 DEF Sound, Backed
<1>. QED
  BY <1>1, <1>2, <1>3 DEF Sound

\* A request has read whether the row exists, or a token has grown old.
LEMMA FindSees ==
  ASSUME NEW v, NEW w, Sound(v),
         w.on = v.on, w.busy = v.busy, w.writers = v.writers, w.former = v.former,
         w.storers = v.storers, w.tokens = v.tokens, w.excused = v.excused,
         v.row = "none" => w.row = "none", w.row = "none" \/ w.updaters = v.updaters
  PROVE  Sound(w)
BY DEF Sound, Backed

\* k writes the row: its token, should it work, is the row's.
LEMMA StoreSees ==
  ASSUME NEW v, NEW w, NEW k \in Batches \cup Requests, Sound(v), Viewed(v),
         w.on = v.on, w.tokens = Passed(v.tokens, k, "row"),
         w.busy = v.busy \ {k}, w.writers = v.writers \ {k}, w.former = v.former \ {k},
         w.storers = v.storers \ {k}, k \notin v.former,
         k \in v.writers \cup v.storers,
         \/ w.excused = v.excused
         \/ HasIn(v.tokens, k) /\ v.busy = {} /\ v.storers = {k}
  PROVE  Sound(w)
<1>1. /\ \A j : HasIn(w.tokens, j) <=> IF j = "row" THEN HasIn(v.tokens, k)
                                       ELSE j # k /\ HasIn(v.tokens, j)
      /\ SoleIn(w.tokens) /\ HeldIn(w.tokens, w.busy, w.former)
  BY PassedHas DEF Sound
<1>2. "row" \notin v.writers \cup v.storers /\ w.writers \subseteq w.busy
  BY Apartness DEF Viewed, Sound
<1>3. CASE w.excused = v.excused
  BY <1>1, <1>2, <1>3 DEF Sound, Backed, Viewed
<1>4. CASE HasIn(v.tokens, k) /\ v.busy = {} /\ v.storers = {k}
  BY <1>1, <1>2, <1>4 DEF Sound, Backed, Viewed
<1>. QED
  BY <1>3, <1>4

\* A refresh job starts with the page, or lets an idle one pass.
LEMMA StartSees ==
  ASSUME NEW v, NEW w, NEW b \in Batches, Sound(v), Viewed(v), b \notin v.busy,
         w.on = v.on, w.row = v.row, w.writers = v.writers,
         w.former = v.former \ {b}, w.storers = v.storers, w.updaters = v.updaters,
         w.excused = v.excused,
         \/ w.tokens = v.tokens /\ w.busy = v.busy
         \/ /\ w.tokens = {IF "row" \in t THEN t \cup {b} ELSE t \ {b} : t \in v.tokens} \ {{}}
            /\ w.busy = v.busy \cup {b} /\ v.on # "linkedin"
  PROVE  Sound(w)
<1>1. \A t \in v.tokens : b \notin t
  BY DEF Sound, HeldIn
<1>2. b \notin Requests /\ b # "row" /\ "row" \notin Batches /\ b \notin v.writers
      /\ "row" \notin Requests
  BY Apartness DEF Sound
<1>3. CASE w.tokens = v.tokens /\ w.busy = v.busy
  <2>1. HeldIn(v.tokens, w.busy, w.former)
    BY <1>1, <1>3 DEF Sound, HeldIn
  <2>. QED
    BY <1>2, <1>3, <2>1 DEF Sound, Backed
<1>4. CASE /\ w.tokens = {IF "row" \in t THEN t \cup {b} ELSE t \ {b} : t \in v.tokens} \ {{}}
           /\ w.busy = v.busy \cup {b} /\ v.on # "linkedin"
  <2>1. \A u : u \in w.tokens <=> u # {} /\ \E t \in v.tokens :
                                      u = IF "row" \in t THEN t \cup {b} ELSE t
    <3>. DEFINE F(t) == IF "row" \in t THEN t \cup {b} ELSE t \ {b}
                G(t) == IF "row" \in t THEN t \cup {b} ELSE t
    <3>1. \A t \in v.tokens : F(t) = G(t)
      BY <1>1
    <3>2. \A u : u \in w.tokens <=> u # {} /\ \E t \in v.tokens : u = F(t)
      BY <1>4
    <3>3. \A u : u \in w.tokens <=> u # {} /\ \E t \in v.tokens : u = G(t)
      <4>. HIDE DEF F, G
      <4>. QED
        BY <3>1, <3>2
    <3>. QED
      BY <3>3
  <2>2. ASSUME NEW k, k # b PROVE HasIn(w.tokens, k) <=> HasIn(v.tokens, k)
    <3>1. ASSUME NEW t \in v.tokens, k \in t PROVE \E u \in w.tokens : k \in u
      <4>. DEFINE u == IF "row" \in t THEN t \cup {b} ELSE t
      <4>1. k \in u
        BY <3>1
      <4>. QED
        BY <2>1, <4>1
    <3>. QED
      BY <2>1, <2>2, <3>1 DEF HasIn
  <2>3. SoleIn(w.tokens)
    BY <1>2, <2>1 DEF Sound, SoleIn
  <2>4. HeldIn(w.tokens, w.busy, w.former)
    <3>1. ASSUME NEW u \in w.tokens, NEW c \in Batches, c \in u
          PROVE  /\ c \in w.busy /\ ("row" \in u => c \notin w.former)
                 /\ \A d \in Batches : d \in u => (c \in w.former <=> d \in w.former)
      <4>1. PICK t \in v.tokens : u = IF "row" \in t THEN t \cup {b} ELSE t
        BY <2>1
      <4>2. CASE "row" \in t
        <5>1. \A d \in Batches \ {b} : d \in u => d \in t
          BY <4>1, <4>2
        <5>2. \A d \in Batches : d \in t => d \in v.busy /\ d \notin v.former
          BY <4>2 DEF Sound, HeldIn
        <5>. QED
          BY <1>4, <3>1, <5>1, <5>2
      <4>3. CASE "row" \notin t
        BY <1>1, <1>4, <3>1, <4>1, <4>3 DEF Sound, HeldIn
      <4>. QED
        BY <4>2, <4>3
    <3>. QED
      BY <3>1 DEF HeldIn
  <2>5. \A k \in v.writers \cup v.storers \cup {"row"} : k # b
    BY <1>2 DEF Viewed
  <2>6. Backed(w)
    BY <1>2, <2>2, <2>5 DEF Sound, Backed, Viewed
  <2>. QED
    BY <1>2, <1>4, <2>2, <2>3, <2>4, <2>5, <2>6 DEF Sound
<1>. QED
  BY <1>3, <1>4

\* What is left of the tokens when the platform has taken b's, if it voids that.
Shown(T, b) == {T, {t \in T : b \notin t}}

LEMMA ShownHas ==
  ASSUME NEW T, NEW b, NEW A \in Shown(T, b), SoleIn(T), b \in Batches
  PROVE  /\ SoleIn(A)
         /\ \A busy, old : HeldIn(T, busy, old) => HeldIn(A, busy, old)
         /\ \A k : HasIn(T, k) => HasIn(A, k) \/ \E t \in T : b \in t /\ k \in t
         /\ \A r \in Requests : HasIn(T, r) => HasIn(A, r)
<1>1. A \subseteq T /\ \A t \in T : t \in A \/ b \in t
  BY DEF Shown
<1>2. \A r \in Requests, t \in T : r \in t => b \notin t
  BY Apartness DEF SoleIn
<1>. QED
  BY <1>1, <1>2 DEF SoleIn, HeldIn, HasIn

\* A refresh job's token is answered with a new one.
LEMMA AnswerSees ==
  ASSUME NEW v, NEW w, NEW b \in Batches, NEW A \in Shown(v.tokens, b), Sound(v), Viewed(v),
         b \in v.busy, HasIn(v.tokens, b),
         w.on = v.on, w.row = v.row, w.busy = v.busy, w.writers = v.writers \cup {b},
         w.former = v.former, w.storers = v.storers, w.updaters = v.updaters,
         w.tokens = Except(A, b) \cup {{b}}, v.excused \subseteq w.excused,
         \/ w.excused # {}
         \/ \A c \in v.writers \ {b}, t \in v.tokens : ~(b \in t /\ c \in t)
  PROVE  Sound(w)
<1>1. SoleIn(v.tokens) /\ HeldIn(v.tokens, v.busy, v.former)
  BY DEF Sound
<1>2. SoleIn(A) /\ HeldIn(A, v.busy, v.former)
  BY <1>1, ShownHas
<1>3. \A k : HasIn(v.tokens, k) => HasIn(A, k) \/ \E t \in v.tokens : b \in t /\ k \in t
  BY <1>1, ShownHas
<1>4. \A r \in Requests : HasIn(v.tokens, r) => HasIn(A, r)
  BY <1>1, ShownHas
<1>5. b \in Batches \cup Requests
  OBVIOUS
<1>. DEFINE U == Except(A, b) \cup {{b}}
<1>6. \A k : HasIn(U, k) <=> (k = b \/ HasIn(A, k))
  BY <1>2, <1>5, IssueHas
<1>7. SoleIn(U)
  BY <1>2, <1>5, IssueHas
<1>8. HeldIn(U, v.busy, v.former)
  BY <1>2, <1>5, IssueHas
<1>. w.tokens = U
  OBVIOUS
<1>. HIDE DEF U
<1>9. \A c \in v.writers : HasIn(v.tokens, c) => w.excused # {} \/ HasIn(w.tokens, c)
  BY <1>3, <1>6
<1>10. HasIn(v.tokens, "row") =>
          HasIn(w.tokens, "row") \/ (b \in w.writers \ w.former /\ HasIn(w.tokens, b))
  BY <1>1, <1>3, <1>6 DEF HeldIn
<1>11. \A r \in v.storers : HasIn(v.tokens, r) => HasIn(w.tokens, r)
  BY <1>4, <1>6 DEF Viewed
<1>12. Backed(w)
  BY <1>9, <1>10, <1>11 DEF Sound, Backed, Viewed
<1>. QED
  BY <1>6, <1>7, <1>8, <1>9, <1>11, <1>12 DEF Sound

\* A refresh job goes on with the token it has shown.
LEMMA KeepSees ==
  ASSUME NEW v, NEW w, NEW b \in Batches, Sound(v), b \in v.busy, HasIn(v.tokens, b),
         w.on = v.on, w.row = v.row, w.busy = v.busy, w.writers = v.writers \cup {b},
         w.former = v.former, w.storers = v.storers, w.updaters = v.updaters,
         w.tokens = v.tokens, w.excused = v.excused
  PROVE  Sound(w)
BY DEF Sound, Backed

\* YouTube's refresh job goes on without a token.
LEMMA LoseSees ==
  ASSUME NEW v, NEW w, NEW b \in Batches, Sound(v), Viewed(v), b \in v.busy,
         w.on = v.on, w.row = v.row, w.busy = v.busy, w.writers = v.writers \cup {b},
         w.former = v.former, w.storers = v.storers, w.updaters = v.updaters,
         w.tokens = Except(v.tokens, b), v.excused \subseteq w.excused, v.on = "youtube"
  PROVE  Sound(w)
<1>1. /\ \A k : HasIn(w.tokens, k) <=> k # b /\ HasIn(v.tokens, k)
      /\ SoleIn(w.tokens) /\ HeldIn(w.tokens, v.busy, v.former)
  BY ExceptHas DEF Sound
<1>. QED
  BY <1>1, Apartness DEF Sound, Backed, Viewed

\* A refresh job has done with the page, without writing.
LEMMA SettleSees ==
  ASSUME NEW v, NEW w, NEW b \in Batches, NEW A \in Shown(v.tokens, b), Sound(v), Viewed(v),
         w.on = v.on, w.row = v.row, w.busy = v.busy \ {b}, w.writers = v.writers \ {b},
         w.former = v.former \ {b}, w.storers = v.storers, w.updaters = v.updaters,
         w.tokens = Except(A, b), v.excused \subseteq w.excused,
         \/ w.excused # {} \/ A = v.tokens
         \/ \A c \in v.writers \ {b}, t \in v.tokens : ~(b \in t /\ c \in t),
         \/ w.row = "none" \/ w.on = "youtube" \/ w.excused # {} \/ HasIn(w.tokens, "row")
         \/ b \notin v.writers \ v.former /\ A = v.tokens
  PROVE  Sound(w)
<1>1. SoleIn(v.tokens) /\ HeldIn(v.tokens, v.busy, v.former)
  BY DEF Sound
<1>2. SoleIn(A) /\ HeldIn(A, v.busy, v.former)
  BY <1>1, ShownHas
<1>3. \A k : HasIn(v.tokens, k) => HasIn(A, k) \/ \E t \in v.tokens : b \in t /\ k \in t
  BY <1>1, ShownHas
<1>4. \A r \in Requests : HasIn(v.tokens, r) => HasIn(A, r)
  BY <1>1, ShownHas
<1>5. \A k : HasIn(w.tokens, k) <=> (k # b /\ HasIn(A, k))
  BY <1>2, ExceptHas
<1>6. SoleIn(w.tokens) /\ HeldIn(w.tokens, w.busy, w.former)
  BY <1>2, ExceptHas
<1>7. \A c \in w.writers : HasIn(v.tokens, c) => w.excused # {} \/ HasIn(w.tokens, c)
  BY <1>3, <1>5
<1>8. \A r \in v.storers : HasIn(v.tokens, r) => HasIn(w.tokens, r)
  BY <1>4, <1>5, Apartness DEF Viewed
<1>9. CASE b \notin v.writers \ v.former /\ A = v.tokens
  <2>1. HasIn(v.tokens, "row") => HasIn(w.tokens, "row")
    BY <1>5, <1>9, Apartness
  <2>2. Backed(w)
    BY <1>7, <1>8, <1>9, <2>1 DEF Sound, Backed, Viewed
  <2>. QED
    BY <1>6, <1>7, <1>8, <2>2 DEF Sound
<1>10. CASE w.row = "none" \/ w.on = "youtube" \/ w.excused # {} \/ HasIn(w.tokens, "row")
  BY <1>6, <1>7, <1>8, <1>10 DEF Sound, Backed
<1>. QED
  BY <1>9, <1>10

\* The platform refuses a job without a token that works.
LEMMA RefusedSees ==
  ASSUME NEW v, NEW w, NEW b \in Batches, Sound(v), ~HasIn(v.tokens, b),
         w.on = v.on, w.row = v.row, w.busy = v.busy \ {b}, w.writers = v.writers \ {b},
         w.former = v.former \ {b}, w.storers = v.storers, w.updaters = v.updaters,
         w.tokens = v.tokens, w.excused = v.excused
  PROVE  Sound(w)
BY DEF Sound, Backed, HeldIn, HasIn

LEMMA DeleteSees ==
  ASSUME NEW v, NEW w, Sound(v), Viewed(v),
         w.on = v.on, w.row = "none", w.busy = v.busy, w.writers = v.writers,
         w.former = v.busy, w.storers = v.storers, w.updaters = v.updaters,
         w.tokens = Except(v.tokens, "row"), w.excused = v.excused
  PROVE  Sound(w)
<1>1. /\ \A k : HasIn(w.tokens, k) <=> (k # "row" /\ HasIn(v.tokens, k))
      /\ SoleIn(w.tokens) /\ HeldIn(w.tokens, v.busy, v.former)
  BY ExceptHas DEF Sound
<1>2. "row" \notin v.writers \cup v.storers
  BY Apartness DEF Viewed
<1>3. \A t \in w.tokens : "row" \notin t
  BY <1>1 DEF HasIn
<1>4. HeldIn(w.tokens, w.busy, w.former)
  BY <1>1, <1>3 DEF HeldIn
<1>. QED
  BY <1>1, <1>2, <1>4 DEF Sound, Backed

LEMMA WithdrawnSees ==
  ASSUME NEW v, NEW w, Sound(v),
         w.on = v.on, w.row = v.row, w.busy = v.busy, w.writers = v.writers,
         w.former = v.former, w.storers = v.storers, w.updaters = v.updaters,
         w.tokens = {}, w.excused # {}
  PROVE  Sound(w)
BY DEF Sound, Backed, SoleIn, HeldIn

-----------------------------------------------------------------------------
(* The connectors' lists of steps *)

LEMMA EarlyLists ==
  ASSUME NEW todo \in Early
  PROVE  /\ todo \notin Late /\ todo # <<>>
         /\ Head(todo) \in {"read", "page", "grant"}
         /\ Head(todo) = "read" => Tail(todo) \in Early
         /\ Head(todo) = "grant" => Tail(todo) \in {<<"find">>, <<"read", "find">>}
<1>1. CASE todo = <<"read", "page">>
  <2>1. Tail(todo) = <<"page">> /\ Head(todo) = "read"
    BY <1>1
  <2>. QED
    BY <1>1, <2>1 DEF Early, Late
<1>2. CASE todo = <<"page">>
  BY <1>2 DEF Early, Late
<1>3. CASE todo = <<"grant", "find">>
  <2>1. Tail(todo) = <<"find">> /\ Head(todo) = "grant"
    BY <1>3
  <2>. QED
    BY <1>3, <2>1 DEF Early, Late
<1>4. CASE todo = <<"grant", "read", "find">>
  <2>1. Tail(todo) = <<"read", "find">> /\ Head(todo) = "grant"
    BY <1>4
  <2>. QED
    BY <1>4, <2>1 DEF Early, Late
<1>5. CASE todo = <<"read", "grant", "find">>
  <2>1. Tail(todo) = <<"grant", "find">> /\ Head(todo) = "read"
    BY <1>5
  <2>. QED
    BY <1>5, <2>1 DEF Early, Late
<1>6. CASE todo = <<"read", "grant", "read", "find">>
  <2>1. Tail(todo) = <<"grant", "read", "find">> /\ Head(todo) = "read"
    BY <1>6
  <2>. QED
    BY <1>6, <2>1 DEF Early, Late
<1>. QED
  BY <1>1, <1>2, <1>3, <1>4, <1>5, <1>6 DEF Early

LEMMA LateLists ==
  ASSUME NEW todo \in Late
  PROVE  /\ todo # <<>>
         /\ Head(todo) \in {"read", "find", "update", "save"}
         /\ Head(todo) = "read" => Tail(todo) = <<"find">>
         /\ Head(todo) # "read" => todo = <<Head(todo)>> /\ Tail(todo) = <<>>
         /\ "grant" \notin Range(todo)
<1>1. CASE todo = <<"read", "find">>
  <2>1. Tail(todo) = <<"find">> /\ Head(todo) = "read" /\ todo # <<>>
    BY <1>1
  <2>2. "grant" \notin Range(todo)
    BY <1>1 DEF Range
  <2>. QED
    BY <2>1, <2>2
<1>2. ASSUME NEW s, s \in {"find", "update", "save"}, todo = <<s>>
      PROVE  /\ todo # <<>> /\ Head(todo) = s /\ Tail(todo) = <<>>
             /\ "grant" \notin Range(todo)
  <2>1. todo # <<>> /\ Head(todo) = s /\ Tail(todo) = <<>>
    BY <1>2
  <2>2. "grant" \notin Range(todo)
    BY <1>2 DEF Range
  <2>. QED
    BY <2>1, <2>2
<1>. QED
  BY <1>1, <1>2 DEF Late

LEMMA LateOnes ==
  /\ <<"find">> \in Late /\ <<"read", "find">> \in Late /\ <<"update">> \in Late
  /\ <<"save">> \in Late /\ <<>> \notin Late
  /\ <<"find">> # <<"save">> /\ <<"read", "find">> # <<"save">> /\ <<"update">> # <<"save">>
  /\ <<"update">> # <<>> /\ <<"save">> # <<>>
<1>1. Len(<<>>) = 0 /\ Len(<<"find">>) = 1 /\ Len(<<"read", "find">>) = 2
      /\ Len(<<"save">>) = 1 /\ Len(<<"update">>) = 1
  OBVIOUS
<1>2. <<"find">> # <<"save">> /\ <<"update">> # <<"save">>
  OBVIOUS
<1>3. <<"read", "find">> # <<"save">> /\ <<"update">> # <<>> /\ <<"save">> # <<>>
  BY <1>1
<1>4. <<>> # <<"find">> /\ <<>> # <<"read", "find">>
  BY <1>1
<1>. QED
  BY <1>2, <1>3, <1>4 DEF Late

LEMMA PlatformLists ==
  ASSUME NEW pf \in Platforms
  PROVE  ConnectSteps(pf) \in Early
<1>1. pf \in {"bluesky", "facebook", "instagram", "linkedin", "pinterest", "threads",
              "tiktok", "x", "youtube"}
  BY DEF Platforms, Exchanging, Rotating
<1>. QED
  BY <1>1 DEF ConnectSteps, BlueskyConnect, FacebookConnect, InstagramConnect,
     LinkedinConnect, PinterestConnect, ThreadsConnect, TikTokConnect, XConnect,
     YouTubeConnect, Early

-----------------------------------------------------------------------------
(* What a step does to the pages *)

\* A connector is at one of its lists of steps.
Listing(frames) ==
    \A r \in Requests : frames[r].kind = "connect" => frames[r].todo \in Early \cup Late

TokType ==
    /\ platform \in Assignments
    /\ rows = [p \in Pages |-> rows[p]]
    /\ tokens = [p \in Pages |-> tokens[p]]
    /\ task \in [Batches -> [Pages -> {"settled", "ask", "write"}]]
    /\ former \in [Pages -> SUBSET (Batches \cup Requests)]
    /\ excused \subseteq Pages
    /\ Framed(req) /\ Listing(req)

TokInv == TokType /\ \A p \in Pages : Sound(View(p))

\* v is what is to be seen of page p.
Seen(v, p) ==
    /\ v.on = platform[p] /\ v.row = rows[p] /\ v.tokens = tokens[p]
    /\ v.excused = excused \cap {p} /\ v.busy = Busy(p) /\ v.writers = Writers(p)
    /\ v.former = former[p] \cap Batches
    /\ v.storers = Storers(p) /\ v.updaters = Updaters(p)
    /\ Viewed(v)

LEMMA NowSeen ==
  ASSUME TokInv, NEW p \in Pages
  PROVE  \E v : Seen(v, p) /\ Sound(v)
<1>1. Seen(View(p), p)
  BY ViewFields DEF Seen
<1>. QED
  BY <1>1 DEF TokInv

LEMMA NextSeen ==
  ASSUME NEW p
  PROVE  \E w : Seen(w, p)' /\ (Sound(w) => Sound(View(p))')
<1>1. Seen(View(p), p)'
  BY DEF Seen, View, Viewed, Busy, Writers, Storers, Updaters
<1>. QED
  BY <1>1

LEMMA OneRequest ==
  ASSUME NEW r \in Requests, NEW p, \A s \in Requests \ {r} : req'[s] = req[s]
  PROVE  /\ StoresOf(req'[r], p) => Storers(p)' = Storers(p) \cup {r}
         /\ ~StoresOf(req'[r], p) => /\ Storers(p)' = Storers(p) \ {r}
                                     /\ Updaters(p)' = Updaters(p) \ {r}
         /\ StoresOf(req'[r], p) /\ req'[r].todo # <<"save">>
               => Updaters(p)' = Updaters(p) \cup {r}
BY DEF Storers, Updaters

LEMMA NoRequest ==
  ASSUME NEW r \in Requests, NEW p, \A s \in Requests \ {r} : req'[s] = req[s],
         ~StoresOf(req[r], p), ~StoresOf(req'[r], p)
  PROVE  Storers(p)' = Storers(p) /\ Updaters(p)' = Updaters(p)
BY DEF Storers, Updaters

LEMMA OneJob ==
  ASSUME NEW b \in Batches, NEW p \in Pages, \A c \in Batches \ {b} : task'[c][p] = task[c][p]
  PROVE  /\ task'[b][p] = "settled" => /\ Busy(p)' = Busy(p) \ {b}
                                       /\ Writers(p)' = Writers(p) \ {b}
         /\ task'[b][p] = "ask" /\ task[b][p] = "settled"
               => Busy(p)' = Busy(p) \cup {b} /\ Writers(p)' = Writers(p)
         /\ task'[b][p] = "write" /\ task[b][p] = "ask"
               => Busy(p)' = Busy(p) /\ Writers(p)' = Writers(p) \cup {b}
         /\ task'[b][p] = task[b][p] => Busy(p)' = Busy(p) /\ Writers(p)' = Writers(p)
BY DEF Busy, Writers

\* A page that nothing changes for.
LEMMA Unseen ==
  ASSUME NEW p \in Pages, Sound(View(p)), platform' = platform, rows'[p] = rows[p],
         tokens'[p] = tokens[p], Busy(p)' = Busy(p), Writers(p)' = Writers(p),
         former'[p] \cap Batches = former[p] \cap Batches, Storers(p)' = Storers(p),
         Updaters(p)' = Updaters(p), excused' \cap {p} = excused \cap {p}
  PROVE  Sound(View(p))'
<1>. DEFINE v == View(p)
            w == View(p)'
<1>1. v = w
  BY DEF View
<1>. QED
  BY <1>1

LEMMA ConnectMoves ==
  ASSUME TokInv, NEW r \in Requests, NEW todo, todo = <<>> \/ todo \in Early \cup Late,
         req[r].kind = "connect", req' = Goes(r, todo)
  PROVE  /\ Framed(req') /\ Listing(req')
         /\ \A s \in Requests \ {r} : req'[s] = req[s]
         /\ \A p : StoresOf(req'[r], p) <=> (req[r].pages = {p} /\ todo \in Late)
         /\ todo \in Late => req'[r].todo = todo
<1>1. Framed(req) /\ Listing(req)
  BY DEF TokInv, TokType
<1>2. Framed(req') /\ \A s \in Requests \ {r} : req'[s] = req[s]
  BY <1>1, GoesOn
<1>3. Shape(req[r]) /\ req = [s \in Requests |-> req[s]]
  BY <1>1 DEF Framed
<1>4. CASE todo # <<>>
  <2>1. /\ req'[r].kind = "connect" /\ req'[r].pages = req[r].pages
        /\ req'[r].todo = todo
    BY <1>3, <1>4 DEF Goes, Shape
  <2>2. Listing(req')
    BY <1>1, <1>2, <1>4, <2>1 DEF Listing
  <2>. QED
    BY <1>2, <2>1, <2>2 DEF StoresOf
<1>5. CASE todo = <<>>
  <2>1. req'[r].pages = {} /\ (req'[r].kind = "connect" => req'[r].todo = <<"page">>)
    <3>1. CASE req[r].rest # {}
      BY <1>3, <1>5, <3>1 DEF Goes, Free
    <3>2. CASE req[r].rest = {}
      BY <1>3, <1>5, <3>2 DEF Goes, Free
    <3>. QED
      BY <3>1, <3>2
  <2>2. Listing(req')
    BY <1>1, <1>2, <2>1 DEF Listing, Early
  <2>. QED
    BY <1>2, <1>5, <2>1, <2>2, LateOnes DEF StoresOf
<1>. QED
  BY <1>4, <1>5

\* A connector's step concerns the page it is about.
LEMMA ConnectStays ==
  ASSUME TokInv, NEW r \in Requests, NEW p \in Pages, NEW todo,
         todo = <<>> \/ todo \in Early \cup Late,
         req[r].kind = "connect", req[r].pages = {p}, req' = Goes(r, todo),
         UNCHANGED <<platform, task, former>>,
         rows' = [q \in Pages |-> rows'[q]], tokens' = [q \in Pages |-> tokens'[q]],
         \A q \in Pages \ {p} : rows'[q] = rows[q] /\ tokens'[q] = tokens[q],
         excused' \subseteq Pages, \A q \in Pages \ {p} : q \in excused' <=> q \in excused,
         Sound(View(p))'
  PROVE  TokInv'
<1>1. /\ Framed(req') /\ Listing(req')
      /\ \A s \in Requests \ {r} : req'[s] = req[s]
      /\ \A q : StoresOf(req'[r], q) => q = p
  BY ConnectMoves
<1>2. TokType'
  BY <1>1 DEF TokInv, TokType
<1>3. ASSUME NEW q \in Pages \ {p} PROVE Sound(View(q))'
  <2>1. ~StoresOf(req[r], q) /\ ~StoresOf(req'[r], q)
    BY <1>1 DEF StoresOf
  <2>2. Storers(q)' = Storers(q) /\ Updaters(q)' = Updaters(q)
    BY <1>1, <2>1, NoRequest
  <2>3. Busy(q)' = Busy(q) /\ Writers(q)' = Writers(q)
    BY DEF Busy, Writers
  <2>4. excused' \cap {q} = excused \cap {q}
    OBVIOUS
  <2>. QED
    BY <2>2, <2>3, <2>4, Unseen DEF TokInv
<1>. QED
  BY <1>2, <1>3 DEF TokInv

LEMMA JobsStay ==
  ASSUME NEW p, UNCHANGED <<task, former>>
  PROVE  /\ Busy(p)' = Busy(p) /\ Writers(p)' = Writers(p)
         /\ former'[p] \cap Batches = former[p] \cap Batches
BY DEF Busy, Writers

\* The list of a connector that is about to take a step.
LEMMA AtList ==
  ASSUME TokInv, NEW r \in Requests, NEW step, Connecting(r, step)
  PROVE  /\ req[r].kind = "connect" /\ Head(req[r].todo) = step
         /\ req[r].todo \in Early \cup Late
  BY DEF TokInv, TokType, Listing, Connecting

LEMMA GrantKeepsTokens ==
  ASSUME TokInv, NEW r \in Requests, NEW p \in Pages, Grant(r, p)
  PROVE  TokInv'
<1>1. /\ req[r].kind = "connect" /\ Head(req[r].todo) = "grant" /\ req[r].pages = {p}
      /\ req[r].todo \in Early \cup Late
  BY AtList DEF Grant
<1>2. req[r].todo \in Early /\ req[r].todo \notin Late
  BY <1>1, EarlyLists, LateLists
<1> DEFINE next == Tail(req[r].todo)
<1>3. next \in Late /\ next # <<"save">>
  BY <1>1, <1>2, EarlyLists, LateOnes
<1>4. req' = Goes(r, next) /\ UNCHANGED <<platform, rows, task, former>>
  BY DEF Grant
<1> HIDE DEF next
<1>5. /\ \A s \in Requests \ {r} : req'[s] = req[s]
      /\ StoresOf(req'[r], p) /\ req'[r].todo # <<"save">>
  BY <1>1, <1>3, <1>4, ConnectMoves
<1>6. Storers(p)' = Storers(p) \cup {r} /\ Updaters(p)' = Updaters(p) \cup {r}
  BY <1>5, OneRequest
<1>7. Busy(p)' = Busy(p) /\ Writers(p)' = Writers(p)
  BY <1>4, JobsStay
<1>8. InUse(r, p) \/ (Busy(p) = {} /\ Storers(p) = {})
  <2>1. \A s \in Storers(p) : s \in Requests \ {r} /\ "grant" \notin Range(req[s].todo)
    BY <1>2, LateLists DEF Storers, StoresOf
  <2>. QED
    BY <2>1 DEF InUse, Busy, Storers, StoresOf
<1>9. tokens = [q \in Pages |-> tokens[q]] /\ rows = [q \in Pages |-> rows[q]]
      /\ excused \subseteq Pages
  BY DEF TokInv, TokType
<1>10. \/ tokens' = Issue(p, r, tokens[p]) /\ UNCHANGED excused
       \/ /\ tokens' = Issue(p, r, {})
          /\ excused' = IF InUse(r, p) THEN excused \cup {p} ELSE excused
  BY DEF Grant
<1>11. /\ tokens' = [q \in Pages |-> tokens'[q]]
       /\ \A q \in Pages \ {p} : tokens'[q] = tokens[q]
       /\ \/ tokens'[p] = Except(tokens[p], r) \cup {{r}} /\ excused' = excused
          \/ /\ tokens'[p] = Except({}, r) \cup {{r}}
             /\ p \in excused' \/ (Busy(p) = {} /\ Storers(p) = {})
  BY <1>8, <1>9, <1>10 DEF Issue
<1>12. excused' \subseteq Pages /\ \A q \in Pages \ {p} : q \in excused' <=> q \in excused
  BY <1>9, <1>10
<1>13. PICK v : Seen(v, p) /\ Sound(v)
  BY NowSeen
<1>14. PICK w : Seen(w, p)' /\ (Sound(w) => Sound(View(p))')
  BY NextSeen
<1>15. Sound(w)
  <2>1. /\ w.on = v.on /\ w.row = v.row /\ w.busy = v.busy /\ w.writers = v.writers
        /\ w.former = v.former /\ w.storers = v.storers \cup {r}
        /\ w.updaters = v.updaters \cup {r} /\ Viewed(v) /\ Viewed(w)
    BY <1>4, <1>6, <1>7, <1>13, <1>14 DEF Seen
  <2>2. \/ w.tokens = Except(v.tokens, r) \cup {{r}} /\ w.excused = v.excused
        \/ /\ w.tokens = Except({}, r) \cup {{r}}
           /\ w.excused # {} \/ (v.busy = {} /\ v.storers = {})
    BY <1>11, <1>13, <1>14 DEF Seen
  <2>. QED
    BY <1>13, <2>1, <2>2, GrantSees
<1>16. Sound(View(p))'
  BY <1>14, <1>15
<1>. QED
  BY <1>1, <1>3, <1>4, <1>9, <1>11, <1>12, <1>16, ConnectStays

LEMMA FindKeepsTokens ==
  ASSUME TokInv, NEW r \in Requests, NEW p \in Pages, Find(r, p)
  PROVE  TokInv'
<1>1. /\ req[r].kind = "connect" /\ Head(req[r].todo) = "find" /\ req[r].pages = {p}
      /\ req[r].todo \in Early \cup Late
  BY AtList DEF Find
<1>2. req[r].todo \in Late /\ req[r].todo = <<"find">> /\ Tail(req[r].todo) = <<>>
  BY <1>1, EarlyLists, LateLists
<1>3. UNCHANGED <<platform, rows, task, former, excused>>
  BY DEF Find
<1>4. Busy(p)' = Busy(p) /\ Writers(p)' = Writers(p)
  BY <1>3, JobsStay
<1>5. tokens = [q \in Pages |-> tokens[q]] /\ rows = [q \in Pages |-> rows[q]]
      /\ excused \subseteq Pages
  BY DEF TokInv, TokType
<1>6. StoresOf(req[r], p) /\ r \in Storers(p)
  BY <1>1, <1>2 DEF StoresOf, Storers
<1>7. PICK v : Seen(v, p) /\ Sound(v)
  BY NowSeen
<1>8. PICK w : Seen(w, p)' /\ (Sound(w) => Sound(View(p))')
  BY NextSeen
<1>9. ASSUME NEW s \in {"update", "save"}, s = "save" <=> ~Connected(p),
             req' = Goes(r, <<s>>), tokens' = tokens
      PROVE  TokInv'
  <2>1. <<s>> \in Late /\ (s = "update" => <<s>> # <<"save">>)
    BY <1>9, LateOnes
  <2>2. /\ \A t \in Requests \ {r} : req'[t] = req[t]
        /\ StoresOf(req'[r], p) /\ req'[r].todo = <<s>>
    BY <1>1, <1>9, <2>1, ConnectMoves
  <2>3. Storers(p)' = Storers(p)
    BY <1>6, <2>2, OneRequest
  <2>4. rows[p] # "none" => Updaters(p)' = Updaters(p)
    <3>1. ASSUME rows[p] # "none" PROVE r \in Updaters(p) /\ Updaters(p)' = Updaters(p) \cup {r}
      <4>1. r \in Updaters(p)
        BY <1>2, <1>6, LateOnes DEF Updaters
      <4>2. req'[r].todo # <<"save">>
        BY <1>9, <2>1, <2>2, <3>1 DEF Connected
      <4>. QED
        BY <2>2, <4>1, <4>2, OneRequest
    <3>. QED
      BY <3>1
  <2>5. Sound(w)
    <3>1. /\ w.on = v.on /\ w.row = v.row /\ w.busy = v.busy /\ w.writers = v.writers
          /\ w.former = v.former /\ w.storers = v.storers /\ w.tokens = v.tokens
          /\ w.excused = v.excused /\ (w.row = "none" \/ w.updaters = v.updaters)
      BY <1>3, <1>4, <1>7, <1>8, <1>9, <2>3, <2>4 DEF Seen
    <3>. QED
      BY <1>7, <3>1, FindSees
  <2>. QED
    BY <1>1, <1>3, <1>5, <1>8, <1>9, <2>1, <2>5, ConnectStays
<1>10. ASSUME ~Connected(p), req' = Goes(r, <<>>), tokens' = Drop({p}, r)
       PROVE  TokInv'
  <2>1. /\ \A t \in Requests \ {r} : req'[t] = req[t]
        /\ ~StoresOf(req'[r], p)
    BY <1>1, <1>10, ConnectMoves, LateOnes
  <2>2. Storers(p)' = Storers(p) \ {r} /\ Updaters(p)' = Updaters(p) \ {r}
    BY <2>1, OneRequest
  <2>3. /\ tokens' = [q \in Pages |-> tokens'[q]] /\ tokens'[p] = Except(tokens[p], r)
        /\ \A q \in Pages \ {p} : tokens'[q] = tokens[q]
    BY <1>5, <1>10 DEF Drop
  <2>4. rows[p] = "none"
    BY <1>10 DEF Connected
  <2>5. Sound(w)
    <3>1. /\ w.on = v.on /\ w.row = v.row /\ w.busy = v.busy /\ w.writers = v.writers
          /\ w.former = v.former /\ w.storers = v.storers \ {r} /\ Viewed(v)
          /\ w.updaters = v.updaters \ {r} /\ w.tokens = Except(v.tokens, r)
          /\ w.excused = v.excused /\ v.row = "none"
      BY <1>3, <1>4, <1>7, <1>8, <2>2, <2>3, <2>4 DEF Seen
    <3>. QED
      BY <1>7, <3>1, DropSees
  <2>. QED
    BY <1>1, <1>3, <1>5, <1>8, <1>10, <2>3, <2>5, ConnectStays
<1>11. ASSUME req' = Goes(r, <<IF Connected(p) THEN "update" ELSE "save">> \o Tail(req[r].todo)),
              tokens' = tokens
       PROVE  TokInv'
  <2>. DEFINE s == IF Connected(p) THEN "update" ELSE "save"
  <2>1. <<s>> \o <<>> = <<s>>
    OBVIOUS
  <2>2. s \in {"update", "save"} /\ (s = "save" <=> ~Connected(p))
    OBVIOUS
  <2>3. req' = Goes(r, <<s>>)
    BY <1>2, <1>11, <2>1
  <2>. QED
    BY <1>9, <1>11, <2>2, <2>3
<1>. QED
  BY <1>10, <1>11 DEF Find

\* upsertAccount: the token goes to the row, or is lost with the request.
LEMMA StoreKeepsTokens ==
  ASSUME TokInv, NEW r \in Requests, NEW p \in Pages, Store(r, p)
  PROVE  TokInv'
<1>1. PICK step \in {"update", "save"} : Connecting(r, step)
  BY DEF Store
<1>2. /\ req[r].kind = "connect" /\ Head(req[r].todo) = step /\ req[r].pages = {p}
      /\ req[r].todo \in Early \cup Late
  BY <1>1, AtList DEF Store
<1>3. req[r].todo \in Late /\ req[r].todo = <<step>> /\ Tail(req[r].todo) = <<>>
  BY <1>2, EarlyLists, LateLists
<1>4. UNCHANGED <<platform, task, former>>
  BY DEF Store
<1>5. Busy(p)' = Busy(p) /\ Writers(p)' = Writers(p)
  BY <1>4, JobsStay
<1>6. tokens = [q \in Pages |-> tokens[q]] /\ rows = [q \in Pages |-> rows[q]]
      /\ excused \subseteq Pages
  BY DEF TokInv, TokType
<1>7. r \in Storers(p)
  BY <1>2, <1>3 DEF StoresOf, Storers
<1>8. PICK v : Seen(v, p) /\ Sound(v)
  BY NowSeen
<1>9. PICK w : Seen(w, p)' /\ (Sound(w) => Sound(View(p))')
  BY NextSeen
<1>10. req' = Goes(r, <<>>)
  BY <1>3 DEF Store
<1>11. /\ \A t \in Requests \ {r} : req'[t] = req[t]
       /\ ~StoresOf(req'[r], p)
  BY <1>2, <1>10, ConnectMoves, LateOnes
<1>12. Storers(p)' = Storers(p) \ {r} /\ Updaters(p)' = Updaters(p) \ {r}
  BY <1>11, OneRequest
<1>13. ASSUME Connected(p) = (step = "update") PROVE TokInv'
  <2>1. /\ rows' = [rows EXCEPT ![p] = ConnectExpiry(platform[p])]
        /\ tokens' = [tokens EXCEPT ![p] = Except(Copied(p, r, "row"), r)]
        /\ excused' = IF InUse(r, p) \/ ~Has(p, r) THEN excused ELSE excused \ {p}
    BY <1>2, <1>13 DEF Store
  <2>2. /\ tokens' = [q \in Pages |-> tokens'[q]]
        /\ tokens'[p] = Passed(tokens[p], r, "row")
        /\ \A q \in Pages \ {p} : tokens'[q] = tokens[q]
    BY <1>6, <2>1 DEF Copied, Passed
  <2>3. /\ rows' = [q \in Pages |-> rows'[q]]
        /\ \A q \in Pages \ {p} : rows'[q] = rows[q]
    BY <1>6, <2>1
  <2>4. excused' \subseteq Pages /\ \A q \in Pages \ {p} : q \in excused' <=> q \in excused
    BY <1>6, <2>1
  <2>5. \/ excused' = excused
        \/ HasIn(tokens[p], r) /\ Busy(p) = {} /\ Storers(p) = {r}
    <3>1. ASSUME ~InUse(r, p) PROVE Busy(p) = {} /\ Storers(p) \subseteq {r}
      <4>1. Busy(p) = {}
        BY <3>1 DEF InUse, Busy
      <4>2. ASSUME NEW s \in Storers(p), s # r PROVE FALSE
        <5>1. "grant" \notin Range(req[s].todo)
          BY LateLists DEF Storers, StoresOf
        <5>. QED
          BY <3>1, <4>2, <5>1 DEF InUse, Storers, StoresOf
      <4>. QED
        BY <4>1, <4>2
    <3>. QED
      BY <1>7, <2>1, <3>1 DEF Has, HasIn
  <2>6. Sound(w)
    <3>1. /\ w.on = v.on /\ w.busy = v.busy /\ w.writers = v.writers
          /\ w.former = v.former /\ w.storers = v.storers \ {r} /\ Viewed(v)
          /\ w.tokens = Passed(v.tokens, r, "row") /\ r \in v.storers
          /\ \/ w.excused = v.excused
             \/ HasIn(v.tokens, r) /\ v.busy = {} /\ v.storers = {r}
      BY <1>4, <1>5, <1>7, <1>8, <1>9, <1>12, <2>2, <2>5 DEF Seen
    <3>2. r \notin v.busy \cup v.writers \cup v.former
      BY <3>1, Apartness DEF Viewed
    <3>3. w.busy = v.busy \ {r} /\ w.writers = v.writers \ {r} /\ w.former = v.former \ {r}
      BY <3>1, <3>2
    <3>. QED
      BY <1>8, <3>1, <3>2, <3>3, StoreSees
  <2>. QED
    BY <1>2, <1>4, <1>9, <1>10, <2>2, <2>3, <2>4, <2>6, ConnectStays
<1>14. ASSUME Connected(p) # (step = "update") PROVE TokInv'
  <2>1. tokens' = Drop({p}, r) /\ UNCHANGED <<rows, excused>>
    BY <1>2, <1>14 DEF Store
  <2>2. /\ tokens' = [q \in Pages |-> tokens'[q]] /\ tokens'[p] = Except(tokens[p], r)
        /\ \A q \in Pages \ {p} : tokens'[q] = tokens[q]
    BY <1>6, <2>1 DEF Drop
  <2>3. rows[p] = "none" \/ r \notin Updaters(p)
    <3>1. Connected(p) => step = "save"
      BY <1>1, <1>14 DEF Connected
    <3>. QED
      BY <1>3, <3>1 DEF Connected, Updaters
  <2>4. Sound(w)
    <3>1. /\ w.on = v.on /\ w.row = v.row /\ w.busy = v.busy /\ w.writers = v.writers
          /\ w.former = v.former /\ w.storers = v.storers \ {r} /\ Viewed(v)
          /\ w.updaters = v.updaters \ {r} /\ w.tokens = Except(v.tokens, r)
          /\ w.excused = v.excused /\ (r \in v.updaters => v.row = "none")
      BY <1>4, <1>5, <1>8, <1>9, <1>12, <2>1, <2>2, <2>3 DEF Seen
    <3>. QED
      BY <1>8, <3>1, DropSees
  <2>. QED
    BY <1>2, <1>4, <1>6, <1>9, <1>10, <2>1, <2>2, <2>4, ConnectStays
<1>. QED
  BY <1>13, <1>14

\* A step of a request that leaves rows, tokens and the accounts' ids alone, and
\* takes no token up.
LEMMA RequestStays ==
  ASSUME TokInv, NEW r \in Requests, \A s \in Requests \ {r} : req'[s] = req[s],
         Framed(req'), Listing(req'),
         \A p \in Pages : StoresOf(req'[r], p) <=> StoresOf(req[r], p),
         req[r].todo # <<"save">> \/ req[r].kind # "connect",
         req'[r].todo # <<"save">> \/ req'[r].kind # "connect",
         UNCHANGED <<platform, rows, tokens, task, excused>>,
         \A p \in Pages : former'[p] \cap Batches = former[p] \cap Batches,
         former' \in [Pages -> SUBSET (Batches \cup Requests)]
  PROVE  TokInv'
<1>1. TokType'
  BY DEF TokInv, TokType
<1>2. ASSUME NEW p \in Pages PROVE Sound(View(p))'
  <2>1. CASE StoresOf(req[r], p)
    <3>1. r \in Updaters(p) /\ StoresOf(req'[r], p) /\ req'[r].todo # <<"save">>
      BY <2>1 DEF StoresOf, Storers, Updaters
    <3>2. Storers(p)' = Storers(p) \cup {r} /\ Updaters(p)' = Updaters(p) \cup {r}
      BY <3>1, OneRequest
    <3>3. Storers(p)' = Storers(p) /\ Updaters(p)' = Updaters(p)
      BY <3>1, <3>2 DEF Updaters
    <3>4. Busy(p)' = Busy(p) /\ Writers(p)' = Writers(p)
      BY DEF Busy, Writers
    <3>. QED
      BY <3>3, <3>4, Unseen DEF TokInv
  <2>2. CASE ~StoresOf(req[r], p)
    <3>1. Storers(p)' = Storers(p) /\ Updaters(p)' = Updaters(p)
      BY <2>2, NoRequest
    <3>2. Busy(p)' = Busy(p) /\ Writers(p)' = Writers(p)
      BY DEF Busy, Writers
    <3>. QED
      BY <3>1, <3>2, Unseen DEF TokInv
  <2>. QED
    BY <2>1, <2>2
<1>. QED
  BY <1>1, <1>2 DEF TokInv

LEMMA ReadKeepsTokens ==
  ASSUME TokInv, NEW r \in Requests, Read(r)
  PROVE  TokInv'
<1>1. /\ req[r].kind = "connect" /\ Head(req[r].todo) = "read"
      /\ req[r].todo \in Early \cup Late
  BY AtList DEF Read
<1> DEFINE next == Tail(req[r].todo)
<1>2. /\ next \in Early \cup Late /\ (next \in Late <=> req[r].todo \in Late)
      /\ next # <<"save">> /\ req[r].todo # <<"save">>
  <2>1. CASE req[r].todo \in Early
    <3>1. next \in Early /\ next \notin Late /\ req[r].todo \notin Late
      BY <1>1, <2>1, EarlyLists
    <3>. QED
      BY <3>1, LateOnes
  <2>2. CASE req[r].todo \in Late
    <3>1. next = <<"find">> /\ req[r].todo \notin Early
      BY <1>1, <2>2, LateLists, EarlyLists
    <3>2. req[r].todo # <<"save">>
      BY <1>1
    <3>. QED
      BY <2>2, <3>1, <3>2, LateOnes
  <2>. QED
    BY <1>1, <2>1, <2>2
<1>3. req' = Goes(r, next) /\ UNCHANGED <<platform, rows, tokens, task, former, excused>>
  BY DEF Read
<1> HIDE DEF next
<1>4. /\ Framed(req') /\ Listing(req')
      /\ \A s \in Requests \ {r} : req'[s] = req[s]
      /\ \A p : StoresOf(req'[r], p) <=> (req[r].pages = {p} /\ next \in Late)
      /\ next \in Late => req'[r].todo = next
  BY <1>1, <1>2, <1>3, ConnectMoves
<1>5. \A p \in Pages : StoresOf(req'[r], p) <=> StoresOf(req[r], p)
  BY <1>1, <1>2, <1>4 DEF StoresOf
<1>6. req'[r].todo # <<"save">> \/ req'[r].kind # "connect"
  <2>1. CASE next \in Late
    BY <1>2, <1>4, <2>1
  <2>2. CASE next \in Early
    <3>1. next # <<>>
      BY <2>2, EarlyLists
    <3>2. Shape(req[r]) /\ req = [s \in Requests |-> req[s]]
      BY DEF TokInv, TokType, Framed
    <3>3. req'[r].todo = next
      BY <1>3, <3>1, <3>2 DEF Goes, Shape
    <3>. QED
      BY <1>2, <3>3
  <2>. QED
    BY <1>2, <2>1, <2>2
<1>7. former' \in [Pages -> SUBSET (Batches \cup Requests)]
  BY <1>3 DEF TokInv, TokType
<1>. QED
  BY <1>2, <1>3, <1>4, <1>5, <1>6, <1>7, RequestStays

LEMMA PageKeepsTokens ==
  ASSUME TokInv, NEW r \in Requests, Page(r)
  PROVE  TokInv'
<1>1. /\ req[r].kind = "connect" /\ Head(req[r].todo) = "page"
      /\ req[r].todo \in Early \cup Late
  BY AtList DEF Page
<1>2. req[r].todo \in Early /\ req[r].todo \notin Late
  BY <1>1, EarlyLists, LateLists
<1>3. UNCHANGED <<platform, rows, tokens, task, former, excused>>
  BY DEF Page
<1>0. PICK q \in req[r].rest :
        req' = [req EXCEPT ![r] = [@ EXCEPT !.pages = {q}, !.rest = req[r].rest \ {q},
                                            !.todo = FacebookPage]]
  BY Zenon DEF Page
<1> DEFINE P == {q}
           Q == req[r].rest \ {q}
<1>4. req' = [req EXCEPT ![r] = [req[r] EXCEPT !.pages = P, !.rest = Q,
                                               !.todo = FacebookPage]]
  BY <1>0
<1> HIDE DEF P, Q
<1>5. Shape(req[r]) /\ req = [s \in Requests |-> req[s]] /\ Framed(req) /\ Listing(req)
  BY DEF TokInv, TokType, Framed
<1>6. req'[r] = [kind |-> "connect", pages |-> P, rest |-> Q, todo |-> FacebookPage,
                 orphans |-> req[r].orphans]
  BY <1>1, <1>4, <1>5 DEF Shape
<1>7. /\ req' = [s \in Requests |-> req'[s]]
      /\ \A s \in Requests \ {r} : req'[s] = req[s]
  BY <1>4, <1>5
<1>8. Framed(req')
  BY <1>5, <1>6, <1>7 DEF Framed, Shape
<1>9. FacebookPage \in Early
  BY DEF FacebookPage, Early
<1>10. Listing(req')
  BY <1>5, <1>6, <1>7, <1>9 DEF Listing
<1>11. FacebookPage \notin Late
  BY <1>9, EarlyLists
<1>12. /\ \A p \in Pages : ~StoresOf(req'[r], p) /\ ~StoresOf(req[r], p)
       /\ req[r].todo # <<"save">> /\ req'[r].todo # <<"save">>
  BY <1>2, <1>6, <1>11, LateOnes DEF StoresOf
<1>. QED
  BY <1>3, <1>7, <1>8, <1>10, <1>12, RequestStays DEF TokInv, TokType

LEMMA ConnectStartKeepsTokens ==
  ASSUME TokInv, NEW r \in Requests, ConnectStart(r)
  PROVE  TokInv'
<1>1. req[r] = Free /\ UNCHANGED <<platform, rows, tokens, task, former, excused>>
  BY DEF ConnectStart
<1>2. PICK S \in (SUBSET Pages) \ {{}} :
        req' = [req EXCEPT ![r] =
            [Free EXCEPT !.kind = "connect",
               !.todo = ConnectSteps(platform[CHOOSE p \in S : TRUE]),
               !.pages = IF platform[CHOOSE p \in S : TRUE] = "facebook" THEN {} ELSE S,
               !.rest = IF platform[CHOOSE p \in S : TRUE] = "facebook" THEN S ELSE {}]]
  BY Zenon DEF ConnectStart
<1>3. \E p \in S : TRUE
  OBVIOUS
<1>4. (CHOOSE p \in S : TRUE) \in Pages
  BY <1>3
<1>5. platform[CHOOSE p \in S : TRUE] \in Platforms
  BY <1>4, AccountsAssumption DEF TokInv, TokType
<1> DEFINE pf == platform[CHOOSE p \in S : TRUE]
           todo == ConnectSteps(pf)
           P == IF pf = "facebook" THEN {} ELSE S
           Q == IF pf = "facebook" THEN S ELSE {}
<1>6. req' = [req EXCEPT ![r] = [Free EXCEPT !.kind = "connect", !.todo = todo,
                                             !.pages = P, !.rest = Q]]
  BY <1>2
<1>. todo \in Early
  BY <1>5, PlatformLists
<1> HIDE DEF pf, todo, P, Q
<1>7. Framed(req) /\ Listing(req) /\ req = [s \in Requests |-> req[s]]
  BY DEF TokInv, TokType, Framed
<1>8. req'[r] = [kind |-> "connect", pages |-> P, rest |-> Q, todo |-> todo, orphans |-> {}]
  BY <1>6, <1>7 DEF Free
<1>9. /\ req' = [s \in Requests |-> req'[s]]
      /\ \A s \in Requests \ {r} : req'[s] = req[s]
  BY <1>6, <1>7
<1>10. Framed(req')
  BY <1>7, <1>8, <1>9 DEF Framed, Shape
<1>11. Listing(req')
  BY <1>7, <1>8, <1>9 DEF Listing
<1>12. todo \notin Late
  BY EarlyLists
<1>13. /\ \A p \in Pages : ~StoresOf(req'[r], p) /\ ~StoresOf(req[r], p)
       /\ req[r].kind # "connect" /\ req'[r].todo # <<"save">>
  BY <1>1, <1>8, <1>12, LateOnes DEF StoresOf, Free
<1>. QED
  BY <1>1, <1>9, <1>10, <1>11, <1>13, RequestStays DEF TokInv, TokType

\* A request that is over lets go of its token: the account it was about, should
\* its row be left without one, is excused.
LEMMA EndKeepsTokens ==
  ASSUME TokInv, NEW r \in Requests, \A s \in Requests \ {r} : req'[s] = req[s],
         Framed(req'), Listing(req'), \A p \in Pages : ~StoresOf(req'[r], p),
         UNCHANGED <<platform, rows, task>>, tokens' = Drop(Pages, r),
         excused' = excused \cup (Dead \cap req[r].pages),
         \A p \in Pages : former'[p] \cap Batches = former[p] \cap Batches,
         former' \in [Pages -> SUBSET (Batches \cup Requests)]
  PROVE  TokInv'
<1>1. /\ tokens' = [p \in Pages |-> tokens'[p]]
      /\ \A p \in Pages : tokens'[p] = Except(tokens[p], r)
  BY DEF Drop
<1>2. excused \subseteq Pages /\ Dead \subseteq Pages
  BY DEF TokInv, TokType, Dead
<1>3. TokType'
  BY <1>1, <1>2 DEF TokInv, TokType
<1>4. ASSUME NEW p \in Pages PROVE Sound(View(p))'
  <2>1. PICK v : Seen(v, p) /\ Sound(v)
    BY NowSeen
  <2>2. PICK w : Seen(w, p)' /\ (Sound(w) => Sound(View(p))')
    BY NextSeen
  <2>3. Busy(p)' = Busy(p) /\ Writers(p)' = Writers(p)
    BY DEF Busy, Writers
  <2>4. Storers(p)' = Storers(p) \ {r} /\ Updaters(p)' = Updaters(p) \ {r}
    BY OneRequest
  <2>5. r \in Updaters(p) =>
            rows[p] = "none" \/ HasIn(tokens'[p], "row") \/ excused' \cap {p} # {}
    <3>1. r \in Updaters(p) => p \in req[r].pages
      BY DEF Updaters, Storers, StoresOf
    <3>2. rows[p] = "none" \/ HasIn(tokens'[p], "row") \/ p \in Dead
      BY DEF Dead, Connected, HasIn
    <3>. QED
      BY <3>1, <3>2
  <2>6. /\ w.on = v.on /\ w.row = v.row /\ w.busy = v.busy /\ w.writers = v.writers
        /\ w.former = v.former /\ w.storers = v.storers \ {r} /\ Viewed(v)
        /\ w.updaters = v.updaters \ {r} /\ w.tokens = Except(v.tokens, r)
        /\ v.excused \subseteq w.excused
    BY <1>1, <2>1, <2>2, <2>3, <2>4 DEF Seen
  <2>7. r \in v.updaters => v.row = "none" \/ HasIn(w.tokens, "row") \/ w.excused # {}
    BY <2>1, <2>2, <2>5 DEF Seen
  <2>. QED
    BY <2>1, <2>2, <2>6, <2>7, DropSees
<1>. QED
  BY <1>3, <1>4 DEF TokInv

LEMMA ConnectFailsKeepsTokens ==
  ASSUME TokInv, NEW r \in Requests, ConnectFails(r)
  PROVE  TokInv'
<1>1. /\ req[r].kind = "connect" /\ req' = Goes(r, <<>>) /\ tokens' = Drop(Pages, r)
      /\ excused' = excused \cup (Dead \cap req[r].pages)
      /\ UNCHANGED <<platform, rows, task, former>>
  BY DEF ConnectFails
<1>2. /\ Framed(req') /\ Listing(req') /\ \A s \in Requests \ {r} : req'[s] = req[s]
      /\ \A p \in Pages : ~StoresOf(req'[r], p)
  BY <1>1, ConnectMoves, LateOnes
<1>. QED
  BY <1>1, <1>2, EndKeepsTokens DEF TokInv, TokType

LEMMA RequestDiesKeepsTokens ==
  ASSUME TokInv, Framed(req'), NEW r \in Requests, RequestDies(r)
  PROVE  TokInv'
<1>1. /\ req' = [req EXCEPT ![r] = Free] /\ tokens' = Drop(Pages, r)
      /\ excused' = excused \cup (Dead \cap req[r].pages)
      /\ UNCHANGED <<platform, rows, task>>
      /\ former' = [p \in Pages |-> former[p] \ {r}]
  BY DEF RequestDies
<1>2. /\ Listing(req) /\ req = [s \in Requests |-> req[s]]
      /\ former \in [Pages -> SUBSET (Batches \cup Requests)]
  BY DEF TokInv, TokType, Framed
<1>3. req'[r] = Free /\ \A s \in Requests \ {r} : req'[s] = req[s]
  BY <1>1, <1>2
<1>4. Listing(req') /\ \A p \in Pages : ~StoresOf(req'[r], p)
  BY <1>2, <1>3 DEF Listing, Free, StoresOf
<1>5. /\ former' \in [Pages -> SUBSET (Batches \cup Requests)]
      /\ \A p \in Pages : former'[p] \cap Batches = former[p] \cap Batches
  BY <1>1, <1>2, Apartness
<1>. QED
  BY <1>1, <1>3, <1>4, <1>5, EndKeepsTokens

\* A deletion and its steps before the row.
LEMMA DeletionStays ==
  ASSUME TokInv, Framed(req'), NEW r \in Requests,
         \A s \in Requests \ {r} : req'[s] = req[s],
         req[r].kind # "connect", req'[r].kind # "connect",
         UNCHANGED <<platform, rows, tokens, task, excused>>,
         \A p \in Pages : former'[p] \cap Batches = former[p] \cap Batches,
         former' \in [Pages -> SUBSET (Batches \cup Requests)]
  PROVE  TokInv'
<1>1. Listing(req')
  BY DEF TokInv, TokType, Listing
<1>2. \A p \in Pages : StoresOf(req'[r], p) <=> StoresOf(req[r], p)
  BY DEF StoresOf
<1>. QED
  BY <1>1, <1>2, RequestStays

LEMMA DeletionKeepsTokens ==
  ASSUME TokInv, TypeInv, TypeInv', NEW r \in Requests,
         \/ \E p \in Pages : DeleteStart(r, p) \/ ListOrphans(r, p)
         \/ \E x \in Posts : DeleteOrphan(r, x)
         \/ OrphansDone(r)
  PROVE  TokInv'
<1>1. /\ Framed(req) /\ Framed(req') /\ former' \in [Pages -> SUBSET (Batches \cup Requests)]
      /\ req = [s \in Requests |-> req[s]] /\ Shape(req[r])
  BY DEF TypeInv, Framed
<1>2. ASSUME former' = former \/ former' = [p \in Pages |-> former[p] \ {r}]
      PROVE  \A p \in Pages : former'[p] \cap Batches = former[p] \cap Batches
  BY <1>2, Apartness
<1>3. ASSUME NEW f, req' = [req EXCEPT ![r] = f], f.kind # "connect", req[r].kind # "connect",
             UNCHANGED <<platform, rows, tokens, task, excused>>,
             former' = former \/ former' = [p \in Pages |-> former[p] \ {r}]
      PROVE  TokInv'
  <2>1. req'[r] = f /\ \A s \in Requests \ {r} : req'[s] = req[s]
    BY <1>1, <1>3
  <2>. QED
    BY <1>1, <1>2, <1>3, <2>1, DeletionStays
<1>4. ASSUME NEW p \in Pages, DeleteStart(r, p) PROVE TokInv'
  <2>1. /\ req' = [req EXCEPT ![r] = [Free EXCEPT !.kind = "delete", !.pages = {p},
                                                  !.todo = <<"list", "orphans", "row">>]]
        /\ req[r] = Free /\ UNCHANGED <<platform, rows, tokens, task, former, excused>>
    BY <1>4, Zenon DEF DeleteStart
  <2>. DEFINE f == [Free EXCEPT !.kind = "delete", !.pages = {p},
                                !.todo = <<"list", "orphans", "row">>]
  <2>2. f.kind # "connect" /\ req[r].kind # "connect"
    BY <2>1 DEF Free
  <2>. HIDE DEF f
  <2>3. req' = [req EXCEPT ![r] = f]
    BY <2>1 DEF f
  <2>. QED
    BY <1>3, <2>1, <2>2, <2>3
<1>5. ASSUME NEW p \in Pages, ListOrphans(r, p) PROVE TokInv'
  <2>. DEFINE O == {x \in Posts : posts[x].targets = {p} /\ r \notin former[p]}
  <2>1. req[r].kind = "delete" /\ UNCHANGED <<platform, rows, tokens, task, former, excused>>
    BY <1>5, Zenon DEF ListOrphans, Deleting
  <2>. DEFINE f == [req[r] EXCEPT !.todo = Tail(req[r].todo), !.orphans = O]
  <2>2. req' = [req EXCEPT ![r] = f]
    BY <1>5 DEF ListOrphans
  <2>3. f.kind # "connect" /\ req[r].kind # "connect"
    BY <1>1, <2>1 DEF Shape
  <2>. HIDE DEF f
  <2>. QED
    BY <1>3, <2>1, <2>2, <2>3
<1>6. ASSUME NEW x \in Posts, DeleteOrphan(r, x) PROVE TokInv'
  <2>. DEFINE O == req[r].orphans \ {x}
  <2>1. /\ req[r].kind = "delete" /\ UNCHANGED <<platform, rows, tokens, task, former, excused>>
    BY <1>6, Zenon DEF DeleteOrphan, Deleting
  <2>2. \/ req' = [req EXCEPT ![r].orphans = @ \ {x}]
        \/ req' = [req EXCEPT ![r] = [@ EXCEPT !.orphans = O, !.todo = <<"orphans">>]]
    BY <1>6, Zenon DEF DeleteOrphan
  <2>3. CASE req' = [req EXCEPT ![r].orphans = @ \ {x}]
    <3>. DEFINE f == [req[r] EXCEPT !.orphans = O]
    <3>1. req' = [req EXCEPT ![r] = f]
      BY <2>3
    <3>2. f.kind = "delete"
      BY <1>1, <2>1 DEF Shape
    <3>. HIDE DEF f
    <3>. QED
      BY <1>3, <2>1, <3>1, <3>2
  <2>4. CASE req' = [req EXCEPT ![r] = [@ EXCEPT !.orphans = O, !.todo = <<"orphans">>]]
    <3>. DEFINE f == [req[r] EXCEPT !.orphans = O, !.todo = <<"orphans">>]
    <3>1. req' = [req EXCEPT ![r] = f]
      BY <2>4
    <3>2. f.kind = "delete"
      BY <1>1, <2>1 DEF Shape
    <3>. HIDE DEF f
    <3>. QED
      BY <1>3, <2>1, <3>1, <3>2
  <2>. QED
    BY <2>2, <2>3, <2>4
<1>7. CASE OrphansDone(r)
  <2>1. /\ req[r].kind = "delete" /\ req' = Goes(r, Tail(req[r].todo))
        /\ UNCHANGED <<platform, rows, tokens, task, excused>>
    BY <1>7, Zenon DEF OrphansDone, Deleting
  <2>2. former' = former \/ former' = [p \in Pages |-> former[p] \ {r}]
    BY <1>7 DEF OrphansDone
  <2>3. req[r].rest = {}
    BY <2>1, AtStep
  <2>4. CASE Tail(req[r].todo) # <<>>
    <3>. DEFINE f == [req[r] EXCEPT !.todo = Tail(req[r].todo)]
    <3>1. req' = [req EXCEPT ![r] = f]
      BY <2>1, <2>4 DEF Goes
    <3>2. f.kind = "delete"
      BY <1>1, <2>1 DEF Shape
    <3>. HIDE DEF f
    <3>. QED
      BY <1>3, <2>1, <2>2, <3>1, <3>2
  <2>5. CASE Tail(req[r].todo) = <<>>
    <3>1. req' = [req EXCEPT ![r] = Free]
      BY <2>1, <2>3, <2>5 DEF Goes
    <3>2. Free.kind # "connect" /\ req[r].kind # "connect"
      BY <2>1 DEF Free
    <3>. QED
      BY <1>3, <2>1, <2>2, <3>1, <3>2
  <2>. QED
    BY <2>4, <2>5
<1>. QED
  BY <1>4, <1>5, <1>6, <1>7

LEMMA DeleteRowKeepsTokens ==
  ASSUME TokInv, TypeInv, TypeInv', NEW r \in Requests, NEW p \in Pages, DeleteRow(r, p)
  PROVE  TokInv'
<1>1. /\ req' = [req EXCEPT ![r] = Free] /\ req[r].kind = "delete"
      /\ UNCHANGED <<platform, task, excused>>
  BY DEF DeleteRow, Deleting
<1>2. /\ Framed(req') /\ former' \in [Pages -> SUBSET (Batches \cup Requests)]
      /\ former \in [Pages -> SUBSET (Batches \cup Requests)]
      /\ req = [s \in Requests |-> req[s]]
  BY DEF TypeInv, Framed
<1>3. req'[r] = Free /\ \A s \in Requests \ {r} : req'[s] = req[s]
  BY <1>1, <1>2
<1>4. req[r].kind # "connect" /\ req'[r].kind # "connect"
  BY <1>1, <1>3 DEF Free
<1>5. CASE r \in former[p]
  <2>1. former' = [former EXCEPT ![p] = @ \ {r}] /\ UNCHANGED <<rows, tokens>>
    BY <1>5 DEF DeleteRow
  <2>2. \A q \in Pages : former'[q] \cap Batches = former[q] \cap Batches
    BY <1>2, <2>1, Apartness
  <2>. QED
    BY <1>1, <1>2, <1>3, <1>4, <2>1, <2>2, DeletionStays
<1>6. CASE r \notin former[p]
  <2>1. /\ rows' = [rows EXCEPT ![p] = "none"] /\ tokens' = Drop({p}, "row")
        /\ former' = [former EXCEPT ![p] = Referring(p) \ {r}]
    BY <1>6 DEF DeleteRow
  <2>2. /\ rows = [q \in Pages |-> rows[q]] /\ tokens = [q \in Pages |-> tokens[q]]
        /\ Listing(req) /\ platform \in Assignments
        /\ task \in [Batches -> [Pages -> {"settled", "ask", "write"}]] /\ excused \subseteq Pages
    BY DEF TokInv, TokType
  <2>3. /\ rows' = [q \in Pages |-> rows'[q]] /\ tokens' = [q \in Pages |-> tokens'[q]]
        /\ rows'[p] = "none" /\ tokens'[p] = Except(tokens[p], "row")
        /\ \A q \in Pages \ {p} : rows'[q] = rows[q] /\ tokens'[q] = tokens[q]
    BY <2>1, <2>2 DEF Drop
  <2>4. Listing(req')
    BY <1>3, <1>4, <2>2 DEF Listing
  <2>5. TokType'
    BY <1>1, <1>2, <2>2, <2>3, <2>4 DEF TokType
  <2>6. ASSUME NEW q \in Pages
        PROVE  /\ Storers(q)' = Storers(q) /\ Updaters(q)' = Updaters(q)
               /\ Busy(q)' = Busy(q) /\ Writers(q)' = Writers(q)
    <3>1. ~StoresOf(req[r], q) /\ ~StoresOf(req'[r], q)
      BY <1>4 DEF StoresOf
    <3>2. Busy(q)' = Busy(q) /\ Writers(q)' = Writers(q)
      BY <1>1 DEF Busy, Writers
    <3>. QED
      BY <1>3, <3>1, <3>2, NoRequest
  <2>7. ASSUME NEW q \in Pages \ {p} PROVE Sound(View(q))'
    <3>1. former'[q] = former[q]
      BY <1>2, <2>1
    <3>. QED
      BY <1>1, <2>3, <2>6, <3>1, Unseen DEF TokInv
  <2>8. Sound(View(p))'
    <3>1. PICK v : Seen(v, p) /\ Sound(v)
      BY NowSeen
    <3>2. PICK w : Seen(w, p)' /\ (Sound(w) => Sound(View(p))')
      BY NextSeen
    <3>3. former'[p] \cap Batches = Busy(p)
      BY <1>2, <2>1, Apartness DEF Referring, Busy
    <3>4. /\ w.on = v.on /\ w.row = "none" /\ w.busy = v.busy /\ w.writers = v.writers
          /\ w.former = v.busy /\ w.storers = v.storers /\ w.updaters = v.updaters
          /\ w.tokens = Except(v.tokens, "row") /\ w.excused = v.excused /\ Viewed(v)
      BY <1>1, <2>3, <2>6, <3>1, <3>2, <3>3 DEF Seen
    <3>. QED
      BY <3>1, <3>2, <3>4, DeleteSees
  <2>. QED
    BY <2>5, <2>7, <2>8 DEF TokInv
<1>. QED
  BY <1>5, <1>6

-----------------------------------------------------------------------------
(* The refresh jobs' steps *)

\* A job's step concerns its own work with one page.
LEMMA JobStays ==
  ASSUME TokInv, NEW b \in Batches, NEW p \in Pages, UNCHANGED <<platform, req>>,
         task' \in [Batches -> [Pages -> {"settled", "ask", "write"}]],
         \A q \in Pages \ {p} : \A c \in Batches : task'[c][q] = task[c][q],
         former' \in [Pages -> SUBSET (Batches \cup Requests)],
         rows' = [q \in Pages |-> rows'[q]], tokens' = [q \in Pages |-> tokens'[q]],
         \A q \in Pages \ {p} :
             rows'[q] = rows[q] /\ tokens'[q] = tokens[q] /\ former'[q] = former[q],
         excused' \subseteq Pages, \A q \in Pages \ {p} : q \in excused' <=> q \in excused,
         Sound(View(p))'
  PROVE  TokInv'
<1>1. TokType'
  BY DEF TokInv, TokType
<1>2. ASSUME NEW q \in Pages \ {p} PROVE Sound(View(q))'
  <2>1. Busy(q)' = Busy(q) /\ Writers(q)' = Writers(q)
    BY DEF Busy, Writers
  <2>2. Storers(q)' = Storers(q) /\ Updaters(q)' = Updaters(q)
    BY DEF Storers, Updaters
  <2>3. excused' \cap {q} = excused \cap {q}
    OBVIOUS
  <2>. QED
    BY <2>1, <2>2, <2>3, Unseen DEF TokInv
<1>. QED
  BY <1>1, <1>2 DEF TokInv

LEMMA RequestsStay ==
  ASSUME NEW p, req' = req
  PROVE  Storers(p)' = Storers(p) /\ Updaters(p)' = Updaters(p)
BY DEF Storers, Updaters

LEMMA SettlesDoes ==
  ASSUME TokInv, NEW b \in Batches, NEW p \in Pages, Settles(b, p)
  PROVE  /\ task' \in [Batches -> [Pages -> {"settled", "ask", "write"}]]
         /\ \A q \in Pages \ {p} : \A c \in Batches : task'[c][q] = task[c][q]
         /\ Busy(p)' = Busy(p) \ {b} /\ Writers(p)' = Writers(p) \ {b}
         /\ former' \in [Pages -> SUBSET (Batches \cup Requests)]
         /\ \A q \in Pages \ {p} : former'[q] = former[q]
         /\ former'[p] \cap Batches = (former[p] \cap Batches) \ {b}
<1>1. /\ task \in [Batches -> [Pages -> {"settled", "ask", "write"}]]
      /\ former \in [Pages -> SUBSET (Batches \cup Requests)]
  BY DEF TokInv, TokType
<1>2. /\ task' = [task EXCEPT ![b][p] = "settled"]
      /\ former' = [former EXCEPT ![p] = @ \ {b}]
  BY DEF Settles
<1>3. /\ task' \in [Batches -> [Pages -> {"settled", "ask", "write"}]]
      /\ task'[b][p] = "settled" /\ \A c \in Batches \ {b} : task'[c][p] = task[c][p]
      /\ \A q \in Pages \ {p} : \A c \in Batches : task'[c][q] = task[c][q]
  BY <1>1, <1>2
<1>4. /\ former' \in [Pages -> SUBSET (Batches \cup Requests)]
      /\ \A q \in Pages \ {p} : former'[q] = former[q]
      /\ former'[p] \cap Batches = (former[p] \cap Batches) \ {b}
  BY <1>1, <1>2
<1>5. Busy(p)' = Busy(p) \ {b} /\ Writers(p)' = Writers(p) \ {b}
  BY <1>3, OneJob
<1>. QED
  BY <1>3, <1>4, <1>5

LEMMA WritesDoes ==
  ASSUME TokInv, NEW b \in Batches, NEW p \in Pages, task[b][p] = "ask",
         task' = [task EXCEPT ![b][p] = "write"]
  PROVE  /\ task' \in [Batches -> [Pages -> {"settled", "ask", "write"}]]
         /\ \A q \in Pages \ {p} : \A c \in Batches : task'[c][q] = task[c][q]
         /\ Busy(p)' = Busy(p) /\ Writers(p)' = Writers(p) \cup {b} /\ b \in Busy(p)
<1>1. task \in [Batches -> [Pages -> {"settled", "ask", "write"}]]
  BY DEF TokInv, TokType
<1>2. /\ task' \in [Batches -> [Pages -> {"settled", "ask", "write"}]]
      /\ task'[b][p] = "write" /\ \A c \in Batches \ {b} : task'[c][p] = task[c][p]
      /\ \A q \in Pages \ {p} : \A c \in Batches : task'[c][q] = task[c][q]
  BY <1>1
<1>3. Busy(p)' = Busy(p) /\ Writers(p)' = Writers(p) \cup {b}
  BY <1>2, OneJob
<1>. QED
  BY <1>2, <1>3 DEF Busy

LEMMA AcceptedShown ==
  ASSUME NEW b, NEW p
  PROVE  /\ Accepted(b, p) \in Shown(tokens[p], b) /\ tokens[p] \in Shown(tokens[p], b)
         /\ ~KeptByOther(b, p) =>
               \A c \in Writers(p) \ {b}, t \in tokens[p] : ~(b \in t /\ c \in t)
<1>1. Accepted(b, p) \in Shown(tokens[p], b) /\ tokens[p] \in Shown(tokens[p], b)
  BY DEF Accepted, Shown
<1>2. ASSUME NEW c \in Writers(p) \ {b}, NEW t \in tokens[p], b \in t, c \in t
      PROVE  KeptByOther(b, p)
  BY <1>2 DEF KeptByOther, Writers
<1>. QED
  BY <1>1, <1>2

LEMMA TypesNow ==
  ASSUME TokInv
  PROVE  /\ rows = [q \in Pages |-> rows[q]] /\ tokens = [q \in Pages |-> tokens[q]]
         /\ excused \subseteq Pages /\ former \in [Pages -> SUBSET (Batches \cup Requests)]
         /\ \A p \in Pages : platform[p] \in Platforms
  BY AccountsAssumption DEF TokInv, TokType

\* An answer that lacks what the refresher needs is YouTube's, or Bluesky's.
LEMMA AnswerKinds ==
  ASSUME NEW pf \in Platforms \ {"linkedin"}, NEW a \in Answers(pf)
  PROVE  /\ ~(updateAccessToken(pf).dated /\ ~a.dated) \/ pf = "youtube"
         /\ \/ a.new = TRUE \/ pf = "youtube"
            \/ a.new = FALSE /\ updateAccessToken(pf).keeps = "old"
<1>1. CASE pf = "youtube"
  BY <1>1
<1>2. CASE pf = "bluesky"
  BY <1>2 DEF Answers, updateAccessToken, BlueskyRefresh
<1>3. CASE pf \in {"tiktok", "pinterest"}
  BY <1>3 DEF Answers
<1>4. CASE pf \in {"facebook", "instagram", "threads", "x"}
  <2>. pf # "youtube" /\ pf # "bluesky" /\ pf \notin {"tiktok", "pinterest"}
    BY <1>4
  <2>1. a.new = TRUE
    <3>1. Answers(pf) = {[new |-> TRUE, dated |-> FALSE]}
      BY DEF Answers
    <3>. QED
      BY <3>1
  <2>2. ~updateAccessToken(pf).dated
    BY <1>4 DEF updateAccessToken, FacebookRefresh, InstagramRefresh, ThreadsRefresh, XRefresh
  <2>. QED
    BY <2>1, <2>2
<1>. QED
  BY <1>1, <1>2, <1>3, <1>4 DEF Platforms, Exchanging, Rotating

LEMMA AskKeepsTokens ==
  ASSUME TokInv, NEW b \in Batches, NEW p \in Pages, Ask(b, p)
  PROVE  TokInv'
<1>1. /\ task[b][p] = "ask" /\ HasIn(tokens[p], b) /\ UNCHANGED <<platform, rows, req>>
  BY DEF Ask, Has, HasIn
<1>2. PICK a \in Answers(platform[p]) :
        /\ IF updateAccessToken(platform[p]).dated /\ ~a.dated
           THEN Settles(b, p) /\ tokens' = Drop({p}, b)
           ELSE /\ task' = [task EXCEPT ![b][p] = "write"]
                /\ tokens' = IF a.new THEN Issue(p, b, Accepted(b, p))
                             ELSE IF updateAccessToken(platform[p]).keeps = "old"
                                  THEN tokens ELSE Drop({p}, b)
                /\ UNCHANGED former
        /\ excused' = IF a.new /\ KeptByOther(b, p) THEN excused \cup {p} ELSE excused
  BY DEF Ask
<1>3. PICK v : Seen(v, p) /\ Sound(v)
  BY NowSeen
<1>4. PICK w : Seen(w, p)' /\ (Sound(w) => Sound(View(p))')
  BY NextSeen
<1>5. b \in Busy(p) /\ b \in v.busy /\ HasIn(v.tokens, b) /\ Viewed(v)
  BY <1>1, <1>3 DEF Busy, Seen
<1>6. platform[p] \in Platforms \ {"linkedin"}
  BY <1>3, <1>5, TypesNow DEF Seen, Sound
<1>7. Storers(p)' = Storers(p) /\ Updaters(p)' = Updaters(p)
  BY <1>1, RequestsStay
<1>8. excused' \subseteq Pages /\ excused \subseteq excused'
      /\ \A q \in Pages \ {p} : q \in excused' <=> q \in excused
  BY <1>2, TypesNow
<1>9. ~(updateAccessToken(platform[p]).dated /\ ~a.dated) \/ platform[p] = "youtube"
  BY <1>6, AnswerKinds
<1>10. \/ a.new = TRUE \/ platform[p] = "youtube"
       \/ a.new = FALSE /\ updateAccessToken(platform[p]).keeps = "old"
  BY <1>6, AnswerKinds
<1>11. ASSUME Settles(b, p), tokens' = Drop({p}, b), platform[p] = "youtube"
       PROVE  TokInv'
  <2>1. /\ tokens' = [q \in Pages |-> tokens'[q]] /\ tokens'[p] = Except(tokens[p], b)
        /\ \A q \in Pages \ {p} : tokens'[q] = tokens[q]
    BY <1>11, TypesNow DEF Drop
  <2>2. Sound(w)
    <3>1. /\ w.on = v.on /\ w.row = v.row /\ w.busy = v.busy \ {b}
          /\ w.writers = v.writers \ {b} /\ w.former = v.former \ {b}
          /\ w.storers = v.storers /\ w.updaters = v.updaters /\ w.on = "youtube"
          /\ w.tokens = Except(v.tokens, b) /\ v.excused \subseteq w.excused
      BY <1>1, <1>3, <1>4, <1>7, <1>8, <1>11, <2>1, SettlesDoes DEF Seen
    <3>2. v.tokens \in Shown(v.tokens, b)
      BY DEF Shown
    <3>. QED
      BY <1>3, <1>5, <3>1, <3>2, SettleSees
  <2>. QED
    BY <1>1, <1>4, <1>8, <1>11, <2>1, <2>2, TypesNow, SettlesDoes, JobStays
<1>12. ASSUME task' = [task EXCEPT ![b][p] = "write"], UNCHANGED former,
              \/ tokens' = Issue(p, b, Accepted(b, p)) /\ (KeptByOther(b, p) => p \in excused')
              \/ tokens' = tokens /\ excused' = excused
              \/ tokens' = Drop({p}, b) /\ platform[p] = "youtube"
       PROVE  TokInv'
  <2>1. /\ tokens' = [q \in Pages |-> tokens'[q]]
        /\ \A q \in Pages \ {p} : tokens'[q] = tokens[q]
        /\ \/ /\ tokens'[p] = Except(Accepted(b, p), b) \cup {{b}}
              /\ KeptByOther(b, p) => p \in excused'
           \/ tokens'[p] = tokens[p] /\ excused' = excused
           \/ tokens'[p] = Except(tokens[p], b) /\ platform[p] = "youtube"
    BY <1>12, TypesNow DEF Drop, Issue
  <2>2. /\ w.on = v.on /\ w.row = v.row /\ w.busy = v.busy
        /\ w.writers = v.writers \cup {b} /\ w.former = v.former
        /\ w.storers = v.storers /\ w.updaters = v.updaters
        /\ v.excused \subseteq w.excused
    <3>1. Busy(p)' = Busy(p) /\ Writers(p)' = Writers(p) \cup {b}
      BY <1>1, <1>12, WritesDoes
    <3>. QED
      BY <1>1, <1>3, <1>4, <1>7, <1>8, <1>12, <3>1 DEF Seen
  <2>3. CASE /\ tokens'[p] = Except(Accepted(b, p), b) \cup {{b}}
             /\ KeptByOther(b, p) => p \in excused'
    <3>. DEFINE A == Accepted(b, p)
    <3>1. A \in Shown(v.tokens, b) /\ w.tokens = Except(A, b) \cup {{b}}
      BY <1>3, <1>4, <2>3, AcceptedShown DEF Seen
    <3>2. \/ w.excused # {}
          \/ \A c \in v.writers \ {b}, t \in v.tokens : ~(b \in t /\ c \in t)
      BY <1>3, <1>4, <2>3, AcceptedShown DEF Seen
    <3>. HIDE DEF A
    <3>3. Sound(w)
      BY <1>3, <1>5, <2>2, <3>1, <3>2, AnswerSees
    <3>. QED
      BY <1>1, <1>4, <1>8, <1>12, <2>1, <3>3, TypesNow, WritesDoes, JobStays
  <2>4. CASE tokens'[p] = tokens[p] /\ excused' = excused
    <3>1. w.tokens = v.tokens /\ w.excused = v.excused
      BY <1>3, <1>4, <2>4 DEF Seen
    <3>2. Sound(w)
      BY <1>3, <1>5, <2>2, <3>1, KeepSees
    <3>. QED
      BY <1>1, <1>4, <1>8, <1>12, <2>1, <3>2, TypesNow, WritesDoes, JobStays
  <2>5. CASE tokens'[p] = Except(tokens[p], b) /\ platform[p] = "youtube"
    <3>1. w.tokens = Except(v.tokens, b) /\ v.on = "youtube"
      BY <1>3, <1>4, <2>5 DEF Seen
    <3>2. Sound(w)
      BY <1>3, <1>5, <2>2, <3>1, LoseSees
    <3>. QED
      BY <1>1, <1>4, <1>8, <1>12, <2>1, <3>2, TypesNow, WritesDoes, JobStays
  <2>. QED
    BY <2>1, <2>3, <2>4, <2>5
<1>13. CASE updateAccessToken(platform[p]).dated /\ ~a.dated
  BY <1>2, <1>9, <1>11, <1>13
<1>14. CASE ~(updateAccessToken(platform[p]).dated /\ ~a.dated)
  <2>1. /\ task' = [task EXCEPT ![b][p] = "write"] /\ UNCHANGED former
        /\ tokens' = IF a.new THEN Issue(p, b, Accepted(b, p))
                     ELSE IF updateAccessToken(platform[p]).keeps = "old"
                          THEN tokens ELSE Drop({p}, b)
    BY <1>2, <1>14
  <2>2. CASE a.new = TRUE
    <3>1. tokens' = Issue(p, b, Accepted(b, p)) /\ (KeptByOther(b, p) => p \in excused')
      BY <1>2, <2>1, <2>2
    <3>. QED
      BY <1>12, <2>1, <3>1
  <2>3. CASE a.new = FALSE /\ updateAccessToken(platform[p]).keeps = "old"
    <3>1. tokens' = tokens /\ excused' = excused
      BY <1>2, <2>1, <2>3
    <3>. QED
      BY <1>12, <2>1, <3>1
  <2>4. CASE platform[p] = "youtube"
    <3>1. a.new = FALSE /\ updateAccessToken(platform[p]).keeps = "null"
      BY <2>4 DEF Answers, updateAccessToken, YouTubeRefresh
    <3>2. tokens' = Drop({p}, b)
      BY <2>1, <3>1
    <3>. QED
      BY <1>12, <2>1, <2>4, <3>2
  <2>. QED
    BY <1>10, <2>2, <2>3, <2>4
<1>. QED
  BY <1>13, <1>14

LEMMA RefusedKeepsTokens ==
  ASSUME TokInv, NEW b \in Batches, NEW p \in Pages, Refused(b, p)
  PROVE  TokInv'
<1>1. /\ ~HasIn(tokens[p], b) /\ Settles(b, p)
      /\ UNCHANGED <<platform, rows, tokens, req, excused>>
  BY DEF Refused, Has, HasIn
<1>2. PICK v : Seen(v, p) /\ Sound(v)
  BY NowSeen
<1>3. PICK w : Seen(w, p)' /\ (Sound(w) => Sound(View(p))')
  BY NextSeen
<1>4. Storers(p)' = Storers(p) /\ Updaters(p)' = Updaters(p)
  BY <1>1, RequestsStay
<1>5. /\ Busy(p)' = Busy(p) \ {b} /\ Writers(p)' = Writers(p) \ {b}
      /\ former'[p] \cap Batches = (former[p] \cap Batches) \ {b}
  BY <1>1, SettlesDoes
<1>6. /\ w.on = v.on /\ w.row = v.row /\ w.busy = v.busy \ {b}
      /\ w.writers = v.writers \ {b} /\ w.former = v.former \ {b}
      /\ w.storers = v.storers /\ w.updaters = v.updaters
      /\ w.tokens = v.tokens /\ w.excused = v.excused /\ ~HasIn(v.tokens, b)
  BY <1>1, <1>2, <1>3, <1>4, <1>5 DEF Seen
<1>7. Sound(w)
  BY <1>2, <1>6, RefusedSees
<1>. QED
  BY <1>1, <1>3, <1>7, TypesNow, SettlesDoes, JobStays

\* updateAccessTokenByAccountId: the token is the row's, or of no account any more.
LEMMA WriteKeepsTokens ==
  ASSUME TokInv, NEW b \in Batches, NEW p \in Pages, Write(b, p)
  PROVE  TokInv'
<1>1. task[b][p] = "write" /\ Settles(b, p) /\ UNCHANGED <<platform, req, excused>>
  BY DEF Write
<1>2. PICK v : Seen(v, p) /\ Sound(v)
  BY NowSeen
<1>3. PICK w : Seen(w, p)' /\ (Sound(w) => Sound(View(p))')
  BY NextSeen
<1>4. Storers(p)' = Storers(p) /\ Updaters(p)' = Updaters(p)
  BY <1>1, RequestsStay
<1>5. /\ Busy(p)' = Busy(p) \ {b} /\ Writers(p)' = Writers(p) \ {b}
      /\ former'[p] \cap Batches = (former[p] \cap Batches) \ {b}
  BY <1>1, SettlesDoes
<1>6. /\ w.on = v.on /\ w.busy = v.busy \ {b} /\ w.writers = v.writers \ {b}
      /\ w.former = v.former \ {b} /\ w.storers = v.storers /\ w.updaters = v.updaters
      /\ w.excused = v.excused /\ Viewed(v)
  BY <1>1, <1>2, <1>3, <1>4, <1>5 DEF Seen
<1>7. b \in v.writers /\ (b \in v.former <=> b \in former[p])
  BY <1>1, <1>2 DEF Writers, Seen
<1>8. CASE Connected(p) /\ b \notin former[p]
  <2>1. /\ rows' = [rows EXCEPT ![p] = "later"]
        /\ tokens' = [tokens EXCEPT ![p] = Except(Copied(p, b, "row"), b)]
    BY <1>8 DEF Write
  <2>2. /\ tokens' = [q \in Pages |-> tokens'[q]] /\ rows' = [q \in Pages |-> rows'[q]]
        /\ tokens'[p] = Passed(tokens[p], b, "row")
        /\ \A q \in Pages \ {p} : tokens'[q] = tokens[q] /\ rows'[q] = rows[q]
    BY <2>1, TypesNow DEF Copied, Passed
  <2>3. b \notin v.storers /\ w.tokens = Passed(v.tokens, b, "row") /\ b \notin v.former
    BY <1>2, <1>3, <1>6, <1>7, <1>8, <2>2, Apartness DEF Seen, Viewed
  <2>4. w.storers = v.storers \ {b}
    BY <1>6, <2>3
  <2>5. Sound(w)
    BY <1>2, <1>6, <1>7, <2>3, <2>4, StoreSees
  <2>. QED
    BY <1>1, <1>3, <2>2, <2>5, TypesNow, SettlesDoes, JobStays
<1>9. CASE ~(Connected(p) /\ b \notin former[p])
  <2>1. tokens' = Drop({p}, b) /\ UNCHANGED rows
    BY <1>9 DEF Write
  <2>2. /\ tokens' = [q \in Pages |-> tokens'[q]] /\ tokens'[p] = Except(tokens[p], b)
        /\ \A q \in Pages \ {p} : tokens'[q] = tokens[q]
    BY <2>1, TypesNow DEF Drop
  <2>3. /\ w.row = v.row /\ w.tokens = Except(v.tokens, b)
        /\ w.row = "none" \/ b \notin v.writers \ v.former
    BY <1>2, <1>3, <1>7, <1>9, <2>1, <2>2 DEF Seen, Connected
  <2>4. v.tokens \in Shown(v.tokens, b)
    BY DEF Shown
  <2>5. Sound(w)
    BY <1>2, <1>6, <2>3, <2>4, SettleSees
  <2>. QED
    BY <1>1, <1>3, <2>1, <2>2, <2>5, TypesNow, SettlesDoes, JobStays
<1>. QED
  BY <1>8, <1>9

LEMMA RefreshFailsKeepsTokens ==
  ASSUME TokInv, NEW b \in Batches, NEW p \in Pages, RefreshFails(b, p)
  PROVE  TokInv'
<1>1. Settles(b, p) /\ UNCHANGED <<platform, rows, req>>
  BY DEF RefreshFails
<1>2. excused' = excused \cup {q \in {p} : q \in Dead \/ KeptByOther(b, p)}
  BY DEF RefreshFails
<1>3. PICK A \in Shown(tokens[p], b) :
        \/ tokens' = [tokens EXCEPT ![p] = Except(A, b)]
        \/ A = tokens[p] /\ tokens' = Drop({p}, b)
  BY AcceptedShown DEF RefreshFails
<1>4. /\ tokens' = [q \in Pages |-> tokens'[q]] /\ tokens'[p] = Except(A, b)
      /\ \A q \in Pages \ {p} : tokens'[q] = tokens[q]
  BY <1>3, TypesNow DEF Drop
<1>5. /\ excused' \subseteq Pages /\ excused \subseteq excused'
      /\ \A q \in Pages \ {p} : q \in excused' <=> q \in excused
  BY <1>2, TypesNow
<1>6. rows[p] = "none" \/ p \in excused' \/ HasIn(tokens'[p], "row")
  BY <1>2 DEF Dead, Connected, HasIn
<1>7. p \in excused' \/ \A c \in Writers(p) \ {b}, t \in tokens[p] : ~(b \in t /\ c \in t)
  BY <1>2, AcceptedShown
<1>8. PICK v : Seen(v, p) /\ Sound(v)
  BY NowSeen
<1>9. PICK w : Seen(w, p)' /\ (Sound(w) => Sound(View(p))')
  BY NextSeen
<1>10. Storers(p)' = Storers(p) /\ Updaters(p)' = Updaters(p)
  BY <1>1, RequestsStay
<1>11. /\ Busy(p)' = Busy(p) \ {b} /\ Writers(p)' = Writers(p) \ {b}
       /\ former'[p] \cap Batches = (former[p] \cap Batches) \ {b}
  BY <1>1, SettlesDoes
<1>12. /\ w.on = v.on /\ w.row = v.row /\ w.busy = v.busy \ {b}
       /\ w.writers = v.writers \ {b} /\ w.former = v.former \ {b}
       /\ w.storers = v.storers /\ w.updaters = v.updaters /\ Viewed(v)
       /\ A \in Shown(v.tokens, b) /\ w.tokens = Except(A, b)
       /\ v.excused \subseteq w.excused
  BY <1>1, <1>4, <1>5, <1>8, <1>9, <1>10, <1>11 DEF Seen
<1>13. /\ w.row = "none" \/ w.excused # {} \/ HasIn(w.tokens, "row")
       /\ \/ w.excused # {}
          \/ \A c \in v.writers \ {b}, t \in v.tokens : ~(b \in t /\ c \in t)
  BY <1>1, <1>6, <1>7, <1>8, <1>9 DEF Seen
<1>14. Sound(w)
  BY <1>8, <1>12, <1>13, SettleSees
<1>. QED
  BY <1>1, <1>4, <1>5, <1>9, <1>14, TypesNow, SettlesDoes, JobStays

\* A run of the job begins or ends for all pages at once.
LEMMA BatchStays ==
  ASSUME TokInv, NEW b \in Batches, UNCHANGED <<platform, rows, req>>,
         task' \in [Batches -> [Pages -> {"settled", "ask", "write"}]],
         former' = [p \in Pages |-> former[p] \ {b}],
         tokens' = [p \in Pages |-> tokens'[p]], excused' \subseteq Pages,
         \A p \in Pages : Sound(View(p))'
  PROVE  TokInv'
<1>1. former' \in [Pages -> SUBSET (Batches \cup Requests)]
  BY DEF TokInv, TokType
<1>2. TokType'
  BY <1>1 DEF TokInv, TokType
<1>. QED
  BY <1>2 DEF TokInv

LEMMA BatchStartKeepsTokens ==
  ASSUME TokInv, NEW b \in Batches, BatchStart(b)
  PROVE  TokInv'
<1>1. /\ task' = [task EXCEPT ![b] = [p \in Pages |-> IF Expiring(p) THEN "ask" ELSE "settled"]]
      /\ tokens' = [p \in Pages |-> IF Expiring(p) THEN Copied(p, "row", b) ELSE tokens[p]]
      /\ former' = [p \in Pages |-> former[p] \ {b}]
      /\ UNCHANGED <<platform, rows, req, excused>>
      /\ \A p \in Pages : task[b][p] = "settled"
  BY DEF BatchStart, Idle
<1>2. /\ task \in [Batches -> [Pages -> {"settled", "ask", "write"}]]
      /\ former \in [Pages -> SUBSET (Batches \cup Requests)] /\ excused \subseteq Pages
  BY DEF TokInv, TokType
<1>3. /\ task' \in [Batches -> [Pages -> {"settled", "ask", "write"}]]
      /\ \A p \in Pages : /\ task'[b][p] = IF Expiring(p) THEN "ask" ELSE "settled"
                          /\ \A c \in Batches \ {b} : task'[c][p] = task[c][p]
  BY <1>1, <1>2
<1>4. ASSUME NEW p \in Pages PROVE Sound(View(p))'
  <2>1. PICK v : Seen(v, p) /\ Sound(v)
    BY NowSeen
  <2>2. PICK w : Seen(w, p)' /\ (Sound(w) => Sound(View(p))')
    BY NextSeen
  <2>3. Storers(p)' = Storers(p) /\ Updaters(p)' = Updaters(p)
    BY <1>1, RequestsStay
  <2>4. former'[p] \cap Batches = (former[p] \cap Batches) \ {b}
    BY <1>1
  <2>5. b \notin Busy(p)
    BY <1>1 DEF Busy
  <2>6. /\ w.on = v.on /\ w.row = v.row /\ w.former = v.former \ {b} /\ b \notin v.busy
        /\ w.storers = v.storers /\ w.updaters = v.updaters /\ w.excused = v.excused
        /\ Viewed(v)
    BY <1>1, <2>1, <2>2, <2>3, <2>4, <2>5 DEF Seen
  <2>7. CASE Expiring(p)
    <3>1. Busy(p)' = Busy(p) \cup {b} /\ Writers(p)' = Writers(p)
      BY <1>1, <1>3, <2>7, OneJob
    <3>2. tokens'[p] = {IF "row" \in t THEN t \cup {b} ELSE t \ {b} : t \in tokens[p]} \ {{}}
      BY <1>1, <2>7 DEF Copied
    <3>3. platform[p] # "linkedin"
      BY <2>7 DEF Expiring
    <3>4. /\ w.tokens = {IF "row" \in t THEN t \cup {b} ELSE t \ {b} : t \in v.tokens} \ {{}}
          /\ w.busy = v.busy \cup {b} /\ w.writers = v.writers /\ v.on # "linkedin"
      BY <2>1, <2>2, <3>1, <3>2, <3>3 DEF Seen
    <3>5. Sound(w)
      BY <2>1, <2>6, <3>4, StartSees
    <3>. QED
      BY <2>2, <3>5
  <2>8. CASE ~Expiring(p)
    <3>1. task'[b][p] = task[b][p]
      BY <1>1, <1>3, <2>8
    <3>2. Busy(p)' = Busy(p) /\ Writers(p)' = Writers(p) /\ tokens'[p] = tokens[p]
      BY <1>1, <1>3, <2>8, <3>1, OneJob
    <3>3. w.tokens = v.tokens /\ w.busy = v.busy /\ w.writers = v.writers
      BY <2>1, <2>2, <3>2 DEF Seen
    <3>4. Sound(w)
      BY <2>1, <2>6, <3>3, StartSees
    <3>. QED
      BY <2>2, <3>4
  <2>. QED
    BY <2>7, <2>8
<1>5. tokens' = [p \in Pages |-> tokens'[p]]
  BY <1>1
<1>. QED
  BY <1>1, <1>2, <1>3, <1>4, <1>5, BatchStays

LEMMA BatchDiesKeepsTokens ==
  ASSUME TokInv, NEW b \in Batches, BatchDies(b)
  PROVE  TokInv'
<1>1. /\ task' = [task EXCEPT ![b] = [p \in Pages |-> "settled"]]
      /\ former' = [p \in Pages |-> former[p] \ {b}] /\ tokens' = Drop(Pages, b)
      /\ excused' = excused \cup {p \in Dead : task[b][p] = "write"}
      /\ UNCHANGED <<platform, rows, req>>
  BY DEF BatchDies
<1>2. /\ task \in [Batches -> [Pages -> {"settled", "ask", "write"}]]
      /\ former \in [Pages -> SUBSET (Batches \cup Requests)] /\ excused \subseteq Pages
  BY DEF TokInv, TokType
<1>3. /\ task' \in [Batches -> [Pages -> {"settled", "ask", "write"}]]
      /\ \A p \in Pages : /\ task'[b][p] = "settled"
                          /\ \A c \in Batches \ {b} : task'[c][p] = task[c][p]
  BY <1>1, <1>2
<1>4. /\ tokens' = [p \in Pages |-> tokens'[p]]
      /\ \A p \in Pages : tokens'[p] = Except(tokens[p], b)
  BY <1>1 DEF Drop
<1>5. excused' \subseteq Pages
  BY <1>1, <1>2 DEF Dead
<1>6. ASSUME NEW p \in Pages PROVE Sound(View(p))'
  <2>1. PICK v : Seen(v, p) /\ Sound(v)
    BY NowSeen
  <2>2. PICK w : Seen(w, p)' /\ (Sound(w) => Sound(View(p))')
    BY NextSeen
  <2>3. Storers(p)' = Storers(p) /\ Updaters(p)' = Updaters(p)
    BY <1>1, RequestsStay
  <2>4. former'[p] \cap Batches = (former[p] \cap Batches) \ {b}
    BY <1>1
  <2>5. Busy(p)' = Busy(p) \ {b} /\ Writers(p)' = Writers(p) \ {b}
    BY <1>3, OneJob
  <2>6. /\ w.on = v.on /\ w.row = v.row /\ w.busy = v.busy \ {b}
        /\ w.writers = v.writers \ {b} /\ w.former = v.former \ {b}
        /\ w.storers = v.storers /\ w.updaters = v.updaters /\ Viewed(v)
        /\ w.tokens = Except(v.tokens, b) /\ v.excused \subseteq w.excused
    BY <1>1, <1>4, <2>1, <2>2, <2>3, <2>4, <2>5 DEF Seen
  <2>7. rows[p] = "none" \/ p \in excused' \/ HasIn(tokens'[p], "row") \/ b \notin Writers(p)
    BY <1>1 DEF Dead, Connected, HasIn, Writers
  <2>8. w.row = "none" \/ w.excused # {} \/ HasIn(w.tokens, "row") \/ b \notin v.writers
    BY <1>1, <2>1, <2>2, <2>7 DEF Seen
  <2>9. v.tokens \in Shown(v.tokens, b)
    BY DEF Shown
  <2>10. Sound(w)
    BY <2>1, <2>6, <2>8, <2>9, SettleSees
  <2>. QED
    BY <2>2, <2>10
<1>. QED
  BY <1>1, <1>3, <1>4, <1>5, <1>6, BatchStays

\* Time passes, or the user withdraws the permission.
LEMMA PageAlone ==
  ASSUME TokInv, NEW p \in Pages, UNCHANGED <<platform, task, req, former>>,
         \/ /\ rows[p] # "none" /\ rows' = [rows EXCEPT ![p] = "soon"]
            /\ UNCHANGED <<tokens, excused>>
         \/ /\ tokens' = [tokens EXCEPT ![p] = {}] /\ excused' = excused \cup {p}
            /\ UNCHANGED rows
  PROVE  TokInv'
<1>1. TokType'
  BY DEF TokInv, TokType
<1>2. ASSUME NEW q \in Pages
      PROVE  /\ Storers(q)' = Storers(q) /\ Updaters(q)' = Updaters(q)
             /\ Busy(q)' = Busy(q) /\ Writers(q)' = Writers(q)
  BY RequestsStay, JobsStay
<1>3. ASSUME NEW q \in Pages \ {p} PROVE Sound(View(q))'
  <2>1. rows'[q] = rows[q] /\ tokens'[q] = tokens[q] /\ excused' \cap {q} = excused \cap {q}
    BY TypesNow
  <2>. QED
    BY <1>2, <2>1, Unseen DEF TokInv
<1>4. Sound(View(p))'
  <2>1. PICK v : Seen(v, p) /\ Sound(v)
    BY NowSeen
  <2>2. PICK w : Seen(w, p)' /\ (Sound(w) => Sound(View(p))')
    BY NextSeen
  <2>3. /\ w.on = v.on /\ w.busy = v.busy /\ w.writers = v.writers /\ w.former = v.former
        /\ w.storers = v.storers /\ w.updaters = v.updaters
    BY <1>2, <2>1, <2>2 DEF Seen
  <2>4. CASE /\ rows[p] # "none" /\ rows' = [rows EXCEPT ![p] = "soon"]
             /\ UNCHANGED <<tokens, excused>>
    <3>1. w.tokens = v.tokens /\ w.excused = v.excused /\ v.row # "none"
      BY <2>1, <2>2, <2>4 DEF Seen
    <3>2. Sound(w)
      BY <2>1, <2>3, <3>1, FindSees
    <3>. QED
      BY <2>2, <3>2
  <2>5. CASE /\ tokens' = [tokens EXCEPT ![p] = {}] /\ excused' = excused \cup {p}
             /\ UNCHANGED rows
    <3>1. tokens'[p] = {} /\ p \in excused' /\ rows'[p] = rows[p]
      BY <2>5, TypesNow
    <3>2. w.tokens = {} /\ w.excused # {} /\ w.row = v.row
      BY <2>1, <2>2, <3>1 DEF Seen
    <3>3. Sound(w)
      BY <2>1, <2>3, <3>2, WithdrawnSees
    <3>. QED
      BY <2>2, <3>3
  <2>. QED
    BY <2>4, <2>5
<1>. QED
  BY <1>1, <1>3, <1>4 DEF TokInv

LEMMA PostsAlone ==
  ASSUME TokInv, UNCHANGED <<platform, rows, tokens, task, req, former, excused>>
  PROVE  TokInv'
<1>1. \A p : View(p)' = View(p)
  BY DEF View, Busy, Writers, Storers, Updaters
<1>2. TokType'
  BY DEF TokInv, TokType
<1>. QED
  BY <1>1, <1>2 DEF TokInv

LEMMA InitTokInv == Init => TokInv
<1> SUFFICES ASSUME Init
             PROVE  TokInv
  OBVIOUS
<1>1. Framed(req) /\ Listing(req)
  BY InitIInv DEF IInv, TypeInv, Init, Listing, Free
<1>2. TokType
  BY <1>1 DEF Init, TokType
<1>3. ASSUME NEW p \in Pages PROVE Sound(View(p))
  <2>1. /\ Busy(p) = {} /\ Writers(p) = {} /\ Storers(p) = {}
        /\ rows[p] = "none" /\ tokens[p] = {}
    BY DEF Init, Busy, Writers, Storers, StoresOf, Free
  <2>2. /\ View(p).busy = {} /\ View(p).writers = {} /\ View(p).storers = {}
        /\ View(p).row = "none" /\ View(p).tokens = {}
    BY <2>1, ViewFields
  <2>. QED
    BY <2>2 DEF Sound, SoleIn, HeldIn, Backed
<1>. QED
  BY <1>2, <1>3 DEF TokInv

LEMMA NextKeepsTokens ==
  ASSUME IInv, IInv', TokInv, [Next]_vars
  PROVE  TokInv'
<1>1. TypeInv /\ TypeInv' /\ Framed(req')
  BY DEF IInv, TypeInv
<1>2. ASSUME NEW r \in Requests, ConnectStart(r) PROVE TokInv'
  BY <1>2, ConnectStartKeepsTokens
<1>3. ASSUME NEW r \in Requests, ConnectStep(r) PROVE TokInv'
  BY <1>3, ReadKeepsTokens, PageKeepsTokens, GrantKeepsTokens, FindKeepsTokens,
     StoreKeepsTokens DEF ConnectStep
<1>4. ASSUME NEW r \in Requests, ConnectFails(r) \/ RequestDies(r) PROVE TokInv'
  BY <1>1, <1>4, ConnectFailsKeepsTokens, RequestDiesKeepsTokens
<1>5. ASSUME NEW r \in Requests, DeleteStep(r) PROVE TokInv'
  BY <1>1, <1>5, DeletionKeepsTokens, DeleteRowKeepsTokens DEF DeleteStep
<1>6. ASSUME NEW r \in Requests, NEW p \in Pages, DeleteStart(r, p) PROVE TokInv'
  BY <1>1, <1>6, DeletionKeepsTokens
<1>7. ASSUME NEW b \in Batches, BatchStart(b) \/ BatchDies(b) PROVE TokInv'
  BY <1>7, BatchStartKeepsTokens, BatchDiesKeepsTokens
<1>8. ASSUME NEW b \in Batches, NEW p \in Pages, RefreshStep(b, p) \/ RefreshFails(b, p)
      PROVE  TokInv'
  BY <1>8, AskKeepsTokens, RefusedKeepsTokens, WriteKeepsTokens, RefreshFailsKeepsTokens
     DEF RefreshStep
<1>9. ASSUME NEW p \in Pages, Ages(p) \/ Withdrawn(p) PROVE TokInv'
  BY <1>9, PageAlone DEF Ages, Withdrawn
<1>10. ASSUME NEW x \in Posts, TargetPost(x) PROVE TokInv'
  BY <1>10, PostsAlone DEF TargetPost
<1>11. CASE UNCHANGED vars
  BY <1>11, PostsAlone DEF vars
<1>. QED
  BY <1>2, <1>3, <1>4, <1>5, <1>6, <1>7, <1>8, <1>9, <1>10, <1>11 DEF Next

LEMMA TokInvIsSafe == TokInv => StoredTokenWorks
<1> SUFFICES ASSUME TokInv, NEW p \in Pages, Connected(p), ~Has(p, "row")
             PROVE  \/ p \in excused \/ platform[p] = "youtube"
                    \/ \E b \in Batches : task[b][p] = "write" /\ Has(p, b)
                    \/ \E r \in Requests : Has(p, r)
  BY DEF StoredTokenWorks
<1>1. PICK v : Seen(v, p) /\ Sound(v)
  BY NowSeen
<1>2. v.row # "none" /\ ~HasIn(v.tokens, "row")
  BY <1>1 DEF Seen, Connected, Has, HasIn
<1>3. \/ v.excused # {} \/ v.on = "youtube" \/ \E b \in v.writers : HasIn(v.tokens, b)
      \/ \E r \in v.updaters : HasIn(v.tokens, r)
  BY <1>1, <1>2 DEF Sound, Backed
<1>4. v.writers = Writers(p) /\ v.updaters = Updaters(p) /\ v.tokens = tokens[p]
      /\ v.excused = excused \cap {p} /\ v.on = platform[p]
  BY <1>1 DEF Seen
<1>. QED
  BY <1>3, <1>4 DEF Writers, Updaters, Storers, Has, HasIn

(* However the connectors, any number of refresh jobs and the deletions     *)
(* overlap and fail, the refresher never stores a token that another        *)
(* refresh has consumed: the row's token works, or the one that replaced it *)
(* is on its way (connectors' upsertAccount, the refresher's                *)
(* updateAccessTokenByAccountId), but for the losses the property excuses.  *)
THEOREM StoredTokensWork == Spec => []StoredTokenWorks
<1>1. Spec => []IInv
  BY InitIInv, IInvStep, PTL DEF Spec
<1>2. IInv /\ IInv' /\ TokInv /\ [Next]_vars => TokInv'
  BY NextKeepsTokens
<1>. QED
  BY <1>1, <1>2, InitTokInv, TokInvIsSafe, PTL DEF Spec

-----------------------------------------------------------------------------
(* The types                                                                *)

\* Tokens that a platform accepts: each is held by somebody, and by nobody who
\* holds another.
TokenSets == {T \in SUBSET ((SUBSET Holders) \ {{}}) : \A t, u \in T : t = u \/ t \cap u = {}}

\* What the other invariants do not say of a frame.
Filled(f) ==
    /\ f.kind \in {"free", "connect", "delete"} /\ (f.kind = "free" => f.todo = <<>>)
    /\ f.pages \subseteq Pages /\ f.rest \subseteq Pages /\ f.orphans \subseteq Posts

AllFilled(frames) == \A s \in Requests : Filled(frames[s])

RowsTyped == rows \in [Pages -> Expiries \cup {"none"}]
TokensTyped == tokens \in [Pages -> TokenSets]
HistoryTyped == raced \subseteq Posts /\ faults \in 0 .. MaxFaults

Typed == RowsTyped /\ TokensTyped /\ HistoryTyped /\ AllFilled(req)

LEMMA TokenSet ==
  ASSUME NEW T
  PROVE  T \in TokenSets <=>
            /\ \A t \in T : t \subseteq Holders /\ t # {}
            /\ \A t, u \in T : t = u \/ \A k \in t : k \notin u
<1>1. \A t, u : t \cap u = {} <=> \A k \in t : k \notin u
  OBVIOUS
<1>. QED
  BY <1>1 DEF TokenSets

LEMMA ExceptTyped ==
  ASSUME NEW T \in TokenSets, NEW h
  PROVE  Except(T, h) \in TokenSets
<1>1. \A t \in T : t \subseteq Holders /\ t # {}
  BY TokenSet
<1>2. \A t, u \in T : t = u \/ \A k \in t : k \notin u
  BY TokenSet
<1>3. \A t \in Except(T, h) : t # {} /\ \E u \in T : t = u \ {h}
  BY DEF Except
<1>4. \A t \in Except(T, h) : t \subseteq Holders /\ t # {}
  BY <1>1, <1>3
<1>5. ASSUME NEW t \in Except(T, h), NEW u \in Except(T, h)
      PROVE  t = u \/ \A k \in t : k \notin u
  <2>1. PICK a \in T, b \in T : t = a \ {h} /\ u = b \ {h}
    BY <1>3
  <2>. QED
    BY <1>2, <2>1
<1>. QED
  BY <1>4, <1>5, TokenSet

LEMMA IssueTyped ==
  ASSUME NEW T \in TokenSets, NEW h \in Holders
  PROVE  Except(T, h) \cup {{h}} \in TokenSets
<1> DEFINE U == Except(T, h)
<1>1. \A t \in U : t \subseteq Holders /\ t # {}
  BY ExceptTyped, TokenSet
<1>2. \A t, u \in U : t = u \/ \A k \in t : k \notin u
  BY ExceptTyped, TokenSet
<1>3. \A t \in U : h \notin t
  BY DEF Except
<1> HIDE DEF U
<1>4. \A t \in U \cup {{h}} : t \subseteq Holders /\ t # {}
  BY <1>1
<1>5. \A t, u \in U \cup {{h}} : t = u \/ \A k \in t : k \notin u
  BY <1>2, <1>3
<1>. QED
  BY <1>4, <1>5, TokenSet DEF U

LEMMA CopiedTyped ==
  ASSUME NEW p \in Pages, tokens[p] \in TokenSets, NEW k, NEW h \in Holders
  PROVE  Copied(p, k, h) \in TokenSets
<1> DEFINE T == tokens[p]
           Of(t) == IF k \in t THEN t \cup {h} ELSE t \ {h}
           U == Copied(p, k, h)
<1>1. \A t \in T : t \subseteq Holders /\ t # {}
  BY TokenSet
<1>2. \A t, u \in T : t = u \/ \A l \in t : l \notin u
  BY TokenSet
<1>3. \A t \in U : t # {} /\ \E u \in T : t = Of(u)
  BY DEF Copied
<1>4. \A t \in T : Of(t) \subseteq Holders
  BY <1>1
<1>5. ASSUME NEW t \in U, NEW u \in U
      PROVE  t = u \/ \A l \in t : l \notin u
  <2>1. PICK a \in T, b \in T : t = Of(a) /\ u = Of(b)
    BY <1>3
  <2>2. CASE a = b
    BY <2>1, <2>2
  <2>3. CASE \A l \in a : l \notin b
    BY <2>1, <2>3
  <2>. QED
    BY <1>2, <2>2, <2>3
<1>6. \A t \in U : t \subseteq Holders /\ t # {}
  BY <1>3, <1>4
<1>. QED
  BY <1>5, <1>6, TokenSet

LEMMA ShrunkTyped ==
  ASSUME NEW T \in TokenSets, NEW U \in SUBSET T
  PROVE  U \in TokenSets
  BY TokenSet

LEMMA DropTyped ==
  ASSUME TokensTyped, NEW P, NEW h
  PROVE  Drop(P, h) \in [Pages -> TokenSets]
  BY ExceptTyped DEF TokensTyped, Drop

LEMMA HoldersTyped ==
  /\ "row" \in Holders /\ Batches \subseteq Holders /\ Requests \subseteq Holders
  BY DEF Holders

\* What a step that goes on, ends or begins makes of the frames.
LEMMA GoesFilled ==
  ASSUME Framed(req), AllFilled(req), NEW r \in Requests, NEW todo, req[r].kind # "free"
  PROVE  AllFilled(Goes(r, todo))
<1>1. Shape(req[r]) /\ req = [s \in Requests |-> req[s]] /\ Filled(req[r])
  BY DEF Framed, AllFilled
<1>2. \A s \in Requests \ {r} : Goes(r, todo)[s] = req[s]
  BY <1>1 DEF Goes
<1>3. Filled(Goes(r, todo)[r])
  <2>1. CASE todo # <<>>
    <3>1. Goes(r, todo)[r] = [kind |-> req[r].kind, pages |-> req[r].pages,
              rest |-> req[r].rest, todo |-> todo, orphans |-> req[r].orphans]
      BY <1>1, <2>1 DEF Goes, Shape
    <3>. QED
      BY <1>1, <3>1 DEF Filled
  <2>2. CASE todo = <<>> /\ req[r].rest # {}
    BY <1>1, <2>2 DEF Goes, Filled, Free
  <2>3. CASE todo = <<>> /\ req[r].rest = {}
    BY <1>1, <2>3 DEF Goes, Filled, Free
  <2>. QED
    BY <2>1, <2>2, <2>3
<1>. QED
  BY <1>2, <1>3 DEF AllFilled

LEMMA FrameFilled ==
  ASSUME Framed(req), AllFilled(req), NEW r \in Requests, NEW f, Filled(f),
         req' = [req EXCEPT ![r] = f]
  PROVE  AllFilled(req')
  BY DEF Framed, AllFilled

LEMMA FreeFilled == Filled(Free)
  BY DEF Filled, Free

LEMMA FaultCounts ==
  ASSUME HistoryTyped, Fault
  PROVE  faults' \in 0 .. MaxFaults
  BY AccountsAssumption DEF HistoryTyped, Fault

\* tokens' differs from tokens at one page.
LEMMA OnePage ==
  ASSUME TokensTyped, NEW p \in Pages, NEW T \in TokenSets, tokens' = [tokens EXCEPT ![p] = T]
  PROVE  TokensTyped'
  BY DEF TokensTyped

LEMMA RestStays ==
  /\ RowsTyped /\ UNCHANGED rows => RowsTyped'
  /\ TokensTyped /\ UNCHANGED tokens => TokensTyped'
  /\ HistoryTyped /\ UNCHANGED <<raced, faults>> => HistoryTyped'
  /\ AllFilled(req) /\ UNCHANGED req => AllFilled(req')
  BY DEF RowsTyped, TokensTyped, HistoryTyped

LEMMA MovedFilled ==
  ASSUME NEW f, Shape(f), Filled(f), f.kind # "free", NEW P \in SUBSET Pages,
         NEW Q \in SUBSET Pages, NEW todo, NEW O \in SUBSET Posts
  PROVE  /\ Filled([f EXCEPT !.pages = P, !.rest = Q, !.todo = todo])
         /\ Filled([f EXCEPT !.todo = todo, !.orphans = O])
         /\ Filled([f EXCEPT !.orphans = O])
<1>1. ASSUME NEW g, g = [f EXCEPT !.pages = P, !.rest = Q, !.todo = todo]
      PROVE  Filled(g)
  <2>1. g = [kind |-> f.kind, pages |-> P, rest |-> Q, todo |-> todo, orphans |-> f.orphans]
    BY <1>1 DEF Shape
  <2>. QED
    BY <2>1 DEF Filled
<1>2. ASSUME NEW g, g = [f EXCEPT !.todo = todo, !.orphans = O]
      PROVE  Filled(g)
  <2>1. g = [kind |-> f.kind, pages |-> f.pages, rest |-> f.rest, todo |-> todo,
             orphans |-> O]
    BY <1>2 DEF Shape
  <2>. QED
    BY <2>1 DEF Filled
<1>3. ASSUME NEW g, g = [f EXCEPT !.orphans = O]
      PROVE  Filled(g)
  <2>1. g = [kind |-> f.kind, pages |-> f.pages, rest |-> f.rest, todo |-> f.todo,
             orphans |-> O]
    BY <1>3 DEF Shape
  <2>. QED
    BY <2>1 DEF Filled
<1>. QED
  BY <1>1, <1>2, <1>3, Zenon

LEMMA ConnectTyped ==
  ASSUME IInv, TokInv, Typed, NEW r \in Requests, ConnectStart(r) \/ ConnectStep(r)
  PROVE  Typed'
<1>1. Framed(req) /\ Filled(req[r]) /\ Shape(req[r]) /\ r \in Holders
  BY HoldersTyped DEF IInv, TypeInv, Framed, Typed, AllFilled
<1>2. UNCHANGED <<raced, faults>>
  BY DEF ConnectStart, ConnectStep, Read, Page, Grant, Find, Store
<1>3. CASE ConnectStart(r)
  <2>1. PICK S \in SUBSET Pages : \E todo :
          req' = [req EXCEPT ![r] =
              [Free EXCEPT !.kind = "connect", !.todo = todo,
                 !.pages = IF platform[CHOOSE p \in S : TRUE] = "facebook" THEN {} ELSE S,
                 !.rest = IF platform[CHOOSE p \in S : TRUE] = "facebook" THEN S ELSE {}]]
    BY <1>3 DEF ConnectStart
  <2>2. ASSUME NEW todo, NEW P \in SUBSET Pages, NEW Q \in SUBSET Pages
        PROVE  Filled([Free EXCEPT !.kind = "connect", !.todo = todo, !.pages = P, !.rest = Q])
    BY DEF Filled, Free
  <2>3. \E f : Filled(f) /\ req' = [req EXCEPT ![r] = f]
    <3>1. CASE platform[CHOOSE p \in S : TRUE] = "facebook"
      BY <2>1, <2>2, <3>1
    <3>2. CASE platform[CHOOSE p \in S : TRUE] # "facebook"
      BY <2>1, <2>2, <3>2
    <3>. QED
      BY <3>1, <3>2
  <2>4. AllFilled(req')
    BY <1>1, <2>3, FrameFilled DEF Typed
  <2>. QED
    BY <1>2, <1>3, <2>4, RestStays DEF ConnectStart, Typed
<1>4. CASE Read(r)
  <2>1. AllFilled(req')
    BY <1>1, <1>4, GoesFilled DEF Read, Connecting, Typed
  <2>. QED
    BY <1>2, <1>4, <2>1, RestStays DEF Read, Typed
<1>5. CASE Page(r)
  <2>1. PICK p \in req[r].rest :
          req' = [req EXCEPT ![r] = [req[r] EXCEPT !.pages = {p}, !.rest = req[r].rest \ {p},
                                                   !.todo = FacebookPage]]
    BY <1>5 DEF Page
  <2>2. req[r].kind = "connect" /\ {p} \subseteq Pages
    BY <1>1, <1>5 DEF Page, Connecting, Filled
  <2>3. req[r].rest \ {p} \in SUBSET Pages
    BY <1>1 DEF Filled
  <2>4. Filled([req[r] EXCEPT !.pages = {p}, !.rest = req[r].rest \ {p}, !.todo = FacebookPage])
    BY <1>1, <2>2, <2>3, MovedFilled, {} \in SUBSET Posts
  <2>5. AllFilled(req')
    BY <1>1, <2>1, <2>4, FrameFilled DEF Typed
  <2>. QED
    BY <1>2, <1>5, <2>5, RestStays DEF Page, Typed
<1>6. ASSUME NEW p \in Pages, Grant(r, p)
      PROVE  Typed'
  <2>1. tokens[p] \in TokenSets /\ {} \in TokenSets
    BY TokenSet DEF Typed, TokensTyped
  <2>2. \E T \in TokenSets : tokens' = [tokens EXCEPT ![p] = T]
    BY <1>1, <1>6, <2>1, IssueTyped DEF Grant, Issue
  <2>3. AllFilled(req')
    BY <1>1, <1>6, GoesFilled DEF Grant, Connecting, Typed
  <2>. QED
    BY <1>2, <1>6, <2>2, <2>3, OnePage, RestStays DEF Grant, Typed
<1>7. ASSUME NEW p \in Pages, Find(r, p)
      PROVE  Typed'
  <2>1. TokensTyped'
    BY <1>7, DropTyped, RestStays DEF Find, Typed, TokensTyped
  <2>2. AllFilled(req')
    BY <1>1, <1>7, GoesFilled DEF Find, Connecting, Typed
  <2>. QED
    BY <1>2, <1>7, <2>1, <2>2, RestStays DEF Find, Typed
<1>8. ASSUME NEW p \in Pages, Store(r, p)
      PROVE  Typed'
  <2>1. tokens[p] \in TokenSets
    BY DEF Typed, TokensTyped
  <2>2. Except(Copied(p, r, "row"), r) \in TokenSets
    BY <2>1, CopiedTyped, ExceptTyped, HoldersTyped
  <2>3. TokensTyped'
    BY <1>8, <2>2, OnePage, DropTyped DEF Store, Typed, TokensTyped
  <2>4. AllFilled(req')
    BY <1>1, <1>8, GoesFilled DEF Store, Connecting, Typed
  <2>5. RowsTyped'
    BY <1>8 DEF Store, Typed, RowsTyped, ConnectExpiry, Expiries
  <2>. QED
    BY <1>2, <2>3, <2>4, <2>5, RestStays DEF Typed
<1>. QED
  BY <1>3, <1>4, <1>5, <1>6, <1>7, <1>8 DEF ConnectStep

LEMMA EndTyped ==
  ASSUME IInv, Typed, NEW r \in Requests, ConnectFails(r) \/ RequestDies(r)
  PROVE  Typed'
<1>1. Framed(req)
  BY DEF IInv, TypeInv
<1>2. AllFilled(req')
  <2>1. CASE ConnectFails(r)
    BY <1>1, <2>1, GoesFilled DEF ConnectFails, Typed
  <2>2. CASE RequestDies(r)
    BY <1>1, <2>2, FrameFilled, FreeFilled DEF RequestDies, Typed
  <2>. QED
    BY <2>1, <2>2
<1>3. UNCHANGED <<rows, raced>> /\ Fault /\ tokens' = Drop(Pages, r)
  BY DEF ConnectFails, RequestDies
<1>4. HistoryTyped'
  BY <1>3, FaultCounts DEF Typed, HistoryTyped
<1>. QED
  BY <1>2, <1>3, <1>4, DropTyped, RestStays DEF Typed, TokensTyped

LEMMA DeleteTyped ==
  ASSUME IInv, Typed, NEW r \in Requests,
         DeleteStep(r) \/ \E p \in Pages : DeleteStart(r, p)
  PROVE  Typed'
<1>1. Framed(req) /\ Filled(req[r]) /\ Shape(req[r])
  BY DEF IInv, TypeInv, Framed, Typed, AllFilled
<1>2. ASSUME NEW p \in Pages, DeleteStart(r, p)
      PROVE  Typed'
  <2>1. Filled([Free EXCEPT !.kind = "delete", !.pages = {p},
                            !.todo = <<"list", "orphans", "row">>])
    BY DEF Filled, Free
  <2>2. AllFilled(req')
    BY <1>1, <1>2, <2>1, FrameFilled DEF DeleteStart, Typed
  <2>. QED
    BY <1>2, <2>2, RestStays DEF DeleteStart, Typed
<1>3. CASE OrphansDone(r)
  <2>1. AllFilled(req')
    BY <1>1, <1>3, GoesFilled DEF OrphansDone, Deleting, Typed
  <2>. QED
    BY <1>3, <2>1, RestStays DEF OrphansDone, Typed
<1>4. ASSUME NEW p \in Pages, ListOrphans(r, p)
      PROVE  Typed'
  <2> DEFINE todo == Tail(req[r].todo)
             O == {x \in Posts : posts[x].targets = {p} /\ r \notin former[p]}
  <2>1. req' = [req EXCEPT ![r] = [req[r] EXCEPT !.todo = todo, !.orphans = O]]
        /\ O \in SUBSET Posts
    BY <1>4 DEF ListOrphans
  <2> HIDE DEF todo, O
  <2>2. req[r].kind # "free"
    BY <1>4 DEF ListOrphans, Deleting
  <2>4. Filled([req[r] EXCEPT !.todo = todo, !.orphans = O])
    BY <1>1, <2>1, <2>2, MovedFilled, {} \in SUBSET Pages
  <2>5. AllFilled(req')
    BY <1>1, <2>1, <2>4, FrameFilled DEF Typed
  <2>. QED
    BY <1>4, <2>5, RestStays DEF ListOrphans, Typed
<1>5. ASSUME NEW x \in Posts, DeleteOrphan(r, x)
      PROVE  Typed'
  <2> DEFINE O == req[r].orphans \ {x}
  <2>1. req[r].kind # "free"
    BY <1>5 DEF DeleteOrphan, Deleting
  <2>2. \E f : Filled(f) /\ req' = [req EXCEPT ![r] = f]
    <3>1. \/ req' = [req EXCEPT ![r] = [req[r] EXCEPT !.orphans = O]]
          \/ req' = [req EXCEPT ![r] = [req[r] EXCEPT !.todo = <<"orphans">>, !.orphans = O]]
      BY <1>5 DEF DeleteOrphan
    <3>2. O \in SUBSET Posts
      BY <1>1 DEF Filled
    <3> HIDE DEF O
    <3>3. Filled([req[r] EXCEPT !.orphans = O])
      BY <1>1, <2>1, <3>2, MovedFilled, {} \in SUBSET Pages
    <3>4. Filled([req[r] EXCEPT !.todo = <<"orphans">>, !.orphans = O])
      BY <1>1, <2>1, <3>2, MovedFilled, {} \in SUBSET Pages
    <3>. QED
      BY <3>1, <3>3, <3>4
  <2>3. AllFilled(req')
    BY <1>1, <2>2, FrameFilled DEF Typed
  <2>4. HistoryTyped'
    BY <1>5, FaultCounts DEF DeleteOrphan, Typed, HistoryTyped
  <2>. QED
    BY <1>5, <2>3, <2>4, RestStays DEF DeleteOrphan, Typed
<1>6. ASSUME NEW p \in Pages, DeleteRow(r, p)
      PROVE  Typed'
  <2>1. AllFilled(req')
    BY <1>1, <1>6, FrameFilled, FreeFilled DEF DeleteRow, Typed
  <2>2. RowsTyped'
    BY <1>6 DEF DeleteRow, Typed, RowsTyped
  <2>3. TokensTyped'
    BY <1>6, DropTyped, RestStays DEF DeleteRow, Typed, TokensTyped
  <2>4. HistoryTyped'
    BY <1>6 DEF DeleteRow, Typed, HistoryTyped
  <2>. QED
    BY <2>1, <2>2, <2>3, <2>4 DEF Typed
<1>. QED
  BY <1>2, <1>3, <1>4, <1>5, <1>6 DEF DeleteStep

LEMMA JobTyped ==
  ASSUME IInv, TokInv, Typed, NEW b \in Batches,
         \/ BatchStart(b) \/ BatchDies(b)
         \/ \E p \in Pages : RefreshStep(b, p) \/ RefreshFails(b, p)
  PROVE  Typed'
<1>1. UNCHANGED <<req, raced>> /\ b \in Holders
  BY HoldersTyped
     DEF BatchStart, BatchDies, RefreshStep, RefreshFails, Ask, Refused, Write
<1>2. HistoryTyped'
  <2>1. UNCHANGED faults \/ Fault
    BY DEF BatchStart, BatchDies, RefreshStep, RefreshFails, Ask, Refused, Write
  <2>. QED
    BY <1>1, <2>1, FaultCounts DEF Typed, HistoryTyped
<1>3. RowsTyped'
  <2>1. UNCHANGED rows \/ \E p \in Pages : rows' = [rows EXCEPT ![p] = "later"]
    BY DEF BatchStart, BatchDies, RefreshStep, RefreshFails, Ask, Refused, Write
  <2>. QED
    BY <2>1 DEF Typed, RowsTyped, Expiries
<1>4. TokensTyped'
  <2>0. \A p \in Pages : tokens[p] \in TokenSets
    BY DEF Typed, TokensTyped
  <2>1. CASE BatchStart(b)
    <3>1. \A p \in Pages : Copied(p, "row", b) \in TokenSets
      BY <1>1, <2>0, CopiedTyped
    <3>2. tokens' = [p \in Pages |-> IF Expiring(p) THEN Copied(p, "row", b) ELSE tokens[p]]
      BY <2>1 DEF BatchStart
    <3>. QED
      BY <2>0, <3>1, <3>2 DEF TokensTyped
  <2>2. CASE BatchDies(b)
    BY <2>2, DropTyped DEF BatchDies, Typed, TokensTyped
  <2>3. ASSUME NEW p \in Pages
        PROVE  Accepted(b, p) \in TokenSets
    <3>1. Accepted(b, p) \in SUBSET tokens[p]
      BY DEF Accepted
    <3>. QED
      BY <2>0, <3>1, ShrunkTyped
  <2>4. ASSUME NEW p \in Pages, Ask(b, p)
        PROVE  TokensTyped'
    <3>1. \/ tokens' = Drop({p}, b) \/ tokens' = tokens
          \/ tokens' = [tokens EXCEPT ![p] = Except(Accepted(b, p), b) \cup {{b}}]
      BY <2>4 DEF Ask, Issue
    <3>2. Except(Accepted(b, p), b) \cup {{b}} \in TokenSets
      BY <1>1, <2>3, IssueTyped
    <3>3. CASE tokens' = Drop({p}, b)
      BY <3>3, DropTyped DEF Typed, TokensTyped
    <3>4. CASE tokens' = tokens
      BY <3>4, RestStays DEF Typed
    <3>5. CASE tokens' = [tokens EXCEPT ![p] = Except(Accepted(b, p), b) \cup {{b}}]
      BY <3>2, <3>5, OnePage DEF Typed
    <3>. QED
      BY <3>1, <3>3, <3>4, <3>5
  <2>5. ASSUME NEW p \in Pages, Refused(b, p)
        PROVE  TokensTyped'
    BY <2>5, RestStays DEF Refused, Typed
  <2>6. ASSUME NEW p \in Pages, Write(b, p)
        PROVE  TokensTyped'
    <3>1. Except(Copied(p, b, "row"), b) \in TokenSets
      BY <2>0, CopiedTyped, ExceptTyped, HoldersTyped
    <3>. QED
      BY <2>6, <3>1, OnePage, DropTyped DEF Write, Typed, TokensTyped
  <2>7. ASSUME NEW p \in Pages, RefreshFails(b, p)
        PROVE  TokensTyped'
    <3>1. Except(Accepted(b, p), b) \in TokenSets
      BY <2>3, ExceptTyped
    <3>. QED
      BY <2>7, <3>1, OnePage, DropTyped DEF RefreshFails, Typed, TokensTyped
  <2>. QED
    BY <2>1, <2>2, <2>4, <2>5, <2>6, <2>7 DEF RefreshStep
<1>. QED
  BY <1>1, <1>2, <1>3, <1>4, RestStays DEF Typed

LEMMA PageTyped ==
  ASSUME Typed, NEW p \in Pages, Ages(p) \/ Withdrawn(p)
  PROVE  Typed'
<1>1. CASE Ages(p)
  <2>1. RowsTyped'
    BY <1>1 DEF Ages, Typed, RowsTyped, Expiries
  <2>. QED
    BY <1>1, <2>1, RestStays DEF Ages, Typed
<1>2. CASE Withdrawn(p)
  <2>1. {} \in TokenSets
    BY TokenSet
  <2>2. HistoryTyped'
    BY <1>2, FaultCounts DEF Withdrawn, Typed, HistoryTyped
  <2>. QED
    BY <1>2, <2>1, <2>2, OnePage, RestStays DEF Withdrawn, Typed
<1>. QED
  BY <1>1, <1>2

LEMMA InitTyped == Init => Typed
<1> SUFFICES ASSUME Init
             PROVE  Typed
  OBVIOUS
<1>1. {} \in TokenSets
  BY TokenSet
<1>2. TokensTyped
  BY <1>1 DEF Init, TokensTyped
<1>3. AllFilled(req)
  BY FreeFilled DEF Init, AllFilled
<1>. QED
  BY <1>2, <1>3, AccountsAssumption DEF Init, Typed, RowsTyped, HistoryTyped

LEMMA NextTyped ==
  ASSUME IInv, TokInv, Typed, [Next]_vars
  PROVE  Typed'
<1>1. ASSUME NEW r \in Requests, ConnectStart(r) \/ ConnectStep(r) PROVE Typed'
  BY <1>1, ConnectTyped
<1>2. ASSUME NEW r \in Requests, ConnectFails(r) \/ RequestDies(r) PROVE Typed'
  BY <1>2, EndTyped
<1>3. ASSUME NEW r \in Requests, DeleteStep(r) \/ \E p \in Pages : DeleteStart(r, p)
      PROVE  Typed'
  BY <1>3, DeleteTyped
<1>4. ASSUME NEW b \in Batches,
             \/ BatchStart(b) \/ BatchDies(b)
             \/ \E p \in Pages : RefreshStep(b, p) \/ RefreshFails(b, p)
      PROVE  Typed'
  BY <1>4, JobTyped
<1>5. ASSUME NEW p \in Pages, Ages(p) \/ Withdrawn(p) PROVE Typed'
  BY <1>5, PageTyped
<1>6. ASSUME NEW x \in Posts, TargetPost(x) PROVE Typed'
  <2>1. HistoryTyped'
    BY <1>6 DEF TargetPost, Typed, HistoryTyped
  <2>. QED
    BY <1>6, <2>1, RestStays DEF TargetPost, Typed
<1>7. CASE UNCHANGED vars
  BY <1>7, RestStays DEF vars, Typed
<1>. QED
  BY <1>1, <1>2, <1>3, <1>4, <1>5, <1>6, <1>7 DEF Next

LEMMA ListsTyped ==
  Early \cup Late \cup {Unlisted, Emptying, Sparing, Ending, <<>>} \subseteq Seq(Steps)
<1> DEFINE S == Steps
<1>1. /\ "read" \in S /\ "page" \in S /\ "grant" \in S /\ "find" \in S /\ "update" \in S
      /\ "save" \in S /\ "list" \in S /\ "orphans" \in S /\ "row" \in S
  BY DEF Steps
<1> HIDE DEF S
<1>2. ASSUME NEW a \in S, NEW b \in S
      PROVE  <<>> \in Seq(S) /\ <<a>> \in Seq(S) /\ <<a, b>> \in Seq(S)
  OBVIOUS
<1>3. ASSUME NEW a \in S, NEW b \in S, NEW c \in S
      PROVE  <<a, b, c>> \in Seq(S)
  OBVIOUS
<1>4. ASSUME NEW a \in S, NEW b \in S, NEW c \in S, NEW d \in S
      PROVE  <<a, b, c, d>> \in Seq(S)
  OBVIOUS
<1>5. Early \subseteq Seq(S)
  <2>1. /\ <<"read", "page">> \in Seq(S) /\ <<"page">> \in Seq(S)
        /\ <<"grant", "find">> \in Seq(S) /\ <<"grant", "read", "find">> \in Seq(S)
        /\ <<"read", "grant", "find">> \in Seq(S)
        /\ <<"read", "grant", "read", "find">> \in Seq(S)
    BY <1>1, <1>2, <1>3, <1>4, Zenon
  <2>. QED
    BY <2>1, Zenon DEF Early
<1>6. Late \subseteq Seq(S)
  <2>1. /\ <<"read", "find">> \in Seq(S) /\ <<"find">> \in Seq(S)
        /\ <<"update">> \in Seq(S) /\ <<"save">> \in Seq(S)
    BY <1>1, <1>2, Zenon
  <2>. QED
    BY <2>1, Zenon DEF Late
<1>7. {Unlisted, Emptying, Sparing, Ending, <<>>} \subseteq Seq(S)
  <2>1. /\ Unlisted \in Seq(S) /\ Emptying \in Seq(S) /\ Sparing \in Seq(S)
        /\ Ending \in Seq(S) /\ <<>> \in Seq(S)
    BY <1>1, <1>2, <1>3, Zenon DEF Unlisted, Emptying, Sparing, Ending
  <2>. QED
    BY <2>1, Zenon
<1>. QED
  BY <1>5, <1>6, <1>7 DEF S

LEMMA TypedIsTypeOK == IInv /\ TokInv /\ Typed => TypeOK
<1> SUFFICES ASSUME IInv, TokInv, Typed
             PROVE  TypeOK
  OBVIOUS
<1>1. /\ platform \in Assignments /\ task \in [Batches -> [Pages -> {"settled", "ask", "write"}]]
      /\ former \in [Pages -> SUBSET (Batches \cup Requests)] /\ excused \subseteq Pages
  BY DEF TokInv, TokType
<1>2. posts \in [Posts -> [targets : SUBSET Pages, exists : BOOLEAN]]
  BY DEF IInv, TypeInv
<1>3. /\ tokens \in [Pages -> SUBSET ((SUBSET Holders) \ {{}})]
      /\ \A p \in Pages : \A t, u \in tokens[p] : t = u \/ t \cap u = {}
  BY DEF Typed, TokensTyped, TokenSets
<1>4. req \in [Requests -> [kind : {"free", "connect", "delete"}, pages : SUBSET Pages,
                            rest : SUBSET Pages, todo : Seq(Steps), orphans : SUBSET Posts]]
  <2>1. req = [s \in Requests |-> req[s]]
    BY DEF IInv, TypeInv, Framed
  <2>2. ASSUME NEW s \in Requests
        PROVE  req[s] \in [kind : {"free", "connect", "delete"}, pages : SUBSET Pages,
                           rest : SUBSET Pages, todo : Seq(Steps), orphans : SUBSET Posts]
    <3>1. Shape(req[s]) /\ Filled(req[s])
      BY DEF IInv, TypeInv, Framed, Typed, AllFilled
    <3>2. req[s].kind = "connect" => req[s].todo \in Early \cup Late
      BY DEF TokInv, TokType, Listing
    <3>3. req[s].todo \in Early \cup Late \cup {Unlisted, Emptying, Sparing, Ending, <<>>}
      BY <3>1, <3>2 DEF Shape, Filled
    <3>4. req[s].todo \in Seq(Steps)
      BY <3>3, ListsTyped, Zenon
    <3>. QED
      BY <3>1, <3>4 DEF Shape, Filled
  <2>. QED
    BY <2>1, <2>2
<1>. QED
  BY <1>1, <1>2, <1>3, <1>4 DEF TypeOK, Typed, RowsTyped, HistoryTyped

(* Every reachable state is well typed, for any pages, requests and jobs: a *)
(* request has only the steps of its connector or of deleteAccount before   *)
(* it, and whoever holds one of a page's tokens holds no other.             *)
THEOREM TypeCorrect == Spec => []TypeOK
<1>1. Spec => []IInv
  BY InitIInv, IInvStep, PTL DEF Spec
<1>2. IInv /\ IInv' /\ TokInv /\ [Next]_vars => TokInv'
  BY NextKeepsTokens
<1>3. Spec => []TokInv
  BY <1>1, <1>2, InitTokInv, PTL DEF Spec
<1>4. IInv /\ TokInv /\ Typed /\ [Next]_vars => Typed'
  BY NextTyped
<1>. QED
  BY <1>1, <1>3, <1>4, InitTyped, TypedIsTypeOK, PTL DEF Spec

===============================================================================
