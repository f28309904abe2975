------------------------------- MODULE Accounts -------------------------------
(***************************************************************************)
(* The rows of social_accounts: the nine connectors that write them after  *)
(* an OAuth round trip, the refresher that renews their tokens in the      *)
(* background, and deleteAccount, which takes the account's posts along.   *)
(* The three run in different processes and share nothing but the row and  *)
(* the platform, which on renewal may void the token it was shown.         *)
(*                                                                         *)
(* Of a row's tokens the model keeps the one that renews them: the refresh *)
(* token, or the access token on the platforms that exchange that one.  A  *)
(* token that the platform accepts is the set of those who hold it: the    *)
(* row, and the refresh jobs and requests that carry it from one await to  *)
(* the next.  The counter of accounts is PlanUsage's.                      *)
(***************************************************************************)
EXTENDS Integers, Sequences, FiniteSets, Functions

CONSTANTS
    Pages,        \* what is connected: pages, channels, profiles
    Assignments,  \* which platforms the pages may be on
    Posts,        \* the tenant's posts
    Requests,     \* bound: the HTTP requests about accounts running at a time
    Batches,      \* the refresh jobs that may run: two when one has stalled
    MaxFaults     \* bound: the adverse events of a behaviour

Exchanging == {"facebook", "instagram", "threads"}
Rotating == {"bluesky", "pinterest", "tiktok", "x"}
Platforms == Exchanging \cup Rotating \cup {"linkedin", "youtube"}

ASSUME AccountsAssumption ==
    /\ Assignments \subseteq [Pages -> Platforms]
    /\ IsFiniteSet(Requests) /\ IsFiniteSet(Batches)
    /\ "row" \notin Requests \cup Batches /\ Requests \cap Batches = {}
    /\ MaxFaults \in Nat

VARIABLES
    platform,  \* the platform each page is on
    rows,      \* social_accounts, by page (UNIQUE): when the token expires
    tokens,    \* the tokens of each page that its platform accepts
    task,      \* where each refresh job stands with each page
    req,       \* the HTTP requests: a connector or deleteAccount
    former,    \* who refers, by its id, to a row of the page deleted since
    posts,     \* the targets of each post
    excused,   \* history: the pages whose token got lost outside the code
    raced,     \* history: posts that changed after a deletion had listed them
    faults     \* the adverse events so far

vars == <<platform, rows, tokens, task, req, former, posts, excused, raced, faults>>

Holders == {"row"} \cup Batches \cup Requests

\* "none": no row.  "null": expires_in is NULL.  "soon": it is about to expire.
Expiries == {"null", "later", "soon"}
Connected(p) == rows[p] # "none"

Free == [kind |-> "free", pages |-> {}, rest |-> {}, todo |-> <<>>, orphans |-> {}]
Absent == [targets |-> {}, exists |-> FALSE]

Fault == faults < MaxFaults /\ faults' = faults + 1

\* h has a token of the page that the platform accepts.
Has(p, h) == \E t \in tokens[p] : h \in t

Except(T, h) == {t \ {h} : t \in T} \ {{}}

\* The platform answers h with a new token.
Issue(p, h, T) == [tokens EXCEPT ![p] = Except(T, h) \cup {{h}}]

\* h lets go of what it holds of the pages P.
Drop(P, h) ==
    [p \in Pages |-> IF p \in P THEN Except(tokens[p], h) ELSE tokens[p]]

\* h takes over what k holds of the page, which k keeps or not.
Copied(p, k, h) ==
    {IF k \in t THEN t \cup {h} ELSE t \ {h} : t \in tokens[p]} \ {{}}

\* The accounts whose row is left with a token that the platform refuses.
Dead == {p \in Pages : Connected(p) /\ ~\E t \in tokens'[p] : "row" \in t}

-----------------------------------------------------------------------------
(* The connectors: their awaits in order.  "grant" is the call that answers*)
(* the token that is stored; "read" stands for a row of calls that store   *)
(* nothing, the short-lived token, the profile, the picture, the boards.   *)

BlueskyConnect   == <<"grant", "read", "find">>
FacebookConnect  == <<"read", "page">>
FacebookPage     == <<"read", "grant", "find">>
InstagramConnect == <<"read", "grant", "read", "find">>
LinkedinConnect  == <<"grant", "read", "find">>
PinterestConnect == <<"grant", "read", "find">>
ThreadsConnect   == <<"read", "grant", "read", "find">>
TikTokConnect    == <<"grant", "read", "find">>
XConnect         == <<"grant", "read", "find">>
YouTubeConnect   == <<"grant", "read", "find">>

ConnectSteps(pf) ==
    CASE pf = "bluesky"   -> BlueskyConnect
      [] pf = "facebook"  -> FacebookConnect
      [] pf = "instagram" -> InstagramConnect
      [] pf = "linkedin"  -> LinkedinConnect
      [] pf = "pinterest" -> PinterestConnect
      [] pf = "threads"   -> ThreadsConnect
      [] pf = "tiktok"    -> TikTokConnect
      [] pf = "x"         -> XConnect
      [] pf = "youtube"   -> YouTubeConnect

Connecting(r, step) ==
    req[r].kind = "connect" /\ Head(req[r].todo) = step

\* The request goes on with todo; done with a page, Facebook's takes the next.
Goes(r, todo) ==
    [req EXCEPT ![r] =
        IF todo # <<>> THEN [@ EXCEPT !.todo = todo]
        ELSE IF @.rest # {}
             THEN [Free EXCEPT !.kind = "connect", !.todo = <<"page">>, !.rest = req[r].rest]
             ELSE Free]

\* The callback with a valid state and code.  Facebook's connects all the pages
\* the user shares, the others one.
ConnectStart(r) ==
    /\ req[r] = Free
    /\ \E S \in (SUBSET Pages) \ {{}} :
          /\ \/ \A p \in S : platform[p] = "facebook"
             \/ Cardinality(S) = 1
          /\ LET pf == platform[CHOOSE p \in S : TRUE]
             IN  req' = [req EXCEPT ![r] =
                    [Free EXCEPT !.kind = "connect", !.todo = ConnectSteps(pf),
                       !.pages = IF pf = "facebook" THEN {} ELSE S,
                       !.rest = IF pf = "facebook" THEN S ELSE {}]]
    /\ UNCHANGED <<platform, rows, tokens, task, former, posts, excused, raced, faults>>

Read(r) ==
    /\ Connecting(r, "read")
    /\ req' = Goes(r, Tail(req[r].todo))
    /\ UNCHANGED <<platform, rows, tokens, task, former, posts, excused, raced, faults>>

\* for (const page of pages)
Page(r) ==
    /\ Connecting(r, "page")
    /\ \E p \in req[r].rest :
          req' = [req EXCEPT ![r] = [@ EXCEPT !.pages = {p}, !.rest = req[r].rest \ {p},
                                             !.todo = FacebookPage]]
    /\ UNCHANGED <<platform, rows, tokens, task, former, posts, excused, raced, faults>>

\* Somebody else is about to store a token of the page.
InUse(r, p) ==
    \/ \E b \in Batches : task[b][p] # "settled"
    \/ \E s \in Requests \ {r} :
          /\ req[s].kind = "connect" /\ req[s].pages = {p}
          /\ "grant" \notin Range(req[s].todo)

\* The platform issues a token, and may void those it issued before: that is
\* out of the code's hands when somebody else is about to store one of them.
Grant(r, p) ==
    /\ Connecting(r, "grant") /\ req[r].pages = {p}
    /\ req' = Goes(r, Tail(req[r].todo))
    /\ \/ tokens' = Issue(p, r, tokens[p]) /\ UNCHANGED excused
       \/ /\ tokens' = Issue(p, r, {})
          /\ excused' = IF InUse(r, p) THEN excused \cup {p} ELSE excused
    /\ UNCHANGED <<platform, rows, task, former, posts, raced, faults>>

\* upsertAccount: whether the row exists is read first; a new one is refused when
\* ensureAccountLimit finds the plan's limit reached.
Find(r, p) ==
    /\ Connecting(r, "find") /\ req[r].pages = {p}
    /\ \/ /\ req' = Goes(r, <<IF Connected(p) THEN "update" ELSE "save">> \o Tail(req[r].todo))
          /\ UNCHANGED tokens
       \/ ~Connected(p) /\ req' = Goes(r, <<>>) /\ tokens' = Drop({p}, r)
    /\ UNCHANGED <<platform, rows, task, former, posts, excused, raced, faults>>

\* When the new token expires: Pinterest's connector does not store it.
ConnectExpiry(pf) == IF pf = "pinterest" THEN "null" ELSE "later"

\* updateAccountByTenantPlatformAndPage is a 404 when the row has gone meanwhile,
\* save violates the UNIQUE constraint when it has come.
Store(r, p) ==
    /\ Connecting(r, "update") \/ Connecting(r, "save")
    /\ req[r].pages = {p}
    /\ IF Connected(p) = (Head(req[r].todo) = "update")
       THEN /\ rows' = [rows EXCEPT ![p] = ConnectExpiry(platform[p])]
            /\ tokens' = [tokens EXCEPT ![p] = Except(Copied(p, r, "row"), r)]
            /\ excused' = IF InUse(r, p) \/ ~Has(p, r) THEN excused ELSE excused \ {p}
            /\ req' = Goes(r, Tail(req[r].todo))
       ELSE tokens' = Drop({p}, r) /\ req' = Goes(r, <<>>) /\ UNCHANGED <<rows, excused>>
    /\ UNCHANGED <<platform, task, former, posts, raced, faults>>

\* A call or a query fails, which ends the request: of Facebook's, only the page.
ConnectFails(r) ==
    /\ req[r].kind = "connect" /\ Fault
    /\ req' = Goes(r, <<>>)
    /\ tokens' = Drop(Pages, r)
    /\ excused' = excused \cup (Dead \cap req[r].pages)
    /\ UNCHANGED <<platform, rows, task, former, posts, raced>>

-----------------------------------------------------------------------------
(* The refresher.  What each platform's method sends, and which token it   *)
(* stores of the answer: "new", and NULL when the answer has none, or the  *)
(* old one in that case.  dated: it computes an expiry from the answer     *)
(* without which the UPDATE fails.                                         *)

BlueskyRefresh   == [keeps |-> "old",  dated |-> FALSE]
FacebookRefresh  == [keeps |-> "null", dated |-> FALSE]
InstagramRefresh == [keeps |-> "null", dated |-> FALSE]
PinterestRefresh == [keeps |-> "null", dated |-> TRUE]
ThreadsRefresh   == [keeps |-> "null", dated |-> FALSE]
TikTokRefresh    == [keeps |-> "null", dated |-> TRUE]
XRefresh         == [keeps |-> "null", dated |-> FALSE]
YouTubeRefresh   == [keeps |-> "null", dated |-> TRUE]

updateAccessToken(pf) ==
    CASE pf = "bluesky"   -> BlueskyRefresh
      [] pf = "facebook"  -> FacebookRefresh
      [] pf = "instagram" -> InstagramRefresh
      [] pf = "pinterest" -> PinterestRefresh
      [] pf = "threads"   -> ThreadsRefresh
      [] pf = "tiktok"    -> TikTokRefresh
      [] pf = "x"         -> XRefresh
      [] pf = "youtube"   -> YouTubeRefresh

\* What a platform answers: Google never a new refresh token, and its expiry
\* for some apps only; Bluesky not always.
Answers(pf) ==
    CASE pf = "youtube" -> [new : {FALSE}, dated : BOOLEAN]
      [] pf = "bluesky" -> [new : BOOLEAN, dated : {FALSE}]
      [] pf \in {"tiktok", "pinterest"} -> {[new |-> TRUE, dated |-> TRUE]}
      [] OTHER -> {[new |-> TRUE, dated |-> FALSE]}

\* Time passes until the token is about to expire.
Ages(p) ==
    /\ rows[p] = "later"
    /\ rows' = [rows EXCEPT ![p] = "soon"]
    /\ UNCHANGED <<platform, tokens, task, req, former, posts, excused, raced, faults>>

\* findAccountsWithExpiringAccessTokens: a NULL expiry counts for Bluesky only,
\* and LinkedIn is not asked about.
Expiring(p) ==
    \/ rows[p] = "soon" /\ platform[p] # "linkedin"
    \/ rows[p] = "null" /\ platform[p] = "bluesky"

Idle(b) == \A p \in Pages : task[b][p] = "settled"

\* The repeated job runs.  Another run is still under way only when its worker
\* stalled and the queue hands the job out again.
BatchStart(b) ==
    /\ Idle(b) /\ \E p \in Pages : Expiring(p)
    /\ IF \A c \in Batches : Idle(c) THEN UNCHANGED faults ELSE Fault
    /\ task' = [task EXCEPT ![b] = [p \in Pages |-> IF Expiring(p) THEN "ask" ELSE "settled"]]
    /\ tokens' = [p \in Pages |-> IF Expiring(p) THEN Copied(p, "row", b) ELSE tokens[p]]
    /\ former' = [p \in Pages |-> former[p] \ {b}]
    /\ UNCHANGED <<platform, rows, req, posts, excused, raced>>

\* Job b has done with page p.
Settles(b, p) ==
    /\ task' = [task EXCEPT ![b][p] = "settled"]
    /\ former' = [former EXCEPT ![p] = @ \ {b}]

\* An answer without a new token, by which an overlapping job too is about to store
\* the token that now is consumed.
KeptByOther(b, p) ==
    \E c \in Batches \ {b} : task[c][p] = "write" /\ \E t \in tokens[p] : {b, c} \subseteq t

\* The tokens left when b has shown its own.
Accepted(b, p) ==
    IF platform[p] \in Rotating THEN {t \in tokens[p] : b \notin t} ELSE tokens[p]

\* Mutant: the token that was sent is stored again.
AskKeepsSent(b, p) ==
    /\ task[b][p] = "ask" /\ Has(p, b)
    /\ task' = [task EXCEPT ![b][p] = "write"]
    /\ tokens' = [tokens EXCEPT ![p] = Accepted(b, p)]
    /\ UNCHANGED <<platform, rows, req, former, posts, excused, raced, faults>>

\* The platform answers job b, voiding the token shown to it if it rotates them.
Ask(b, p) ==
    /\ task[b][p] = "ask" /\ Has(p, b)
    /\ \E a \in Answers(platform[p]) :
          /\ IF updateAccessToken(platform[p]).dated /\ ~a.dated
             THEN Settles(b, p) /\ tokens' = Drop({p}, b)
             ELSE /\ task' = [task EXCEPT ![b][p] = "write"]
                  /\ tokens' = IF a.new THEN Issue(p, b, Accepted(b, p))
                               ELSE IF updateAccessToken(platform[p]).keeps = "old"
                                    THEN tokens ELSE Drop({p}, b)
                  /\ UNCHANGED former
          /\ excused' = IF a.new /\ KeptByOther(b, p) THEN excused \cup {p} ELSE excused
    /\ UNCHANGED <<platform, rows, req, posts, raced, faults>>

\* The platform refuses a token it has voided.
Refused(b, p) ==
    /\ task[b][p] = "ask" /\ ~Has(p, b)
    /\ Settles(b, p)
    /\ UNCHANGED <<platform, rows, tokens, req, posts, excused, raced, faults>>

\* Mutant: the new expiry is not written.
WriteTokenOnly(b, p) ==
    /\ task[b][p] = "write" /\ Settles(b, p)
    /\ tokens' = IF Connected(p) /\ b \notin former[p]
                 THEN [tokens EXCEPT ![p] = Except(Copied(p, b, "row"), b)]
                 ELSE Drop({p}, b)
    /\ UNCHANGED <<platform, rows, req, posts, excused, raced, faults>>

\* updateAccessTokenByAccountId: by the account's id, whatever the row holds now.
Write(b, p) ==
    /\ task[b][p] = "write" /\ Settles(b, p)
    /\ IF Connected(p) /\ b \notin former[p]
       THEN /\ rows' = [rows EXCEPT ![p] = "later"]
            /\ tokens' = [tokens EXCEPT ![p] = Except(Copied(p, b, "row"), b)]
       ELSE tokens' = Drop({p}, b) /\ UNCHANGED rows
    /\ UNCHANGED <<platform, req, posts, excused, raced, faults>>

\* The platform cannot be reached, its reply is lost, or the UPDATE fails.
RefreshFails(b, p) ==
    /\ task[b][p] # "settled" /\ Fault /\ Settles(b, p)
    /\ \/ tokens' = Drop({p}, b)
       \/ task[b][p] = "ask" /\ tokens' = [tokens EXCEPT ![p] = Except(Accepted(b, p), b)]
    /\ excused' = excused \cup {q \in {p} : q \in Dead \/ KeptByOther(b, p)}
    /\ UNCHANGED <<platform, rows, req, posts, raced>>

\* The worker dies, or stalls for good, between two steps.
BatchDies(b) ==
    /\ ~Idle(b) /\ Fault
    /\ task' = [task EXCEPT ![b] = [p \in Pages |-> "settled"]]
    /\ former' = [p \in Pages |-> former[p] \ {b}]
    /\ tokens' = Drop(Pages, b)
    /\ excused' = excused \cup {p \in Dead : task[b][p] = "write"}
    /\ UNCHANGED <<platform, rows, req, posts, raced>>

\* The user withdraws the application's permission at the platform.
Withdrawn(p) ==
    /\ Fault /\ tokens' = [tokens EXCEPT ![p] = {}]
    /\ excused' = excused \cup {p}
    /\ UNCHANGED <<platform, rows, task, req, former, posts, raced>>

-----------------------------------------------------------------------------
(* deleteAccount: the picture, the boards, the posts, the row.             *)

Deleting(r, step) ==
    req[r].kind = "delete" /\ Head(req[r].todo) = step

DeleteStart(r, p) ==
    /\ req[r] = Free /\ Connected(p)
    /\ req' = [req EXCEPT ![r] = [Free EXCEPT !.kind = "delete", !.pages = {p},
                  !.todo = <<"list", "orphans", "row">>]]
    /\ UNCHANGED <<platform, rows, tokens, task, former, posts, excused, raced, faults>>

\* getPostsTargetedOnlyByAccount; the picture and the boards, deleted before, may
\* as well stay.
ListOrphans(r, p) ==
    /\ Deleting(r, "list") /\ req[r].pages = {p}
    /\ req' = [req EXCEPT ![r] = [@ EXCEPT !.todo = Tail(req[r].todo),
                  !.orphans = {x \in Posts : posts[x].targets = {p} /\ r \notin former[p]}]]
    /\ UNCHANGED <<platform, rows, tokens, task, former, posts, excused, raced, faults>>

\* Mutant: a deletion that failed is passed over.
DeleteOrphanAnyhow(r, x) ==
    /\ Deleting(r, "orphans") /\ x \in req[r].orphans
    /\ \/ /\ posts[x].exists /\ UNCHANGED faults
          /\ posts' = [posts EXCEPT ![x] = Absent] /\ raced' = raced \ {x}
       \/ /\ IF posts[x].exists THEN Fault ELSE UNCHANGED faults
          /\ UNCHANGED <<posts, raced>>
    /\ req' = [req EXCEPT ![r].orphans = @ \ {x}]
    /\ UNCHANGED <<platform, rows, tokens, task, former, excused>>

\* deletePostsOrphanedByAccount: each orphan is tried; any failure spares the row.
DeleteOrphan(r, x) ==
    /\ Deleting(r, "orphans") /\ x \in req[r].orphans
    /\ \/ /\ posts[x].exists /\ UNCHANGED faults
          /\ posts' = [posts EXCEPT ![x] = Absent] /\ raced' = raced \ {x}
          /\ req' = [req EXCEPT ![r].orphans = @ \ {x}]
       \/ /\ IF posts[x].exists THEN Fault ELSE UNCHANGED faults
          /\ req' = [req EXCEPT ![r] = [@ EXCEPT !.orphans = req[r].orphans \ {x},
                                                 !.todo = <<"orphans">>]]
          /\ UNCHANGED <<posts, raced>>
    /\ UNCHANGED <<platform, rows, tokens, task, former, excused>>

OrphansDone(r) ==
    /\ Deleting(r, "orphans") /\ req[r].orphans = {}
    /\ req' = Goes(r, Tail(req[r].todo))
    /\ former' = IF req'[r] = Free THEN [p \in Pages |-> former[p] \ {r}] ELSE former
    /\ UNCHANGED <<platform, rows, tokens, task, posts, excused, raced, faults>>

\* A deletion has listed its orphans and is going to delete account q.
Listed(r, q) ==
    req[r].kind = "delete" /\ req[r].pages = {q} /\ Head(req[r].todo) # "list"

\* Who refers to the account of page p.
Referring(p) ==
    {b \in Batches : task[b][p] # "settled"}
        \cup {r \in Requests : req[r].kind = "delete" /\ req[r].pages = {p}}

\* DELETE FROM social_accounts cascades to the targets of the posts that are left.
DeleteRow(r, p) ==
    /\ Deleting(r, "row") /\ req[r].pages = {p}
    /\ IF r \notin former[p]
       THEN /\ rows' = [rows EXCEPT ![p] = "none"]
            /\ tokens' = Drop({p}, "row")
            /\ former' = [former EXCEPT ![p] = Referring(p) \ {r}]
            /\ posts' = [x \in Posts |-> [posts[x] EXCEPT !.targets = posts[x].targets \ {p}]]
            /\ raced' = raced \cup {x \in Posts :
                   /\ p \in posts[x].targets
                   /\ \E s \in Requests \ {r} : \E q \in posts'[x].targets : Listed(s, q)}
       ELSE /\ former' = [former EXCEPT ![p] = @ \ {r}]
            /\ UNCHANGED <<rows, tokens, posts, raced>>
    /\ req' = [req EXCEPT ![r] = Free]
    /\ UNCHANGED <<platform, task, excused, faults>>

\* A query of deleteAccount fails, or any request's process dies.
RequestDies(r) ==
    /\ req[r] # Free /\ Fault
    /\ req' = [req EXCEPT ![r] = Free]
    /\ former' = [p \in Pages |-> former[p] \ {r}]
    /\ tokens' = Drop(Pages, r)
    /\ excused' = excused \cup (Dead \cap req[r].pages)
    /\ UNCHANGED <<platform, rows, task, posts, raced>>

\* A post is created or edited: it gets targets among the connected accounts.
TargetPost(x) ==
    /\ \E S \in (SUBSET {p \in Pages : Connected(p)}) \ {{}} :
          /\ posts[x].targets # S
          /\ posts' = [posts EXCEPT ![x] = [targets |-> S, exists |-> TRUE]]
          /\ raced' = IF \E r \in Requests, q \in S : Listed(r, q)
                      THEN raced \cup {x} ELSE raced \ {x}
    /\ UNCHANGED <<platform, rows, tokens, task, req, former, excused, faults>>

-----------------------------------------------------------------------------
Init ==
    /\ platform \in Assignments
    /\ rows = [p \in Pages |-> "none"]
    /\ tokens = [p \in Pages |-> {}]
    /\ task = [b \in Batches |-> [p \in Pages |-> "settled"]]
    /\ req = [r \in Requests |-> Free]
    /\ former = [p \in Pages |-> {}]
    /\ posts = [x \in Posts |-> Absent]
    /\ excused = {} /\ raced = {} /\ faults = 0

ConnectStep(r) ==
    \/ Read(r) \/ Page(r)
    \/ \E p \in Pages : Grant(r, p) \/ Find(r, p) \/ Store(r, p)

DeleteStep(r) ==
    \/ OrphansDone(r)
    \/ \E p \in Pages : ListOrphans(r, p) \/ DeleteRow(r, p)
    \/ \E x \in Posts : DeleteOrphan(r, x)

RefreshStep(b, p) == Ask(b, p) \/ Refused(b, p) \/ Write(b, p)

Next ==
    \/ \E r \in Requests :
          \/ ConnectStart(r) \/ ConnectStep(r) \/ ConnectFails(r) \/ RequestDies(r)
          \/ DeleteStep(r) \/ \E p \in Pages : DeleteStart(r, p)
    \/ \E b \in Batches :
          \/ BatchStart(b) \/ BatchDies(b)
          \/ \E p \in Pages : RefreshStep(b, p) \/ RefreshFails(b, p)
    \/ \E p \in Pages : Ages(p) \/ Withdrawn(p)
    \/ \E x \in Posts : TargetPost(x)

Spec == Init /\ [][Next]_vars

\* The repeated job comes every minute, and an HTTP call or a query ends.
FairSpec ==
    /\ Spec
    /\ \A b \in Batches :
          /\ WF_vars(BatchStart(b))
          /\ \A p \in Pages : WF_vars(RefreshStep(b, p))
    /\ \A r \in Requests : WF_vars(ConnectStep(r)) /\ WF_vars(DeleteStep(r))

-----------------------------------------------------------------------------
Steps ==
    {"read", "page", "grant", "find", "update", "save"} \cup {"list", "orphans", "row"}

TypeOK ==
    /\ platform \in Assignments
    /\ rows \in [Pages -> Expiries \cup {"none"}]
    /\ tokens \in [Pages -> SUBSET ((SUBSET Holders) \ {{}})]
    /\ \A p \in Pages : \A t, u \in tokens[p] : t = u \/ t \cap u = {}
    /\ task \in [Batches -> [Pages -> {"settled", "ask", "write"}]]
    /\ req \in [Requests -> [kind : {"free", "connect", "delete"}, pages : SUBSET Pages,
                             rest : SUBSET Pages, todo : Seq(Steps), orphans : SUBSET Posts]]
    /\ former \in [Pages -> SUBSET (Batches \cup Requests)]
    /\ posts \in [Posts -> [targets : SUBSET Pages, exists : BOOLEAN]]
    /\ excused \subseteq Pages /\ raced \subseteq Posts /\ faults \in 0..MaxFaults

(* However connectors, overlapping refresh jobs and deletions interleave,   *)
(* the row of an account holds a token its platform accepts, or the one     *)
(* that replaced it is about to be stored: the code never stores a token    *)
(* that a refresh has consumed.  Excused are a lost reply, a failed write,  *)
(* a request that gives up after its grant, a platform that voids older     *)
(* grants while one of them is in use, and an answer without a new token to *)
(* one of two overlapping refreshes; YouTube's refresher stores NULL.       *)
StoredTokenWorks ==
    \A p \in Pages :
        Connected(p) /\ ~Has(p, "row") =>
            \/ p \in excused \/ platform[p] = "youtube"
            \/ \E b \in Batches : task[b][p] = "write" /\ Has(p, b)
            \/ \E r \in Requests : Has(p, r)

(* A post is left without any target only when it changed between a         *)
(* deletion's listing of the account's orphans and the end of that          *)
(* deletion, whichever of the deletion's steps failed and however many      *)
(* deletions run at once (deletePostsOrphanedByAccount's count decides).    *)
EmptyPostRaced ==
    \A x \in Posts : posts[x].exists /\ posts[x].targets = {} => x \in raced

\* LinkedIn's accounts are never looked for, and YouTube's write fails or loses
\* the token.  (Pinterest's connector stores no expiry: no row of its is "soon".)
Unattended == {"linkedin", "youtube"}

(* An account about to expire is renewed, or reconnected or deleted, as     *)
(* long as its token works, whatever fails or overlaps on the way: what one *)
(* run of the refresher fails to do, the next one does.  Two platforms are  *)
(* left out.                                                                *)
Renewed ==
    \A p \in Pages :
        rows[p] = "soon" ~> \/ rows[p] # "soon" \/ p \in excused
                            \/ platform[p] \in Unattended
=============================================================================
