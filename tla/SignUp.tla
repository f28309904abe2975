-------------------------------- MODULE SignUp --------------------------------
(***************************************************************************)
(* Creating an account: signup with a password, findOrCreateUser after a   *)
(* Google sign-in, the magic link that either may carry, and the plan and  *)
(* counters a new tenant starts with (UserService, UserRepository,         *)
(* magic_links).                                                           *)
(*                                                                         *)
(* A request is a run of statements, each a transaction of its own: the    *)
(* link is read and judged first, redeemed only after the tenant is        *)
(* stored, and the plan and its counters follow.                           *)
(***************************************************************************)
EXTENDS Naturals, FiniteSets

CONSTANTS
    Emails,    \* the people who sign up
    Links,     \* the magic links
    Requests,  \* bound: the requests made
    MaxUses,   \* max_uses of every link
    NoLink,    \* a request without a magic token
    Nobody,    \* no tenant has the e-mail address
    Mishaps    \* the sets of adverse events explored

(* "overlap"  requests interleave                                          *)
(* "expiry"   links expire                                                 *)
(* "dbFails"  statements fail after the tenant is stored                   *)
(* "crash"    the process dies, once                                       *)
Kinds == {"overlap", "expiry", "dbFails", "crash"}

ASSUME SignUpAssumption ==
    /\ Emails # {} /\ IsFiniteSet(Requests)
    /\ MaxUses \in Nat \ {0}
    /\ NoLink \notin Links
    /\ Nobody \notin Requests
    /\ Mishaps \subseteq SUBSET Kinds

VARIABLES
    scenario,  \* the adverse events that may happen; never changes
    count,     \* redeemed_count of each link
    dated,     \* the links with redeemed_at
    expired,   \* the links past expires_at
    creator,   \* the request that stored the tenant of an address
    plan,      \* the plan's name in the tenant's row of user_plans
    counters,  \* the plan its rows of user_plan_usage were made for
    frame,     \* the requests
    died       \* bound: whether the process has died

signUpVars == <<scenario, count, dated, expired, creator, plan, counters, frame, died>>

link == <<count, dated>>
tenant == <<creator, plan, counters>>

-----------------------------------------------------------------------------
PlanNames == {"none", "FREE", "STARTER"}

\* How a request ends: turned down or failed, with a new tenant, with an old one.
Ends == {"failed", "created", "found"}

\* give is the plan a request is to assign; failing says it will throw after it.
RequestFrame ==
    [pc : {"idle", "find", "validate", "save", "redeem", "plan", "counters"} \cup Ends,
     kind : {"signup", "google"}, email : Emails, link : Links \cup {NoLink},
     give : {"FREE", "STARTER"}, failing : BOOLEAN]

Blank ==
    [pc |-> "idle", kind |-> "signup", email |-> CHOOSE e \in Emails : TRUE,
     link |-> NoLink, give |-> "FREE", failing |-> FALSE]

SignUpInit ==
    /\ scenario \in Mishaps
    /\ count = [l \in Links |-> 0]
    /\ dated = {}
    /\ expired = {}
    /\ creator = [e \in Emails |-> Nobody]
    /\ plan = [e \in Emails |-> "none"]
    /\ counters = [e \in Emails |-> "none"]
    /\ frame = [r \in Requests |-> Blank]
    /\ died = FALSE

Unanswered == {r \in Requests : frame[r].pc \notin {"idle"} \cup Ends}

Goto(r, pc) == frame' = [frame EXCEPT ![r].pc = pc]

Unmade == {r \in Requests : frame[r].pc = "idle"}
Known == {frame[r].email : r \in Requests \ Unmade}

\* Google's sign-in looks for the tenant first, the form does not.  Requests
\* and addresses are interchangeable: a new one is the first that is left.
Request(r, k, e, l) ==
    /\ Unmade # {} /\ r = CHOOSE q \in Unmade : TRUE
    /\ e \notin Known => e = CHOOSE x \in Emails \ Known : TRUE
    /\ "overlap" \in scenario \/ Unanswered = {}
    /\ frame' = [frame EXCEPT ![r] = [@ EXCEPT
           !.pc = IF k = "google" THEN "find" ELSE "validate",
           !.kind = k, !.email = e, !.link = l]]
    /\ UNCHANGED <<scenario, link, expired, tenant, died>>

\* findByEmail: whoever is there is signed in, and the link is not looked at.
FindByEmail(r) ==
    /\ frame[r].pc = "find"
    /\ Goto(r, IF creator[frame[r].email] = Nobody THEN "validate" ELSE "found")
    /\ UNCHANGED <<scenario, link, expired, tenant, died>>

-----------------------------------------------------------------------------
(* validateMagicToken *)

Fresh(l) == l \notin expired /\ count[l] < MaxUses /\ l \notin dated

ValidateMagicToken(r) ==
    /\ frame[r].pc = "validate"
    /\ Goto(r, IF frame[r].link = NoLink \/ Fresh(frame[r].link)
               THEN "save" ELSE "failed")
    /\ UNCHANGED <<scenario, link, expired, tenant, died>>

-----------------------------------------------------------------------------
(* save, redeemMagicLink, ensurePlan, resetUsageCountersForPlan *)

\* tenants.email is UNIQUE: the second request for an address gets a 409.
Save(r) ==
    LET f == frame[r]
    IN /\ f.pc = "save"
       /\ IF creator[f.email] = Nobody
          THEN /\ creator' = [creator EXCEPT ![f.email] = r]
               /\ Goto(r, IF f.link = NoLink THEN "plan" ELSE "redeem")
          ELSE Goto(r, "failed") /\ UNCHANGED creator
       /\ UNCHANGED <<scenario, link, expired, plan, counters, died>>

\* Mutant: a failed promotion just fails the request.
FailOnly(r) == Goto(r, "failed")

\* What becomes of a request whose link or promotion fails: signup falls back
\* to the FREE plan and throws, findOrCreateUser throws at once.
Fallback(r) ==
    IF frame[r].kind = "signup"
    THEN frame' = [frame EXCEPT ![r] = [@ EXCEPT
             !.pc = "plan", !.give = "FREE", !.failing = TRUE]]
    ELSE Goto(r, "failed")

\* Mutant: the UPDATE asks only for the expiry.
RedeemableUnexpired(l) == l \notin expired

\* The WHERE clause of the UPDATE.
Redeemable(l) == count[l] < MaxUses /\ l \notin expired

RedeemMagicLink(r) ==
    LET l == frame[r].link
    IN /\ frame[r].pc = "redeem"
       /\ \/ /\ Redeemable(l)
             /\ count' = [count EXCEPT ![l] = @ + 1]
             /\ dated' = dated \cup {l}
             /\ frame' = [frame EXCEPT ![r] = [@ EXCEPT !.pc = "plan", !.give = "STARTER"]]
          \/ /\ ~Redeemable(l) \/ "dbFails" \in scenario
             /\ Fallback(r)
             /\ UNCHANGED link
       /\ UNCHANGED <<scenario, expired, tenant, died>>

\* A promotion that fails is fallen back from, anything else ends the request.
PlanFails(r) ==
    IF frame[r].give = "STARTER" THEN Fallback(r) ELSE Goto(r, "failed")

EnsurePlan(r) ==
    LET f == frame[r]
    IN /\ f.pc = "plan"
       /\ \/ /\ plan' = [plan EXCEPT ![f.email] = f.give]
             /\ Goto(r, "counters")
          \/ /\ "dbFails" \in scenario
             /\ PlanFails(r)
             /\ UNCHANGED plan
       /\ UNCHANGED <<scenario, link, expired, creator, counters, died>>

\* Mutant: a request that fell back answers as if nothing had happened.
ResetSilently(r) ==
    LET f == frame[r]
    IN /\ f.pc = "counters"
       /\ \/ /\ counters' = [counters EXCEPT ![f.email] = f.give]
             /\ Goto(r, "created")
          \/ /\ "dbFails" \in scenario
             /\ PlanFails(r)
             /\ UNCHANGED counters
       /\ UNCHANGED <<scenario, link, expired, creator, plan, died>>

ResetCounters(r) ==
    LET f == frame[r]
    IN /\ f.pc = "counters"
       /\ \/ /\ counters' = [counters EXCEPT ![f.email] = f.give]
             /\ Goto(r, IF f.failing THEN "failed" ELSE "created")
          \/ /\ "dbFails" \in scenario
             /\ PlanFails(r)
             /\ UNCHANGED counters
       /\ UNCHANGED <<scenario, link, expired, creator, plan, died>>

-----------------------------------------------------------------------------
Expire(l) ==
    /\ "expiry" \in scenario
    /\ l \notin expired
    /\ expired' = expired \cup {l}
    /\ UNCHANGED <<scenario, link, tenant, frame, died>>

ProcessDies ==
    /\ "crash" \in scenario /\ ~died /\ Unanswered # {}
    /\ died' = TRUE
    /\ frame' = [r \in Requests |->
                   IF r \in Unanswered THEN [frame[r] EXCEPT !.pc = "failed"] ELSE frame[r]]
    /\ UNCHANGED <<scenario, link, expired, tenant>>

Arrival(r) ==
    \E k \in {"signup", "google"}, e \in Emails, l \in Links \cup {NoLink} :
        Request(r, k, e, l)

RequestStep(r) ==
    \/ FindByEmail(r) \/ ValidateMagicToken(r) \/ Save(r)
    \/ RedeemMagicLink(r) \/ EnsurePlan(r) \/ ResetCounters(r)

SignUpNext ==
    \/ \E r \in Requests : Arrival(r) \/ RequestStep(r)
    \/ \E l \in Links : Expire(l)
    \/ ProcessDies

SignUpSpec == SignUpInit /\ [][SignUpNext]_signUpVars

-----------------------------------------------------------------------------
(* Type invariant *)
SignUpTypeOK ==
    /\ scenario \in Mishaps
    /\ count \in [Links -> Nat]
    /\ dated \subseteq Links /\ expired \subseteq Links
    /\ creator \in [Emails -> Requests \cup {Nobody}]
    /\ plan \in [Emails -> PlanNames]
    /\ counters \in [Emails -> PlanNames]
    /\ frame \in [Requests -> RequestFrame]
    /\ died \in BOOLEAN

Exists(e) == creator[e] # Nobody
LinkOf(e) == frame[creator[e]].link
Promoted(l) == {e \in Emails : Exists(e) /\ plan[e] = "STARTER" /\ LinkOf(e) = l}

(* However many sign-ups hold a link that was fresh when they read it,     *)
(* at most max_uses of them get its promotion, whatever fails under way.   *)
PromoWithinUses == \A l \in Links : Cardinality(Promoted(l)) <= MaxUses

(* A tenant is left without a plan, or with counters of another plan, only *)
(* by a failed statement or a crash - or by Google's sign-in when the link *)
(* was used up or expired after it had been read: the next sign-in finds   *)
(* that tenant and never gives it a plan.                                  *)
PlanLeftOut ==
    scenario \cap {"dbFails", "crash"} = {} /\ Unanswered = {} =>
        \A e \in Emails :
            Exists(e) =>
                \/ plan[e] # "none" /\ counters[e] = plan[e]
                \/ /\ frame[creator[e]].kind = "google"
                   /\ LinkOf(e) # NoLink /\ ~Redeemable(LinkOf(e))

(* Whatever fails, a request answered with a new tenant has given it what  *)
(* was asked for: STARTER and its counters with a link, FREE without, and  *)
(* no later request for the address changes that.                          *)
CreatedAsAsked ==
    \A r \in Requests :
        LET f == frame[r]
            asked == IF f.link = NoLink THEN "FREE" ELSE "STARTER"
        IN f.pc = "created" => plan[f.email] = asked /\ counters[f.email] = asked
=============================================================================
