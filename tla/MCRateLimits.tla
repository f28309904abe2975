---------------------------- MODULE MCRateLimits ----------------------------
(* RateLimits instantiated for TLC.                                        *)
EXTENDS RateLimits

CONSTANTS a, b, u, v, p1, p2, p3

MCAccountOf == [p \in Posts |-> IF p = p3 THEN b ELSE a]
MCUserOf == [x \in Accounts |-> IF x = a THEN u ELSE v]
MCLengths ==
    [second |-> 1, minute |-> 1, fiveMinutes |-> 2, hour |-> 2, day |-> 3]

None ==
    [postsPerDay |-> 0, postsPerMinute |-> 0, requestsPerHour |-> 0,
     requestsPer5Min |-> 0, quotaUnits |-> 0, costPerPost |-> 0,
     pointsPerPost |-> 0, pointsPerDay |-> 0, appDailyLimit |-> 0, appRps |-> 0]

\* The shapes of platform-config.ts, with limits that a few posts reach.
TikTok ==
    [name |-> "tiktok", maxConcurrency |-> 2,
     limits |-> [None EXCEPT !.postsPerDay = 2, !.postsPerMinute = 1]]
YouTube ==
    [name |-> "youtube", maxConcurrency |-> 2,
     limits |-> [None EXCEPT !.postsPerDay = 2, !.quotaUnits = 5, !.costPerPost = 2,
                             !.appDailyLimit = 5]]
Pinterest ==
    [name |-> "pinterest", maxConcurrency |-> 2,
     limits |-> [None EXCEPT !.postsPerDay = 2, !.requestsPerHour = 1,
                             !.appDailyLimit = 1]]
Bluesky ==
    [name |-> "bluesky", maxConcurrency |-> 2,
     limits |-> [None EXCEPT !.postsPerDay = 2, !.pointsPerPost = 3,
                             !.pointsPerDay = 5, !.requestsPer5Min = 1]]
LinkedIn ==
    [name |-> "linkedin", maxConcurrency |-> 1,
     limits |-> [None EXCEPT !.postsPerDay = 1, !.appRps = 1]]

Case(platforms, kinds, ids) ==
    {[platform |-> x, faults |-> kinds, posts |-> ids] : x \in platforms}

All == {TikTok, YouTube, Pinterest, Bluesky, LinkedIn}

\* Three reservations of a quota for two; two posts to an account, and to two.
MCCases ==
    UNION {Case({YouTube}, {"schedule", "far", "slow"}, {p1, p2, p3}),
           Case(All, {"schedule"}, {p1, p2}),
           Case(All, {"now", "slow"}, {p1, p2}),
           Case({Pinterest}, {"now"}, {p1, p3}),
           Case({TikTok, Bluesky}, {"now", "retry", "delete"}, {p1, p2}),
           Case({TikTok, Bluesky}, {"now", "retry", "delete", "together"}, {p1, p2}),
           Case({Pinterest}, {"schedule", "delete"}, {p1, p2}),
           Case({Pinterest}, {"schedule", "jitter"}, {p1, p2}),
           Case({LinkedIn}, {"schedule", "far"}, {p1, p2, p3})}

=============================================================================
