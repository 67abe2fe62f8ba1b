----------------------------- MODULE Analytics -----------------------------
(***************************************************************************)
(* The statistics of the CMS (AnalyticsController): users who stopped       *)
(* trading and users who did not, new users, and what users made of their   *)
(* money.  An average is the pair <<sum, number of rows>>.                  *)
(***************************************************************************)
EXTENDS TradeReads

\* Table account_activity: accounts that ever traded.
Traders == {swap[i].account : i \in DOMAIN swap}

TimesOf(a) == {SwapAt(i) : i \in {i \in DOMAIN swap : swap[i].account = a}}

LastSwapAt(a) == CHOOSE at \in TimesOf(a) : \A other \in TimesOf(a) : other <= at
FirstSwapAt(a) == CHOOSE at \in TimesOf(a) : \A other \in TimesOf(a) : at <= other

\* target_users: last_swap_at before the cutoff, or not before it.
TargetUsers(inactive, is_churned) ==
    {a \in Traders : is_churned <=> LastSwapAt(a) < Clock - inactive}

\* The statistics of get_user_activity.
UserStats(users) ==
    [total_users |-> Cardinality(users),
     avg_pnl |-> <<FoldSet(LAMBDA a, sum : Pnl[a] + sum, 0, users), Cardinality(users)>>,
     avg_volume |-> <<SumQuote({i \in DOMAIN swap : swap[i].account \in users}), Cardinality(users)>>]

\* The most held tokens of get_user_activity: pool positions do not count.
HeldBy(t, users) == {a \in users : balance[t][a] > 0}

TopHeld(users, limit) ==
    LET count == [t \in DOMAIN token |-> Cardinality(HeldBy(t, users))]
    IN  {LET top == PageOf(o, 1, limit)
         IN  [n \in DOMAIN top |-> [token_id |-> top[n], holder_count |-> count[top[n]]]] :
            o \in Orders({t \in DOMAIN token : HeldBy(t, users) # {}}, count, "DESC")}

\* get_user_activity
UserActivity(inactive, limit, is_churned) ==
    LET users == TargetUsers(inactive, is_churned)
    IN  [stats |-> UserStats(users), top_held_tokens |-> TopHeld(users, limit)]

\* get_new_users
NewUsers(period) == Cardinality({a \in Traders : FirstSwapAt(a) >= Clock - period})

\* What the account paid for its buys.
Invested(a) == SumQuote({i \in DOMAIN swap : swap[i].account = a /\ swap[i].is_buy})

\* get_user_roi: accounts that invested something.
UserRoi ==
    LET users == {a \in DOMAIN Pnl : Invested(a) > 0}
    IN  [positive |-> Cardinality({a \in users : Pnl[a] > 0}),
         negative |-> Cardinality({a \in users : Pnl[a] <= 0}),
         total_users |-> Cardinality(users)]

----------------------------------------------------------------------------

\* Churned and active users are all traders, and hold what traders hold.
ActivitySplits(inactive) ==
    LET churned == UserActivity(inactive, Cardinality(Token), TRUE)
        active == UserActivity(inactive, Cardinality(Token), FALSE)
        held(activity, t) ==
            LET rows == {r \in ToSet(CHOOSE s \in activity.top_held_tokens : TRUE) : r.token_id = t}
            IN  IF rows = {} THEN 0 ELSE (CHOOSE r \in rows : TRUE).holder_count
    IN  /\ churned.stats.total_users + active.stats.total_users = Cardinality(Traders)
        /\ churned.stats.avg_volume[1] + active.stats.avg_volume[1] = SumQuote(DOMAIN swap)
        /\ \A t \in Token : held(churned, t) + held(active, t) = Cardinality(HeldBy(t, Traders))
        /\ NewUsers(inactive) <= active.stats.total_users

\* Users with and without a gain are all users that invested.
RoiSplits == UserRoi.positive + UserRoi.negative = UserRoi.total_users
=============================================================================
