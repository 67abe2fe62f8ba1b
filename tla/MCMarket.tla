------------------------------ MODULE MCMarket ------------------------------
(***************************************************************************)
(* Parts no two of which change a variable, side by side: the market with   *)
(* its reads, the charts in Redis, the account profiles, the trend list.    *)
(* "part" says which of them moves in a behaviour; a step of two of them    *)
(* would show nothing a step of each does not.                              *)
(***************************************************************************)
EXTENDS Market, ChartCache, Accounts, TrendList

VARIABLE part

parts == <<db, chartVars, accountVars, trendVars, part>>

MCSwapQueries ==
    [direction : {"DESC"}, trade_type : TradeType, volume_ranges : {{}, {"small", "large"}},
     account_id : {0, 1}, page : Page, limit : Limit]

\* What a text holds is no part of a key.
MCTextHas == [q \in Word \X Padding |-> {}]

\* Charts of one token and one range.
MCChartRequests == {r \in ChartRequests : r.id = 1 /\ r.from = 1 /\ r.resolution = "1" /\ r.countback = 2}

TypeOK == DbTypeOK /\ ChartsTypeOK /\ AccountsTypeOK /\ TrendTypeOK

Init ==
    /\ part \in {"market", "charts", "accounts", "trend"}
    /\ DbInit
    /\ ChartsInit
    /\ AccountsInit
    /\ TrendInit
    \* Account 1 creates the first token, the smallest (MCFeed has the others); the charts
    \* need no pool.
    /\ \A t \in DOMAIN token :
        /\ token[t].creator = 1
        /\ \A u \in Token : t <= u
        /\ part # "market" => market[t].market_type = "CURVE"

MarketStep == part = "market" /\ DbNext /\ UNCHANGED <<chartVars, accountVars, trendVars, part>>

ChartsStep ==
    part = "charts" /\ ChartsNext(MCChartRequests) /\ UNCHANGED <<db, accountVars, trendVars, part>>

AccountsStep == part = "accounts" /\ AccountsNext /\ UNCHANGED <<db, chartVars, trendVars, part>>

TrendStep == part = "trend" /\ TrendNext /\ UNCHANGED <<db, chartVars, accountVars, part>>

Next == MarketStep \/ ChartsStep \/ AccountsStep \/ TrendStep

Spec == Init /\ [][Next]_parts
=============================================================================
