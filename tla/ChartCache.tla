---------------------------- MODULE ChartCache ----------------------------
(***************************************************************************)
(* The charts in Redis: ChartService::get_prices asks for a copy, computes  *)
(* the bars if there is none and stores them.  The database stands still,   *)
(* so that a wrong answer is not an old one.                                *)
(***************************************************************************)
EXTENDS CachedReads

CONSTANT Client   \* concurrent requests

\* No copy, no request, no answer.
NoChart == [k |-> "none"]

VARIABLES
    bars,         \* bars[k]: response under chart key k, or NoChart
    asked,        \* asked[c]: the request client c sent, or NoChart
    computed,     \* computed[c]: response that is to be stored, or NoChart
    answered      \* answered[c]: [request, response] of the last answer, or NoChart

chartVars == <<bars, asked, computed, answered>>

ChartKeys == {ChartKey(r) : r \in ChartRequests}

ChartsTypeOK ==
    /\ DOMAIN bars = ChartKeys
    /\ \A k \in DOMAIN bars : bars[k] # NoChart => bars[k].k \in ChartType
    /\ asked \in [Client -> ChartRequests \cup {NoChart}]
    /\ \A c \in Client : computed[c] = NoChart <=> asked[c] = NoChart
    /\ \A c \in Client : answered[c] # NoChart => answered[c].request \in ChartRequests

ChartsInit ==
    /\ bars = [k \in ChartKeys |-> NoChart]
    /\ asked = [c \in Client |-> NoChart]
    /\ computed = [c \in Client |-> NoChart]
    /\ answered = [c \in Client |-> NoChart]

Answer(c, r, response) ==
    answered' = [answered EXCEPT ![c] = [request |-> r, response |-> response]]

\* GetBarsRequest::validate
ValidBars(r) == r.from <= r.to

\* get_prices finds a copy.
ChartHit(c, r) ==
    /\ asked[c] = NoChart
    /\ ValidBars(r)
    /\ bars[ChartKey(r)] # NoChart
    /\ Answer(c, r, bars[ChartKey(r)])
    /\ UNCHANGED <<bars, asked, computed>>

\* It finds none, or Redis fails: the bars are fetched.
ChartFetch(c, r) ==
    /\ asked[c] = NoChart
    /\ ValidBars(r)
    /\ asked' = [asked EXCEPT ![c] = r]
    /\ computed' = [computed EXCEPT ![c] = Chart(r.id, r)]
    /\ UNCHANGED <<bars, answered>>

\* set_prices, whose error is logged; then the response leaves.
ChartStore(c) ==
    /\ asked[c] # NoChart
    /\ bars' \in {bars, [bars EXCEPT ![ChartKey(asked[c])] = computed[c]]}
    /\ Answer(c, asked[c], computed[c])
    /\ asked' = [asked EXCEPT ![c] = NoChart]
    /\ computed' = [computed EXCEPT ![c] = NoChart]

\* TOKEN_TRADE_EXPIRATION
ChartExpire(k) ==
    /\ bars[k] # NoChart
    /\ bars' = [bars EXCEPT ![k] = NoChart]
    /\ UNCHANGED <<asked, computed, answered>>

ChartsNext(Requests) ==
    \/ \E c \in Client :
        \/ ChartStore(c)
        \/ \E r \in Requests : ChartHit(c, r) \/ ChartFetch(c, r)
    \/ \E k \in ChartKeys : ChartExpire(k)

----------------------------------------------------------------------------
(* Properties *)

\* docs/trade-api.md:227: chart_type chooses the chart that is returned, so the bars
\* of an answer are those of the requested type.
ChartOfRequestedType ==
    \A c \in Client : answered[c] # NoChart => answered[c].response.k = answered[c].request.chart_type
=============================================================================
