---------------------------- MODULE SearchCache ----------------------------
(***************************************************************************)
(* GET /search: SearchService::search asks Redis for the answer to the      *)
(* query as it was sent; SearchController::search below it asks the process *)
(* for the answer to the trimmed query, and searches with the query as it   *)
(* was sent.  The database stands still, so that a wrong answer is not an   *)
(* old one, nor one whose halves, written by a pipeline that is not atomic, *)
(* are of different age.                                                    *)
(***************************************************************************)
EXTENDS CachedReads

CONSTANTS
    Client,     \* concurrent requests
    NoAnswer    \* no copy, no request, no answer

VARIABLES
    kept,       \* kept[k]: response in Redis under key k, or NoAnswer
    held,       \* held[k]: response in the process under key k, or NoAnswer
    sought,     \* sought[c]: the request of client c that is being answered, or NoAnswer
    found,      \* found[c]: response that is to be stored, or NoAnswer
    served      \* [request, page, limit, response] of the last answer, or NoAnswer

searchVars == <<kept, held, sought, found, served>>

SearchInit ==
    /\ kept = [k \in {RedisKey(r) : r \in SearchRequests} |-> NoAnswer]
    /\ held = [k \in {MokaKey(r) : r \in SearchRequests} |-> NoAnswer]
    /\ sought = [c \in Client |-> NoAnswer]
    /\ found = [c \in Client |-> NoAnswer]
    /\ served = NoAnswer

Serve(r, page, limit, response) ==
    served' = [request |-> r, page |-> page, limit |-> limit, response |-> response]

\* Redis has a copy that can be used: the page is cut from it.
SearchRedis(c, r, page, limit) ==
    /\ sought[c] = NoAnswer
    /\ kept[RedisKey(r)] # NoAnswer
    /\ \E response \in SearchHit(kept[RedisKey(r)], page, limit) : Serve(r, page, limit, response)
    /\ UNCHANGED <<kept, held, sought, found>>

\* It has none, or fails: the process has the answer, or it is searched for and kept there.
\* Requests that wait for one another's search get its answer.
SearchFetch(c, r) ==
    /\ sought[c] = NoAnswer
    /\ sought' = [sought EXCEPT ![c] = r]
    /\ LET copy == held[MokaKey(r)]
       IN  \E response \in IF copy # NoAnswer THEN {copy} ELSE SearchAnswers(r.query) :
            /\ found' = [found EXCEPT ![c] = response]
            /\ held' = [held EXCEPT ![MokaKey(r)] = response]
    /\ UNCHANGED <<kept, served>>

\* set_search_response, whose error is logged; then the whole response leaves, whatever
\* page was asked for.
SearchStore(c, page, limit) ==
    /\ sought[c] # NoAnswer
    /\ kept' \in {kept, [kept EXCEPT ![RedisKey(sought[c])] = found[c]]}
    /\ Serve(sought[c], page, limit, found[c])
    /\ sought' = [sought EXCEPT ![c] = NoAnswer]
    /\ found' = [found EXCEPT ![c] = NoAnswer]
    /\ UNCHANGED held

\* SEARCH_EXPIRATION
SearchExpire(k) ==
    /\ kept[k] # NoAnswer
    /\ kept' = [kept EXCEPT ![k] = NoAnswer]
    /\ UNCHANGED <<held, sought, found, served>>

\* The time to live of the process's cache.
SearchEvict(k) ==
    /\ held[k] # NoAnswer
    /\ held' = [held EXCEPT ![k] = NoAnswer]
    /\ UNCHANGED <<kept, sought, found, served>>

SearchNext(Requests) ==
    \/ \E c \in Client, page \in Page, limit \in Limit :
        \/ SearchStore(c, page, limit)
        \/ \E r \in Requests : SearchRedis(c, r, page, limit)
    \/ \E c \in Client, r \in Requests : SearchFetch(c, r)
    \/ \E k \in DOMAIN kept : SearchExpire(k)
    \/ \E k \in DOMAIN held : SearchEvict(k)

----------------------------------------------------------------------------
(* Properties *)

\* Whoever searched before and whichever cache answers, a query sent without blanks is
\* answered with what it finds, whole or by the page (docs/search-api.md:7: searched by
\* name, symbol or address).  Not so if others send blanks: what their query finds,
\* nothing for an address, is kept in the process for the trimmed query.
SearchFinds ==
    served # NoAnswer /\ ~served.request.query.padded =>
        \E whole \in SearchAnswers(served.request.query) :
            served.response \in
                {whole, [whole EXCEPT !.tokens = PageOf(@, served.page, served.limit),
                                      !.accounts = PageOf(@, served.page, served.limit)]}
=============================================================================
