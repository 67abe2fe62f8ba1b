--------------------------- MODULE ResponseCache ---------------------------
(***************************************************************************)
(* The read path of the GET endpoints, for one response (one cache key):    *)
(* Redis, then the in-process cache behind with_cache, which runs one load   *)
(* per server at a time, then Postgres.  Most services write Redis after     *)
(* with_cache has answered; TrendService writes it inside the load.          *)
(* Time is discrete.  What matters of a response is when the query that      *)
(* produced it started: its data is no older than that (and than the lag of  *)
(* the replica, which comes on top).                                        *)
(***************************************************************************)
EXTENDS Integers

CONSTANTS
    Server,      \* server processes, each with its own GLOBAL_CACHE
    Request,     \* concurrent requests
    None,        \* no entry, no leader
    MokaTTL,     \* time_to_live of GLOBAL_CACHE
    RedisTTL,    \* expiration of the Redis key
    QueryTime,   \* longest load: POSTGRES_TIMEOUT_MS, or the HTTP timeout
    SetTime,     \* longest SET: REDIS_TIMEOUT_MS
    MaxTime      \* bound on the clock

ASSUME TimeAssumption ==
    /\ MokaTTL \in Nat
    /\ RedisTTL \in Nat
    /\ QueryTime \in Nat
    /\ SetTime \in Nat
    /\ MaxTime \in Nat
ASSUME NoneAssumption == None \notin Request /\ None \notin [read : Int, dies : Int]

VARIABLES
    now,       \* the clock
    redis,     \* the Redis entry: when its data was read, when it expires
    moka,      \* moka[s]: the entry of server s
    leader,    \* leader[s]: the request whose load runs on server s
    started,   \* started[s]: when the query of that load started
    pc,        \* pc[r]: progress of request r
    home,      \* home[r]: the server of request r
    setInLoad, \* TRUE: the load itself writes Redis (TrendService)
    data,      \* data[r]: when the data request r holds was read
    since,     \* since[r]: when its SET was sent
    age        \* age of the data of the last answer

vars == <<now, redis, moka, leader, started, pc, home, setInLoad, data, since, age>>
waiting == <<leader, started>>
fixed == <<home, setInLoad>>

Entry == [read : 0..MaxTime, dies : Int]

TypeOK ==
    /\ now \in 0..MaxTime
    /\ redis \in Entry \cup {None}
    /\ moka \in [Server -> Entry \cup {None}]
    /\ leader \in [Server -> Request \cup {None}]
    /\ started \in [Server -> 0..MaxTime]
    /\ pc \in [Request -> {"idle", "lookup", "wait", "load", "set", "orphan"}]
    /\ home \in [Request -> Server]
    /\ setInLoad \in BOOLEAN
    /\ data \in [Request -> 0..MaxTime]
    /\ since \in [Request -> 0..MaxTime]
    /\ age \in Int

Init ==
    /\ now = 0
    /\ redis = None
    /\ moka = [s \in Server |-> None]
    /\ leader = [s \in Server |-> None]
    /\ started = [s \in Server |-> 0]
    /\ pc = [r \in Request |-> "idle"]
    /\ home \in [Request -> Server]
    /\ setInLoad \in BOOLEAN
    /\ data = [r \in Request |-> 0]
    /\ since = [r \in Request |-> 0]
    /\ age = 0

Live(e) == e # None /\ now < e.dies

\* Request r answers with data read at time t.
AnswerWith(r, t) ==
    /\ pc' = [pc EXCEPT ![r] = "idle"]
    /\ age' = now - t

----------------------------------------------------------------------------
(* Requests *)

\* GET: a live entry is the answer.
RedisHit(r) ==
    /\ pc[r] = "idle"
    /\ Live(redis)
    /\ AnswerWith(r, redis.read)
    /\ UNCHANGED <<now, redis, moka, waiting, fixed, data, since>>

\* No entry, or an error of Redis: the request goes on to with_cache.
RedisMiss(r) ==
    /\ pc[r] = "idle"
    /\ pc' = [pc EXCEPT ![r] = "lookup"]
    /\ UNCHANGED <<now, redis, moka, waiting, fixed, data, since, age>>

\* try_get_with finds a live entry, and leaves it as it is: time_to_live counts
\* from the load.
MokaHit(r) ==
    /\ pc[r] = "lookup"
    /\ Live(moka[home[r]])
    /\ IF setInLoad
       THEN AnswerWith(r, moka[home[r]].read) /\ UNCHANGED <<data, since>>
       ELSE /\ pc' = [pc EXCEPT ![r] = "set"]
            /\ data' = [data EXCEPT ![r] = moka[home[r]].read]
            /\ since' = [since EXCEPT ![r] = now]
            /\ UNCHANGED age
    /\ UNCHANGED <<now, redis, moka, waiting, fixed>>

\* try_get_with joins the load that runs already.
Join(r) ==
    /\ pc[r] = "lookup"
    /\ ~Live(moka[home[r]])
    /\ leader[home[r]] # None
    /\ pc' = [pc EXCEPT ![r] = "wait"]
    /\ UNCHANGED <<now, redis, moka, waiting, fixed, data, since, age>>

\* Mutant: the load counts from the tick before.
Lead_early(r) ==
    /\ pc[r] = "lookup"
    /\ leader[home[r]] = None
    /\ leader' = [leader EXCEPT ![home[r]] = r]
    /\ started' = [started EXCEPT ![home[r]] = now - 1]
    /\ pc' = [pc EXCEPT ![r] = "load"]
    /\ UNCHANGED <<now, redis, moka, fixed, data, since, age>>

\* try_get_with runs the load: the query starts.
Lead(r) ==
    /\ pc[r] = "lookup"
    /\ ~Live(moka[home[r]])
    /\ leader[home[r]] = None
    /\ leader' = [leader EXCEPT ![home[r]] = r]
    /\ started' = [started EXCEPT ![home[r]] = now]
    /\ pc' = [pc EXCEPT ![r] = "load"]
    /\ UNCHANGED <<now, redis, moka, fixed, data, since, age>>

\* The leader of server s and those who wait for it.
Party(s) == {r \in Request : home[r] = s /\ (r = leader[s] \/ pc[r] = "wait")}

\* The load of server s has its result: data read at time t enters moka.
Fill(s, t) ==
    /\ moka' = [moka EXCEPT ![s] = [read |-> t, dies |-> now + MokaTTL]]
    /\ leader' = [leader EXCEPT ![s] = None]

\* The query is answered.  The load of TrendService goes on with its SET; else
\* every request of the party takes the data and sends a SET of its own.
LoadDone(s) ==
    /\ leader[s] # None
    /\ pc[leader[s]] = "load"
    /\ IF setInLoad
       THEN /\ pc' = [pc EXCEPT ![leader[s]] = "set"]
            /\ data' = [data EXCEPT ![leader[s]] = started[s]]
            /\ since' = [since EXCEPT ![leader[s]] = now]
            /\ UNCHANGED <<moka, leader>>
       ELSE /\ Fill(s, started[s])
            /\ pc' = [r \in Request |-> IF r \in Party(s) THEN "set" ELSE pc[r]]
            /\ data' = [r \in Request |-> IF r \in Party(s) THEN started[s] ELSE data[r]]
            /\ since' = [r \in Request |-> IF r \in Party(s) THEN now ELSE since[r]]
    /\ UNCHANGED <<now, redis, started, fixed, age>>

\* Mutant: the Redis key has no expiration.
RedisEntry_forever(r) == [read |-> data[r], dies |-> MaxTime + 1]

\* What request r writes to Redis: PSETEX.
RedisEntry(r) == [read |-> data[r], dies |-> now + RedisTTL]

\* PSETEX runs, or fails, which is only logged; the request answers.  In
\* TrendService the load ends with it and the whole party answers.
SetRedis(r) ==
    /\ pc[r] = "set"
    /\ redis' \in {redis, RedisEntry(r)}
    /\ IF setInLoad
       THEN /\ Fill(home[r], data[r])
            /\ pc' = [q \in Request |-> IF q \in Party(home[r]) THEN "idle" ELSE pc[q]]
            /\ age' = now - data[r]
       ELSE AnswerWith(r, data[r]) /\ UNCHANGED <<moka, leader>>
    /\ UNCHANGED <<now, started, fixed, data, since>>

\* The SET of a dropped load runs, or is lost.
OrphanSet(r) ==
    /\ pc[r] = "orphan"
    /\ redis' \in {redis, RedisEntry(r)}
    /\ pc' = [pc EXCEPT ![r] = "idle"]
    /\ UNCHANGED <<now, moka, waiting, fixed, data, since, age>>

\* The query fails or times out: try_get_with hands the error to the party.
LoadFails(s) ==
    /\ leader[s] # None
    /\ pc[leader[s]] = "load"
    /\ pc' = [r \in Request |-> IF r \in Party(s) THEN "idle" ELSE pc[r]]
    /\ leader' = [leader EXCEPT ![s] = None]
    /\ UNCHANGED <<now, redis, moka, started, fixed, data, since, age>>

\* Mutant: the load stays marked as running when its request is dropped.
AfterDrop_stuck(s) == leader

\* The load of a dropped request is gone.
AfterDrop(s) == [leader EXCEPT ![s] = None]

\* method_based_timeout drops the request that leads: the load ends with it and
\* those who wait look again, the first of them to lead the next load.  A SET
\* that was sent already is left to run.
DropLeader(s) ==
    /\ leader[s] # None
    /\ pc' = [r \in Request |->
                CASE r = leader[s] -> IF pc[r] = "set" THEN "orphan" ELSE "idle"
                  [] r # leader[s] /\ r \in Party(s) -> "lookup"
                  [] OTHER -> pc[r]]
    /\ leader' = AfterDrop(s)
    /\ UNCHANGED <<now, redis, moka, started, fixed, data, since, age>>

\* max_capacity pushes the entry out, invalidate removes it, or s restarts.
Evict(s) ==
    /\ moka[s] # None
    /\ moka' = [moka EXCEPT ![s] = None]
    /\ UNCHANGED <<now, redis, waiting, pc, fixed, data, since, age>>

\* Time passes, but not past the deadline of a query or of a SET, and a lookup
\* in the process takes none.
Tick ==
    /\ now < MaxTime
    /\ \A r \in Request : pc[r] # "lookup"
    /\ \A s \in Server :
         leader[s] # None /\ pc[leader[s]] = "load" => now < started[s] + QueryTime
    /\ \A r \in Request : pc[r] \in {"set", "orphan"} => now < since[r] + SetTime
    /\ now' = now + 1
    /\ UNCHANGED <<redis, moka, waiting, pc, fixed, data, since, age>>

Next ==
    \/ \E r \in Request : RedisHit(r) \/ RedisMiss(r) \/ MokaHit(r) \/ Join(r) \/ Lead(r)
    \/ \E r \in Request : SetRedis(r) \/ OrphanSet(r)
    \/ \E s \in Server : LoadDone(s) \/ LoadFails(s) \/ DropLeader(s) \/ Evict(s)
    \/ Tick

Spec == Init /\ [][Next]_vars

----------------------------------------------------------------------------
(* Properties *)

MaxOf(a, b) == IF a > b THEN a ELSE b

\* The oldest data an answer may hold.
MaxAge == IF setInLoad THEN QueryTime + SetTime + MaxOf(MokaTTL, RedisTTL)
                       ELSE QueryTime + MokaTTL + SetTime + RedisTTL

\* No answer is built from data read longer ago than MaxAge: the two caches
\* never feed each other, so their lifetimes add up once at most, whichever
\* servers, loads and delayed SETs the data went through.
BoundedStaleness == age <= MaxAge

\* Nobody waits for a load that does not run: a request that joined has a leader
\* on its server whose query or SET is under way, also after earlier leaders
\* failed or were dropped.
WaitersHaveLeader ==
    \A r \in Request :
        pc[r] = "wait" => /\ leader[home[r]] \in Request \ {r}
                          /\ home[leader[home[r]]] = home[r]
                          /\ pc[leader[home[r]]] \in {"load", "set"}
=============================================================================
