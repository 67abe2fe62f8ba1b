------------------------------ MODULE Session -------------------------------
(***************************************************************************)
(* The life of a session once the nonce has been taken: create_session     *)
(* writes it to Postgres and to Redis concurrently, resolve_session_address*)
(* looks it up (Redis first, then the Postgres replica, then caches it     *)
(* again), delete_session removes it from both.                            *)
(*                                                                         *)
(* generate_session_id returns a fresh id, so a login stands for the id it *)
(* generates.  Reads of account_session go to the replica (get_read_pool), *)
(* writes to the primary; `wal' holds the changes the replica has not      *)
(* applied.  Any Redis key may reach its TTL at any moment.                *)
(***************************************************************************)
EXTENDS Naturals, Sequences

CONSTANTS
    Account,   \* account ids (addresses)
    Login,     \* logins whose nonce was accepted; also their session ids
    Request,   \* concurrent authenticated requests
    None       \* absence of a session or an account

ASSUME NoneAssumption == None \notin Account \cup Login

VARIABLES
    primary,    \* primary[a]: id in the account_session row of account a
    wal,        \* changes of account_session the replica has not applied
    replica,    \* what get_read_pool sees
    redis,      \* redis[s]: value of key session:{s}:id
    pc,         \* pc[l]: progress of create_session
    account,    \* account[l]: address the login signed for
    pgWrite,    \* pgWrite[l]: the account_session upsert of login l
    redisWrite, \* redisWrite[l]: the PSETEX of login l
    rpc,        \* rpc[r]: progress of authenticated request r
    sid,        \* sid[r]: session cookie of request r
    who,        \* who[r]: address resolved for request r
    todo,       \* todo[r]: deletes of delete_session that have not ended
    allOk,      \* allOk[r]: no delete of request r has failed
    loggedOut   \* sessions whose DELETE /auth/delete_session answered 200

stores == <<primary, wal, replica, redis>>
loginVars == <<pc, account, pgWrite, redisWrite>>
requestVars == <<rpc, sid, who, todo, allOk, loggedOut>>
vars == <<stores, loginVars, requestVars>>

Change == [account : Account, id : Login \cup {None}]

TypeOK ==
    /\ primary \in [Account -> Login \cup {None}]
    /\ wal \in Seq(Change)
    /\ replica \in [Account -> Login \cup {None}]
    /\ redis \in [Login -> Account \cup {None}]
    /\ pc \in [Login -> {"idle", "join", "ok", "failed"}]
    /\ account \in [Login -> Account \cup {None}]
    /\ pgWrite \in [Login -> {"none", "sent", "done"}]
    /\ redisWrite \in [Login -> {"none", "sent", "done"}]
    /\ rpc \in [Request -> {"idle", "fallback", "recache", "serve", "delete"}]
    /\ sid \in [Request -> Login \cup {None}]
    /\ who \in [Request -> Account \cup {None}]
    /\ todo \in [Request -> SUBSET {"pg", "redis"}]
    /\ allOk \in [Request -> BOOLEAN]
    /\ loggedOut \subseteq Login

Init ==
    /\ primary = [a \in Account |-> None]
    /\ wal = << >>
    /\ replica = [a \in Account |-> None]
    /\ redis = [s \in Login |-> None]
    /\ pc = [l \in Login |-> "idle"]
    /\ account = [l \in Login |-> None]
    /\ pgWrite = [l \in Login |-> "none"]
    /\ redisWrite = [l \in Login |-> "none"]
    /\ rpc = [r \in Request |-> "idle"]
    /\ sid = [r \in Request |-> None]
    /\ who = [r \in Request |-> None]
    /\ todo = [r \in Request |-> {}]
    /\ allOk = [r \in Request |-> TRUE]
    /\ loggedOut = {}

----------------------------------------------------------------------------
(* create_session after the nonce: try_join! of two writes *)

\* Both futures are polled: both commands are on their way.
StartLogin(l, a) ==
    /\ pc[l] = "idle"
    /\ pc' = [pc EXCEPT ![l] = "join"]
    /\ account' = [account EXCEPT ![l] = a]
    /\ pgWrite' = [pgWrite EXCEPT ![l] = "sent"]
    /\ redisWrite' = [redisWrite EXCEPT ![l] = "sent"]
    /\ UNCHANGED <<stores, requestVars>>

\* The client gets its cookie once both writes have been answered.
Answered(l, other) ==
    IF pc[l] = "join" /\ other[l] = "done" THEN [pc EXCEPT ![l] = "ok"] ELSE pc

\* SessionController::set_session: one row per account, its id is replaced.
\* The statement may also run after the login has failed.
WriteSession(l) ==
    /\ pgWrite[l] = "sent"
    /\ pgWrite' = [pgWrite EXCEPT ![l] = "done"]
    /\ primary' = [primary EXCEPT ![account[l]] = l]
    /\ wal' = Append(wal, [account |-> account[l], id |-> l])
    /\ pc' = Answered(l, redisWrite)
    /\ UNCHANGED <<replica, redis, account, redisWrite, requestVars>>

\* Mutant: the session id is stored as the value.
CacheSessionId(l) ==
    /\ redisWrite[l] = "sent"
    /\ redisWrite' = [redisWrite EXCEPT ![l] = "done"]
    /\ redis' = [redis EXCEPT ![l] = l]
    /\ pc' = Answered(l, pgWrite)
    /\ UNCHANGED <<primary, wal, replica, account, pgWrite, requestVars>>

\* RedisDatabase::set_session
CacheSession(l) ==
    /\ redisWrite[l] = "sent"
    /\ redisWrite' = [redisWrite EXCEPT ![l] = "done"]
    /\ redis' = [redis EXCEPT ![l] = account[l]]
    /\ pc' = Answered(l, pgWrite)
    /\ UNCHANGED <<primary, wal, replica, account, pgWrite, requestVars>>

\* One of the two writes fails or times out, or the HTTP timeout strikes:
\* try_join! returns at once.  A write that was sent may run later, or never.
FailLogin(l) ==
    /\ pc[l] = "join"
    /\ pc' = [pc EXCEPT ![l] = "failed"]
    /\ UNCHANGED <<stores, account, pgWrite, redisWrite, requestVars>>

----------------------------------------------------------------------------
(* resolve_session_address *)

\* Request r is answered, and forgotten.
Answer(r) ==
    /\ rpc' = [rpc EXCEPT ![r] = "idle"]
    /\ sid' = [sid EXCEPT ![r] = None]
    /\ who' = [who EXCEPT ![r] = None]

\* get_address_by_session: a hit is served; a miss, or any Redis error, falls
\* through to Postgres.  Only a login answered with 200 gave a cookie away.
Lookup(r, s) ==
    /\ rpc[r] = "idle"
    /\ pc[s] = "ok"
    /\ sid' = [sid EXCEPT ![r] = s]
    /\ \/ /\ redis[s] # None
          /\ rpc' = [rpc EXCEPT ![r] = "serve"]
          /\ who' = [who EXCEPT ![r] = redis[s]]
       \/ /\ rpc' = [rpc EXCEPT ![r] = "fallback"]
          /\ UNCHANGED who
    /\ UNCHANGED <<stores, loginVars, todo, allOk, loggedOut>>

\* Mutant: the SELECT has lost its WHERE id = $1.
FallbackAnyRow(r, a) ==
    /\ rpc[r] = "fallback"
    /\ replica[a] # None
    /\ rpc' = [rpc EXCEPT ![r] = "recache"]
    /\ who' = [who EXCEPT ![r] = a]
    /\ UNCHANGED <<stores, loginVars, sid, todo, allOk, loggedOut>>

\* get_address_by_session_id on the replica found the row of account a.
FallbackFound(r, a) ==
    /\ rpc[r] = "fallback"
    /\ replica[a] = sid[r]
    /\ rpc' = [rpc EXCEPT ![r] = "recache"]
    /\ who' = [who EXCEPT ![r] = a]
    /\ UNCHANGED <<stores, loginVars, sid, todo, allOk, loggedOut>>

\* No row, or a database error: 401.
FallbackRefused(r) ==
    /\ rpc[r] = "fallback"
    /\ Answer(r)
    /\ UNCHANGED <<stores, loginVars, todo, allOk, loggedOut>>

\* redis.set_session with the full EXPIRATION_SESSION_KEY again.  An error
\* answers 500; the key may have been written all the same.
Recache(r) ==
    /\ rpc[r] = "recache"
    /\ \/ /\ redis' = [redis EXCEPT ![sid[r]] = who[r]]
          /\ rpc' = [rpc EXCEPT ![r] = "serve"]
          /\ UNCHANGED <<sid, who>>
       \/ /\ redis' \in {redis, [redis EXCEPT ![sid[r]] = who[r]]}
          /\ Answer(r)
    /\ UNCHANGED <<primary, wal, replica, loginVars, todo, allOk, loggedOut>>

\* A handler other than delete_session ends.
Finish(r) ==
    /\ rpc[r] = "serve"
    /\ Answer(r)
    /\ UNCHANGED <<stores, loginVars, todo, allOk, loggedOut>>

----------------------------------------------------------------------------
(* delete_session: tokio::join! of two deletes, both awaited *)

BeginLogout(r) ==
    /\ rpc[r] = "serve"
    /\ rpc' = [rpc EXCEPT ![r] = "delete"]
    /\ todo' = [todo EXCEPT ![r] = {"pg", "redis"}]
    /\ UNCHANGED <<stores, loginVars, sid, who, allOk, loggedOut>>

\* One delete has ended, well or not; after the second the client is answered.
EndDelete(r, which, ok) ==
    /\ rpc[r] = "delete"
    /\ which \in todo[r]
    /\ todo' = [todo EXCEPT ![r] = todo[r] \ {which}]
    /\ IF todo[r] = {which}
       THEN /\ Answer(r)
            /\ allOk' = [allOk EXCEPT ![r] = TRUE]
            /\ loggedOut' = IF allOk[r] /\ ok THEN loggedOut \cup {sid[r]} ELSE loggedOut
       ELSE /\ allOk' = [allOk EXCEPT ![r] = allOk[r] /\ ok]
            /\ UNCHANGED <<rpc, sid, who, loggedOut>>
    /\ UNCHANGED loginVars

\* Mutant: DELETE ... WHERE account_id, the address of the request.
RowsOfAccount(s, a) == {a}

\* DELETE FROM account_session WHERE id = $1: the accounts that lose their row.
RowsOfSession(s, a) == {b \in Account : primary[b] = s}

DeletePrimary(r, ok) ==
    /\ EndDelete(r, "pg", ok)
    /\ \/ \E b \in RowsOfSession(sid[r], who[r]) :
             /\ primary' = [primary EXCEPT ![b] = None]
             /\ wal' = Append(wal, [account |-> b, id |-> None])
       \/ /\ ~ok \/ RowsOfSession(sid[r], who[r]) = {}
          /\ UNCHANGED <<primary, wal>>
    /\ UNCHANGED <<replica, redis>>

DeleteRedis(r, ok) ==
    /\ EndDelete(r, "redis", ok)
    /\ \/ redis' = [redis EXCEPT ![sid[r]] = None]
       \/ ~ok /\ UNCHANGED redis
    /\ UNCHANGED <<primary, wal, replica>>

----------------------------------------------------------------------------
(* Environment *)

\* The replica applies the oldest change.
ReplicaApply ==
    /\ wal # << >>
    /\ replica' = [replica EXCEPT ![Head(wal).account] = Head(wal).id]
    /\ wal' = Tail(wal)
    /\ UNCHANGED <<primary, redis, loginVars, requestVars>>

\* Mutant: SET without a TTL.
ExpireNever(s) == FALSE /\ UNCHANGED vars

\* The TTL given to PSETEX elapses.
ExpireSession(s) ==
    /\ redis[s] # None
    /\ redis' = [redis EXCEPT ![s] = None]
    /\ UNCHANGED <<primary, wal, replica, loginVars, requestVars>>

\* The server stops and starts again: the requests in flight are gone and
\* flush_all deletes this service's keys (none with an empty prefix, some when
\* the SCAN loop fails midway).
Restart ==
    /\ \E kept \in SUBSET Login :
          redis' = [s \in Login |-> IF s \in kept THEN redis[s] ELSE None]
    /\ pc' = [l \in Login |-> IF pc[l] = "join" THEN "failed" ELSE pc[l]]
    /\ rpc' = [r \in Request |-> "idle"]
    /\ sid' = [r \in Request |-> None]
    /\ who' = [r \in Request |-> None]
    /\ todo' = [r \in Request |-> {}]
    /\ allOk' = [r \in Request |-> TRUE]
    /\ UNCHANGED <<primary, wal, replica, account, pgWrite, redisWrite, loggedOut>>

----------------------------------------------------------------------------
LoginStep(l) ==
    \/ \E a \in Account : StartLogin(l, a)
    \/ WriteSession(l)
    \/ CacheSession(l)
    \/ FailLogin(l)

RequestStep(r) ==
    \/ \E s \in Login : Lookup(r, s)
    \/ \E a \in Account : FallbackFound(r, a)
    \/ FallbackRefused(r)
    \/ Recache(r)
    \/ Finish(r)
    \/ BeginLogout(r)
    \/ \E ok \in BOOLEAN : DeletePrimary(r, ok) \/ DeleteRedis(r, ok)

Next ==
    \/ \E l \in Login : LoginStep(l)
    \/ \E r \in Request : RequestStep(r)
    \/ ReplicaApply
    \/ \E s \in Login : ExpireSession(s)
    \/ Restart

Spec == Init /\ [][Next]_vars

\* The replica catches up, a TTL elapses, a request that reads or writes a
\* store is answered (or fails) because every store call has a timeout.
Fairness ==
    /\ WF_vars(ReplicaApply)
    /\ \A s \in Login : WF_vars(ExpireSession(s))
    /\ \A r \in Request : WF_vars(FallbackRefused(r)) /\ WF_vars(Recache(r))

FairSpec == Spec /\ Fairness

----------------------------------------------------------------------------
(* Properties *)

\* Whatever store answered, a request acts for the account that signed the
\* login which created its session, and only for a login that was completed.
ServedAsOwner ==
    \A r \in Request :
        rpc[r] \in {"recache", "serve", "delete"} =>
            pc[sid[r]] = "ok" /\ who[r] = account[sid[r]]

\* Only the last login of an account and an explicit logout end a session in
\* Postgres: expiry, flush and restart of Redis do not, and the logout of an
\* older session of the account, still cached, does not either.
EndsOnlyOwnSession ==
    \A a \in Account :
        primary[a] # None /\ primary'[a] # primary[a] =>
            \/ primary'[a] # None /\ account[primary'[a]] = a
            \/ \E r \in Request : rpc[r] = "delete" /\ sid[r] = primary[a]

LogoutSparesNewerSession == [][EndsOnlyOwnSession]_vars

\* A session that lost its account_session row, by logout or by a newer login,
\* eventually stops being accepted for good, although requests that read the
\* replica or Redis in between may have cached it again.
Ended(s) == pgWrite[s] = "done" /\ primary[account[s]] # s
Dead(s) == redis[s] = None /\ \A a \in Account : replica[a] # s

EndedSessionsDie == \A s \in Login : Ended(s) ~> []Dead(s)

\* docs/auth-api.md, "세션 삭제: 로그아웃 처리 (세션 무효화)": once the logout has
\* been answered, no request that arrives later is served with the session.
ServesOnlyLiveSessions ==
    \A r \in Request : rpc[r] = "idle" /\ rpc'[r] = "serve" => sid'[r] \notin loggedOut

LogoutInvalidates == [][ServesOnlyLiveSessions]_vars
=============================================================================
