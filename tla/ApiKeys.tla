------------------------------ MODULE ApiKeys -------------------------------
(***************************************************************************)
(* API keys: create_api_key, delete_api_key_by_owner (one row per key on   *)
(* the primary) and validate_api_key (Redis copy for five minutes, then the *)
(* replica).  generate_api_key never repeats a key, so a key is its hash    *)
(* and its row.  `wal' holds the changes the replica has not applied.      *)
(***************************************************************************)
EXTENDS Naturals, Sequences, FiniteSets

CONSTANTS
    Account,   \* owners: the session address of the request
    Key,       \* API keys
    Request,   \* concurrent requests
    None,      \* no key, no account
    MAX_API_KEYS_PER_ACCOUNT

ASSUME NoneAssumption == None \notin Account \cup Key
ASSUME MaxAssumption == MAX_API_KEYS_PER_ACCOUNT \in Nat \ {0}

VARIABLES
    owner,     \* owner[k]: owner_address of key k, None before it is inserted
    primary,   \* keys with a row on the primary
    wal,       \* inserts and deletes the replica has not applied
    replica,   \* keys with a row on the replica
    expired,   \* keys whose expires_at has passed
    cache,     \* keys with a Redis copy api_key:{hash}
    pc,        \* pc[r]: progress of request r
    acct,      \* acct[r]: session address of request r
    key,       \* key[r]: the key it presents or deletes
    late       \* late[r]: the key had expired when request r arrived

store == <<owner, primary, wal, replica, expired>>
request == <<pc, acct, key, late>>
vars == <<store, cache, request>>

Change == [key : Key, present : BOOLEAN]

TypeOK ==
    /\ owner \in [Key -> Account \cup {None}]
    /\ primary \subseteq Key
    /\ wal \in Seq(Change)
    /\ replica \subseteq Key
    /\ expired \subseteq Key
    /\ cache \subseteq Key
    /\ pc \in [Request -> {"idle", "insert", "query", "setex", "accepted", "delete", "del"}]
    /\ acct \in [Request -> Account \cup {None}]
    /\ key \in [Request -> Key \cup {None}]
    /\ late \in [Request -> BOOLEAN]

Init ==
    /\ owner = [k \in Key |-> None]
    /\ primary = {}
    /\ wal = << >>
    /\ replica = {}
    /\ expired = {}
    /\ cache = {}
    /\ pc = [r \in Request |-> "idle"]
    /\ acct = [r \in Request |-> None]
    /\ key = [r \in Request |-> None]
    /\ late = [r \in Request |-> FALSE]

\* The request is answered, or dropped by an error or a timeout.
Ends(r) == pc' = [pc EXCEPT ![r] = "idle"]

KeysOf(a, rows) == {k \in rows : owner[k] = a}

----------------------------------------------------------------------------
(* POST /api-key *)

\* SELECT COUNT(*) on the replica: below the maximum the request goes on.
CountKeys(r, a) ==
    /\ pc[r] = "idle"
    /\ Cardinality(KeysOf(a, replica)) < MAX_API_KEYS_PER_ACCOUNT
    /\ pc' = [pc EXCEPT ![r] = "insert"]
    /\ acct' = [acct EXCEPT ![r] = a]
    /\ UNCHANGED <<store, cache, key, late>>

\* Mutant: key_hash lands in owner_address.
InsertKey_swapped(r, k) ==
    /\ pc[r] = "insert"
    /\ owner[k] = None
    /\ owner' = [owner EXCEPT ![k] = k]
    /\ Ends(r)
    /\ UNCHANGED <<primary, wal, replica, expired, cache, acct, key, late>>

\* INSERT on the primary.  A lost answer leaves the row behind all the same.
InsertKey(r, k) ==
    /\ pc[r] = "insert"
    /\ owner[k] = None
    /\ owner' = [owner EXCEPT ![k] = acct[r]]
    /\ primary' = primary \cup {k}
    /\ wal' = Append(wal, [key |-> k, present |-> TRUE])
    /\ Ends(r)
    /\ UNCHANGED <<replica, expired, cache, acct, key, late>>

----------------------------------------------------------------------------
(* validate_api_key, called by api_key_gate *)

\* Mutant: a cached copy is not checked for expiry.
PassesCached_unchecked(k) == k \in cache

\* A copy in Redis whose expires_at has not passed.
PassesCached(k) == k \in cache /\ k \notin expired

\* Mutant: is_valid forgets expires_at.
PassesRow_unchecked(k) == k \in replica

\* A row on the replica that is_valid.
PassesRow(k) == k \in replica /\ k \notin expired

\* GET: a copy decides at once; without one, or on a Redis error, Postgres does.
Present(r, k) ==
    /\ pc[r] = "idle"
    /\ key' = [key EXCEPT ![r] = k]
    /\ late' = [late EXCEPT ![r] = k \in expired]
    /\ \/ PassesCached(k) /\ pc' = [pc EXCEPT ![r] = "accepted"]
       \/ k \in cache /\ ~PassesCached(k) /\ UNCHANGED pc
       \/ pc' = [pc EXCEPT ![r] = "query"]
    /\ UNCHANGED <<store, cache, acct>>

\* SELECT on the replica: a missing or invalid row, or an error, is refused.
Query(r) ==
    /\ pc[r] = "query"
    /\ \/ PassesRow(key[r]) /\ pc' = [pc EXCEPT ![r] = "setex"]
       \/ Ends(r)
    /\ UNCHANGED <<store, cache, acct, key, late>>

\* SETEX for API_KEY_CACHE_TTL_SECS; an error is ignored.
CacheKey(r) ==
    /\ pc[r] = "setex"
    /\ cache' \in {cache, cache \cup {key[r]}}
    /\ pc' = [pc EXCEPT ![r] = "accepted"]
    /\ UNCHANGED <<store, acct, key, late>>

\* The handler behind the gate answers.
Served(r) ==
    /\ pc[r] = "accepted"
    /\ Ends(r)
    /\ UNCHANGED <<store, cache, acct, key, late>>

----------------------------------------------------------------------------
(* DELETE /api-key/:id *)

BeginDelete(r, a, k) ==
    /\ pc[r] = "idle"
    /\ owner[k] # None
    /\ pc' = [pc EXCEPT ![r] = "delete"]
    /\ acct' = [acct EXCEPT ![r] = a]
    /\ key' = [key EXCEPT ![r] = k]
    /\ UNCHANGED <<store, cache, late>>

\* WHERE id = $1 AND owner_address = $2
Deletes(r, k) == k \in primary /\ owner[k] = acct[r]

\* DELETE ... RETURNING key_hash on the primary; no row is 404.  A lost answer
\* ends the request with the row gone and the copy still in Redis.
DeleteRow(r) ==
    /\ pc[r] = "delete"
    /\ \/ /\ Deletes(r, key[r])
          /\ primary' = primary \ {key[r]}
          /\ wal' = Append(wal, [key |-> key[r], present |-> FALSE])
          /\ pc' \in {[pc EXCEPT ![r] = "del"], [pc EXCEPT ![r] = "idle"]}
       \/ /\ Ends(r)
          /\ UNCHANGED <<primary, wal>>
    /\ UNCHANGED <<owner, replica, expired, cache, acct, key, late>>

\* DEL api_key:{hash}; an error is ignored.
DropCached(r) ==
    /\ pc[r] = "del"
    /\ cache' \in {cache, cache \ {key[r]}}
    /\ Ends(r)
    /\ UNCHANGED <<store, acct, key, late>>

----------------------------------------------------------------------------
(* Environment *)

ReplicaApply ==
    /\ wal # << >>
    /\ replica' = IF Head(wal).present THEN replica \cup {Head(wal).key}
                                       ELSE replica \ {Head(wal).key}
    /\ wal' = Tail(wal)
    /\ UNCHANGED <<owner, primary, expired, cache, request>>

\* Mutant: SET without a TTL.
ExpireCopy_never(k) == FALSE /\ UNCHANGED vars

\* The TTL of a copy runs out, or a starting server flushes it.
ExpireCopy(k) ==
    /\ k \in cache
    /\ cache' = cache \ {k}
    /\ UNCHANGED <<store, request>>

\* expires_at passes.
ExpireKey(k) ==
    /\ owner[k] # None
    /\ k \notin expired
    /\ expired' = expired \cup {k}
    /\ UNCHANGED <<owner, primary, wal, replica, cache, request>>

RequestStep(r) ==
    \/ \E a \in Account : CountKeys(r, a)
    \/ \E k \in Key : InsertKey(r, k)
    \/ \E k \in Key : Present(r, k)
    \/ Query(r)
    \/ CacheKey(r)
    \/ Served(r)
    \/ \E a \in Account, k \in Key : BeginDelete(r, a, k)
    \/ DeleteRow(r)
    \/ DropCached(r)

Next ==
    \/ \E r \in Request : RequestStep(r)
    \/ ReplicaApply
    \/ \E k \in Key : ExpireCopy(k) \/ ExpireKey(k)

Spec == Init /\ [][Next]_vars

\* Replication advances, every copy runs out, a started cache write ends.
Fairness ==
    /\ WF_vars(ReplicaApply)
    /\ \A k \in Key : WF_vars(ExpireCopy(k))
    /\ \A r \in Request : WF_vars(CacheKey(r))

FairSpec == Spec /\ Fairness

----------------------------------------------------------------------------
(* Properties *)

\* validate_api_key lets a request through only with a key that was issued and
\* that had not expired when the request arrived, whether Redis or Postgres
\* vouched for it: an expiry that falls inside the five minutes of a copy, or
\* between the copy and the row, is noticed.
AcceptedKeyWasLive ==
    \A r \in Request :
        pc[r] = "accepted" => owner[key[r]] # None /\ ~late[r]

\* A key whose row was deleted is in the end dead for good: neither the replica
\* nor a validation that had already read the row, nor a DEL that failed, keeps
\* a copy of it in Redis alive.
RevokedKeyDies ==
    \A k \in Key :
        (owner[k] # None /\ k \notin primary) ~> [](k \notin cache \cup replica)

\* docs/api-key.md:30: at most MAX_API_KEYS_PER_ACCOUNT keys per account.
AtMostMaxKeys ==
    \A a \in Account : Cardinality(KeysOf(a, primary)) <= MAX_API_KEYS_PER_ACCOUNT
=============================================================================
