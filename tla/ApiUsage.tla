------------------------------ MODULE ApiUsage ------------------------------
(***************************************************************************)
(* Usage counting of API keys: every accepted request spawns                *)
(* update_last_used, which INCRs apikey:usage:{hash} in Redis; every five    *)
(* minutes each server runs sync_api_key_usage_to_db, which SCANs those      *)
(* keys, takes each count with GETSET 0 and adds it to request_count.        *)
(* Deleting a key removes the row, then its usage data.                      *)
(* The last_used timestamp travels the same way and decides nothing: it is   *)
(* left out.                                                                *)
(***************************************************************************)
EXTENDS Naturals, FiniteSets

CONSTANTS
    IssuedKey, \* API keys
    Server,    \* running servers, each with one sync loop
    MaxUses,   \* bound: accepted requests per key
    MaxFlush   \* bound: restarts that flush Redis

ASSUME UsageAssumption == IsFiniteSet(Server) /\ MaxUses \in Nat /\ MaxFlush \in Nat

VARIABLES
    used,      \* used[k]: requests the gate accepted with key k
    spawned,   \* spawned[k]: update_last_used tasks that have not run INCR
    usage,     \* usage[k]: the value of apikey:usage:{k}, 0 when absent
    stored,    \* keys whose apikey:usage:{k} exists
    rows,      \* keys with a row in api_keys
    count,     \* count[k]: request_count of the row
    stage,     \* stage[s]: step of the sync loop of server s
    todo,      \* todo[s]: keys found by SCAN and not handled yet
    current,   \* current[s]: the key in hand, a set of at most one
    taken,     \* taken[s]: its count, reset in Redis and not in the row yet
    cleanup,   \* deleted keys whose usage data has not been removed
    flushes,   \* flushes so far
    fault      \* a Redis or Postgres failure has happened

usageVars == <<used, spawned, usage, stored, rows, count, stage, todo, current, taken,
               cleanup, flushes, fault>>
sync == <<stage, todo, current, taken>>
redis == <<usage, stored>>
table == <<rows, count>>

UsageTypeOK ==
    /\ used \in [IssuedKey -> 0..MaxUses]
    /\ spawned \in [IssuedKey -> 0..MaxUses]
    /\ usage \in [IssuedKey -> 0..MaxUses]
    /\ stored \subseteq IssuedKey
    /\ rows \subseteq IssuedKey
    /\ count \in [IssuedKey -> 0..MaxUses]
    /\ stage \in [Server -> {"wait", "getset", "update"}]
    /\ todo \in [Server -> SUBSET IssuedKey]
    /\ current \in [Server -> {{}} \cup {{k} : k \in IssuedKey}]
    /\ taken \in [Server -> 0..MaxUses]
    /\ cleanup \subseteq IssuedKey
    /\ flushes \in 0..MaxFlush
    /\ fault \in BOOLEAN

UsageInit ==
    /\ used = [k \in IssuedKey |-> 0]
    /\ spawned = [k \in IssuedKey |-> 0]
    /\ usage = [k \in IssuedKey |-> 0]
    /\ stored = {}
    /\ rows = IssuedKey
    /\ count = [k \in IssuedKey |-> 0]
    /\ stage = [s \in Server |-> "wait"]
    /\ todo = [s \in Server |-> {}]
    /\ current = [s \in Server |-> {}]
    /\ taken = [s \in Server |-> 0]
    /\ cleanup = {}
    /\ flushes = 0
    /\ fault = FALSE

----------------------------------------------------------------------------
(* Requests *)

\* api_key_gate accepts a request and spawns update_last_used.  A cached copy
\* lets requests through for a while after the row is gone.
Accept(k) ==
    /\ used[k] < MaxUses
    /\ used' = [used EXCEPT ![k] = @ + 1]
    /\ spawned' = [spawned EXCEPT ![k] = @ + 1]
    /\ UNCHANGED <<redis, table, sync, cleanup, flushes, fault>>

\* INCR, which creates the key; it may also be lost, or a restart drops the task.
IncrUsage(k) ==
    /\ spawned[k] > 0
    /\ spawned' = [spawned EXCEPT ![k] = @ - 1]
    /\ \/ /\ usage' = [usage EXCEPT ![k] = @ + 1]
          /\ stored' = stored \cup {k}
          /\ UNCHANGED fault
       \/ /\ fault' = TRUE
          /\ UNCHANGED redis
    /\ UNCHANGED <<used, table, sync, cleanup, flushes>>

----------------------------------------------------------------------------
(* sync_api_key_usage_to_db *)

\* Mutant: SCAN stops after the first batch.
Scanned_first == IF stored = {} THEN {} ELSE {CHOOSE k \in stored : TRUE}

\* get_all_api_key_usage_keys runs the cursor to its end.
Scanned == stored

\* The interval ticks.  On an error nothing is found and the next tick tries again.
Scan(s) ==
    /\ stage[s] = "wait"
    /\ todo[s] = {}
    /\ Scanned # {}
    /\ todo' = [todo EXCEPT ![s] = Scanned]
    /\ stage' = [stage EXCEPT ![s] = "getset"]
    /\ UNCHANGED <<used, spawned, redis, table, current, taken, cleanup, flushes, fault>>

\* Mutant: GET, without the reset.
AfterGetset_get(k) == usage[k]

\* GETSET leaves 0.
AfterGetset(k) == 0

\* The rest of the loop after key k.
NextKey(s, k) ==
    /\ todo' = [todo EXCEPT ![s] = @ \ {k}]
    /\ stage' = [stage EXCEPT ![s] = IF todo[s] = {k} THEN "wait" ELSE "getset"]

\* GETSET of one key.  GETSET also creates a missing key; a count of 0 writes
\* nothing to Postgres.
TakeCount(s, k) ==
    /\ stage[s] = "getset"
    /\ k \in todo[s]
    /\ usage' = [usage EXCEPT ![k] = AfterGetset(k)]
    /\ stored' = stored \cup {k}
    /\ IF usage[k] = 0
       THEN NextKey(s, k) /\ UNCHANGED <<current, taken>>
       ELSE /\ current' = [current EXCEPT ![s] = {k}]
            /\ taken' = [taken EXCEPT ![s] = usage[k]]
            /\ stage' = [stage EXCEPT ![s] = "update"]
            /\ UNCHANGED todo
    /\ UNCHANGED <<used, spawned, table, cleanup, flushes, fault>>

\* GETSET fails, before it ran or after: unwrap_or(0) goes on to the next key.
MissCount(s, k) ==
    /\ stage[s] = "getset"
    /\ k \in todo[s]
    /\ \/ UNCHANGED redis
       \/ /\ usage' = [usage EXCEPT ![k] = AfterGetset(k)]
          /\ stored' = stored \cup {k}
    /\ NextKey(s, k)
    /\ fault' = TRUE
    /\ UNCHANGED <<used, spawned, table, current, taken, cleanup, flushes>>

\* Mutant: request_count = $1.
NewCount_overwrite(s, k) == taken[s]

\* request_count = request_count + $1
NewCount(s, k) == count[k] + taken[s]

\* UPDATE ... WHERE key_hash: without a row it changes nothing.
\* A failed one is not retried, and the count is gone with it;
\* a statement whose answer is lost has run all the same.
UpdateRow(s) ==
    /\ stage[s] = "update"
    /\ \E k \in current[s] :
         /\ \/ /\ count' = [count EXCEPT ![k] = IF k \in rows THEN NewCount(s, k) ELSE @]
               /\ UNCHANGED fault
            \/ /\ fault' = TRUE
               /\ UNCHANGED count
         /\ NextKey(s, k)
    /\ current' = [current EXCEPT ![s] = {}]
    /\ taken' = [taken EXCEPT ![s] = 0]
    /\ UNCHANGED <<used, spawned, redis, rows, cleanup, flushes>>

----------------------------------------------------------------------------
(* Deletion and restart *)

RemoveRow(k) ==
    /\ k \in rows
    /\ rows' = rows \ {k}
    /\ cleanup' = cleanup \cup {k}
    /\ UNCHANGED <<used, spawned, redis, count, sync, flushes, fault>>

\* delete_api_key_usage_data; an error is ignored.
DropUsage(k) ==
    /\ k \in cleanup
    /\ cleanup' = cleanup \ {k}
    /\ \/ /\ usage' = [usage EXCEPT ![k] = 0]
          /\ stored' = stored \ {k}
          /\ UNCHANGED fault
       \/ /\ fault' = TRUE
          /\ UNCHANGED redis
    /\ UNCHANGED <<used, spawned, table, sync, flushes>>

\* A server restarts: its sync loop stops where it is, and flush_all removes
\* every key with the prefix, the usage of all servers among them.
Restart(s) ==
    /\ flushes < MaxFlush
    /\ flushes' = flushes + 1
    /\ usage' = [k \in IssuedKey |-> 0]
    /\ stored' = {}
    /\ stage' = [stage EXCEPT ![s] = "wait"]
    /\ todo' = [todo EXCEPT ![s] = {}]
    /\ current' = [current EXCEPT ![s] = {}]
    /\ taken' = [taken EXCEPT ![s] = 0]
    /\ fault' = TRUE
    /\ UNCHANGED <<used, spawned, table, cleanup>>

UsageNext ==
    \/ \E k \in IssuedKey : Accept(k) \/ IncrUsage(k) \/ RemoveRow(k) \/ DropUsage(k)
    \/ \E s \in Server :
         \/ Scan(s)
         \/ \E k \in IssuedKey : TakeCount(s, k) \/ MissCount(s, k)
         \/ UpdateRow(s)
         \/ Restart(s)

UsageSpec == UsageInit /\ [][UsageNext]_usageVars

\* Ticks come, tasks run, statements end, and a GETSET does not fail for ever.
UsageFairness ==
    /\ \A k \in IssuedKey : WF_usageVars(IncrUsage(k))
    /\ \A s \in Server :
         /\ WF_usageVars(Scan(s))
         /\ WF_usageVars(UpdateRow(s))
         /\ \A k \in IssuedKey : SF_usageVars(TakeCount(s, k))

UsageFairSpec == UsageSpec /\ UsageFairness

----------------------------------------------------------------------------
(* Properties *)

\* The requests counted for key k that are on their way from Redis to the row: the
\* n-th of the count in the hands of server s is <<s, n>>.
InHand(k) == {u \in Server \X (1..MaxUses) : k \in current[u[1]] /\ u[2] <= taken[u[1]]}

\* Requests of key k that are counted somewhere.
Known(k) == spawned[k] + usage[k] + Cardinality(InHand(k)) + count[k]

\* request_count never claims a request that was not accepted, whatever fails:
\* several servers syncing the same key, a failed UPDATE or GETSET, a restart in
\* the middle of a sync, a deletion.  The error is only ever on the low side.
NeverOvercounts == \A k \in IssuedKey : Known(k) <= used[k]

\* As long as nothing fails, no request is lost between INCR, GETSET and
\* UPDATE: what is not in the row of a key that still has one is in Redis or in
\* the hands of a sync loop.
ExactWithoutFault == ~fault => \A k \in rows : Known(k) = used[k]

\* Usage counted in Redis does not stay there: a sync loop takes it.
UsageIsDrained == \A k \in IssuedKey : usage[k] > 0 ~> usage[k] = 0
=============================================================================
