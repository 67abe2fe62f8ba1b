---------------------------- MODULE ApiKeysProofs ----------------------------
(***************************************************************************)
(* Theorems about ApiKeys, for any accounts, keys and requests: a request   *)
(* passes the gate only with a key that was issued and had not expired.     *)
(* Then theorems about ApiUsage, for any keys and finitely many servers:    *)
(* request_count claims no request that was not accepted and, until         *)
(* something fails, misses none.  The two share no variable.                *)
(***************************************************************************)
EXTENDS ApiKeys, ApiUsage, FiniteSetTheorems, TLAPS

----------------------------------------------------------------------------
(* The keys: ApiKeys *)

\* The elements of a sequence to which one was appended.
LEMMA AppendElements ==
  ASSUME NEW S, NEW s \in Seq(S), NEW e \in S
  PROVE  /\ Append(s, e) \in Seq(S)
         /\ \A i \in 1..Len(Append(s, e)) :
                Append(s, e)[i] = e \/ \E j \in 1..Len(s) : Append(s, e)[i] = s[j]
OBVIOUS

\* The elements of a sequence without its first one.
LEMMA TailElements ==
  ASSUME NEW S, NEW s \in Seq(S), s # << >>
  PROVE  /\ Tail(s) \in Seq(S)
         /\ Head(s) \in S
         /\ \E j \in 1..Len(s) : Head(s) = s[j]
         /\ \A i \in 1..Len(Tail(s)) : \E j \in 1..Len(s) : Tail(s)[i] = s[j]
OBVIOUS

\* A request keeps what its next step needs.
RequestsReady ==
    \A r \in Request :
        /\ pc[r] = "insert" => acct[r] \in Account
        /\ pc[r] \in {"query", "setex", "accepted", "delete", "del"} => key[r] \in Key

\* Rows, the changes on their way to the replica and the copies are of issued keys.
StoredKeysIssued ==
    /\ \A k \in primary \cup replica \cup cache : owner[k] # None
    /\ \A i \in 1..Len(wal) : owner[wal[i].key] # None

\* A request that is past the check of expires_at holds an issued key that was alive
\* when it arrived; before the check, a key that was dead then is dead now.
CheckedKeysLive ==
    \A r \in Request :
        /\ pc[r] = "query" /\ late[r] => key[r] \in expired
        /\ pc[r] \in {"setex", "accepted"} => owner[key[r]] # None /\ ~late[r]

TypeInv == TypeOK /\ RequestsReady

\* Every value of the API key model has its type, and a request that is under way has
\* the account or the key it works with (services/api_key, controllers/api_key).
THEOREM TypeCorrect == Spec => []TypeInv
<1>1. Init => TypeInv
  BY DEF Init, TypeInv, TypeOK, RequestsReady, Change
<1>2. TypeInv /\ [Next]_vars => TypeInv'
  <2> SUFFICES ASSUME TypeInv, [Next]_vars
               PROVE  TypeInv'
    OBVIOUS
  <2> USE DEF TypeInv, TypeOK, RequestsReady, store, request
  <2>1. ASSUME NEW r \in Request, NEW a \in Account, CountKeys(r, a)
        PROVE  TypeInv'
    BY <2>1 DEF CountKeys
  <2>2. ASSUME NEW r \in Request, NEW k \in Key, InsertKey(r, k)
        PROVE  TypeInv'
    <3>1. [key |-> k, present |-> TRUE] \in Change
      BY DEF Change
    <3>2. wal' \in Seq(Change)
      BY <2>2, <3>1, AppendElements DEF InsertKey
    <3>3. owner' \in [Key -> Account \cup {None}]
      BY <2>2 DEF InsertKey
    <3>4. QED
      BY <2>2, <3>2, <3>3 DEF InsertKey, Ends
  <2>3. ASSUME NEW r \in Request, NEW k \in Key, Present(r, k)
        PROVE  TypeInv'
    <3>1. pc' \in {pc, [pc EXCEPT ![r] = "accepted"], [pc EXCEPT ![r] = "query"]}
      BY <2>3 DEF Present
    <3>2. QED
      BY <2>3, <3>1 DEF Present
  <2>4. ASSUME NEW r \in Request, Query(r)
        PROVE  TypeInv'
    BY <2>4 DEF Query, Ends
  <2>5. ASSUME NEW r \in Request, CacheKey(r)
        PROVE  TypeInv'
    BY <2>5 DEF CacheKey
  <2>6. ASSUME NEW r \in Request, Served(r)
        PROVE  TypeInv'
    BY <2>6 DEF Served, Ends
  <2>7. ASSUME NEW r \in Request, NEW a \in Account, NEW k \in Key, BeginDelete(r, a, k)
        PROVE  TypeInv'
    BY <2>7 DEF BeginDelete
  <2>8. ASSUME NEW r \in Request, DeleteRow(r)
        PROVE  TypeInv'
    <3>1. [key |-> key[r], present |-> FALSE] \in Change
      BY <2>8 DEF DeleteRow, Change
    <3>2. wal' \in Seq(Change)
      <4>1. wal' = wal \/ wal' = Append(wal, [key |-> key[r], present |-> FALSE])
        BY <2>8 DEF DeleteRow
      <4>2. Append(wal, [key |-> key[r], present |-> FALSE]) \in Seq(Change)
        BY <3>1, AppendElements
      <4>3. QED
        BY <4>1, <4>2
    <3>3. pc' \in {[pc EXCEPT ![r] = "del"], [pc EXCEPT ![r] = "idle"]}
      BY <2>8 DEF DeleteRow, Ends
    <3>4. primary' \subseteq Key
      BY <2>8 DEF DeleteRow
    <3>5. QED
      BY <2>8, <3>2, <3>3, <3>4 DEF DeleteRow
  <2>9. ASSUME NEW r \in Request, DropCached(r)
        PROVE  TypeInv'
    BY <2>9 DEF DropCached, Ends
  <2>10. CASE ReplicaApply
    <3>1. wal' \in Seq(Change) /\ Head(wal) \in Change
      BY <2>10, TailElements DEF ReplicaApply
    <3>2. replica' \subseteq Key
      BY <2>10, <3>1 DEF ReplicaApply, Change
    <3>3. QED
      BY <2>10, <3>1, <3>2 DEF ReplicaApply
  <2>11. ASSUME NEW k \in Key, ExpireCopy(k) \/ ExpireKey(k)
         PROVE  TypeInv'
    BY <2>11 DEF ExpireCopy, ExpireKey
  <2>12. CASE UNCHANGED vars
    BY <2>12 DEF vars
  <2>13. QED
    BY <2>1, <2>2, <2>3, <2>4, <2>5, <2>6, <2>7, <2>8, <2>9, <2>10, <2>11, <2>12
    DEF Next, RequestStep
<1>3. QED
  BY <1>1, <1>2, PTL DEF Spec

KeyInv == StoredKeysIssued /\ CheckedKeysLive

\* The values of the API key model have their types (TypeInv without what the requests
\* under way hold).
THEOREM KeysTypeCorrect == Spec => []TypeOK
<1>1. TypeInv => TypeOK
  BY DEF TypeInv
<1>2. QED
  BY <1>1, TypeCorrect, PTL

\* A key that has an owner keeps it.
LEMMA OwnersStay ==
  ASSUME TypeInv, [Next]_vars, NEW k \in Key, owner[k] # None
  PROVE  owner'[k] = owner[k]
<1>1. ASSUME NEW r \in Request, NEW l \in Key, InsertKey(r, l)
      PROVE  owner'[k] = owner[k]
  BY <1>1 DEF InsertKey, TypeInv, TypeOK
<1>2. CASE UNCHANGED owner
  BY <1>2
<1>3. QED
  BY <1>1, <1>2
  DEF Next, RequestStep, CountKeys, Present, Query, CacheKey, Served, BeginDelete, DeleteRow,
      DropCached, ReplicaApply, ExpireCopy, ExpireKey, vars, store

\* Rows, changes and copies stay those of issued keys.
LEMMA StoredKeysStayIssued ==
  ASSUME TypeInv, KeyInv, [Next]_vars
  PROVE  StoredKeysIssued'
<1> USE DEF TypeInv, TypeOK
<1>1. \A k \in Key : owner[k] # None => owner'[k] # None
  BY OwnersStay
<1>2. \A i \in 1..Len(wal) : wal[i].key \in Key
  <2>1. \A i \in 1..Len(wal) : wal[i] \in Change
    OBVIOUS
  <2>2. QED
    BY <2>1 DEF Change
<1>3. ASSUME NEW r \in Request, NEW k \in Key, InsertKey(r, k)
      PROVE  StoredKeysIssued'
  <2>1. owner'[k] # None
    BY <1>3, NoneAssumption DEF InsertKey, RequestsReady
  <2>2. [key |-> k, present |-> TRUE] \in Change
    BY DEF Change
  <2>3. \A i \in 1..Len(wal') : wal'[i].key = k \/ \E j \in 1..Len(wal) : wal'[i] = wal[j]
    BY <1>3, <2>2, AppendElements DEF InsertKey
  <2>4. \A i \in 1..Len(wal') : owner'[wal'[i].key] # None
    BY <1>1, <1>2, <2>1, <2>3 DEF KeyInv, StoredKeysIssued
  <2>5. \A l \in primary' \cup replica' \cup cache' : owner'[l] # None
    BY <1>1, <1>3, <2>1 DEF InsertKey, KeyInv, StoredKeysIssued
  <2>6. QED
    BY <2>4, <2>5 DEF StoredKeysIssued
<1>4. ASSUME NEW r \in Request, CacheKey(r)
      PROVE  StoredKeysIssued'
  <2>1. key[r] \in Key /\ owner[key[r]] # None
    BY <1>4 DEF CacheKey, RequestsReady, KeyInv, CheckedKeysLive
  <2>2. QED
    BY <1>4, <2>1 DEF CacheKey, store, KeyInv, StoredKeysIssued
<1>5. ASSUME NEW r \in Request, DeleteRow(r)
      PROVE  StoredKeysIssued'
  <2>1. CASE UNCHANGED <<primary, wal>>
    BY <1>5, <2>1 DEF DeleteRow, KeyInv, StoredKeysIssued
  <2>2. CASE /\ key[r] \in primary
             /\ primary' = primary \ {key[r]}
             /\ wal' = Append(wal, [key |-> key[r], present |-> FALSE])
    <3>1. owner[key[r]] # None
      BY <2>2 DEF KeyInv, StoredKeysIssued
    <3>2. [key |-> key[r], present |-> FALSE] \in Change
      BY <2>2 DEF Change
    <3>3. \A i \in 1..Len(wal') : wal'[i].key = key[r] \/ \E j \in 1..Len(wal) : wal'[i] = wal[j]
      BY <2>2, <3>2, AppendElements
    <3>4. \A i \in 1..Len(wal') : owner[wal'[i].key] # None
      BY <3>1, <3>3 DEF KeyInv, StoredKeysIssued
    <3>5. QED
      BY <1>5, <2>2, <3>4 DEF DeleteRow, KeyInv, StoredKeysIssued
  <2>3. QED
    BY <1>5, <2>1, <2>2 DEF DeleteRow, Deletes
<1>6. CASE ReplicaApply
  <2>1. Head(wal).key \in Key /\ owner[Head(wal).key] # None
    BY <1>2, <1>6, TailElements DEF ReplicaApply, KeyInv, StoredKeysIssued
  <2>2. \A i \in 1..Len(wal') : \E j \in 1..Len(wal) : wal'[i] = wal[j]
    BY <1>6, TailElements DEF ReplicaApply
  <2>3. replica' \subseteq replica \cup {Head(wal).key}
    BY <1>6 DEF ReplicaApply
  <2>4. QED
    BY <1>6, <2>1, <2>2, <2>3 DEF ReplicaApply, KeyInv, StoredKeysIssued
<1>7. CASE UNCHANGED <<owner, primary, wal, replica>> /\ cache' \subseteq cache
  BY <1>7 DEF KeyInv, StoredKeysIssued
<1>8. QED
  BY <1>3, <1>4, <1>5, <1>6, <1>7
  DEF Next, RequestStep, CountKeys, Present, Query, Served, BeginDelete, DropCached,
      ExpireCopy, ExpireKey, vars, store

\* The key of a checked request stays issued and was alive when the request arrived.
LEMMA CheckedKeysStayLive ==
  ASSUME TypeInv, KeyInv, [Next]_vars
  PROVE  CheckedKeysLive'
<1> USE DEF TypeInv, TypeOK, RequestsReady, KeyInv
<1>1. \A k \in Key : owner[k] # None => owner'[k] # None
  BY OwnersStay
<1>2. ASSUME NEW r \in Request, NEW k \in Key, Present(r, k)
      PROVE  CheckedKeysLive'
  <2>1. key' = [key EXCEPT ![r] = k] /\ late' = [late EXCEPT ![r] = k \in expired]
    BY <1>2 DEF Present
  <2>2. late'[r] = (k \in expired) /\ key'[r] = k
    BY <2>1
  <2>3. pc[r] = "idle" /\ UNCHANGED <<owner, expired>>
    BY <1>2 DEF Present, store
  <2>4. \/ pc' = [pc EXCEPT ![r] = "accepted"] /\ k \in cache /\ k \notin expired
        \/ pc' = pc
        \/ pc' = [pc EXCEPT ![r] = "query"]
    BY <1>2 DEF Present, PassesCached
  <2>5. pc'[r] \in {"setex", "accepted"} => k \in cache /\ k \notin expired
    BY <2>3, <2>4
  <2>6. ASSUME NEW q \in Request, q # r
        PROVE  pc'[q] = pc[q] /\ key'[q] = key[q] /\ late'[q] = late[q]
    BY <2>1, <2>4, <2>6
  <2>7. /\ pc'[r] = "query" /\ late'[r] => key'[r] \in expired'
        /\ pc'[r] \in {"setex", "accepted"} => owner'[key'[r]] # None /\ ~late'[r]
    BY <2>2, <2>3, <2>5 DEF StoredKeysIssued
  <2>8. ASSUME NEW q \in Request, q # r
        PROVE  /\ pc'[q] = "query" /\ late'[q] => key'[q] \in expired'
               /\ pc'[q] \in {"setex", "accepted"} => owner'[key'[q]] # None /\ ~late'[q]
    BY <2>3, <2>6, <2>8 DEF CheckedKeysLive
  <2>9. QED
    BY <2>7, <2>8 DEF CheckedKeysLive
<1>3. ASSUME NEW r \in Request, Query(r)
      PROVE  CheckedKeysLive'
  <2>1. UNCHANGED <<owner, expired, key, late>>
    BY <1>3 DEF Query, store
  <2>2. pc[r] = "query" /\ (pc'[r] = "idle" \/ (pc'[r] = "setex" /\ PassesRow(key[r])))
    BY <1>3 DEF Query, Ends
  <2>3. \A q \in Request : q # r => pc'[q] = pc[q]
    BY <1>3 DEF Query, Ends
  <2>4. QED
    BY <2>1, <2>2, <2>3 DEF PassesRow, StoredKeysIssued, CheckedKeysLive
<1>4. ASSUME NEW r \in Request, NEW a \in Account, NEW k \in Key, BeginDelete(r, a, k)
      PROVE  CheckedKeysLive'
  BY <1>4 DEF BeginDelete, store, CheckedKeysLive
<1>5. ASSUME NEW r \in Request, NEW a \in Account, CountKeys(r, a)
      PROVE  CheckedKeysLive'
  BY <1>5 DEF CountKeys, store, CheckedKeysLive
<1>6. ASSUME NEW r \in Request, NEW k \in Key, InsertKey(r, k)
      PROVE  CheckedKeysLive'
  BY <1>1, <1>6 DEF InsertKey, Ends, CheckedKeysLive
<1>7. ASSUME NEW r \in Request, CacheKey(r) \/ Served(r) \/ DropCached(r)
      PROVE  CheckedKeysLive'
  BY <1>7 DEF CacheKey, Served, DropCached, Ends, store, CheckedKeysLive
<1>8. ASSUME NEW r \in Request, DeleteRow(r)
      PROVE  CheckedKeysLive'
  <2>1. pc' \in {[pc EXCEPT ![r] = "del"], [pc EXCEPT ![r] = "idle"]}
    BY <1>8 DEF DeleteRow, Ends
  <2>2. QED
    BY <1>8, <2>1 DEF DeleteRow, CheckedKeysLive
<1>9. CASE UNCHANGED <<owner, request>> /\ expired \subseteq expired'
  BY <1>9 DEF request, CheckedKeysLive
<1>10. QED
  BY <1>2, <1>3, <1>4, <1>5, <1>6, <1>7, <1>8, <1>9
  DEF Next, RequestStep, ReplicaApply, ExpireCopy, ExpireKey, vars, store

\* The gate lets a request through only with an issued key that had not expired when
\* it arrived, whatever the replica, Redis and concurrent requests do, for any numbers
\* of accounts, keys and requests (validate_api_key).
THEOREM AcceptsLiveKeysOnly == Spec => []AcceptedKeyWasLive
<1>1. Init => KeyInv
  BY DEF Init, KeyInv, StoredKeysIssued, CheckedKeysLive
<1>2. TypeInv /\ KeyInv /\ [Next]_vars => KeyInv'
  BY StoredKeysStayIssued, CheckedKeysStayLive DEF KeyInv
<1>3. KeyInv => AcceptedKeyWasLive
  BY DEF KeyInv, CheckedKeysLive, AcceptedKeyWasLive
<1>4. QED
  BY <1>1, <1>2, <1>3, TypeCorrect, PTL DEF Spec

----------------------------------------------------------------------------
(* Their usage: ApiUsage *)

\* Only a server that has taken a count has a key in hand, and a deletion drops the
\* usage of keys whose row is gone.
UsageSteps ==
    /\ \A s \in Server : stage[s] # "update" => current[s] = {} /\ taken[s] = 0
    /\ cleanup \cap rows = {}

UsageInv == UsageTypeOK /\ UsageSteps /\ NeverOvercounts /\ ExactWithoutFault

\* A server's count is as many requests as it says.
LEMMA HandSize ==
  ASSUME NEW s, NEW n \in Nat
  PROVE  IsFiniteSet({s} \X (1..n)) /\ Cardinality({s} \X (1..n)) = n
<1>1. IsFiniteSet({s}) /\ Cardinality({s}) = 1
  BY FS_Singleton
<1>2. IsFiniteSet(1..n) /\ Cardinality(1..n) = n
  BY FS_Interval
<1>3. Cardinality({s}) * Cardinality(1..n) = n
  BY <1>1, <1>2
<1>4. QED
  BY <1>1, <1>2, <1>3, FS_Product

\* A finite set with n more or n fewer elements.
LEMMA AddSet ==
  ASSUME NEW S, IsFiniteSet(S), NEW T, IsFiniteSet(T), S \cap T = {}
  PROVE  IsFiniteSet(S \cup T) /\ Cardinality(S \cup T) = Cardinality(S) + Cardinality(T)
<1>1. Cardinality(S \cap T) = 0
  BY FS_EmptySet
<1>2. Cardinality(S) \in Nat /\ Cardinality(T) \in Nat
  BY FS_CardinalityType
<1>3. IsFiniteSet(S \cup T) /\ Cardinality(S \cup T) = Cardinality(S) + Cardinality(T) - Cardinality(S \cap T)
  BY FS_Union
<1>4. QED
  BY <1>1, <1>2, <1>3

\* The requests in hand are finitely many.
LEMMA InHandFinite ==
  ASSUME NEW k
  PROVE  IsFiniteSet(InHand(k)) /\ Cardinality(InHand(k)) \in Nat
<1>1. IsFiniteSet(Server) /\ IsFiniteSet(1..MaxUses)
  BY UsageAssumption, FS_Interval
<1>2. IsFiniteSet(Server \X (1..MaxUses))
  BY <1>1, FS_Product
<1>3. InHand(k) \in SUBSET (Server \X (1..MaxUses))
  BY DEF InHand
<1>4. IsFiniteSet(InHand(k))
  BY <1>2, <1>3, FS_Subset
<1>5. QED
  BY <1>4, FS_CardinalityType

\* InHand depends only on what the servers hold.
LEMMA InHandSame ==
  ASSUME UNCHANGED <<current, taken>>
  PROVE  \A k \in IssuedKey : InHand(k)' = InHand(k)
BY DEF InHand

\* A server that takes the count n of key k.
LEMMA InHandTaken ==
  ASSUME UsageTypeOK, NEW s \in Server, NEW k \in IssuedKey, NEW n \in 0..MaxUses,
         current[s] = {}, current' = [current EXCEPT ![s] = {k}], taken' = [taken EXCEPT ![s] = n]
  PROVE  /\ Cardinality(InHand(k)') = Cardinality(InHand(k)) + n
         /\ \A j \in IssuedKey : j # k => InHand(j)' = InHand(j)
<1>1. n \in Nat
  BY UsageAssumption
<1>2. InHand(k)' = InHand(k) \cup ({s} \X (1..n))
  BY UsageAssumption DEF UsageTypeOK, InHand
<1>3. InHand(k) \cap ({s} \X (1..n)) = {}
  BY DEF InHand
<1>4. Cardinality(InHand(k)') = Cardinality(InHand(k)) + n
  <2>1. IsFiniteSet({s} \X (1..n)) /\ Cardinality({s} \X (1..n)) = n
    BY <1>1, HandSize
  <2>2. IsFiniteSet(InHand(k))
    BY InHandFinite
  <2>3. Cardinality(InHand(k) \cup ({s} \X (1..n))) = Cardinality(InHand(k)) + Cardinality({s} \X (1..n))
    BY <1>3, <2>1, <2>2, AddSet
  <2>4. QED
    BY <1>2, <2>1, <2>3
<1>5. \A j \in IssuedKey : j # k => InHand(j)' = InHand(j)
  BY DEF UsageTypeOK, InHand
<1>6. QED
  BY <1>4, <1>5

\* A server that lets go of what it holds, if it holds anything of key k.
LEMMA InHandGone ==
  ASSUME UsageTypeOK, NEW s \in Server,
         current' = [current EXCEPT ![s] = {}], taken' = [taken EXCEPT ![s] = 0]
  PROVE  \A k \in IssuedKey :
            Cardinality(InHand(k)) = Cardinality(InHand(k)') + IF k \in current[s] THEN taken[s] ELSE 0
<1> TAKE k \in IssuedKey
<1>1. CASE k \in current[s]
  <2>1. taken[s] \in Nat
    BY UsageAssumption DEF UsageTypeOK
  <2>2. InHand(k) = InHand(k)' \cup ({s} \X (1..taken[s]))
    BY <1>1, UsageAssumption DEF UsageTypeOK, InHand
  <2>3. InHand(k)' \cap ({s} \X (1..taken[s])) = {}
    BY DEF UsageTypeOK, InHand
  <2>4. InHand(k)' \in SUBSET InHand(k)
    BY <2>2
  <2>5. IsFiniteSet(InHand(k)')
    BY <2>4, InHandFinite, FS_Subset
  <2>6. IsFiniteSet({s} \X (1..taken[s])) /\ Cardinality({s} \X (1..taken[s])) = taken[s]
    BY <2>1, HandSize
  <2>7. Cardinality(InHand(k)' \cup ({s} \X (1..taken[s])))
        = Cardinality(InHand(k)') + Cardinality({s} \X (1..taken[s]))
    BY <2>3, <2>5, <2>6, AddSet
  <2>8. QED
    BY <1>1, <2>2, <2>6, <2>7
<1>2. CASE k \notin current[s]
  <2>1. InHand(k)' = InHand(k)
    BY <1>2 DEF UsageTypeOK, InHand
  <2>2. QED
    BY <1>2, <2>1, InHandFinite
<1>3. QED
  BY <1>1, <1>2

\* What is counted of a key is a sum of numbers, and each part of it is bounded by the
\* accepted requests.
LEMMA KnownParts ==
  ASSUME UsageInv, NEW k \in IssuedKey
  PROVE  /\ {used[k], spawned[k], usage[k], count[k], Cardinality(InHand(k))} \subseteq Nat
         /\ spawned[k] + usage[k] + Cardinality(InHand(k)) + count[k] <= used[k]
         /\ ~fault /\ k \in rows => spawned[k] + usage[k] + Cardinality(InHand(k)) + count[k] = used[k]
         /\ used[k] <= MaxUses
<1>1. {used[k], spawned[k], usage[k], count[k]} \subseteq Nat /\ used[k] <= MaxUses
  BY UsageAssumption DEF UsageInv, UsageTypeOK
<1>2. Cardinality(InHand(k)) \in Nat
  BY InHandFinite
<1>3. QED
  BY <1>1, <1>2 DEF UsageInv, NeverOvercounts, ExactWithoutFault, Known

\* The invariant from which the counts follow: types, steps and both bounds hold
\* together, since UPDATE writes what GETSET took and a deleted row keeps its count.
THEOREM UsageInvariance == UsageSpec => []UsageInv
<1> USE UsageAssumption
<1>1. UsageInit => UsageInv
  <2> SUFFICES ASSUME UsageInit
               PROVE  UsageInv
    OBVIOUS
  <2>1. UsageTypeOK /\ UsageSteps
    <3>1. 0 \in 0..MaxUses /\ 0 \in 0..MaxFlush
      OBVIOUS
    <3>2. current \in [Server -> {{}} \cup {{k} : k \in IssuedKey}]
      BY DEF UsageInit
    <3>3. fault \in BOOLEAN /\ stage \in [Server -> {"wait", "getset", "update"}]
      BY DEF UsageInit
    <3>4. QED
      BY <3>1, <3>2, <3>3 DEF UsageInit, UsageTypeOK, UsageSteps
  <2>2. \A k \in IssuedKey : Cardinality(InHand(k)) = 0
    <3> TAKE k \in IssuedKey
    <3>1. InHand(k) = {}
      BY DEF UsageInit, InHand
    <3>2. QED
      BY <3>1, FS_EmptySet
  <2>3. \A k \in IssuedKey : Known(k) = 0 /\ used[k] = 0
    BY <2>2 DEF UsageInit, Known
  <2>4. NeverOvercounts /\ ExactWithoutFault
    BY <2>3 DEF NeverOvercounts, ExactWithoutFault, UsageInit
  <2>5. QED
    BY <2>1, <2>4 DEF UsageInv
<1>2. UsageInv /\ [UsageNext]_usageVars => UsageInv'
  <2> SUFFICES ASSUME UsageInv, [UsageNext]_usageVars
               PROVE  UsageInv'
    OBVIOUS
  <2>1. UsageTypeOK /\ UsageSteps
    BY DEF UsageInv
  <2>2. ASSUME NEW k \in IssuedKey, Accept(k)
        PROVE  UsageInv'
    <3>1. UsageSteps'
      BY <2>1, <2>2 DEF UsageSteps, Accept, sync, table
    <3>2. \A j \in IssuedKey : InHand(j)' = InHand(j)
      BY <2>2, InHandSame DEF Accept, sync
    <3>3. ASSUME NEW j \in IssuedKey
          PROVE  /\ spawned'[j] = IF j = k THEN spawned[j] + 1 ELSE spawned[j]
                 /\ used'[j] = IF j = k THEN used[j] + 1 ELSE used[j]
                 /\ usage'[j] = usage[j] /\ count'[j] = count[j]
      BY <2>1, <2>2 DEF UsageTypeOK, Accept, redis, table
    <3>4. NeverOvercounts'
      BY <3>2, <3>3, KnownParts DEF NeverOvercounts, Known
    <3>5. ExactWithoutFault'
      <4> SUFFICES ASSUME ~fault', NEW j \in rows'
                   PROVE  Known(j)' = used'[j]
        BY DEF ExactWithoutFault
      <4>1. ~fault /\ j \in rows /\ j \in IssuedKey
        BY <2>1, <2>2 DEF Accept, table, UsageTypeOK
      <4>2. QED
        BY <3>2, <3>3, <4>1, KnownParts DEF Known
    <3>6. spawned[k] + 1 <= MaxUses /\ used[k] + 1 <= MaxUses
      BY <2>2, KnownParts DEF Accept
    <3>7. UsageTypeOK'
      BY <2>1, <2>2, <3>6 DEF UsageTypeOK, Accept, sync, redis, table
    <3>8. QED
      BY <3>1, <3>4, <3>5, <3>7 DEF UsageInv
  <2>3. ASSUME NEW k \in IssuedKey, IncrUsage(k)
        PROVE  UsageInv'
    <3>1. UsageSteps'
      BY <2>1, <2>3 DEF UsageSteps, IncrUsage, sync, table
    <3>2. \A j \in IssuedKey : InHand(j)' = InHand(j)
      BY <2>3, InHandSame DEF IncrUsage, sync
    <3>3. ASSUME NEW j \in IssuedKey
          PROVE  /\ spawned'[j] = IF j = k THEN spawned[j] - 1 ELSE spawned[j]
                 /\ usage'[j] = (IF j = k THEN usage[j] + 1 ELSE usage[j]) \/ (fault' /\ usage'[j] = usage[j])
                 /\ used'[j] = used[j] /\ count'[j] = count[j]
      BY <2>1, <2>3 DEF UsageTypeOK, IncrUsage, redis, table
    <3>4. NeverOvercounts'
      BY <3>2, <3>3, KnownParts DEF NeverOvercounts, Known
    <3>5. ExactWithoutFault'
      <4> SUFFICES ASSUME ~fault', NEW j \in rows'
                   PROVE  Known(j)' = used'[j]
        BY DEF ExactWithoutFault
      <4>1. ~fault /\ j \in rows /\ j \in IssuedKey
        BY <2>1, <2>3 DEF IncrUsage, table, UsageTypeOK
      <4>2. QED
        BY <3>2, <3>3, <4>1, KnownParts DEF Known
    <3>6. usage[k] + 1 <= MaxUses
      BY <2>3, KnownParts DEF IncrUsage
    <3>7. fault' \in BOOLEAN
      BY <2>1, <2>3 DEF UsageTypeOK, IncrUsage
    <3>8. usage' \in [IssuedKey -> 0..MaxUses] /\ stored' \subseteq IssuedKey /\ spawned' \in [IssuedKey -> 0..MaxUses]
      BY <2>1, <2>3, <3>6 DEF UsageTypeOK, IncrUsage, redis
    <3>9. UsageTypeOK'
      BY <2>1, <2>3, <3>7, <3>8 DEF UsageTypeOK, IncrUsage, sync, table
    <3>10. QED
      BY <3>1, <3>4, <3>5, <3>9 DEF UsageInv
  <2>4. ASSUME NEW k \in IssuedKey, RemoveRow(k)
        PROVE  UsageInv'
    <3>1. UsageSteps'
      BY <2>1, <2>4 DEF UsageSteps, RemoveRow, sync
    <3>2. \A j \in IssuedKey : InHand(j)' = InHand(j)
      BY <2>4, InHandSame DEF RemoveRow, sync
    <3>3. UNCHANGED <<spawned, usage, used, count, fault>> /\ rows' \subseteq rows
      BY <2>4 DEF RemoveRow, redis
    <3>4. NeverOvercounts'
      BY <3>2, <3>3, KnownParts DEF NeverOvercounts, Known
    <3>5. ExactWithoutFault'
      <4> SUFFICES ASSUME ~fault', NEW j \in rows'
                   PROVE  Known(j)' = used'[j]
        BY DEF ExactWithoutFault
      <4>1. ~fault /\ j \in rows /\ j \in IssuedKey
        BY <2>1, <2>4 DEF RemoveRow, table, UsageTypeOK
      <4>2. QED
        BY <3>2, <3>3, <4>1, KnownParts DEF Known
    <3>6. UsageTypeOK'
      BY <2>1, <2>4 DEF UsageTypeOK, RemoveRow, sync, redis
    <3>7. QED
      BY <3>1, <3>4, <3>5, <3>6 DEF UsageInv
  <2>5. ASSUME NEW k \in IssuedKey, DropUsage(k)
        PROVE  UsageInv'
    <3>1. UsageSteps' /\ k \notin rows /\ rows' = rows
      BY <2>1, <2>5 DEF UsageSteps, DropUsage, sync, table
    <3>2. \A j \in IssuedKey : InHand(j)' = InHand(j)
      BY <2>5, InHandSame DEF DropUsage, sync
    <3>3. ASSUME NEW j \in IssuedKey
          PROVE  /\ usage'[j] \in {IF j = k THEN 0 ELSE usage[j], usage[j]}
                 /\ spawned'[j] = spawned[j] /\ used'[j] = used[j] /\ count'[j] = count[j]
      BY <2>1, <2>5 DEF UsageTypeOK, DropUsage, redis, table
    <3>4. NeverOvercounts'
      BY <3>2, <3>3, KnownParts DEF NeverOvercounts, Known
    <3>5. ExactWithoutFault'
      <4> SUFFICES ASSUME ~fault', NEW j \in rows'
                   PROVE  Known(j)' = used'[j]
        BY DEF ExactWithoutFault
      <4>1. ~fault /\ j \in rows /\ j \in IssuedKey
        BY <2>1, <2>5, <3>1 DEF DropUsage, UsageTypeOK
      <4>2. QED
        BY <3>1, <3>2, <3>3, <4>1, KnownParts DEF Known
    <3>6. fault' \in BOOLEAN
      BY <2>1, <2>5 DEF UsageTypeOK, DropUsage
    <3>7. usage' \in [IssuedKey -> 0..MaxUses] /\ stored' \subseteq IssuedKey /\ cleanup' \subseteq IssuedKey
      BY <2>1, <2>5 DEF UsageTypeOK, DropUsage, redis
    <3>8. UsageTypeOK'
      BY <2>1, <2>5, <3>6, <3>7 DEF UsageTypeOK, DropUsage, sync, table
    <3>9. QED
      BY <3>1, <3>4, <3>5, <3>8 DEF UsageInv
  <2>6. ASSUME NEW s \in Server, Scan(s)
        PROVE  UsageInv'
    <3>1. UsageSteps'
      BY <2>1, <2>6 DEF UsageSteps, UsageTypeOK, Scan, table
    <3>2. \A j \in IssuedKey : InHand(j)' = InHand(j)
      BY <2>6, InHandSame DEF Scan
    <3>3. UNCHANGED <<spawned, usage, used, count, fault, rows>>
      BY <2>6 DEF Scan, redis, table
    <3>4. NeverOvercounts'
      BY <3>2, <3>3, KnownParts DEF NeverOvercounts, Known
    <3>5. ExactWithoutFault'
      <4> SUFFICES ASSUME ~fault', NEW j \in rows'
                   PROVE  Known(j)' = used'[j]
        BY DEF ExactWithoutFault
      <4>1. ~fault /\ j \in rows /\ j \in IssuedKey
        BY <2>1, <3>3 DEF UsageTypeOK
      <4>2. QED
        BY <3>2, <3>3, <4>1, KnownParts DEF Known
    <3>6. UsageTypeOK'
      BY <2>1, <2>6 DEF UsageTypeOK, Scan, Scanned, redis, table
    <3>7. QED
      BY <3>1, <3>4, <3>5, <3>6 DEF UsageInv
  <2>7. ASSUME NEW s \in Server, NEW k \in IssuedKey, TakeCount(s, k)
        PROVE  UsageInv'
    <3>1. current[s] = {} /\ taken[s] = 0
      BY <2>1, <2>7 DEF UsageSteps, TakeCount
    <3>2. CASE usage[k] = 0
      <4>1. UNCHANGED <<current, taken, rows, cleanup, used, spawned, count, fault>>
        BY <2>7, <3>2 DEF TakeCount, table
      <4>2. \A t \in Server : t # s => stage'[t] = stage[t]
        BY <2>1, <2>7, <3>2 DEF TakeCount, NextKey, UsageTypeOK
      <4>3. usage' = usage
        BY <2>1, <2>7, <3>2 DEF TakeCount, AfterGetset, UsageTypeOK
      <4>4. UsageSteps'
        BY <2>1, <3>1, <4>1, <4>2 DEF UsageSteps
      <4>5. \A j \in IssuedKey : InHand(j)' = InHand(j)
        BY <4>1, InHandSame
      <4>6. NeverOvercounts'
        BY <4>1, <4>3, <4>5, KnownParts DEF NeverOvercounts, Known
      <4>7. ExactWithoutFault'
        <5> SUFFICES ASSUME ~fault', NEW j \in rows'
                     PROVE  Known(j)' = used'[j]
          BY DEF ExactWithoutFault
        <5>1. ~fault /\ j \in rows /\ j \in IssuedKey
          BY <2>1, <4>1 DEF UsageTypeOK
        <5>2. QED
          BY <4>1, <4>3, <4>5, <5>1, KnownParts DEF Known
      <4>8. stage' \in [Server -> {"wait", "getset", "update"}] /\ todo' \in [Server -> SUBSET IssuedKey]
        BY <2>1, <2>7, <3>2 DEF UsageTypeOK, TakeCount, NextKey
      <4>9. UsageTypeOK'
        BY <2>1, <2>7, <4>1, <4>3, <4>8 DEF UsageTypeOK, TakeCount
      <4>10. QED
        BY <4>4, <4>6, <4>9, <4>7 DEF UsageInv
    <3>3. CASE usage[k] # 0
      <4>1. usage[k] \in 0..MaxUses
        BY <2>1 DEF UsageTypeOK
      <4>2. /\ Cardinality(InHand(k)') = Cardinality(InHand(k)) + usage[k]
            /\ \A j \in IssuedKey : j # k => InHand(j)' = InHand(j)
        BY <2>1, <2>7, <3>1, <3>3, <4>1, InHandTaken DEF TakeCount
      <4>3. ASSUME NEW j \in IssuedKey
            PROVE  usage'[j] = IF j = k THEN 0 ELSE usage[j]
        BY <2>1, <2>7 DEF TakeCount, AfterGetset, UsageTypeOK
      <4>4. UNCHANGED <<spawned, used, count, rows, cleanup, fault>>
        BY <2>7 DEF TakeCount, table
      <4>5. NeverOvercounts'
        BY <4>2, <4>3, <4>4, KnownParts DEF NeverOvercounts, Known
      <4>6. ExactWithoutFault'
        <5> SUFFICES ASSUME ~fault', NEW j \in rows'
                     PROVE  Known(j)' = used'[j]
          BY DEF ExactWithoutFault
        <5>1. ~fault /\ j \in rows /\ j \in IssuedKey
          BY <2>1, <4>4 DEF UsageTypeOK
        <5>2. QED
          BY <4>2, <4>3, <4>4, <5>1, KnownParts DEF Known
      <4>7. UsageSteps'
        BY <2>1, <2>7, <3>3, <4>4 DEF UsageSteps, UsageTypeOK, TakeCount
      <4>8. UsageTypeOK'
        BY <2>1, <2>7, <3>3, <4>1, <4>4 DEF UsageTypeOK, TakeCount, AfterGetset
      <4>9. QED
        BY <4>5, <4>7, <4>8, <4>6 DEF UsageInv
    <3>4. QED
      BY <3>2, <3>3
  <2>8. ASSUME NEW s \in Server, NEW k \in IssuedKey, MissCount(s, k)
        PROVE  UsageInv'
    <3>1. UNCHANGED <<current, taken, rows, cleanup, used, spawned, count>> /\ fault'
      BY <2>8 DEF MissCount, table
    <3>2. \A t \in Server : t # s => stage'[t] = stage[t]
      BY <2>1, <2>8 DEF MissCount, NextKey, UsageTypeOK
    <3>3. UsageSteps'
      BY <2>1, <2>8, <3>1, <3>2 DEF UsageSteps, MissCount
    <3>4. \A j \in IssuedKey : InHand(j)' = InHand(j)
      BY <3>1, InHandSame
    <3>5. ASSUME NEW j \in IssuedKey
          PROVE  usage'[j] \in {0, usage[j]}
      BY <2>1, <2>8 DEF MissCount, AfterGetset, UsageTypeOK, redis
    <3>6. NeverOvercounts' /\ ExactWithoutFault'
      BY <3>1, <3>4, <3>5, KnownParts DEF NeverOvercounts, ExactWithoutFault, Known
    <3>7. stage' \in [Server -> {"wait", "getset", "update"}] /\ todo' \in [Server -> SUBSET IssuedKey]
      BY <2>1, <2>8 DEF UsageTypeOK, MissCount, NextKey
    <3>8. usage' \in [IssuedKey -> 0..MaxUses] /\ stored' \subseteq IssuedKey
      BY <2>1, <2>8 DEF UsageTypeOK, MissCount, AfterGetset, redis
    <3>9. UsageTypeOK'
      BY <2>1, <2>8, <3>1, <3>7, <3>8 DEF UsageTypeOK, MissCount
    <3>10. QED
      BY <3>3, <3>6, <3>9 DEF UsageInv
  <2>9. ASSUME NEW s \in Server, UpdateRow(s)
        PROVE  UsageInv'
    <3>1. PICK k \in current[s] :
            /\ \/ /\ count' = [count EXCEPT ![k] = IF k \in rows THEN NewCount(s, k) ELSE @]
                  /\ UNCHANGED fault
               \/ /\ fault' = TRUE
                  /\ UNCHANGED count
            /\ NextKey(s, k)
      BY <2>9 DEF UpdateRow
    <3>2. k \in IssuedKey /\ current[s] = {k} /\ taken[s] \in 0..MaxUses
      BY <2>1, <3>1 DEF UsageTypeOK
    <3>3. UNCHANGED <<used, spawned, usage, rows, cleanup>>
      BY <2>9 DEF UpdateRow, redis
    <3>4. \A j \in IssuedKey :
            Cardinality(InHand(j)) = Cardinality(InHand(j)') + IF j \in current[s] THEN taken[s] ELSE 0
      BY <2>1, <2>9, InHandGone DEF UpdateRow
    <3>5. \A j \in IssuedKey : Cardinality(InHand(j)') \in Nat
      <4> TAKE j \in IssuedKey
      <4>1. InHand(j)' \in SUBSET InHand(j)
        BY <2>1, <2>9 DEF UsageTypeOK, UpdateRow, InHand
      <4>2. IsFiniteSet(InHand(j)')
        BY <4>1, InHandFinite, FS_Subset
      <4>3. QED
        BY <4>2, FS_CardinalityType
    <3>6. ASSUME NEW j \in IssuedKey
          PROVE  count'[j] \in {IF j = k /\ k \in rows THEN count[j] + taken[s] ELSE count[j], count[j]}
      BY <2>1, <3>1, <3>2 DEF UsageTypeOK, NewCount
    <3>7. NeverOvercounts'
      BY <3>2, <3>3, <3>4, <3>5, <3>6, KnownParts DEF NeverOvercounts, Known
    <3>8. ~fault' => \A j \in IssuedKey : count'[j] = IF j = k /\ k \in rows THEN count[j] + taken[s] ELSE count[j]
      BY <2>1, <3>1, <3>2 DEF UsageTypeOK, NewCount
    <3>9. ExactWithoutFault'
      <4> SUFFICES ASSUME ~fault', NEW j \in rows'
                   PROVE  Known(j)' = used'[j]
        BY DEF ExactWithoutFault
      <4>1. ~fault /\ j \in rows /\ j \in IssuedKey
        BY <2>1, <3>1, <3>3 DEF UsageTypeOK
      <4>2. QED
        BY <3>2, <3>3, <3>4, <3>5, <3>8, <4>1, KnownParts DEF Known
    <3>10. \A j \in IssuedKey : count'[j] \in 0..MaxUses
      BY <3>2, <3>4, <3>5, <3>6, KnownParts
    <3>11. count' \in [IssuedKey -> 0..MaxUses] /\ fault' \in BOOLEAN
      BY <2>1, <3>1, <3>10 DEF UsageTypeOK
    <3>12. stage' \in [Server -> {"wait", "getset", "update"}] /\ todo' \in [Server -> SUBSET IssuedKey]
      BY <2>1, <3>1, <3>2 DEF UsageTypeOK, NextKey
    <3>13. current' \in [Server -> {{}} \cup {{j} : j \in IssuedKey}] /\ taken' \in [Server -> 0..MaxUses]
      BY <2>1, <2>9 DEF UsageTypeOK, UpdateRow
    <3>14. UNCHANGED <<stored, flushes>>
      BY <2>9 DEF UpdateRow, redis
    <3>15. UsageTypeOK'
      BY <2>1, <3>3, <3>11, <3>12, <3>13, <3>14 DEF UsageTypeOK
    <3>16. \A t \in Server : t # s => stage'[t] = stage[t]
      BY <2>1, <3>1 DEF NextKey, UsageTypeOK
    <3>17. UsageSteps'
      BY <2>1, <2>9, <3>3, <3>16 DEF UsageSteps, UsageTypeOK, UpdateRow
    <3>18. QED
      BY <3>7, <3>15, <3>17, <3>9 DEF UsageInv
  <2>10. ASSUME NEW s \in Server, Restart(s)
        PROVE  UsageInv'
    <3>1. \A j \in IssuedKey :
            Cardinality(InHand(j)) = Cardinality(InHand(j)') + IF j \in current[s] THEN taken[s] ELSE 0
      BY <2>1, <2>10, InHandGone DEF Restart
    <3>2. \A j \in IssuedKey : Cardinality(InHand(j)') \in Nat
      <4> TAKE j \in IssuedKey
      <4>1. InHand(j)' \in SUBSET InHand(j)
        BY <2>1, <2>10 DEF UsageTypeOK, Restart, InHand
      <4>2. IsFiniteSet(InHand(j)')
        BY <4>1, InHandFinite, FS_Subset
      <4>3. QED
        BY <4>2, FS_CardinalityType
    <3>3. taken[s] \in Nat
      BY <2>1 DEF UsageTypeOK
    <3>4. \A j \in IssuedKey : usage'[j] = 0
      BY <2>10 DEF Restart
    <3>5. UNCHANGED <<used, spawned, count, rows, cleanup>> /\ fault'
      BY <2>10 DEF Restart, table
    <3>6. NeverOvercounts'
      BY <3>1, <3>2, <3>3, <3>4, <3>5, KnownParts DEF NeverOvercounts, Known
    <3>7. ExactWithoutFault'
      BY <3>5 DEF ExactWithoutFault
    <3>8. UsageTypeOK'
      BY <2>1, <2>10, <3>5 DEF UsageTypeOK, Restart
    <3>9. UsageSteps'
      BY <2>1, <2>10, <3>5 DEF UsageSteps, UsageTypeOK, Restart
    <3>10. QED
      BY <3>6, <3>8, <3>9, <3>7 DEF UsageInv
  <2>11. CASE UNCHANGED usageVars
    <3>1. UNCHANGED <<used, spawned, usage, stored, rows, count, stage, todo, current, taken, cleanup, flushes, fault>>
      BY <2>11 DEF usageVars
    <3>2. \A j \in IssuedKey : InHand(j)' = InHand(j)
      BY <3>1, InHandSame
    <3>3. NeverOvercounts'
      BY <3>1, <3>2, KnownParts DEF NeverOvercounts, Known
    <3>4. ExactWithoutFault'
      <4> SUFFICES ASSUME ~fault', NEW j \in rows'
                   PROVE  Known(j)' = used'[j]
        BY DEF ExactWithoutFault
      <4>1. ~fault /\ j \in rows /\ j \in IssuedKey
        BY <2>1, <3>1 DEF UsageTypeOK
      <4>2. QED
        BY <3>1, <3>2, <4>1, KnownParts DEF Known
    <3>5. UsageTypeOK' /\ UsageSteps'
      BY <2>1, <3>1 DEF UsageTypeOK, UsageSteps
    <3>6. QED
      BY <3>3, <3>5, <3>4 DEF UsageInv
  <2>12. QED
    BY <2>2, <2>3, <2>4, <2>5, <2>6, <2>7, <2>8, <2>9, <2>10, <2>11 DEF UsageNext
<1>3. QED
  BY <1>1, <1>2, PTL DEF UsageSpec

\* Every value of the usage model stays in its range: no count, not even the sum that
\* UPDATE writes, exceeds the accepted requests (sync_api_key_usage_to_db).
THEOREM UsageTypeCorrect == UsageSpec => []UsageTypeOK
<1>1. UsageInv => UsageTypeOK
  BY DEF UsageInv
<1>2. QED
  BY <1>1, UsageInvariance, PTL

\* request_count, what is in Redis, what the sync loops of any number of servers hold
\* and what is still to be counted never exceed the accepted requests of a key, whatever
\* fails or restarts and in whatever order (get_and_reset_api_key_usage,
\* sync_api_key_usage_to_db).
THEOREM NoOvercount == UsageSpec => []NeverOvercounts
<1>1. UsageInv => NeverOvercounts
  BY DEF UsageInv
<1>2. QED
  BY <1>1, UsageInvariance, PTL

\* Until Redis or Postgres fails or a server restarts, the parts add up to the accepted
\* requests of every key that has a row: none is lost between INCR, GETSET and UPDATE.
THEOREM ExactCounts == UsageSpec => []ExactWithoutFault
<1>1. UsageInv => ExactWithoutFault
  BY DEF UsageInv
<1>2. QED
  BY <1>1, UsageInvariance, PTL
=============================================================================
