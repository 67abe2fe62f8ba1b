------------------------ MODULE ResponseCacheProofs ------------------------
(***************************************************************************)
(* Proofs about ResponseCache: no answer is older than MaxAge, and nobody    *)
(* waits for a load that does not run, for every number of servers and       *)
(* requests and every lifetime and timeout.                                  *)
(***************************************************************************)
EXTENDS ResponseCache, TLAPS

\* Oldest data a request may hold when it sends its SET.
Hold == IF setInLoad THEN QueryTime ELSE QueryTime + MokaTTL

\* From reading the data to the end of an entry, at most.
MokaLife == IF setInLoad THEN QueryTime + SetTime + MokaTTL ELSE QueryTime + MokaTTL
RedisLife == Hold + SetTime + RedisTTL

\* An entry dies no later than its life after its data was read.
EntriesBounded ==
    /\ redis # None => redis.dies - redis.read <= RedisLife
    /\ \A s \in Server : moka[s] # None => moka[s].dies - moka[s].read <= MokaLife

\* A leader is a request of its server, in its query, or in the SET of its load.
LeaderRuns ==
    \A s \in Server : leader[s] # None =>
        /\ home[leader[s]] = s
        /\ \/ pc[leader[s]] = "load"
           \/ pc[leader[s]] = "set" /\ setInLoad

\* A load in progress has a leader, also during the SET inside it.
LoadIsLed ==
    \A r \in Request :
        pc[r] = "load" \/ (pc[r] = "set" /\ setInLoad) => leader[home[r]] = r

\* A query is within its deadline.
QueriesBounded ==
    \A s \in Server : leader[s] # None /\ pc[leader[s]] = "load" =>
        started[s] <= now /\ now <= started[s] + QueryTime

\* So is a SET, and the data it carries was young when it was sent.
SetsBounded ==
    \A r \in Request : pc[r] \in {"set", "orphan"} =>
        /\ since[r] <= now
        /\ now <= since[r] + SetTime
        /\ since[r] - data[r] <= Hold

WaitLed == \A r \in Request : pc[r] = "wait" => leader[home[r]] # None

IInv ==
    /\ TypeOK
    /\ EntriesBounded
    /\ LeaderRuns
    /\ LoadIsLed
    /\ QueriesBounded
    /\ SetsBounded
    /\ WaitLed
    /\ BoundedStaleness

\* The bounds are integers and add up to MaxAge.
LEMMA Bounds ==
    /\ Hold \in Int /\ MokaLife \in Int /\ RedisLife \in Int /\ MaxAge \in Int
    /\ 0 <= QueryTime /\ QueryTime <= Hold
    /\ Hold + SetTime <= MaxAge
    /\ MokaLife <= MaxAge
    /\ RedisLife <= MaxAge
    /\ RedisLife = Hold + SetTime + RedisTTL
    /\ 0 <= MaxAge
    /\ setInLoad => Hold = QueryTime /\ MokaLife = Hold + SetTime + MokaTTL
    /\ ~setInLoad => Hold = MokaLife /\ MokaLife = QueryTime + MokaTTL
  BY TimeAssumption DEF Hold, MokaLife, RedisLife, MaxAge, MaxOf

\* The kind of service never changes, and so the bounds do not.
SameBounds ==
    /\ setInLoad' = setInLoad
    /\ Hold' = Hold /\ MokaLife' = MokaLife /\ RedisLife' = RedisLife /\ MaxAge' = MaxAge

LEMMA BoundsFixed == setInLoad' = setInLoad => SameBounds
  BY DEF SameBounds, Hold, MokaLife, RedisLife, MaxAge, MaxOf

\* An entry is not None.
LEMMA EntryNotNone == \A e \in Entry : e # None
  BY NoneAssumption DEF Entry

LEMMA InitIInv == Init => IInv
  <1> SUFFICES ASSUME Init PROVE IInv
    OBVIOUS
  <1>1. TypeOK
    BY TimeAssumption DEF Init, TypeOK
  <1> QED
    BY <1>1, Bounds, NoneAssumption
    DEF Init, IInv, EntriesBounded, LeaderRuns, LoadIsLed, QueriesBounded, SetsBounded,
        WaitLed, BoundedStaleness

\* Each action preserves the type invariant.
LEMMA TypePreserved == IInv /\ [Next]_vars => TypeOK'
  <1> SUFFICES ASSUME IInv, [Next]_vars PROVE TypeOK'
    OBVIOUS
  <1> USE TimeAssumption DEF IInv, TypeOK, waiting, fixed
  <1>1. ASSUME NEW r \in Request, RedisHit(r) PROVE TypeOK'
    BY <1>1, EntryNotNone DEF RedisHit, AnswerWith, Live, Entry
  <1>2. ASSUME NEW r \in Request, RedisMiss(r) PROVE TypeOK'
    BY <1>2 DEF RedisMiss
  <1>3. ASSUME NEW r \in Request, MokaHit(r) PROVE TypeOK'
    <2>1. moka' = moka
      BY <1>3 DEF MokaHit
    <2>2. moka[home[r]] \in Entry
      BY <1>3 DEF MokaHit, Live
    <2> QED
      BY <1>3, <2>1, <2>2 DEF MokaHit, AnswerWith, Entry
  <1>4. ASSUME NEW r \in Request, Join(r) PROVE TypeOK'
    BY <1>4 DEF Join
  <1>5. ASSUME NEW r \in Request, Lead(r) PROVE TypeOK'
    BY <1>5 DEF Lead
  <1>6. ASSUME NEW s \in Server, LoadDone(s) PROVE TypeOK'
    <2>1. CASE setInLoad
      BY <1>6, <2>1 DEF LoadDone
    <2>2. CASE ~setInLoad
      <3>1. [read |-> started[s], dies |-> now + MokaTTL] \in Entry
        BY DEF Entry
      <3> QED
        BY <1>6, <2>2, <3>1 DEF LoadDone, Fill, Party
    <2> QED
      BY <2>1, <2>2
  <1>7. ASSUME NEW r \in Request, SetRedis(r) PROVE TypeOK'
    <2>1. [read |-> data[r], dies |-> now + MokaTTL] \in Entry /\ RedisEntry(r) \in Entry
      BY DEF Entry, RedisEntry
    <2>2. redis' \in Entry \cup {None}
      BY <1>7, <2>1 DEF SetRedis
    <2>3. CASE setInLoad
      BY <1>7, <2>1, <2>2, <2>3 DEF SetRedis, Fill
    <2>4. CASE ~setInLoad
      BY <1>7, <2>2, <2>4 DEF SetRedis, AnswerWith
    <2> QED
      BY <2>3, <2>4
  <1>8. ASSUME NEW r \in Request, OrphanSet(r) PROVE TypeOK'
    <2>1. RedisEntry(r) \in Entry
      BY DEF Entry, RedisEntry
    <2> QED
      BY <1>8, <2>1 DEF OrphanSet
  <1>9. ASSUME NEW s \in Server, LoadFails(s) PROVE TypeOK'
    BY <1>9 DEF LoadFails
  <1>10. ASSUME NEW s \in Server, DropLeader(s) PROVE TypeOK'
    BY <1>10 DEF DropLeader, AfterDrop
  <1>11. ASSUME NEW s \in Server, Evict(s) PROVE TypeOK'
    BY <1>11 DEF Evict
  <1>12. CASE Tick
    BY <1>12 DEF Tick
  <1>13. CASE UNCHANGED vars
    BY <1>13 DEF vars
  <1> QED
    BY <1>1, <1>2, <1>3, <1>4, <1>5, <1>6, <1>7, <1>8, <1>9, <1>10, <1>11, <1>12, <1>13 DEF Next

\* The parts of the invariant that speak of more than types.
Rest ==
    /\ EntriesBounded
    /\ LeaderRuns
    /\ LoadIsLed
    /\ QueriesBounded
    /\ SetsBounded
    /\ WaitLed
    /\ BoundedStaleness

LEMMA RedisHitStep == ASSUME IInv, NEW r \in Request, RedisHit(r) PROVE Rest'
  <1> USE DEF IInv, RedisHit, AnswerWith, waiting, fixed
  <1>0. SameBounds
    BY BoundsFixed DEF RedisHit
  <1> USE <1>0 DEF SameBounds
  <1>1. redis \in Entry /\ now < redis.dies /\ redis.dies - redis.read <= RedisLife
    BY DEF TypeOK, Live, EntriesBounded
  <1>2. now - redis.read <= MaxAge
    BY <1>1, Bounds DEF TypeOK, Entry
  <1>3. BoundedStaleness'
    BY <1>2 DEF TypeOK, BoundedStaleness
  <1>4. EntriesBounded'
    BY DEF EntriesBounded
  <1>5. LeaderRuns' /\ LoadIsLed' /\ WaitLed'
    BY DEF TypeOK, LeaderRuns, LoadIsLed, WaitLed
  <1>6. QueriesBounded' /\ SetsBounded'
    BY DEF TypeOK, QueriesBounded, SetsBounded
  <1> QED
    BY <1>3, <1>4, <1>5, <1>6 DEF Rest

LEMMA RedisMissStep == ASSUME IInv, NEW r \in Request, RedisMiss(r) PROVE Rest'
  <1> USE DEF IInv, RedisMiss, waiting, fixed
  <1>0. SameBounds
    BY BoundsFixed DEF RedisMiss
  <1> USE <1>0 DEF SameBounds
  <1>1. BoundedStaleness' /\ EntriesBounded'
    BY DEF TypeOK, BoundedStaleness, EntriesBounded
  <1>2. LeaderRuns' /\ LoadIsLed' /\ WaitLed'
    BY DEF TypeOK, LeaderRuns, LoadIsLed, WaitLed
  <1>3. QueriesBounded' /\ SetsBounded'
    BY DEF TypeOK, QueriesBounded, SetsBounded
  <1> QED
    BY <1>1, <1>2, <1>3 DEF Rest

LEMMA MokaHitStep == ASSUME IInv, NEW r \in Request, MokaHit(r) PROVE Rest'
  <1> DEFINE e == moka[home[r]]
  <1> USE DEF IInv, waiting, fixed
  <1>0. SameBounds
    BY BoundsFixed DEF MokaHit
  <1> USE <1>0 DEF SameBounds
  <1>1. e \in Entry /\ now < e.dies /\ e.dies - e.read <= MokaLife
    BY DEF MokaHit, TypeOK, Live, EntriesBounded
  <1>2. now - e.read <= MokaLife /\ e.read \in 0..MaxTime
    BY <1>1, Bounds DEF TypeOK, Entry
  <1>3. moka' = moka /\ UNCHANGED <<now, redis, leader, started, home>>
    BY DEF MokaHit
  <1>4. EntriesBounded'
    BY <1>3 DEF EntriesBounded
  <1>5. pc[r] = "lookup" /\ \A q \in Request \ {r} :
          pc'[q] = pc[q] /\ data'[q] = data[q] /\ since'[q] = since[q]
    BY DEF MokaHit, AnswerWith, TypeOK
  <1>6. CASE setInLoad
    <2>1. pc'[r] = "idle" /\ age' = now - e.read
      BY <1>6 DEF MokaHit, AnswerWith, TypeOK
    <2>2. BoundedStaleness'
      BY <1>2, <1>5, <2>1, Bounds DEF TypeOK, BoundedStaleness
    <2>3. LeaderRuns' /\ LoadIsLed' /\ WaitLed'
      BY <1>3, <1>5, <2>1 DEF TypeOK, LeaderRuns, LoadIsLed, WaitLed
    <2>4. QueriesBounded' /\ SetsBounded'
      BY <1>3, <1>5, <2>1 DEF TypeOK, QueriesBounded, SetsBounded
    <2> QED
      BY <1>4, <2>2, <2>3, <2>4 DEF Rest
  <1>7. CASE ~setInLoad
    <2>1. pc'[r] = "set" /\ data'[r] = e.read /\ since'[r] = now /\ age' = age
      BY <1>7 DEF MokaHit, TypeOK
    <2>2. BoundedStaleness'
      BY <2>1 DEF BoundedStaleness
    <2>3. LeaderRuns' /\ LoadIsLed' /\ WaitLed'
      BY <1>3, <1>5, <1>7, <2>1 DEF TypeOK, LeaderRuns, LoadIsLed, WaitLed
    <2>4. QueriesBounded'
      BY <1>3, <1>5, <2>1 DEF TypeOK, QueriesBounded
    <2>5. SetsBounded'
      BY <1>2, <1>3, <1>5, <1>7, <2>1, Bounds, TimeAssumption DEF TypeOK, SetsBounded
    <2> QED
      BY <1>4, <2>2, <2>3, <2>4, <2>5 DEF Rest
  <1> QED
    BY <1>6, <1>7

LEMMA JoinStep == ASSUME IInv, NEW r \in Request, Join(r) PROVE Rest'
  <1> USE DEF IInv, Join, waiting, fixed
  <1>0. SameBounds
    BY BoundsFixed DEF Join
  <1> USE <1>0 DEF SameBounds
  <1>1. BoundedStaleness' /\ EntriesBounded'
    BY DEF TypeOK, BoundedStaleness, EntriesBounded
  <1>2. LeaderRuns' /\ LoadIsLed' /\ WaitLed'
    BY DEF TypeOK, LeaderRuns, LoadIsLed, WaitLed
  <1>3. QueriesBounded' /\ SetsBounded'
    BY DEF TypeOK, QueriesBounded, SetsBounded
  <1> QED
    BY <1>1, <1>2, <1>3 DEF Rest

LEMMA LeadStep == ASSUME IInv, NEW r \in Request, Lead(r) PROVE Rest'
  <1> USE DEF IInv, fixed, Lead
  <1>0. SameBounds
    BY BoundsFixed DEF Lead
  <1> USE <1>0 DEF SameBounds
  <1>1. BoundedStaleness' /\ EntriesBounded'
    BY DEF TypeOK, BoundedStaleness, EntriesBounded
  <1>2. LeaderRuns' /\ LoadIsLed' /\ WaitLed'
    BY NoneAssumption DEF TypeOK, LeaderRuns, LoadIsLed, WaitLed
  <1>3. QueriesBounded' /\ SetsBounded'
    BY TimeAssumption, Bounds DEF TypeOK, QueriesBounded, SetsBounded, LeaderRuns
  <1> QED
    BY <1>1, <1>2, <1>3 DEF Rest

LEMMA LoadDoneStep == ASSUME IInv, NEW s \in Server, LoadDone(s) PROVE Rest'
  <1> USE DEF IInv, fixed, LoadDone
  <1>0. SameBounds
    BY BoundsFixed DEF LoadDone
  <1> USE <1>0 DEF SameBounds
  <1>1. /\ leader[s] \in Request /\ pc[leader[s]] = "load" /\ home[leader[s]] = s
        /\ started[s] <= now /\ now <= started[s] + QueryTime
    BY DEF TypeOK, LeaderRuns, QueriesBounded
  <1>2. BoundedStaleness'
    BY DEF BoundedStaleness
  <1>3. CASE setInLoad
    <2> DEFINE l == leader[s]
    <2>1. /\ pc' = [pc EXCEPT ![l] = "set"]
          /\ data' = [data EXCEPT ![l] = started[s]]
          /\ since' = [since EXCEPT ![l] = now]
          /\ UNCHANGED <<moka, leader, now, redis, started, home, age>>
      BY <1>3
    <2>2. EntriesBounded'
      BY <2>1 DEF EntriesBounded
    <2>3. LeaderRuns' /\ LoadIsLed' /\ WaitLed'
      BY <1>1, <1>3, <2>1 DEF TypeOK, LeaderRuns, LoadIsLed, WaitLed
    <2>4. QueriesBounded'
      BY <1>1, <2>1 DEF TypeOK, QueriesBounded
    <2>5. SetsBounded'
      BY <1>1, <1>3, <2>1, Bounds, TimeAssumption DEF TypeOK, SetsBounded
    <2> QED
      BY <1>2, <2>2, <2>3, <2>4, <2>5 DEF Rest
  <1>4. CASE ~setInLoad
    <2>1. /\ moka' = [moka EXCEPT ![s] = [read |-> started[s], dies |-> now + MokaTTL]]
          /\ leader' = [leader EXCEPT ![s] = None]
          /\ pc' = [r \in Request |-> IF r \in Party(s) THEN "set" ELSE pc[r]]
          /\ data' = [r \in Request |-> IF r \in Party(s) THEN started[s] ELSE data[r]]
          /\ since' = [r \in Request |-> IF r \in Party(s) THEN now ELSE since[r]]
          /\ UNCHANGED <<now, redis, started, home, age>>
      BY <1>4 DEF Fill
    <2>2. EntriesBounded'
      BY <1>1, <1>4, <2>1, Bounds, TimeAssumption DEF TypeOK, EntriesBounded
    <2>3. \A r \in Party(s) : home[r] = s
      BY DEF Party
    <2>4. LeaderRuns'
      BY <1>1, <2>1, <2>3 DEF TypeOK, LeaderRuns
    <2>5. LoadIsLed' /\ WaitLed'
      BY <1>1, <1>4, <2>1 DEF TypeOK, LoadIsLed, WaitLed, Party
    <2>6. QueriesBounded'
      BY <1>1, <2>1, <2>3 DEF TypeOK, QueriesBounded
    <2>7. SetsBounded'
      BY <1>1, <1>4, <2>1, Bounds, TimeAssumption DEF TypeOK, SetsBounded
    <2> QED
      BY <1>2, <2>2, <2>4, <2>5, <2>6, <2>7 DEF Rest
  <1> QED
    BY <1>3, <1>4

LEMMA SetRedisStep == ASSUME IInv, NEW r \in Request, SetRedis(r) PROVE Rest'
  <1> USE DEF IInv, fixed
  <1>0. SameBounds
    BY BoundsFixed DEF SetRedis
  <1> USE <1>0 DEF SameBounds
  <1>1. /\ pc[r] = "set" /\ since[r] <= now /\ now <= since[r] + SetTime
        /\ since[r] - data[r] <= Hold
        /\ UNCHANGED <<now, started, home, data, since>>
    BY DEF SetRedis, SetsBounded
  <1>2. now - data[r] <= Hold + SetTime
    BY <1>1, Bounds, TimeAssumption DEF TypeOK
  <1>3. redis' # None => redis'.dies - redis'.read <= RedisLife
    <2>1. CASE redis' = redis
      BY <2>1 DEF EntriesBounded
    <2>2. CASE redis' = RedisEntry(r)
      BY <1>2, <2>2, Bounds, TimeAssumption DEF TypeOK, RedisEntry
    <2> QED
      BY <2>1, <2>2 DEF SetRedis
  <1>4. CASE setInLoad
    <2> DEFINE h == home[r]
    <2>1. leader[h] = r /\ h \in Server
      BY <1>1, <1>4 DEF LoadIsLed, TypeOK
    <2>2. /\ moka' = [moka EXCEPT ![h] = [read |-> data[r], dies |-> now + MokaTTL]]
          /\ leader' = [leader EXCEPT ![h] = None]
          /\ pc' = [q \in Request |-> IF q \in Party(h) THEN "idle" ELSE pc[q]]
          /\ age' = now - data[r]
      BY <1>4 DEF SetRedis, Fill
    <2>3. EntriesBounded'
      BY <1>2, <1>3, <1>4, <2>2, Bounds, TimeAssumption DEF TypeOK, EntriesBounded
    <2>4. \A q \in Party(h) : home[q] = h
      BY DEF Party
    <2>5. LeaderRuns'
      BY <1>1, <2>2, <2>4 DEF TypeOK, LeaderRuns
    <2>6. LoadIsLed'
      <3>1. \A q \in Request : q \notin Party(h) /\ (pc[q] = "load" \/ pc[q] = "set") => home[q] # h
        BY <1>4, <2>1 DEF LoadIsLed, Party
      <3> QED
        BY <1>1, <1>4, <2>2, <3>1 DEF TypeOK, LoadIsLed
    <2>7. WaitLed'
      BY <1>1, <2>2 DEF TypeOK, WaitLed, Party
    <2>8. QueriesBounded'
      BY <1>1, <2>2, <2>4 DEF TypeOK, QueriesBounded
    <2>9. SetsBounded'
      BY <1>1, <2>2 DEF TypeOK, SetsBounded
    <2>10. BoundedStaleness'
      BY <1>2, <2>2, Bounds, TimeAssumption DEF TypeOK, BoundedStaleness
    <2> QED
      BY <2>3, <2>5, <2>6, <2>7, <2>8, <2>9, <2>10 DEF Rest
  <1>5. CASE ~setInLoad
    <2>1. /\ pc' = [pc EXCEPT ![r] = "idle"]
          /\ age' = now - data[r]
          /\ UNCHANGED <<moka, leader>>
      BY <1>5 DEF SetRedis, AnswerWith
    <2>2. EntriesBounded'
      BY <1>3, <2>1 DEF EntriesBounded
    <2>3. LeaderRuns' /\ LoadIsLed' /\ WaitLed'
      BY <1>1, <1>5, <2>1 DEF TypeOK, LeaderRuns, LoadIsLed, WaitLed
    <2>4. QueriesBounded' /\ SetsBounded'
      BY <1>1, <2>1 DEF TypeOK, QueriesBounded, SetsBounded
    <2>5. BoundedStaleness'
      BY <1>2, <2>1, Bounds, TimeAssumption DEF TypeOK, BoundedStaleness
    <2> QED
      BY <2>2, <2>3, <2>4, <2>5 DEF Rest
  <1> QED
    BY <1>4, <1>5

LEMMA OrphanSetStep == ASSUME IInv, NEW r \in Request, OrphanSet(r) PROVE Rest'
  <1> USE DEF IInv, OrphanSet, waiting, fixed
  <1>0. SameBounds
    BY BoundsFixed DEF OrphanSet
  <1> USE <1>0 DEF SameBounds
  <1>1. now - data[r] <= Hold + SetTime
    BY Bounds, TimeAssumption DEF TypeOK, SetsBounded
  <1>2. redis' # None => redis'.dies - redis'.read <= RedisLife
    <2>1. CASE redis' = redis
      BY <2>1 DEF EntriesBounded
    <2>2. CASE redis' = RedisEntry(r)
      BY <1>1, <2>2, Bounds, TimeAssumption DEF TypeOK, RedisEntry
    <2> QED
      BY <2>1, <2>2
  <1>3. EntriesBounded' /\ BoundedStaleness'
    BY <1>2 DEF EntriesBounded, BoundedStaleness
  <1>4. LeaderRuns' /\ LoadIsLed' /\ WaitLed'
    BY DEF TypeOK, LeaderRuns, LoadIsLed, WaitLed
  <1>5. QueriesBounded' /\ SetsBounded'
    BY DEF TypeOK, QueriesBounded, SetsBounded
  <1> QED
    BY <1>3, <1>4, <1>5 DEF Rest

LEMMA LoadFailsStep == ASSUME IInv, NEW s \in Server, LoadFails(s) PROVE Rest'
  <1> USE DEF IInv, fixed, LoadFails
  <1>0. SameBounds
    BY BoundsFixed DEF LoadFails
  <1> USE <1>0 DEF SameBounds
  <1>1. \A r \in Party(s) : home[r] = s
    BY DEF Party
  <1>2. EntriesBounded' /\ BoundedStaleness'
    BY DEF EntriesBounded, BoundedStaleness
  <1>3. LeaderRuns'
    BY <1>1 DEF TypeOK, LeaderRuns
  <1>4. LoadIsLed' /\ WaitLed'
    BY DEF TypeOK, LoadIsLed, WaitLed, Party
  <1>5. QueriesBounded' /\ SetsBounded'
    BY <1>1 DEF TypeOK, QueriesBounded, SetsBounded
  <1> QED
    BY <1>2, <1>3, <1>4, <1>5 DEF Rest

LEMMA DropLeaderStep == ASSUME IInv, NEW s \in Server, DropLeader(s) PROVE Rest'
  <1> USE DEF IInv, fixed
  <1> DEFINE l == leader[s]
  <1>0. SameBounds
    BY BoundsFixed DEF DropLeader
  <1> USE <1>0 DEF SameBounds
  <1>1. /\ l # None /\ leader' = [leader EXCEPT ![s] = None]
        /\ UNCHANGED <<now, redis, moka, started, home, data, since, age>>
    BY DEF DropLeader, AfterDrop
  <1>2. l \in Request /\ home[l] = s /\ pc[l] \in {"load", "set"}
    BY <1>1 DEF TypeOK, LeaderRuns
  <1>3. /\ pc'[l] = IF pc[l] = "set" THEN "orphan" ELSE "idle"
        /\ \A r \in Request \ {l} :
             pc'[r] = IF home[r] = s /\ pc[r] = "wait" THEN "lookup" ELSE pc[r]
    BY <1>2 DEF DropLeader, Party, TypeOK
  <1>4. EntriesBounded' /\ BoundedStaleness'
    BY <1>1 DEF EntriesBounded, BoundedStaleness
  <1>5. LeaderRuns'
    BY <1>1, <1>2, <1>3 DEF TypeOK, LeaderRuns
  <1>6. LoadIsLed'
    BY <1>1, <1>2, <1>3 DEF TypeOK, LoadIsLed
  <1>7. WaitLed'
    BY <1>1, <1>2, <1>3 DEF TypeOK, WaitLed
  <1>8. QueriesBounded'
    BY <1>1, <1>2, <1>3 DEF TypeOK, QueriesBounded
  <1>9. SetsBounded'
    BY <1>1, <1>2, <1>3 DEF TypeOK, SetsBounded
  <1> QED
    BY <1>4, <1>5, <1>6, <1>7, <1>8, <1>9 DEF Rest

LEMMA EvictStep == ASSUME IInv, NEW s \in Server, Evict(s) PROVE Rest'
  <1> USE DEF IInv, Evict, waiting, fixed
  <1>0. SameBounds
    BY BoundsFixed DEF Evict
  <1> USE <1>0 DEF SameBounds
  <1>1. EntriesBounded' /\ BoundedStaleness'
    BY DEF TypeOK, EntriesBounded, BoundedStaleness
  <1>2. LeaderRuns' /\ LoadIsLed' /\ WaitLed' /\ QueriesBounded' /\ SetsBounded'
    BY DEF LeaderRuns, LoadIsLed, WaitLed, QueriesBounded, SetsBounded
  <1> QED
    BY <1>1, <1>2 DEF Rest

LEMMA TickStep == ASSUME IInv, Tick PROVE Rest'
  <1> USE DEF IInv, Tick, waiting, fixed
  <1>0. SameBounds
    BY BoundsFixed DEF Tick
  <1> USE <1>0 DEF SameBounds
  <1>1. EntriesBounded' /\ BoundedStaleness'
    BY DEF EntriesBounded, BoundedStaleness
  <1>2. LeaderRuns' /\ LoadIsLed' /\ WaitLed'
    BY DEF LeaderRuns, LoadIsLed, WaitLed
  <1>3. QueriesBounded'
    BY TimeAssumption DEF TypeOK, QueriesBounded
  <1>4. SetsBounded'
    BY TimeAssumption DEF TypeOK, SetsBounded
  <1> QED
    BY <1>1, <1>2, <1>3, <1>4 DEF Rest

LEMMA IInvPreserved == IInv /\ [Next]_vars => IInv'
  <1> SUFFICES ASSUME IInv, [Next]_vars PROVE IInv'
    OBVIOUS
  <1>1. TypeOK'
    BY TypePreserved
  <1>2. CASE UNCHANGED vars
    <2>1. SameBounds
      BY <1>2, BoundsFixed DEF vars
    <2> QED
      BY <1>1, <1>2, <2>1 DEF vars, SameBounds, IInv, EntriesBounded, LeaderRuns, LoadIsLed,
                              QueriesBounded, SetsBounded, WaitLed, BoundedStaleness
  <1>3. CASE Next
    <2>1. Rest'
      BY <1>3, RedisHitStep, RedisMissStep, MokaHitStep, JoinStep, LeadStep, SetRedisStep,
         OrphanSetStep, LoadDoneStep, LoadFailsStep, DropLeaderStep, EvictStep, TickStep DEF Next
    <2> QED
      BY <1>1, <2>1 DEF IInv, Rest
  <1> QED
    BY <1>2, <1>3

\* The inductive invariant holds in every reachable state.
THEOREM Invariance == Spec => []IInv
  BY InitIInv, IInvPreserved, PTL DEF Spec

\* Every variable of the read path keeps its type.
THEOREM TypeCorrect == Spec => []TypeOK
  <1>1. IInv => TypeOK
    BY DEF IInv
  <1> QED
    BY <1>1, Invariance, PTL

\* No answer holds data older than the sum of one query, one SET and the
\* lifetimes it can pass through: with_cache and the Redis cache in front of it.
THEOREM Staleness == Spec => []BoundedStaleness
  <1>1. IInv => BoundedStaleness
    BY DEF IInv
  <1> QED
    BY <1>1, Invariance, PTL

\* A request that joined a load of with_cache never waits for a load that ended.
THEOREM NoLostWaiter == Spec => []WaitersHaveLeader
  <1>1. IInv => WaitersHaveLeader
    <2> SUFFICES ASSUME IInv, NEW r \in Request, pc[r] = "wait"
                 PROVE  /\ leader[home[r]] \in Request \ {r}
                        /\ home[leader[home[r]]] = home[r]
                        /\ pc[leader[home[r]]] \in {"load", "set"}
      BY DEF WaitersHaveLeader
    <2>1. leader[home[r]] \in Request /\ home[r] \in Server
      BY DEF IInv, TypeOK, WaitLed
    <2> QED
      BY <2>1, NoneAssumption DEF IInv, LeaderRuns
  <1> QED
    BY <1>1, Invariance, PTL
=============================================================================
