------------------------- MODULE RateLimiterProofs --------------------------
(***************************************************************************)
(* Proofs about RateLimiter for any limits, any set of identifiers and any *)
(* finite set of requests.                                                 *)
(***************************************************************************)
EXTENDS RateLimiter, FiniteSetTheorems, TLAPS

USE LimitAssumption, IdentifierAssumption, BoundAssumption, FiniteAssumption

\* What one INCR does: the request learns the next number of its window.
LEMMA IncrEffect ==
    ASSUME RateTypeOK, RequestOK, NEW r \in Call, Incr(r)
    PROVE  /\ id[r] \in Identifier /\ minute[r] \in Minute /\ got[r] = 0
           /\ gate[r] = "incr"
           /\ UNCHANGED <<clock, ttl, flushes, id, minute>>
           /\ count' \in [Identifier -> [Minute -> Nat]]
           /\ got' \in [Call -> Nat] /\ life' \in [Call -> Nat]
           /\ ran' \in [Call -> Minute] /\ ran'[r] = clock
           /\ got'[r] = count[id[r]][minute[r]] + 1
           /\ count'[id[r]][minute[r]] = got'[r]
           /\ life'[r] = flushes
           /\ \A i \in Identifier, m \in Minute :
                i # id[r] \/ m # minute[r] => count'[i][m] = count[i][m]
           /\ \A s \in Call : s # r => /\ got'[s] = got[s] /\ life'[s] = life[s]
                                       /\ ran'[s] = ran[s] /\ gate'[s] = gate[s]
           /\ gate' \in [Call -> {"idle", "incr", "expire"} \cup Outcome]
           /\ gate'[r] \in {"expire", "error", Verdict(id[r], got'[r])}
<1>1. id[r] \in Identifier /\ minute[r] \in Minute /\ got[r] = 0 /\ gate[r] = "incr"
  BY DEF Incr, RequestOK, RateTypeOK
<1> DEFINE i == id[r]
           m == minute[r]
           n == count[i][m] + 1
<1>2. /\ count' = [count EXCEPT ![i][m] = n]
      /\ got' = [got EXCEPT ![r] = n] /\ ran' = [ran EXCEPT ![r] = clock]
      /\ life' = [life EXCEPT ![r] = flushes]
      /\ gate' \in {[gate EXCEPT ![r] = IF n = 1 THEN "expire" ELSE Verdict(i, n)],
                  [gate EXCEPT ![r] = "error"]}
      /\ UNCHANGED <<clock, ttl, flushes, id, minute>>
  BY DEF Incr
<1>3. n \in Nat /\ count[i] \in [Minute -> Nat]
  BY <1>1 DEF RateTypeOK
<1>4. Verdict(i, n) \in Outcome
  BY DEF Verdict, Outcome
<1>5. /\ count' \in [Identifier -> [Minute -> Nat]] /\ count'[i][m] = n
      /\ \A j \in Identifier, k \in Minute : j # i \/ k # m => count'[j][k] = count[j][k]
  BY <1>1, <1>2, <1>3 DEF RateTypeOK
<1>6. /\ got' \in [Call -> Nat] /\ life' \in [Call -> Nat]
      /\ ran' \in [Call -> Minute]
      /\ got'[r] = n /\ life'[r] = flushes /\ ran'[r] = clock
      /\ \A s \in Call : s # r => got'[s] = got[s] /\ life'[s] = life[s] /\ ran'[s] = ran[s]
  BY <1>2, <1>3 DEF RateTypeOK
<1>7. /\ gate' \in [Call -> {"idle", "incr", "expire"} \cup Outcome]
      /\ gate'[r] \in {"expire", "error", Verdict(i, n)}
      /\ \A s \in Call : s # r => gate'[s] = gate[s]
  BY <1>2, <1>4 DEF RateTypeOK, Outcome
<1> QED BY <1>1, <1>2, <1>5, <1>6, <1>7

LEMMA TypeStep == ASSUME RateTypeOK, RequestOK, [RateNext]_rateVars PROVE RateTypeOK'
<1>1. ASSUME NEW r \in Call, NEW i \in Identifier, Arrive(r, i) PROVE RateTypeOK'
  BY <1>1 DEF RateTypeOK, Arrive, counters
<1>2. ASSUME NEW r \in Call, Incr(r) PROVE RateTypeOK'
  BY <1>2, IncrEffect DEF RateTypeOK
<1>3. ASSUME NEW r \in Call, Expire(r) PROVE RateTypeOK'
  <2>1. id[r] \in Identifier /\ minute[r] \in Minute
    BY <1>3 DEF Expire, RequestOK, RateTypeOK
  <2>2. Verdict(id[r], got[r]) \in Outcome /\ "error" \in Outcome
    BY DEF Verdict, Outcome
  <2>3. gate' \in [Call -> {"idle", "incr", "expire"} \cup Outcome]
    BY <1>3, <2>2 DEF Expire, RateTypeOK
  <2>4. ttl' \in [Identifier -> [Minute -> Nat]]
    <3>1. Expiry \in Nat /\ ttl[id[r]] \in [Minute -> Nat]
      BY <2>1 DEF Expiry, RateTypeOK, Minute
    <3>2. ttl' = ttl \/ ttl' = [ttl EXCEPT ![id[r]][minute[r]] = Expiry]
      BY <1>3 DEF Expire
    <3>3. ttl \in [Identifier -> [Minute -> Nat]]
      BY DEF RateTypeOK
    <3>4. [ttl[id[r]] EXCEPT ![minute[r]] = Expiry] \in [Minute -> Nat]
      BY <2>1, <3>1
    <3>5. [ttl EXCEPT ![id[r]][minute[r]] = Expiry] = [ttl EXCEPT ![id[r]] = [ttl[id[r]] EXCEPT ![minute[r]] = Expiry]]
      BY <2>1, <3>3
    <3> QED BY <2>1, <3>2, <3>3, <3>4, <3>5
  <2> QED BY <1>3, <2>3, <2>4 DEF RateTypeOK, Expire
<1>4. ASSUME NEW r \in Call, Drop(r) PROVE RateTypeOK'
  BY <1>4 DEF RateTypeOK, Drop, counters, Outcome
<1>5. ASSUME NEW i \in Identifier, NEW m \in Minute, RemoveExpired(i, m) PROVE RateTypeOK'
  <2>1. count[i] \in [Minute -> Nat] /\ ttl[i] \in [Minute -> Nat]
    BY DEF RateTypeOK
  <2> QED BY <1>5, <2>1 DEF RateTypeOK, RemoveExpired
<1>6. CASE TickMinute
  BY <1>6 DEF RateTypeOK, TickMinute, counters, Minute
<1>7. CASE Flush
  BY <1>7 DEF RateTypeOK, Flush
<1>8. CASE UNCHANGED rateVars
  BY <1>8 DEF RateTypeOK, rateVars, counters
<1> QED BY <1>1, <1>2, <1>3, <1>4, <1>5, <1>6, <1>7, <1>8 DEF RateNext, CallStep

----------------------------------------------------------------------------
LEMMA IncrStep ==
    ASSUME IInv, RateTypeOK', NEW r \in Call, Incr(r)
    PROVE  RequestOK' /\ TTLOK' /\ WindowOK' /\ ToldOK' /\ DistinctOK'
<1> USE DEF IInv
<1> DEFINE i == id[r]
           m == minute[r]
           n == count[i][m] + 1
<1>1. /\ i \in Identifier /\ m \in Minute /\ got[r] = 0 /\ gate[r] = "incr"
      /\ ran'[r] = clock
      /\ UNCHANGED <<clock, ttl, flushes, id, minute>>
      /\ got'[r] = n /\ count'[i][m] = n /\ life'[r] = flushes
      /\ \A j \in Identifier, k \in Minute : j # i \/ k # m => count'[j][k] = count[j][k]
      /\ \A s \in Call : s # r => /\ got'[s] = got[s] /\ life'[s] = life[s]
                                  /\ ran'[s] = ran[s] /\ gate'[s] = gate[s]
      /\ gate'[r] \in {"expire", "error", Verdict(i, n)}
  BY IncrEffect
<1>2. n \in Nat /\ n > 0 /\ count[i][m] \in Nat /\ flushes \in Nat
  BY <1>1 DEF RateTypeOK
<1> HIDE DEF n
<1>3. RequestOK'
  <2> SUFFICES ASSUME NEW s \in Call PROVE RequestOK!(s)'
    BY DEF RequestOK
  <2>1. CASE s # r
    BY <1>1, <2>1 DEF RequestOK
  <2>2. CASE s = r
    <3>1. limit[i] \in Nat
      BY <1>1
    <3>2. /\ Verdict(i, n) = "allowed" => n <= limit[i]
          /\ Verdict(i, n) = "exceeded" => n > limit[i]
          /\ Verdict(i, n) \in {"allowed", "exceeded"}
      BY <1>2, <3>1 DEF Verdict
    <3> QED BY <1>1, <1>2, <2>2, <3>2 DEF RequestOK
  <2> QED BY <2>1, <2>2
<1>4. TTLOK'
  BY <1>1 DEF TTLOK
<1>5. WindowOK'
  <2> SUFFICES ASSUME NEW s \in Call, got'[s] > 0, life'[s] = flushes, clock <= minute[s] + 1
               PROVE  got'[s] <= count'[id[s]][minute[s]]
    BY <1>1 DEF WindowOK
  <2>1. CASE s = r
    BY <1>1, <1>2, <2>1
  <2>2. CASE s # r
    <3>1. got[s] > 0 /\ life[s] = flushes /\ got'[s] = got[s]
      BY <1>1, <2>2
    <3>2. got[s] <= count[id[s]][minute[s]] /\ id[s] \in Identifier /\ minute[s] \in Minute
      BY <3>1 DEF WindowOK, RequestOK, RateTypeOK
    <3>3. count[id[s]][minute[s]] \in Nat /\ got[s] \in Nat
      BY <3>2 DEF RateTypeOK
    <3>4. CASE id[s] = i /\ minute[s] = m
      BY <1>1, <1>2, <3>1, <3>2, <3>3, <3>4 DEF n
    <3>5. CASE id[s] # i \/ minute[s] # m
      BY <1>1, <3>1, <3>2, <3>5
    <3> QED BY <3>4, <3>5
  <2> QED BY <2>1, <2>2
<1>6. \A j, k, e : \A s \in Counted(j, k, e) : s # r /\ s \in Counted(j, k, e)' /\ got'[s] = got[s]
  BY <1>1 DEF Counted
<1>7. r \in Counted(i, m, flushes)'
  BY <1>1, <1>2 DEF Counted
<1>8. ToldOK'
  <2>1. ASSUME NEW j \in Identifier, NEW k \in Minute, NEW x \in 1..count'[j][k]
        PROVE  \E s \in Counted(j, k, flushes)' : got'[s] = x
    <3>1. CASE j = i /\ k = m /\ x = n
      BY <1>1, <1>7, <3>1
    <3>2. CASE j # i \/ k # m \/ x # n
      <4>1. x \in 1..count[j][k]
        BY <1>1, <1>2, <3>2 DEF n
      <4>2. PICK s \in Counted(j, k, flushes) : got[s] = x
        BY <4>1 DEF ToldOK
      <4>3. s \in Counted(j, k, flushes)' /\ got'[s] = x
        BY <1>1, <1>6, <4>2 DEF Counted
      <4> QED BY <4>3
    <3> QED BY <3>1, <3>2
  <2>2. ASSUME NEW s \in Call, NEW x \in 1..got'[s]
        PROVE  \E t \in Counted(id[s], minute[s], life[s])' : got'[t] = x
    <3>1. CASE s # r
      <4>1. x \in 1..got[s]
        BY <1>1, <3>1
      <4>2. PICK t \in Counted(id[s], minute[s], life[s]) : got[t] = x
        BY <4>1 DEF ToldOK
      <4>3. life'[s] = life[s]
        BY <1>1, <3>1
      <4> QED BY <1>1, <1>6, <4>2, <4>3 DEF Counted
    <3>2. CASE s = r
      <4>1. \E t \in Counted(i, m, flushes)' : got'[t] = x
        BY <1>1, <2>1, <3>2
      <4> QED BY <1>1, <3>2, <4>1 DEF Counted
    <3> QED BY <3>1, <3>2
  <2> QED BY <1>1, <2>1, <2>2 DEF ToldOK, Counted
<1>9. DistinctOK'
  <2>1. ASSUME NEW s \in Call, s # r, got[s] = n,
               id[s] = i, minute[s] = m, life[s] = flushes, clock <= m + 1
        PROVE  FALSE
    <3>1. got[s] <= count[i][m]
      BY <1>1, <1>2, <2>1 DEF WindowOK
    <3> QED BY <1>2, <2>1, <3>1 DEF n
  <2> QED BY <1>1, <2>1 DEF DistinctOK, Timely
<1> QED BY <1>3, <1>4, <1>5, <1>8, <1>9

\* A step that tells no request a number, flushes nothing and at most empties
\* windows that are closed.
LEMMA QuietStep ==
    ASSUME IInv, RateTypeOK', UNCHANGED <<flushes, ran, got, life>>, clock' >= clock,
           \A r \in Call : got[r] > 0 => id'[r] = id[r] /\ minute'[r] = minute[r],
           \A i \in Identifier, m \in Minute :
                count'[i][m] = count[i][m] \/ (count'[i][m] = 0 /\ clock >= m + 2)
    PROVE  WindowOK' /\ ToldOK' /\ DistinctOK'
<1> USE DEF IInv
<1>1. clock \in Nat /\ clock' \in Nat /\ flushes \in Nat
  BY DEF RateTypeOK, Minute
<1>2. WindowOK'
  <2> SUFFICES ASSUME NEW r \in Call, got[r] > 0, life[r] = flushes, clock' <= minute[r] + 1
               PROVE  got[r] <= count'[id[r]][minute[r]]
    BY DEF WindowOK
  <2>1. gate[r] # "idle" /\ minute[r] \in Minute /\ minute[r] \in Nat
    BY DEF RequestOK, RateTypeOK, Minute
  <2>2. id[r] \in Identifier /\ clock <= minute[r] + 1
    BY <1>1, <2>1 DEF RequestOK
  <2>3. count'[id[r]][minute[r]] = count[id[r]][minute[r]]
    BY <1>1, <2>1, <2>2
  <2> QED BY <2>2, <2>3 DEF WindowOK
<1>3. \A i, m, e : Counted(i, m, e)' = Counted(i, m, e)
  BY DEF Counted
<1>4. ToldOK'
  <2>1. ASSUME NEW i \in Identifier, NEW m \in Minute, NEW k \in 1..count'[i][m]
        PROVE  k \in 1..count[i][m]
    <3>1. count[i][m] \in Nat
      BY DEF RateTypeOK
    <3> QED BY <3>1
  <2>2. ASSUME NEW r \in Call, NEW k \in 1..got[r]
        PROVE  \E t \in Counted(id[r], minute[r], life[r])' : got[t] = k
    <3>1. got[r] > 0 /\ id'[r] = id[r] /\ minute'[r] = minute[r]
      BY DEF RateTypeOK
    <3>2. PICK t \in Counted(id[r], minute[r], life[r]) : got[t] = k
      BY DEF ToldOK
    <3> QED BY <3>1, <3>2 DEF Counted
  <2>3. ASSUME NEW i \in Identifier, NEW m \in Minute, NEW k \in 1..count'[i][m]
        PROVE  \E t \in Counted(i, m, flushes)' : got'[t] = k
    <3>1. PICK t \in Counted(i, m, flushes) : got[t] = k
      BY <2>1 DEF ToldOK
    <3> QED BY <3>1 DEF Counted
  <2> QED BY <2>2, <2>3 DEF ToldOK
<1>5. DistinctOK'
  BY DEF DistinctOK, Timely
<1> QED BY <1>2, <1>4, <1>5

LEMMA FlushStep ==
    ASSUME IInv, RateTypeOK', Flush
    PROVE  RequestOK' /\ TTLOK' /\ WindowOK' /\ ToldOK' /\ DistinctOK'
<1> USE DEF IInv
<1>1. /\ flushes' = flushes + 1 /\ flushes \in Nat
      /\ \A i \in Identifier, m \in Minute : count'[i][m] = 0 /\ ttl'[i][m] = 0
      /\ UNCHANGED <<clock, gate, id, minute, ran, got, life>>
  BY DEF Flush, RateTypeOK
<1>2. \A r \in Call : life[r] <= flushes /\ life[r] \in Nat
  BY DEF RequestOK, RateTypeOK
<1>3. RequestOK'
  BY <1>1, <1>2 DEF RequestOK
<1>4. TTLOK' /\ DistinctOK'
  BY <1>1 DEF TTLOK, DistinctOK, Timely
<1>5. WindowOK'
  BY <1>1, <1>2 DEF WindowOK
<1>6. ToldOK'
  <2>1. \A i, m, e : Counted(i, m, e)' = Counted(i, m, e)
    BY <1>1 DEF Counted
  <2> QED BY <1>1, <2>1 DEF ToldOK
<1> QED BY <1>3, <1>4, <1>5, <1>6

----------------------------------------------------------------------------
LEMMA InitIInv == RateInit => IInv
<1> SUFFICES ASSUME RateInit PROVE IInv
  OBVIOUS
<1>1. RateTypeOK
  BY DEF RateInit, RateTypeOK, Minute
<1>2. RequestOK /\ TTLOK /\ WindowOK /\ ToldOK /\ DistinctOK
  BY DEF RateInit, RequestOK, TTLOK, WindowOK, ToldOK, DistinctOK
<1> QED BY <1>1, <1>2 DEF IInv

LEMMA NextIInv == IInv /\ [RateNext]_rateVars => IInv'
<1> SUFFICES ASSUME IInv, [RateNext]_rateVars PROVE IInv'
  OBVIOUS
<1> USE DEF IInv
<1> DEFINE Rest == RequestOK /\ TTLOK /\ WindowOK /\ ToldOK /\ DistinctOK
<1>0. RateTypeOK'
  BY TypeStep
<1> SUFFICES Rest'
  BY <1>0
<1>a. clock \in Nat /\ \A r \in Call : got[r] \in Nat /\ minute[r] \in Nat
  BY DEF RateTypeOK, Minute
<1>1. ASSUME NEW r \in Call, NEW i \in Identifier, Arrive(r, i) PROVE Rest'
  <2>1. /\ UNCHANGED <<clock, count, ttl, flushes, ran, got, life>>
        /\ gate[r] = "idle" /\ gate'[r] = "incr" /\ id'[r] = i /\ minute'[r] = clock
        /\ \A s \in Call : s # r => gate'[s] = gate[s] /\ id'[s] = id[s] /\ minute'[s] = minute[s]
    BY <1>1 DEF Arrive, counters, RateTypeOK
  <2>2. got[r] = 0
    BY <2>1 DEF RequestOK
  <2>3. WindowOK' /\ ToldOK' /\ DistinctOK'
    <3>1. \A s \in Call : got[s] > 0 => id'[s] = id[s] /\ minute'[s] = minute[s]
      BY <2>1, <2>2
    <3> QED BY <1>0, <1>a, <2>1, <3>1, QuietStep
  <2>4. RequestOK'
    BY <1>a, <2>1, <2>2 DEF RequestOK
  <2>5. TTLOK'
    BY <2>1 DEF TTLOK
  <2> QED BY <2>3, <2>4, <2>5
<1>2. ASSUME NEW r \in Call, Incr(r) PROVE Rest'
  BY <1>0, <1>2, IncrStep
<1>3. ASSUME NEW r \in Call, Expire(r) PROVE Rest'
  <2>1. /\ UNCHANGED <<clock, count, flushes, id, minute, ran, got, life>>
        /\ gate[r] = "expire" /\ gate'[r] \in {"error", Verdict(id[r], got[r])}
        /\ \A s \in Call : s # r => gate'[s] = gate[s]
    BY <1>3 DEF Expire, RateTypeOK
  <2>2. id[r] \in Identifier /\ minute[r] \in Minute /\ minute[r] <= clock /\ got[r] > 0
    BY <2>1 DEF RequestOK, RateTypeOK
  <2>3. RequestOK'
    <3>1. limit[id[r]] \in Nat
      BY <2>2
    <3>2. /\ Verdict(id[r], got[r]) = "allowed" => got[r] <= limit[id[r]]
          /\ Verdict(id[r], got[r]) = "exceeded" => got[r] > limit[id[r]]
          /\ Verdict(id[r], got[r]) \in {"allowed", "exceeded"}
      BY <1>a, <3>1 DEF Verdict
    <3> QED BY <2>1, <2>2, <3>2 DEF RequestOK
  <2>4. TTLOK'
    <3>1. \A i \in Identifier, m \in Minute :
             ttl'[i][m] = ttl[i][m] \/ (m = minute[r] /\ ttl'[i][m] = clock + 2)
      BY <1>3, <2>2 DEF Expire, Expiry, RateTypeOK
    <3> QED BY <1>a, <2>2, <3>1 DEF TTLOK
  <2> QED BY <1>0, <1>a, <2>1, <2>3, <2>4, QuietStep
<1>4. ASSUME NEW r \in Call, Drop(r) PROVE Rest'
  <2>1. /\ UNCHANGED <<clock, count, ttl, flushes, id, minute, ran, got, life>>
        /\ gate[r] = "incr" /\ gate'[r] = "error"
        /\ \A s \in Call : s # r => gate'[s] = gate[s]
    BY <1>4 DEF Drop, counters, RateTypeOK
  <2>2. RequestOK' /\ TTLOK'
    BY <2>1 DEF RequestOK, TTLOK
  <2> QED BY <1>0, <1>a, <2>1, <2>2, QuietStep
<1>5. ASSUME NEW i \in Identifier, NEW m \in Minute, RemoveExpired(i, m) PROVE Rest'
  <2>1. /\ UNCHANGED <<clock, flushes, gate, id, minute, ran, got, life>>
        /\ ttl[i][m] # 0 /\ clock >= ttl[i][m]
        /\ \A j \in Identifier, k \in Minute :
              \/ count'[j][k] = count[j][k] /\ ttl'[j][k] = ttl[j][k]
              \/ j = i /\ k = m /\ count'[j][k] = 0 /\ ttl'[j][k] = 0
    BY <1>5 DEF RemoveExpired, RateTypeOK
  <2>2. ttl[i][m] >= m + 2 /\ ttl[i][m] \in Nat /\ m \in Nat
    BY <2>1 DEF TTLOK, RateTypeOK, Minute
  <2>3. clock >= m + 2
    BY <1>a, <2>1, <2>2
  <2>4. RequestOK'
    BY <2>1 DEF RequestOK
  <2>5. TTLOK'
    BY <2>1 DEF TTLOK
  <2> QED BY <1>0, <1>a, <2>1, <2>3, <2>4, <2>5, QuietStep
<1>6. CASE TickMinute
  <2>1. UNCHANGED <<count, ttl, flushes, gate, id, minute, ran, got, life>> /\ clock' = clock + 1
    BY <1>6 DEF TickMinute, counters
  <2>2. RequestOK' /\ TTLOK'
    BY <1>a, <2>1 DEF RequestOK, TTLOK
  <2> QED BY <1>0, <1>a, <2>1, <2>2, QuietStep
<1>7. CASE Flush
  BY <1>0, <1>7, FlushStep
<1>8. CASE UNCHANGED rateVars
  <2>1. RequestOK' /\ TTLOK'
    BY <1>8 DEF RequestOK, TTLOK, rateVars, counters
  <2> QED BY <1>0, <1>8, <1>a, <2>1, QuietStep DEF rateVars, counters
<1> QED BY <1>1, <1>2, <1>3, <1>4, <1>5, <1>6, <1>7, <1>8 DEF RateNext, CallStep

\* The invariant behind the limits: numbers are told once per life of a window.
THEOREM Invariance == RateSpec => []IInv
BY InitIInv, NextIInv, PTL DEF RateSpec

\* Every variable of the limiter keeps its type.
THEOREM TypeCorrect == RateSpec => []RateTypeOK
<1>1. IInv => RateTypeOK
  BY DEF IInv
<1> QED BY <1>1, Invariance, PTL

\* At most limit[i] requests of a window whose INCR ran in its minute or the next
\* pass, whatever the interleaving of the INCRs, the late ones included, and the
\* removal of keys by their TTL.
THEOREM LimitHolds == RateSpec => []AtMostLimit
<1>1. IInv => AtMostLimit
  <2> SUFFICES ASSUME IInv, NEW i \in Identifier, NEW m \in Minute, NEW e
               PROVE  Cardinality({r \in Counted(i, m, e) : Timely(r) /\ gate[r] = "allowed"}) <= limit[i]
    BY DEF AtMostLimit
  <2> DEFINE S == {r \in Counted(i, m, e) : Timely(r) /\ gate[r] = "allowed"}
             f == [r \in S |-> got[r]]
  <2>1. limit[i] \in Nat
    OBVIOUS
  <2>2. \A r \in S : got[r] \in 1..limit[i]
    BY <2>1 DEF IInv, RequestOK, RateTypeOK, Counted
  <2>3. \A r, s \in S : got[r] = got[s] => r = s
    BY DEF IInv, DistinctOK, Counted
  <2>4. f \in Injection(S, 1..limit[i])
    BY <2>2, <2>3 DEF Injection, IsInjective
  <2>5. IsFiniteSet(1..limit[i]) /\ Cardinality(1..limit[i]) = limit[i]
    BY <2>1, FS_Interval
  <2> QED BY <2>4, <2>5, FS_Injection
<1> QED BY <1>1, Invariance, PTL

\* Nobody is refused while the window has room: limit[i] others have counted.
THEOREM RefusalJustified == RateSpec => []RefusedOnlyBeyondLimit
<1>1. IInv => RefusedOnlyBeyondLimit
  <2> SUFFICES ASSUME IInv, NEW r \in Call, gate[r] = "exceeded"
               PROVE  Cardinality(Counted(id[r], minute[r], life[r]) \ {r}) >= limit[id[r]]
    BY DEF RefusedOnlyBeyondLimit
  <2> DEFINE T == Counted(id[r], minute[r], life[r]) \ {r}
             n == limit[id[r]]
             f == [k \in 1..n |-> CHOOSE s \in T : got[s] = k]
  <2>1. id[r] \in Identifier /\ n \in Nat /\ got[r] > n /\ got[r] \in Nat
    BY DEF IInv, RequestOK, RateTypeOK
  <2>2. ASSUME NEW k \in 1..n PROVE f[k] \in T /\ got[f[k]] = k
    <3>1. k \in 1..got[r] /\ k # got[r]
      BY <2>1
    <3>2. \E s \in T : got[s] = k
      BY <3>1 DEF IInv, ToldOK
    <3> QED BY <3>2
  <2>3. f \in Injection(1..n, T)
    <3>1. f \in [1..n -> T]
      BY <2>2
    <3>2. \A a, b \in 1..n : f[a] = f[b] => a = b
      <4> HIDE DEF f
      <4> QED BY <2>2
    <3> HIDE DEF f
    <3> QED BY <3>1, <3>2 DEF Injection, IsInjective
  <2>4. IsFiniteSet(T)
    BY FS_Subset DEF Counted
  <2>5. Cardinality(1..n) = n
    BY <2>1, FS_Interval
  <2>6. Cardinality(1..n) <= Cardinality(T)
    BY <2>3, <2>4, FS_Injection
  <2> QED BY <2>5, <2>6
<1> QED BY <1>1, Invariance, PTL
=============================================================================
