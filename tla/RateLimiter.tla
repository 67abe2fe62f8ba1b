---------------------------- MODULE RateLimiter -----------------------------
(***************************************************************************)
(* check_and_increment, called by api_key_gate: one Redis counter per      *)
(* identifier and minute, INCR and then, for the first count, EXPIRE.      *)
(* Time counts minutes.  A request reads the clock, then sends INCR, which *)
(* has no timeout: it may run in any later minute.  The counter may be     *)
(* flushed by a server that starts (flush_all) and is removed when its     *)
(* TTL, two minutes, has elapsed; an INCR that runs after that starts a    *)
(* counter of the old minute again.                                        *)
(***************************************************************************)
EXTENDS Naturals, FiniteSets

CONSTANTS
    Identifier,  \* "key:{hash}" and "ip:{address}"
    limit,       \* limit[i]: RATE_LIMIT_WITH_API_KEY or _WITHOUT_API_KEY
    Call,        \* requests that reach the gate
    NoIdentifier, \* no identifier
    MaxMinute,   \* bound of the clock
    MaxFlush     \* bound of the number of flushes

ASSUME LimitAssumption == limit \in [Identifier -> Nat \ {0}]
ASSUME IdentifierAssumption == NoIdentifier \notin Identifier
ASSUME FiniteAssumption == IsFiniteSet(Call)
ASSUME BoundAssumption == MaxMinute \in Nat /\ MaxFlush \in Nat

Minute == 0..MaxMinute

VARIABLES
    clock,    \* unix time / 60
    count,    \* count[i][m]: value of rate:{i}:min:{m}, 0 when absent
    ttl,      \* ttl[i][m]: minute in which the key expires, 0 for no TTL
    flushes,  \* flushes so far
    gate,     \* gate[r]: progress of request r
    id,       \* id[r]: its identifier
    minute,   \* minute[r]: current_minute of request r
    ran,      \* ran[r]: minute in which INCR ran, 0 before
    got,      \* got[r]: what INCR returned, 0 before
    life      \* life[r]: flushes when INCR ran

counters == <<count, ttl, flushes>>
rateVars == <<clock, counters, gate, id, minute, ran, got, life>>

Outcome == {"allowed", "exceeded", "error"}

RateTypeOK ==
    /\ clock \in Minute
    /\ count \in [Identifier -> [Minute -> Nat]]
    /\ ttl \in [Identifier -> [Minute -> Nat]]
    /\ flushes \in Nat
    /\ gate \in [Call -> {"idle", "incr", "expire"} \cup Outcome]
    /\ id \in [Call -> Identifier \cup {NoIdentifier}]
    /\ minute \in [Call -> Minute]
    /\ ran \in [Call -> Minute]
    /\ got \in [Call -> Nat]
    /\ life \in [Call -> Nat]

RateInit ==
    /\ clock = 0
    /\ count = [i \in Identifier |-> [m \in Minute |-> 0]]
    /\ ttl = [i \in Identifier |-> [m \in Minute |-> 0]]
    /\ flushes = 0
    /\ gate = [r \in Call |-> "idle"]
    /\ id = [r \in Call |-> NoIdentifier]
    /\ minute = [r \in Call |-> 0]
    /\ ran = [r \in Call |-> 0]
    /\ got = [r \in Call |-> 0]
    /\ life = [r \in Call |-> 0]

----------------------------------------------------------------------------
\* Mutant: a count equal to the limit plus one still passes.
Verdict_late(i, n) == IF n > limit[i] + 1 THEN "exceeded" ELSE "allowed"

\* Mutant: the last request of the limit is refused.
Verdict_early(i, n) == IF n >= limit[i] THEN "exceeded" ELSE "allowed"

\* count > limit
Verdict(i, n) == IF n > limit[i] THEN "exceeded" ELSE "allowed"

\* Mutant: a TTL of 60 seconds.
Expiry_short == clock + 1

\* The minute in which a TTL of 120 seconds set now runs out.
Expiry == clock + 2

\* The gate picks the identifier and reads the clock.
Arrive(r, i) ==
    /\ gate[r] = "idle"
    /\ gate' = [gate EXCEPT ![r] = "incr"]
    /\ id' = [id EXCEPT ![r] = i]
    /\ minute' = [minute EXCEPT ![r] = clock]
    /\ UNCHANGED <<clock, counters, ran, got, life>>

\* Mutant: GET and SET instead of INCR, with the answer of the GET.
Incr_get(r) ==
    /\ gate[r] = "incr"
    /\ LET i == id[r]
           n == count[i][minute[r]] + 1
       IN  /\ count' \in {count, [count EXCEPT ![i][minute[r]] = n]}
           /\ ran' = [ran EXCEPT ![r] = clock]
           /\ got' = [got EXCEPT ![r] = n]
           /\ life' = [life EXCEPT ![r] = flushes]
           /\ gate' = [gate EXCEPT ![r] = IF n = 1 THEN "expire" ELSE Verdict(i, n)]
    /\ UNCHANGED <<clock, ttl, flushes, id, minute>>

\* INCR runs, however late.  It returns the new count, and the request goes on to
\* EXPIRE when it is 1; or the answer is lost (an error, a client that went away,
\* a crash) and so is the request.
Incr(r) ==
    /\ gate[r] = "incr"
    /\ LET i == id[r]
           n == count[i][minute[r]] + 1
       IN  /\ count' = [count EXCEPT ![i][minute[r]] = n]
           /\ ran' = [ran EXCEPT ![r] = clock]
           /\ got' = [got EXCEPT ![r] = n]
           /\ life' = [life EXCEPT ![r] = flushes]
           /\ gate' \in {[gate EXCEPT ![r] = IF n = 1 THEN "expire" ELSE Verdict(i, n)],
                       [gate EXCEPT ![r] = "error"]}
    /\ UNCHANGED <<clock, ttl, flushes, id, minute>>

\* EXPIRE key 120, by the request that counted 1.  On a key that is gone it does
\* nothing.  An error answers 500.
Expire(r) ==
    /\ gate[r] = "expire"
    /\ LET i == id[r]
           m == minute[r]
       IN  \/ /\ ttl' = IF count[i][m] > 0 THEN [ttl EXCEPT ![i][m] = Expiry] ELSE ttl
              /\ gate' \in {[gate EXCEPT ![r] = Verdict(i, got[r])],
                          [gate EXCEPT ![r] = "error"]}
           \/ /\ gate' = [gate EXCEPT ![r] = "error"]
              /\ UNCHANGED ttl
    /\ UNCHANGED <<clock, count, flushes, id, minute, ran, got, life>>

\* The request is dropped before its INCR.
Drop(r) ==
    /\ gate[r] = "incr"
    /\ gate' = [gate EXCEPT ![r] = "error"]
    /\ UNCHANGED <<clock, counters, id, minute, ran, got, life>>

----------------------------------------------------------------------------
\* Redis removes a key whose TTL has run out.
RemoveExpired(i, m) ==
    /\ ttl[i][m] # 0
    /\ clock >= ttl[i][m]
    /\ count' = [count EXCEPT ![i][m] = 0]
    /\ ttl' = [ttl EXCEPT ![i][m] = 0]
    /\ UNCHANGED <<clock, flushes, gate, id, minute, ran, got, life>>

TickMinute ==
    /\ clock < MaxMinute
    /\ clock' = clock + 1
    /\ UNCHANGED <<counters, gate, id, minute, ran, got, life>>

\* A server starts and deletes the prefixed keys.
Flush ==
    /\ flushes < MaxFlush
    /\ flushes' = flushes + 1
    /\ count' = [i \in Identifier |-> [m \in Minute |-> 0]]
    /\ ttl' = [i \in Identifier |-> [m \in Minute |-> 0]]
    /\ UNCHANGED <<clock, gate, id, minute, ran, got, life>>

CallStep(r) ==
    \/ \E i \in Identifier : Arrive(r, i)
    \/ Incr(r)
    \/ Expire(r)
    \/ Drop(r)

RateNext ==
    \/ \E r \in Call : CallStep(r)
    \/ \E i \in Identifier, m \in Minute : RemoveExpired(i, m)
    \/ TickMinute
    \/ Flush

RateSpec == RateInit /\ [][RateNext]_rateVars

----------------------------------------------------------------------------
(* Properties *)

\* The requests that counted in one life of a window: since flush number e, for
\* identifier i and minute m.
Counted(i, m, e) ==
    {r \in Call : got[r] > 0 /\ id[r] = i /\ minute[r] = m /\ life[r] = e}

\* INCR ran in the minute of the request or in the next one, the two minutes that
\* the TTL is said to cover (rate_limiter.rs:36).
Timely(r) == ran[r] <= minute[r] + 1

\* Of the requests of one identifier that read the same minute, those whose INCR
\* ran in that minute or the next pass at most limit[i] times, however they
\* interleave with each other, with later INCRs of the same window, with the
\* separate EXPIRE and with the removal of the key; only a flush starts the
\* window again.  More is not true: an INCR that Redis runs after the key's two
\* minutes starts the counter again, and its request passes as well, though
\* docs/api-key.md:13-14 says 10 (100) per minute.
AtMostLimit ==
    \A i \in Identifier, m \in Minute, e \in 0..flushes :
        Cardinality({r \in Counted(i, m, e) : Timely(r) /\ gate[r] = "allowed"}) <= limit[i]

\* A request is refused only after limit[i] others of its window have counted.
RefusedOnlyBeyondLimit ==
    \A r \in Call :
        gate[r] = "exceeded" =>
            Cardinality(Counted(id[r], minute[r], life[r]) \ {r}) >= limit[id[r]]

----------------------------------------------------------------------------
(* The inductive invariant behind the two limits *)

\* What a request knows at each stage.
RequestOK ==
    \A r \in Call :
        /\ gate[r] \in {"idle", "incr"} => got[r] = 0
        /\ gate[r] \in {"expire", "allowed", "exceeded"} => got[r] > 0
        /\ gate[r] # "idle" => id[r] \in Identifier
        /\ gate[r] = "allowed" => got[r] <= limit[id[r]]
        /\ gate[r] = "exceeded" => got[r] > limit[id[r]]
        /\ minute[r] <= clock
        /\ life[r] <= flushes

\* The key of a window outlives the window and the minute after it.
TTLOK == \A i \in Identifier, m \in Minute : ttl[i][m] # 0 => ttl[i][m] >= m + 2

\* In its minute and the next, the counter of a window is at least what any of
\* its requests was told.
WindowOK ==
    \A r \in Call :
        got[r] > 0 /\ life[r] = flushes /\ clock <= minute[r] + 1 =>
            got[r] <= count[id[r]][minute[r]]

\* Every smaller number than the counter, and than what a request was told, was
\* told to some request of the window.
ToldOK ==
    /\ \A i \in Identifier, m \in Minute : \A k \in 1..count[i][m] :
          \E s \in Counted(i, m, flushes) : got[s] = k
    /\ \A r \in Call : \A k \in 1..got[r] :
          \E s \in Counted(id[r], minute[r], life[r]) : got[s] = k

\* No number was told twice to INCRs in time, in one life of a window.
DistinctOK ==
    \A r, s \in Call :
        /\ Timely(r) /\ Timely(s)
        /\ got[r] > 0 /\ got[r] = got[s]
        /\ id[r] = id[s] /\ minute[r] = minute[s] /\ life[r] = life[s]
        => r = s

IInv == RateTypeOK /\ RequestOK /\ TTLOK /\ WindowOK /\ ToldOK /\ DistinctOK
=============================================================================
