----------------------------- MODULE SaltMining -----------------------------
(***************************************************************************)
(* SaltService::mine_salt: the search for a salt whose CREATE2 address ends *)
(* with the vanity suffix.  The index range 0..MAX_ITERATIONS-1 is cut into *)
(* chunks; rayon's find_map_any runs the chunks' closures on its workers;  *)
(* they share the flag `found' (relaxed atomics) and the mutex `result'.   *)
(*                                                                         *)
(* A salt is a number below SaltSpace (2^256 in the code).  Which salts    *)
(* give an address with the suffix is arbitrary: `vanity'.  The start salt *)
(* is a hash, so it is arbitrary too, the end of the salt space included.  *)
(***************************************************************************)
EXTENDS Integers

CONSTANTS
    SaltSpace,       \* salts are 0..SaltSpace-1 (U256)
    MAX_ITERATIONS,  \* salts tried
    CHUNK_SIZE,      \* salts tried by one closure
    NoSalt           \* None

ASSUME SizeAssumption ==
    /\ SaltSpace \in Nat \ {0}
    /\ MAX_ITERATIONS \in Nat \ {0}
    /\ CHUNK_SIZE \in Nat \ {0}
ASSUME NoSaltAssumption == NoSalt \notin Int

Salt == 0..(SaltSpace - 1)

Index == 0..(MAX_ITERATIONS - 1)

VARIABLES
    start,    \* start_u256
    vanity,   \* salts whose address ends with the suffix
    request,  \* progress of the HTTP request
    search,   \* progress of mine_salt_with_suffix on its blocking thread
    pc,       \* pc[c]: progress of the closure of chunk c
    pos,      \* pos[c]: the index the closure of chunk c tries next
    found,    \* the AtomicBool
    full,     \* rayon saw a closure return Some: the rest need not start
    result    \* the mutex: index of the MinedSalt, or NoSalt

vars == <<start, vanity, request, search, pc, pos, found, full, result>>

----------------------------------------------------------------------------
(* The arithmetic of the loop *)

\* MAX_ITERATIONS.div_ceil(CHUNK_SIZE)
num_chunks == (MAX_ITERATIONS + CHUNK_SIZE - 1) \div CHUNK_SIZE

Chunk == 0..(num_chunks - 1)

chunk_start(c) == c * CHUNK_SIZE

\* Mutant: one index short.
chunk_end_short(c) ==
    IF (c + 1) * CHUNK_SIZE < MAX_ITERATIONS THEN (c + 1) * CHUNK_SIZE - 1 ELSE MAX_ITERATIONS

\* ((c + 1) * CHUNK_SIZE).min(MAX_ITERATIONS), exclusive
chunk_end(c) ==
    IF (c + 1) * CHUNK_SIZE < MAX_ITERATIONS THEN (c + 1) * CHUNK_SIZE ELSE MAX_ITERATIONS

\* start_u256.wrapping_add(i)
salt_at(i) == (start + i) % SaltSpace

\* address_ends_with(compute_create2_address(salt), suffix)
Hit(i) == salt_at(i) \in vanity

\* What a relaxed load of `found' may return: a stale FALSE, never a wrong TRUE.
Loaded == {FALSE, found}

----------------------------------------------------------------------------
TypeOK ==
    /\ start \in Salt
    /\ vanity \subseteq Salt
    /\ request \in {"new", "mining", "ok", "error", "badrequest", "timeout"}
    /\ search \in {"no", "running", "returned"}
    /\ pc \in [Chunk -> {"ready", "search", "hit", "done", "skipped"}]
    /\ pos \in [Chunk -> Nat]
    /\ found \in BOOLEAN
    /\ full \in BOOLEAN
    /\ result \in Index \cup {NoSalt}

Init ==
    /\ start \in Salt
    /\ vanity \in SUBSET Salt
    /\ request = "new"
    /\ search = "no"
    /\ pc = [c \in Chunk |-> "ready"]
    /\ pos = [c \in Chunk |-> chunk_start(c)]
    /\ found = FALSE
    /\ full = FALSE
    /\ result = NoSalt

closure == <<pc, pos, found, full, result>>

----------------------------------------------------------------------------
(* The request *)

\* MineSaltRequest::validate, validate_request and MiningConfig::load pass, and
\* the search is spawned on a blocking thread; or one of them refuses.
MineSalt ==
    /\ request = "new"
    /\ \/ request' = "mining" /\ search' = "running"
       \/ request' = "badrequest" /\ UNCHANGED search
    /\ UNCHANGED <<start, vanity, closure>>

\* find_map_any returns once every closure has returned or was not started;
\* then the search returns what the mutex holds, not what find_map_any returned.
SearchReturns ==
    /\ search = "running"
    /\ \A c \in Chunk : pc[c] \in {"done", "skipped"}
    /\ search' = "returned"
    /\ UNCHANGED <<start, vanity, request, closure>>

\* process_result
ProcessResult ==
    /\ search = "returned"
    /\ request = "mining"
    /\ request' = IF result # NoSalt THEN "ok" ELSE "error"
    /\ UNCHANGED <<start, vanity, search, closure>>

\* The HTTP timeout answers first; the blocking thread goes on.
Timeout ==
    /\ request = "mining"
    /\ request' = "timeout"
    /\ UNCHANGED <<start, vanity, search, closure>>

----------------------------------------------------------------------------
(* The closure of one chunk *)

\* Mutant: a chunk may be skipped before anything was found.
Skip_early(c) ==
    /\ search = "running"
    /\ pc[c] = "ready"
    /\ pc' = [pc EXCEPT ![c] = "skipped"]
    /\ UNCHANGED <<start, vanity, request, search, pos, found, full, result>>

\* rayon does not start what is left once a closure returned Some.
Skip(c) ==
    /\ search = "running"
    /\ pc[c] = "ready"
    /\ full
    /\ pc' = [pc EXCEPT ![c] = "skipped"]
    /\ UNCHANGED <<start, vanity, request, search, pos, found, full, result>>

\* A worker takes the chunk and loads `found' once before the loop.
Start(c) ==
    /\ search = "running"
    /\ pc[c] = "ready"
    /\ \E seen \in Loaded :
          pc' = [pc EXCEPT ![c] = IF seen THEN "done" ELSE "search"]
    /\ UNCHANGED <<start, vanity, request, search, pos, found, full, result>>

\* Mutant: the index does not advance.
Try_stuck(c) == pc[c] = "search" /\ UNCHANGED vars

\* One turn of the loop: load `found', which may be stale, and try the salt of
\* this index.  A hit sets the flag; the result is stored by a later step.
Try(c) ==
    /\ pc[c] = "search"
    /\ \/ /\ pos[c] >= chunk_end(c)
          /\ pc' = [pc EXCEPT ![c] = "done"]
          /\ UNCHANGED <<pos, found>>
       \/ /\ pos[c] < chunk_end(c)
          /\ found
          /\ pc' = [pc EXCEPT ![c] = "done"]
          /\ UNCHANGED <<pos, found>>
       \/ /\ pos[c] < chunk_end(c)
          /\ ~Hit(pos[c])
          /\ pos' = [pos EXCEPT ![c] = pos[c] + 1]
          /\ UNCHANGED <<pc, found>>
       \/ /\ pos[c] < chunk_end(c)
          /\ Hit(pos[c])
          /\ pc' = [pc EXCEPT ![c] = "hit"]
          /\ found' = TRUE
          /\ UNCHANGED pos
    /\ UNCHANGED <<start, vanity, request, search, full, result>>

\* Mutant: the number of tries (i + 1) is stored for the index.
Store_next(c) ==
    /\ pc[c] = "hit"
    /\ result' = pos[c] + 1
    /\ pc' = [pc EXCEPT ![c] = "done"]
    /\ full' = TRUE
    /\ UNCHANGED <<start, vanity, request, search, pos, found>>

\* *result.lock() = Some(mined), whatever it held, then return Some(mined).
Store(c) ==
    /\ pc[c] = "hit"
    /\ result' = pos[c]
    /\ pc' = [pc EXCEPT ![c] = "done"]
    /\ full' = TRUE
    /\ UNCHANGED <<start, vanity, request, search, pos, found>>

ChunkStep(c) == Skip(c) \/ Start(c) \/ Try(c) \/ Store(c)

Next ==
    \/ MineSalt
    \/ SearchReturns
    \/ ProcessResult
    \/ Timeout
    \/ \E c \in Chunk : ChunkStep(c)

Spec == Init /\ [][Next]_vars

\* rayon runs every closure it was given, and the tasks are polled.
Fairness ==
    /\ \A c \in Chunk : WF_vars(ChunkStep(c))
    /\ WF_vars(SearchReturns)
    /\ WF_vars(ProcessResult)

FairSpec == Spec /\ Fairness

----------------------------------------------------------------------------
(* Properties *)

\* Whichever closures found a salt, stored it and overwrote each other's, the
\* mutex holds an index of the range whose address has the suffix.
ResultIsVanity == result # NoSalt => result \in Index /\ Hit(result)

\* "Failed to find salt" is only answered when no salt of the whole range
\* matches: neither the early exits nor the chunk borders lose one.
FailsOnlyIfNone == request = "error" => \A i \in Index : ~Hit(i)

\* No closure is left that could write to the mutex once it has been read.
ResultFrozen == [][search = "returned" => UNCHANGED result]_vars

\* The search ends, and a request is answered by it or by the timeout.
EverySearchEnds ==
    /\ search = "running" ~> search = "returned"
    /\ request = "mining" ~> request \in {"ok", "error", "timeout"}

\* The search implements AnyMatch over its range of indexes.
Answered == IF request \in {"ok", "error"} THEN <<result>> ELSE << >>

AM == INSTANCE AnyMatch WITH
        Range0 <- Index, good <- {i \in Index : Hit(i)}, answer <- Answered

ImplementsAnyMatch == AM!Spec

----------------------------------------------------------------------------
(* The inductive invariant behind the safety properties *)

\* A closure has tried, without a hit, every index before its position.
TriedOK ==
    \A c \in Chunk :
        /\ chunk_start(c) <= pos[c]
        /\ \A i \in Index : chunk_start(c) <= i /\ i < pos[c] => ~Hit(i)
        /\ pc[c] = "hit" => pos[c] \in Index /\ Hit(pos[c]) /\ found

\* A closure that ended early did so because a salt was found, and a found salt
\* is in the mutex or about to be stored.
EndsOK ==
    /\ \A c \in Chunk : pc[c] = "done" => found \/ pos[c] >= chunk_end(c)
    /\ \A c \in Chunk : pc[c] = "skipped" => full
    /\ full => result # NoSalt
    /\ found => result # NoSalt \/ \E c \in Chunk : pc[c] = "hit"

\* The search was read when all closures had ended.
PhaseOK ==
    /\ search = "no" => request \in {"new", "badrequest"}
    /\ search = "returned" => \A c \in Chunk : pc[c] \in {"done", "skipped"}
    /\ request = "ok" => search = "returned" /\ result # NoSalt
    /\ request = "error" => search = "returned" /\ result = NoSalt

IInv == TypeOK /\ TriedOK /\ EndsOK /\ PhaseOK /\ ResultIsVanity
=============================================================================
