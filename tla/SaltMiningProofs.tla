-------------------------- MODULE SaltMiningProofs --------------------------
(***************************************************************************)
(* Proofs about SaltMining for every range, chunk size, salt space, start  *)
(* salt and set of vanity salts, and for every schedule of the closures.   *)
(***************************************************************************)
EXTENDS SaltMining, TLAPS

USE SizeAssumption, NoSaltAssumption

\* The chunk borders: every index of the range is in some closure's loop.
LEMMA Covers ==
    ASSUME NEW i \in Index
    PROVE  \E c \in Chunk : chunk_start(c) <= i /\ i < chunk_end(c)
<1> DEFINE q == i \div CHUNK_SIZE
           r == i % CHUNK_SIZE
<1>1. i \in Nat /\ i <= MAX_ITERATIONS - 1
  BY DEF Index
<1>2. q \in Nat /\ r \in 0..(CHUNK_SIZE - 1) /\ i = CHUNK_SIZE * q + r
  BY <1>1
<1>3. num_chunks \in Int /\ MAX_ITERATIONS <= CHUNK_SIZE * num_chunks
  BY DEF num_chunks
<1> HIDE DEF q, r
<1>4. CHUNK_SIZE * q < CHUNK_SIZE * num_chunks
  BY <1>1, <1>2, <1>3
<1>5. q < num_chunks
  BY <1>2, <1>3, <1>4
<1>6. q \in Chunk
  BY <1>2, <1>3, <1>5 DEF Chunk
<1>7. (q + 1) * CHUNK_SIZE = CHUNK_SIZE * q + CHUNK_SIZE /\ q * CHUNK_SIZE = CHUNK_SIZE * q
  BY <1>2
<1> QED BY <1>1, <1>2, <1>6, <1>7 DEF chunk_start, chunk_end

\* A closure's loop stays inside the range.
LEMMA Borders ==
    ASSUME NEW c \in Chunk
    PROVE  /\ c \in Nat
           /\ chunk_start(c) \in Nat
           /\ chunk_end(c) \in Nat /\ chunk_end(c) <= MAX_ITERATIONS
<1>1. c \in Nat
  BY DEF Chunk
<1> QED BY <1>1 DEF chunk_start, chunk_end

----------------------------------------------------------------------------
\* One turn of the loop of chunk c, case by case.
LEMMA TryEffect ==
    ASSUME TypeOK, NEW c \in Chunk, Try(c)
    PROVE  /\ UNCHANGED <<start, vanity, request, search, full, result>>
           /\ pc' \in [Chunk -> {"ready", "search", "hit", "done", "skipped"}]
           /\ pos' \in [Chunk -> Nat]
           /\ found' \in BOOLEAN
           /\ \A b \in Chunk : b # c => pc'[b] = pc[b] /\ pos'[b] = pos[b]
           /\ pc[c] = "search"
           /\ \/ /\ pc'[c] = "done" /\ pos'[c] = pos[c] /\ found' = found
                 /\ found \/ pos[c] >= chunk_end(c)
              \/ /\ pc'[c] = "search" /\ pos'[c] = pos[c] + 1 /\ found' = found
                 /\ ~Hit(pos[c]) /\ pos[c] < chunk_end(c)
              \/ /\ pc'[c] = "hit" /\ pos'[c] = pos[c] /\ found'
                 /\ Hit(pos[c]) /\ pos[c] < chunk_end(c)
<1> USE DEF TypeOK
<1>1. CASE /\ pc' = [pc EXCEPT ![c] = "done"] /\ UNCHANGED <<pos, found>>
           /\ found \/ pos[c] >= chunk_end(c)
  BY <1>1 DEF Try
<1>2. CASE /\ pos' = [pos EXCEPT ![c] = pos[c] + 1] /\ UNCHANGED <<pc, found>>
           /\ ~Hit(pos[c]) /\ pos[c] < chunk_end(c)
  BY <1>2 DEF Try
<1>3. CASE /\ pc' = [pc EXCEPT ![c] = "hit"] /\ found' = TRUE /\ UNCHANGED pos
           /\ Hit(pos[c]) /\ pos[c] < chunk_end(c)
  BY <1>3 DEF Try
<1> QED BY <1>1, <1>2, <1>3 DEF Try

LEMMA TypeStep == ASSUME TypeOK, TriedOK, [Next]_vars PROVE TypeOK'
<1>1. CASE MineSalt
  BY <1>1 DEF TypeOK, MineSalt, closure
<1>2. CASE SearchReturns \/ ProcessResult \/ Timeout
  BY <1>2 DEF TypeOK, SearchReturns, ProcessResult, Timeout, closure
<1>3. ASSUME NEW c \in Chunk, Skip(c) \/ Start(c) PROVE TypeOK'
  BY <1>3 DEF TypeOK, Skip, Start
<1>4. ASSUME NEW c \in Chunk, Try(c) PROVE TypeOK'
  BY <1>4, TryEffect DEF TypeOK
<1>5. ASSUME NEW c \in Chunk, Store(c) PROVE TypeOK'
  BY <1>5 DEF TypeOK, Store, TriedOK
<1>6. CASE UNCHANGED vars
  BY <1>6 DEF TypeOK, vars
<1> QED BY <1>1, <1>2, <1>3, <1>4, <1>5, <1>6 DEF Next, ChunkStep

----------------------------------------------------------------------------
\* The steps of a closure preserve the rest of the invariant.
LEMMA TryStep ==
    ASSUME IInv, NEW c \in Chunk, Try(c)
    PROVE  TriedOK' /\ EndsOK' /\ PhaseOK' /\ ResultIsVanity'
<1> USE DEF IInv
<1>1. /\ UNCHANGED <<start, vanity, request, search, full, result>>
      /\ \A b \in Chunk : b # c => pc'[b] = pc[b] /\ pos'[b] = pos[b]
      /\ pc[c] = "search"
      /\ \/ /\ pc'[c] = "done" /\ pos'[c] = pos[c] /\ found' = found
            /\ found \/ pos[c] >= chunk_end(c)
         \/ /\ pc'[c] = "search" /\ pos'[c] = pos[c] + 1 /\ found' = found
            /\ ~Hit(pos[c]) /\ pos[c] < chunk_end(c)
         \/ /\ pc'[c] = "hit" /\ pos'[c] = pos[c] /\ found'
            /\ Hit(pos[c]) /\ pos[c] < chunk_end(c)
  BY TryEffect
<1>2. \A i : Hit(i)' <=> Hit(i)
  BY <1>1 DEF Hit, salt_at
<1>3. pos[c] \in Nat /\ found \in BOOLEAN
  BY DEF TypeOK
<1>4. TriedOK'
  <2> SUFFICES ASSUME NEW b \in Chunk PROVE TriedOK!(b)'
    BY DEF TriedOK
  <2>1. CASE b # c
    BY <1>1, <1>2, <2>1 DEF TriedOK
  <2>2. CASE b = c
    <3>1. chunk_start(c) <= pos'[c]
      BY <1>1, <1>3, Borders DEF TriedOK
    <3>2. ASSUME NEW i \in Index, chunk_start(c) <= i, i < pos'[c] PROVE ~Hit(i)
      <4>1. i \in Int
        BY DEF Index
      <4>2. i < pos[c] \/ (i = pos[c] /\ ~Hit(pos[c]))
        BY <1>1, <1>3, <3>2, <4>1
      <4> QED BY <3>2, <4>2 DEF TriedOK
    <3>3. pc'[c] = "hit" => pos'[c] \in Index /\ Hit(pos[c]) /\ found'
      BY <1>1, <1>3, Borders DEF Index
    <3> QED BY <1>1, <1>2, <2>2, <3>1, <3>2, <3>3
  <2> QED BY <2>1, <2>2
<1>5. EndsOK'
  <2>1. \A b \in Chunk : pc'[b] = "done" => found' \/ pos'[b] >= chunk_end(b)
    BY <1>1, <1>3 DEF EndsOK
  <2>2. \A b \in Chunk : pc'[b] = "skipped" => full
    BY <1>1 DEF EndsOK
  <2>3. found' => result # NoSalt \/ \E b \in Chunk : pc'[b] = "hit"
    BY <1>1 DEF EndsOK
  <2> QED BY <1>1, <2>1, <2>2, <2>3 DEF EndsOK
<1>6. PhaseOK'
  BY <1>1 DEF PhaseOK
<1>7. ResultIsVanity'
  BY <1>1, <1>2 DEF ResultIsVanity
<1> QED BY <1>4, <1>5, <1>6, <1>7

LEMMA StoreStep ==
    ASSUME IInv, NEW c \in Chunk, Store(c)
    PROVE  TriedOK' /\ EndsOK' /\ PhaseOK' /\ ResultIsVanity'
<1> USE DEF IInv
<1>1. /\ UNCHANGED <<start, vanity, request, search, pos, found>>
      /\ pc[c] = "hit" /\ pc'[c] = "done" /\ result' = pos[c] /\ full'
      /\ \A b \in Chunk : b # c => pc'[b] = pc[b]
  BY DEF Store, TypeOK
<1>2. \A i : Hit(i)' <=> Hit(i)
  BY <1>1 DEF Hit, salt_at
<1>3. pos[c] \in Index /\ Hit(pos[c]) /\ found /\ pos[c] # NoSalt
  BY <1>1 DEF TriedOK, Index
<1>4. TriedOK'
  BY <1>1, <1>2 DEF TriedOK
<1>5. EndsOK'
  BY <1>1, <1>3 DEF EndsOK
<1>6. PhaseOK'
  BY <1>1 DEF PhaseOK
<1>7. ResultIsVanity'
  BY <1>1, <1>2, <1>3 DEF ResultIsVanity
<1> QED BY <1>4, <1>5, <1>6, <1>7

LEMMA StartStep ==
    ASSUME IInv, NEW c \in Chunk, Skip(c) \/ Start(c)
    PROVE  TriedOK' /\ EndsOK' /\ PhaseOK' /\ ResultIsVanity'
<1> USE DEF IInv
<1>1. /\ UNCHANGED <<start, vanity, request, search, pos, found, full, result>>
      /\ pc[c] = "ready"
      /\ \/ pc'[c] = "search"
         \/ pc'[c] = "skipped" /\ full
         \/ pc'[c] = "done" /\ found
      /\ \A b \in Chunk : b # c => pc'[b] = pc[b]
  BY DEF Skip, Start, Loaded, TypeOK
<1>2. \A i : Hit(i)' <=> Hit(i)
  BY <1>1 DEF Hit, salt_at
<1>3. TriedOK'
  BY <1>1, <1>2 DEF TriedOK
<1>4. EndsOK'
  BY <1>1 DEF EndsOK
<1>5. PhaseOK'
  BY <1>1 DEF PhaseOK
<1>6. ResultIsVanity'
  BY <1>1, <1>2 DEF ResultIsVanity
<1> QED BY <1>3, <1>4, <1>5, <1>6

----------------------------------------------------------------------------
LEMMA InitIInv == Init => IInv
<1> SUFFICES ASSUME Init PROVE IInv
  OBVIOUS
<1>1. TypeOK
  BY Borders DEF Init, TypeOK
<1>2. TriedOK
  BY Borders DEF Init, TriedOK, Index
<1>3. EndsOK /\ PhaseOK /\ ResultIsVanity
  BY DEF Init, EndsOK, PhaseOK, ResultIsVanity
<1> QED BY <1>1, <1>2, <1>3 DEF IInv

LEMMA NextIInv == IInv /\ [Next]_vars => IInv'
<1> SUFFICES ASSUME IInv, [Next]_vars PROVE IInv'
  OBVIOUS
<1> DEFINE Rest == TriedOK /\ EndsOK /\ PhaseOK /\ ResultIsVanity
<1>0. TypeOK'
  BY TypeStep DEF IInv
<1> SUFFICES Rest'
  BY <1>0 DEF IInv
<1>1. ASSUME UNCHANGED <<start, vanity, closure>>, PhaseOK' PROVE Rest'
  <2>1. \A i : Hit(i)' <=> Hit(i)
    BY <1>1 DEF Hit, salt_at
  <2> QED BY <1>1, <2>1 DEF IInv, TriedOK, EndsOK, ResultIsVanity, closure
<1>2. CASE MineSalt
  BY <1>1, <1>2 DEF IInv, PhaseOK, MineSalt, closure
<1>3. CASE SearchReturns
  BY <1>1, <1>3 DEF IInv, PhaseOK, SearchReturns, closure
<1>4. CASE ProcessResult
  BY <1>1, <1>4 DEF IInv, PhaseOK, ProcessResult, closure
<1>5. CASE Timeout
  BY <1>1, <1>5 DEF IInv, PhaseOK, Timeout, closure
<1>6. ASSUME NEW c \in Chunk, ChunkStep(c) PROVE Rest'
  BY <1>6, TryStep, StoreStep, StartStep DEF ChunkStep
<1>7. CASE UNCHANGED vars
  BY <1>1, <1>7 DEF IInv, PhaseOK, vars, closure
<1> QED BY <1>2, <1>3, <1>4, <1>5, <1>6, <1>7 DEF Next

\* The invariant that carries the results below.
THEOREM Invariance == Spec => []IInv
BY InitIInv, NextIInv, PTL DEF Spec

\* When every closure has ended without a result, no index of the range hits.
LEMMA NothingLeft ==
    ASSUME IInv, search = "returned", result = NoSalt, NEW i \in Index
    PROVE  ~Hit(i)
<1> USE DEF IInv
<1>1. PICK c \in Chunk : chunk_start(c) <= i /\ i < chunk_end(c)
  BY Covers
<1>2. ~found /\ ~full
  BY DEF PhaseOK, EndsOK
<1>3. pc[c] = "done"
  BY <1>2 DEF PhaseOK, EndsOK
<1>4. pos[c] >= chunk_end(c)
  BY <1>2, <1>3 DEF EndsOK
<1>5. i < pos[c]
  BY <1>1, <1>4, Borders DEF Index, TypeOK
<1> QED BY <1>1, <1>5 DEF TriedOK

\* Every variable of the search keeps its type; in particular the mutex only
\* ever holds an index of the range.
THEOREM TypeCorrect == Spec => []TypeOK
<1>1. IInv => TypeOK
  BY DEF IInv
<1> QED BY <1>1, Invariance, PTL

\* The salt in the mutex gives an address with the suffix, whichever closures
\* raced for it.
THEOREM ResultCorrect == Spec => []ResultIsVanity
<1>1. IInv => ResultIsVanity
  BY DEF IInv
<1> QED BY <1>1, Invariance, PTL

\* A failure is reported only when no salt of the range would have done, however
\* stale the loads of `found' were and wherever the chunk borders fall.
THEOREM FailureCorrect == Spec => []FailsOnlyIfNone
<1>1. IInv => FailsOnlyIfNone
  <2> SUFFICES ASSUME IInv, request = "error", NEW i \in Index PROVE ~Hit(i)
    BY DEF FailsOnlyIfNone
  <2> QED BY NothingLeft DEF IInv, PhaseOK
<1> QED BY <1>1, Invariance, PTL

\* Once find_map_any has returned, no closure is left to write to the mutex.
THEOREM ResultIsFrozen == Spec => ResultFrozen
<1>1. IInv /\ [Next]_vars => [search = "returned" => UNCHANGED result]_vars
  <2> SUFFICES ASSUME IInv, Next, search = "returned" PROVE UNCHANGED result
    OBVIOUS
  <2>1. \A c \in Chunk : pc[c] \in {"done", "skipped"}
    BY DEF IInv, PhaseOK
  <2> QED BY <2>1 DEF Next, MineSalt, SearchReturns, ProcessResult, Timeout, closure,
                      ChunkStep, Skip, Start, Try, Store
<1> QED BY <1>1, Invariance, PTL DEF Spec, ResultFrozen

\* mine_salt answers at most once, with a vanity salt of its range if there is
\* one and with a failure only if there is none.
THEOREM Refinement == Spec => ImplementsAnyMatch
<1> DEFINE good == {i \in Index : Hit(i)}
<1>1. Init => AM!Init
  BY DEF Init, AM!Init, Answered
<1>2. IInv /\ [Next]_vars => [AM!Answer]_(AM!vars)
  <2> SUFFICES ASSUME IInv, [Next]_vars PROVE AM!Answer \/ UNCHANGED <<good, Answered>>
    BY DEF AM!vars
  <2>1. UNCHANGED <<start, vanity>>
    BY DEF Next, vars, MineSalt, SearchReturns, ProcessResult, Timeout,
           ChunkStep, Skip, Start, Try, Store
  <2>2. good' = good
    BY <2>1 DEF Hit, salt_at
  <2>3. CASE ProcessResult
    <3>1. Answered = << >> /\ Answered' = <<result>>
      BY <2>3 DEF ProcessResult, Answered, closure
    <3>2. result # NoSalt => result \in good
      BY DEF IInv, ResultIsVanity
    <3>3. result = NoSalt => good = {}
      BY <2>3, NothingLeft DEF ProcessResult
    <3> HIDE DEF good
    <3>4. AM!Answer
      BY <2>2, <3>1, <3>2, <3>3 DEF AM!Answer, good
    <3> QED BY <3>4
  <2>4. CASE ~ProcessResult
    <3>1. request' \in {"ok", "error"} <=> request \in {"ok", "error"}
      BY <2>4 DEF Next, vars, MineSalt, SearchReturns, Timeout, ChunkStep, Skip, Start, Try, Store
    <3>2. request \in {"ok", "error"} => UNCHANGED result
      <4> SUFFICES ASSUME request \in {"ok", "error"} PROVE UNCHANGED result
        OBVIOUS
      <4>1. \A c \in Chunk : pc[c] \in {"done", "skipped"}
        BY DEF IInv, PhaseOK
      <4> QED BY <4>1 DEF Next, vars, MineSalt, SearchReturns, ProcessResult, Timeout, closure,
                          ChunkStep, Skip, Start, Try, Store
    <3> QED BY <2>2, <3>1, <3>2 DEF Answered
  <2> QED BY <2>3, <2>4
<1> QED BY <1>1, <1>2, Invariance, PTL DEF Spec, ImplementsAnyMatch, AM!Spec
=============================================================================
