---------------------------- MODULE NonceProofs -----------------------------
(***************************************************************************)
(* Proofs about Nonce, for any sets of addresses, messages and logins, and *)
(* whether or not replication is faster than the retry of take_nonce.      *)
(***************************************************************************)
EXTENDS Nonce, TLAPS

\* What a step of GenerateNonce does to the feed: the message is at its end.
LEMMA AppendFeed ==
    ASSUME NonceTypeOK, NEW a \in Address, NEW m \in Message,
           feed' = Append(feed, [address |-> a, message |-> m])
    PROVE  /\ feed' \in Seq(Upsert)
           /\ Len(feed') = Len(feed) + 1
           /\ \A i \in 1..Len(feed) : feed'[i] = feed[i]
           /\ feed'[Len(feed) + 1] = [address |-> a, message |-> m]
           /\ \A x \in Message : InFeed(x)' <=> (InFeed(x) \/ x = m)
<1> DEFINE u == [address |-> a, message |-> m]
<1>1. u \in Upsert /\ feed \in Seq(Upsert) /\ feed' = Append(feed, u)
  BY DEF NonceTypeOK, Upsert
<1>2. /\ feed' \in Seq(Upsert)
      /\ Len(feed') = Len(feed) + 1
      /\ \A i \in 1..Len(feed) : feed'[i] = feed[i]
      /\ feed'[Len(feed) + 1] = u
      /\ Len(feed) \in Nat
  BY <1>1
<1>3. ASSUME NEW x \in Message PROVE InFeed(x)' <=> (InFeed(x) \/ x = m)
  <2>1. InFeed(x)' => InFeed(x) \/ x = m
    <3>1. SUFFICES ASSUME NEW i \in 1..Len(feed'), feed'[i].message = x, x # m
                   PROVE  InFeed(x)
      BY DEF InFeed
    <3>2. i \in 1..Len(feed)
      BY <1>2, <3>1
    <3> QED BY <1>2, <3>1, <3>2 DEF InFeed
  <2>2. InFeed(x) => InFeed(x)'
    BY <1>2 DEF InFeed
  <2>3. x = m => InFeed(x)'
    BY <1>2 DEF InFeed
  <2> QED BY <2>1, <2>2, <2>3
<1> QED BY <1>2, <1>3

\* What Replicate does to the feed: its head leaves, and was there only once.
LEMMA TailFeed ==
    ASSUME NonceTypeOK, FeedOK, feed # << >>, feed' = Tail(feed)
    PROVE  /\ feed' \in Seq(Upsert)
           /\ Head(feed) \in Upsert
           /\ Head(feed) = feed[1]
           /\ 1 \in 1..Len(feed)
           /\ Len(feed') = Len(feed) - 1
           /\ \A i \in 1..Len(feed') : i + 1 \in 1..Len(feed) /\ feed'[i] = feed[i + 1]
           /\ InFeed(Head(feed).message)
           /\ \A x \in Message : InFeed(x)' <=> (InFeed(x) /\ x # Head(feed).message)
<1>1. feed \in Seq(Upsert)
  BY DEF NonceTypeOK
<1>2. /\ feed' \in Seq(Upsert)
      /\ Head(feed) \in Upsert
      /\ Head(feed) = feed[1]
      /\ Len(feed) \in Nat /\ 1 \in 1..Len(feed)
      /\ Len(feed') = Len(feed) - 1
      /\ \A i \in 1..Len(feed') : i + 1 \in 1..Len(feed) /\ feed'[i] = feed[i + 1]
  BY <1>1
<1>3. InFeed(Head(feed).message)
  BY <1>2 DEF InFeed
<1>4. ASSUME NEW x \in Message
      PROVE  InFeed(x)' <=> (InFeed(x) /\ x # Head(feed).message)
  <2>1. ASSUME InFeed(x)' PROVE InFeed(x) /\ x # Head(feed).message
    <3>1. PICK i \in 1..Len(feed') : feed'[i].message = x
      BY <2>1 DEF InFeed
    <3>2. i + 1 \in 1..Len(feed) /\ feed[i + 1].message = x /\ i + 1 # 1
      BY <1>2, <3>1
    <3>3. x # feed[1].message
      BY <1>2, <3>2 DEF FeedOK
    <3> QED BY <1>2, <3>2, <3>3 DEF InFeed
  <2>2. ASSUME InFeed(x), x # Head(feed).message PROVE InFeed(x)'
    <3>1. PICK i \in 1..Len(feed) : feed[i].message = x
      BY <2>2 DEF InFeed
    <3>2. i # 1
      BY <1>2, <2>2, <3>1
    <3>3. i - 1 \in 1..Len(feed') /\ feed'[i - 1] = feed[i]
      BY <1>2, <3>1, <3>2
    <3> QED BY <3>1, <3>3 DEF InFeed
  <2> QED BY <2>1, <2>2
<1> QED BY <1>2, <1>3, <1>4

\* A DELETE keeps the table well typed and at most clears the row of address a,
\* and that only when it holds message m.
LEMMA DeletedRow ==
    ASSUME NonceTypeOK, NEW a, NEW m
    PROVE  /\ Deleted(a, m) \in [Address -> Message \cup {Absent}]
           /\ \A b \in Address :
                \/ Deleted(a, m)[b] = auth_nonce[b]
                \/ b = a /\ auth_nonce[b] = m /\ m \notin expired /\ Deleted(a, m)[b] = Absent
           /\ Matches(a, m) /\ a \in Address => Deleted(a, m)[a] = Absent
BY DEF NonceTypeOK, Deleted, Matches

----------------------------------------------------------------------------
\* Every variable keeps its type.
LEMMA TypeStep == ASSUME IInv, [NonceNext]_nonceVars PROVE NonceTypeOK'
<1> USE DEF IInv
<1>1. ASSUME NEW a \in Address, NEW m \in Message, GenerateNonce(a, m) PROVE NonceTypeOK'
  <2>1. feed' \in Seq(Upsert)
    BY <1>1, AppendFeed DEF GenerateNonce
  <2> QED BY <1>1, <2>1 DEF NonceTypeOK, GenerateNonce
<1>2. CASE Replicate
  <2>1. feed' \in Seq(Upsert) /\ Head(feed) \in Upsert
    BY <1>2, TailFeed DEF Replicate
  <2> QED BY <1>2, <2>1 DEF NonceTypeOK, Replicate, Upsert
<1>3. ASSUME NEW m \in Message, ExpireNonce(m) PROVE NonceTypeOK'
  BY <1>3 DEF NonceTypeOK, ExpireNonce
<1>4. ASSUME NEW l \in Attempt, NEW a \in Address, NEW m \in Message, PostSession(l, a, m)
      PROVE  NonceTypeOK'
  BY <1>4 DEF NonceTypeOK, PostSession, Status, table
<1>5. ASSUME NEW l \in Attempt, TryTake(l) PROVE NonceTypeOK'
  <2>1. auth_nonce' \in [Address -> Message \cup {Absent}]
    BY <1>5, DeletedRow DEF TryTake
  <2>2. step' \in [Attempt -> Status]
    BY <1>5 DEF TryTake, NonceTypeOK, Status, AfterMiss
  <2> QED BY <1>5, <2>1, <2>2 DEF NonceTypeOK, TryTake
<1>6. ASSUME NEW l \in Attempt, Wake(l) PROVE NonceTypeOK'
  BY <1>6 DEF NonceTypeOK, Wake, Status, table
<1>7. ASSUME NEW l \in Attempt, GiveUp(l) PROVE NonceTypeOK'
  <2>1. signer[l] \in Address /\ nonce[l] \in Message
    BY <1>7 DEF GiveUp, Waiting, LoginOK, NonceTypeOK
  <2> QED BY <1>7, <2>1 DEF NonceTypeOK, GiveUp, Status, table, Upsert
<1>8. ASSUME NEW o \in orphans, OrphanRuns(o) PROVE NonceTypeOK'
  <2>1. auth_nonce' \in [Address -> Message \cup {Absent}]
    BY <1>8, DeletedRow DEF OrphanRuns
  <2> QED BY <1>8, <2>1 DEF NonceTypeOK, OrphanRuns
<1>9. CASE UNCHANGED nonceVars
  BY <1>9 DEF NonceTypeOK, nonceVars
<1> QED BY <1>1, <1>2, <1>3, <1>4, <1>5, <1>6, <1>7, <1>8, <1>9 DEF NonceNext, AttemptStep

\* A step that leaves the feed alone, and only clears rows of the table, keeps
\* what the feed and the table say.
LEMMA ClearingStep ==
    ASSUME IInv, NonceTypeOK', UNCHANGED <<feed, issued, known>>,
           \A b \in Address : auth_nonce'[b] \in {auth_nonce[b], Absent}
    PROVE  /\ FeedOK' /\ TableOK'
           /\ \A x \in Message : InFeed(x)' <=> InFeed(x)
           /\ \A x \in Message : Stored(x)' => Stored(x)
<1> USE DEF IInv
<1>1. \A x : InFeed(x)' <=> InFeed(x)
  BY DEF InFeed
<1>2. \A x \in Message : Stored(x)' => Stored(x)
  BY AbsentAssumption DEF Stored
<1>3. FeedOK'
  BY DEF FeedOK
<1>4. TableOK'
  BY <1>1 DEF TableOK, NonceTypeOK
<1> QED BY <1>1, <1>2, <1>3, <1>4

----------------------------------------------------------------------------
\* One lemma per action: the rest of the invariant.
LEMMA GenerateStep ==
    ASSUME IInv, NonceTypeOK', NEW a \in Address, NEW m \in Message, GenerateNonce(a, m)
    PROVE  FeedOK' /\ TableOK' /\ LoginOK' /\ OrphansOK' /\ NonceUsedOnce'
<1> USE DEF IInv
<1>1. /\ Len(feed') = Len(feed) + 1
      /\ \A i \in 1..Len(feed) : feed'[i] = feed[i]
      /\ feed'[Len(feed) + 1] = [address |-> a, message |-> m]
      /\ \A x \in Message : InFeed(x)' <=> (InFeed(x) \/ x = m)
      /\ Len(feed) \in Nat
  <2>1. feed' = Append(feed, [address |-> a, message |-> m]) /\ Len(feed) \in Nat
    BY DEF GenerateNonce, NonceTypeOK
  <2> QED BY <2>1, AppendFeed
<1>2. \A i \in 1..Len(feed) : /\ feed[i].message \in Message /\ feed[i].address \in Address
                              /\ feed[i].message # m
  <2>1. \A i \in 1..Len(feed) : feed[i] \in Upsert
    BY DEF NonceTypeOK
  <2>2. \A i \in 1..Len(feed) : feed[i].message \in Message /\ feed[i].address \in Address
    BY <2>1 DEF Upsert
  <2> QED BY <2>2, AbsentAssumption DEF FeedOK, GenerateNonce
<1>3. FeedOK'
  <2>1. ASSUME NEW i \in 1..Len(feed') PROVE issued'[feed'[i].message] = feed'[i].address
    <3>1. CASE i \in 1..Len(feed)
      BY <1>1, <1>2, <3>1 DEF FeedOK, GenerateNonce, NonceTypeOK
    <3>2. CASE i = Len(feed) + 1
      BY <1>1, <3>2 DEF GenerateNonce, NonceTypeOK
    <3> QED BY <1>1, <3>1, <3>2
  <2>2. ASSUME NEW i \in 1..Len(feed'), NEW j \in 1..Len(feed'),
               feed'[i].message = feed'[j].message
        PROVE  i = j
    <3>1. CASE i \in 1..Len(feed) /\ j \in 1..Len(feed)
      BY <1>1, <2>2, <3>1 DEF FeedOK
    <3>2. CASE i = Len(feed) + 1 \/ j = Len(feed) + 1
      BY <1>1, <1>2, <2>2, <3>2
    <3> QED BY <1>1, <3>1, <3>2
  <2> QED BY <2>1, <2>2 DEF FeedOK
<1>4. \A b \in Address : auth_nonce[b] # m
  BY AbsentAssumption DEF TableOK, GenerateNonce, NonceTypeOK
<1>5. m \notin known
  BY DEF TableOK, GenerateNonce
<1>6. TableOK'
  <2>1. ASSUME NEW b \in Address, auth_nonce'[b] # Absent
        PROVE  issued'[auth_nonce'[b]] = b /\ ~InFeed(auth_nonce[b])'
    BY <1>1, <1>4, <2>1 DEF TableOK, GenerateNonce, NonceTypeOK
  <2>2. ASSUME NEW x \in known' PROVE issued'[x] # Absent
    BY <2>2, AbsentAssumption DEF TableOK, GenerateNonce, NonceTypeOK
  <2> QED BY <2>1, <2>2 DEF TableOK, GenerateNonce
<1>7. LoginOK'
  <2> SUFFICES ASSUME NEW l \in Attempt PROVE LoginOK!(l)'
    BY DEF LoginOK
  <2>1. step[l] \notin {"idle", "badrequest"} => nonce[l] \in Message /\ nonce[l] # m
    BY <1>5 DEF LoginOK, NonceTypeOK
  <2>2. step[l] \notin {"idle", "badrequest"} =>
          /\ issued'[nonce[l]] = issued[nonce[l]]
          /\ InFeed(nonce[l])' <=> InFeed(nonce[l])
          /\ Stored(nonce[l])' <=> Stored(nonce[l])
          /\ Matches(signer[l], nonce[l])' <=> Matches(signer[l], nonce[l])
    BY <1>1, <2>1 DEF GenerateNonce, NonceTypeOK, Stored, Matches
  <2> QED BY <2>1, <2>2 DEF LoginOK, GenerateNonce
<1>8. OrphansOK' /\ NonceUsedOnce'
  BY DEF OrphansOK, NonceUsedOnce, GenerateNonce
<1> QED BY <1>3, <1>6, <1>7, <1>8

LEMMA ReplicateStep ==
    ASSUME IInv, NonceTypeOK', Replicate
    PROVE  FeedOK' /\ TableOK' /\ LoginOK' /\ OrphansOK' /\ NonceUsedOnce'
<1> USE DEF IInv
<1> DEFINE h == Head(feed)
<1>1. /\ h \in Upsert /\ h = feed[1] /\ 1 \in 1..Len(feed)
      /\ Len(feed') = Len(feed) - 1
      /\ \A i \in 1..Len(feed') : i + 1 \in 1..Len(feed) /\ feed'[i] = feed[i + 1]
      /\ InFeed(h.message)
      /\ \A x \in Message : InFeed(x)' <=> (InFeed(x) /\ x # h.message)
  BY TailFeed DEF Replicate
<1>2. h.address \in Address /\ h.message \in Message /\ issued[h.message] = h.address
  BY <1>1 DEF Upsert, FeedOK
<1> HIDE DEF h
<1>3. FeedOK'
  BY <1>1 DEF FeedOK, Replicate
<1>4. /\ auth_nonce'[h.address] = h.message
      /\ \A b \in Address : b # h.address => auth_nonce'[b] = auth_nonce[b]
  BY <1>2 DEF Replicate, NonceTypeOK, h
<1>5. TableOK'
  <2>1. ASSUME NEW b \in Address, auth_nonce'[b] # Absent
        PROVE  issued[auth_nonce'[b]] = b /\ ~InFeed(auth_nonce[b])'
    BY <1>1, <1>2, <1>4, <2>1 DEF TableOK, NonceTypeOK
  <2> QED BY <2>1 DEF TableOK, Replicate
<1>6. LoginOK'
  <2> SUFFICES ASSUME NEW l \in Attempt PROVE LoginOK!(l)'
    BY DEF LoginOK
  <2>1. step[l] \notin {"idle", "badrequest"} => nonce[l] \in Message /\ signer[l] \in Address
    BY DEF LoginOK, NonceTypeOK
  <2>2. step[l] \notin {"idle", "badrequest"} => (InFeed(nonce[l])' => InFeed(nonce[l]))
    BY <1>1, <2>1 DEF Replicate
  <2>3. step[l] \notin {"idle", "badrequest"} /\ ~InFeed(nonce[l]) =>
          /\ Stored(nonce[l])' => Stored(nonce[l])
          /\ Matches(signer[l], nonce[l])' => Matches(signer[l], nonce[l])
    <3> SUFFICES ASSUME step[l] \notin {"idle", "badrequest"}, ~InFeed(nonce[l])
                 PROVE  /\ Stored(nonce[l])' => Stored(nonce[l])
                        /\ Matches(signer[l], nonce[l])' => Matches(signer[l], nonce[l])
      OBVIOUS
    <3>1. nonce[l] # h.message
      BY <1>1
    <3> QED BY <1>2, <1>4, <2>1, <3>1 DEF Stored, Matches, Replicate
  <2> QED BY <2>1, <2>2, <2>3 DEF LoginOK, Replicate
<1>7. OrphansOK' /\ NonceUsedOnce'
  BY DEF OrphansOK, NonceUsedOnce, Replicate
<1> QED BY <1>3, <1>5, <1>6, <1>7

LEMMA ExpireStep ==
    ASSUME IInv, NonceTypeOK', NEW m \in Message, ExpireNonce(m)
    PROVE  FeedOK' /\ TableOK' /\ LoginOK' /\ OrphansOK' /\ NonceUsedOnce'
<1> USE DEF IInv
<1>1. /\ FeedOK' /\ TableOK'
      /\ \A x \in Message : InFeed(x)' <=> InFeed(x)
      /\ \A x \in Message : Stored(x)' => Stored(x)
  BY ClearingStep DEF ExpireNonce
<1>2. LoginOK'
  <2>1. \A l \in Attempt : Matches(signer[l], nonce[l])' => Matches(signer[l], nonce[l])
    BY DEF Matches, ExpireNonce
  <2> QED BY <1>1, <2>1 DEF LoginOK, ExpireNonce, NonceTypeOK
<1>3. OrphansOK' /\ NonceUsedOnce'
  BY DEF OrphansOK, NonceUsedOnce, ExpireNonce
<1> QED BY <1>1, <1>2, <1>3

LEMMA PostStep ==
    ASSUME IInv, NonceTypeOK', NEW l \in Attempt, NEW a \in Address, NEW m \in Message,
           PostSession(l, a, m)
    PROVE  FeedOK' /\ TableOK' /\ LoginOK' /\ OrphansOK' /\ NonceUsedOnce'
<1> USE DEF IInv
<1>1. FeedOK' /\ TableOK'
  BY ClearingStep DEF PostSession, table
<1>2. LoginOK'
  <2> SUFFICES ASSUME NEW k \in Attempt PROVE LoginOK!(k)'
    BY DEF LoginOK
  <2>1. CASE k = l
    BY <2>1 DEF PostSession, table, NonceTypeOK
  <2>2. CASE k # l
    <3>1. step'[k] = step[k] /\ signer'[k] = signer[k] /\ nonce'[k] = nonce[k]
      BY <2>2 DEF PostSession, NonceTypeOK
    <3> QED BY <3>1 DEF LoginOK, PostSession, table, InFeed, Stored, Matches
  <2> QED BY <2>1, <2>2
<1>3. OrphansOK'
  <2>1. \A k \in Attempt : step[k] = "lost" =>
            step'[k] = "lost" /\ signer'[k] = signer[k] /\ nonce'[k] = nonce[k]
    BY DEF PostSession, NonceTypeOK
  <2> QED BY <2>1 DEF OrphansOK, PostSession
<1>4. NonceUsedOnce'
  <2>1. \A k \in Attempt : step'[k] = "accepted" => step[k] = "accepted" /\ nonce'[k] = nonce[k]
    BY DEF PostSession, NonceTypeOK
  <2> QED BY <2>1 DEF NonceUsedOnce
<1> QED BY <1>1, <1>2, <1>3, <1>4

LEMMA TakeStep ==
    ASSUME IInv, NonceTypeOK', NEW l \in Attempt, TryTake(l)
    PROVE  FeedOK' /\ TableOK' /\ LoginOK' /\ OrphansOK' /\ NonceUsedOnce'
<1> USE DEF IInv
<1> DEFINE s == signer[l]
           n == nonce[l]
<1>1. s \in Address /\ n \in Message /\ n \in known /\ step[l] \in {"take", "retake"}
  BY DEF TryTake, LoginOK, NonceTypeOK
<1>2. /\ \A b \in Address :
            \/ auth_nonce'[b] = auth_nonce[b]
            \/ b = s /\ auth_nonce[b] = n /\ auth_nonce'[b] = Absent
      /\ Matches(s, n) => auth_nonce'[s] = Absent
  BY <1>1, DeletedRow DEF TryTake
<1>3. /\ FeedOK' /\ TableOK'
      /\ \A x \in Message : InFeed(x)' <=> InFeed(x)
      /\ \A x \in Message : Stored(x)' => Stored(x)
  <2>1. \A b \in Address : auth_nonce'[b] \in {auth_nonce[b], Absent}
    BY <1>2
  <2> QED BY <2>1, ClearingStep DEF TryTake
<1>4. Matches(s, n) => /\ issued[n] = s /\ ~InFeed(n) /\ ~Stored(n)'
                       /\ \A k \in Attempt : step[k] = "accepted" => nonce[k] # n
  <2> SUFFICES ASSUME Matches(s, n)
               PROVE  /\ issued[n] = s /\ ~InFeed(n) /\ ~Stored(n)'
                      /\ \A k \in Attempt : step[k] = "accepted" => nonce[k] # n
    OBVIOUS
  <2>1. auth_nonce[s] = n /\ n # Absent
    BY <1>1, AbsentAssumption DEF Matches
  <2>2. issued[n] = s /\ ~InFeed(n)
    BY <1>1, <2>1 DEF TableOK
  <2>3. \A b \in Address : auth_nonce[b] = n => b = s
    BY <2>1, <2>2 DEF TableOK
  <2>4. ~Stored(n)'
    BY <1>1, <1>2, <2>1, <2>3 DEF Stored, TryTake
  <2>5. \A k \in Attempt : step[k] = "accepted" => nonce[k] # n
    BY <1>1, <2>1 DEF LoginOK, Stored
  <2> QED BY <2>2, <2>4, <2>5
<1>5. step' = [step EXCEPT ![l] = IF Matches(s, n) THEN "accepted" ELSE AfterMiss(l)]
  BY DEF TryTake
<1>6. /\ Matches(s, n) => step'[l] = "accepted"
      /\ ~Matches(s, n) => step'[l] = IF step[l] = "take" THEN "sleep" ELSE "refused"
      /\ \A k \in Attempt : k # l => step'[k] = step[k]
  BY <1>5 DEF NonceTypeOK, AfterMiss
<1>7. \A k \in Attempt : step[k] = "refused" /\ step'[k] = "refused" /\ ~Matches(signer[k], nonce[k])
          => ~Matches(signer[k], nonce[k])'
  <2> SUFFICES ASSUME NEW k \in Attempt, step[k] = "refused", Matches(signer[k], nonce[k])'
               PROVE  Matches(signer[k], nonce[k])
    OBVIOUS
  <2>1. signer[k] \in Address /\ nonce[k] \in Message
    BY DEF LoginOK, NonceTypeOK
  <2> QED BY <1>2, <2>1, AbsentAssumption DEF Matches, TryTake
<1>8. ~Matches(s, n) => ~Matches(s, n)'
  BY <1>1, <1>2, AbsentAssumption DEF Matches, TryTake
<1>9. LoginOK'
  <2> SUFFICES ASSUME NEW k \in Attempt PROVE LoginOK!(k)'
    BY DEF LoginOK
  <2> UNCHANGED <<signer, nonce, issued, known, expired>>
    BY DEF TryTake
  <2>1. CASE k = l
    BY <1>1, <1>3, <1>4, <1>6, <1>8, <2>1 DEF LoginOK
  <2>2. CASE k # l
    <3>1. step'[k] = step[k]
      BY <1>6, <2>2
    <3>2. step[k] \notin {"idle", "badrequest"} => nonce[k] \in Message
      BY DEF LoginOK, NonceTypeOK
    <3> QED BY <1>3, <1>7, <3>1, <3>2 DEF LoginOK
  <2> QED BY <2>1, <2>2
<1>10. OrphansOK'
  <2>1. \A k \in Attempt : step[k] = "lost" => step'[k] = "lost"
    BY <1>1, <1>6
  <2> QED BY <2>1 DEF OrphansOK, TryTake
<1>11. NonceUsedOnce'
  <2> SUFFICES ASSUME NEW j \in Attempt, NEW k \in Attempt, step'[j] = "accepted",
                      step'[k] = "accepted", nonce[j] = nonce[k]
               PROVE  j = k
    BY DEF NonceUsedOnce, TryTake
  <2>1. \A i \in Attempt : step'[i] = "accepted" => step[i] = "accepted" \/ (i = l /\ Matches(s, n))
    BY <1>6
  <2> QED BY <1>4, <2>1 DEF NonceUsedOnce
<1> QED BY <1>3, <1>9, <1>10, <1>11

LEMMA WakeStep ==
    ASSUME IInv, NonceTypeOK', NEW l \in Attempt, Wake(l)
    PROVE  FeedOK' /\ TableOK' /\ LoginOK' /\ OrphansOK' /\ NonceUsedOnce'
<1> USE DEF IInv
<1>1. FeedOK' /\ TableOK'
  BY ClearingStep DEF Wake, table
<1>2. /\ step[l] = "sleep" /\ step'[l] = "retake"
      /\ \A k \in Attempt : k # l => step'[k] = step[k]
  BY DEF Wake, NonceTypeOK
<1>3. LagBounded => ~InFeed(nonce[l])
  BY DEF Wake, InFeed
<1>4. LoginOK'
  <2> SUFFICES ASSUME NEW k \in Attempt PROVE LoginOK!(k)'
    BY DEF LoginOK
  <2>1. UNCHANGED <<signer, nonce, issued, known, feed, auth_nonce, expired>>
    BY DEF Wake, table
  <2>2. CASE k = l
    BY <1>2, <1>3, <2>1, <2>2 DEF LoginOK, InFeed, Stored, Matches
  <2>3. CASE k # l
    BY <1>2, <2>1, <2>3 DEF LoginOK, InFeed, Stored, Matches
  <2> QED BY <2>2, <2>3
<1>5. OrphansOK'
  <2>1. \A k \in Attempt : step[k] = "lost" => step'[k] = "lost"
    BY <1>2
  <2> QED BY <2>1 DEF OrphansOK, Wake
<1>6. NonceUsedOnce'
  <2>1. \A k \in Attempt : step'[k] = "accepted" => step[k] = "accepted"
    BY <1>2
  <2> QED BY <2>1 DEF NonceUsedOnce, Wake
<1> QED BY <1>1, <1>4, <1>5, <1>6

LEMMA GiveUpStep ==
    ASSUME IInv, NonceTypeOK', NEW l \in Attempt, GiveUp(l)
    PROVE  FeedOK' /\ TableOK' /\ LoginOK' /\ OrphansOK' /\ NonceUsedOnce'
<1> USE DEF IInv
<1>1. FeedOK' /\ TableOK'
  BY ClearingStep DEF GiveUp, table
<1>2. /\ step[l] \in Waiting /\ step'[l] = "lost"
      /\ \A k \in Attempt : k # l => step'[k] = step[k]
  BY DEF GiveUp, NonceTypeOK
<1>3. UNCHANGED <<signer, nonce, issued, known, feed, auth_nonce, expired>>
  BY DEF GiveUp, table
<1>4. LoginOK'
  <2> SUFFICES ASSUME NEW k \in Attempt PROVE LoginOK!(k)'
    BY DEF LoginOK
  <2>1. CASE k = l
    BY <1>2, <1>3, <2>1 DEF LoginOK, Waiting
  <2>2. CASE k # l
    BY <1>2, <1>3, <2>2 DEF LoginOK, InFeed, Stored, Matches
  <2> QED BY <2>1, <2>2
<1>5. OrphansOK'
  <2> SUFFICES ASSUME NEW o \in orphans'
               PROVE  \E k \in Attempt : step'[k] = "lost" /\ signer[k] = o.address
                                                     /\ nonce[k] = o.message
    BY <1>3 DEF OrphansOK
  <2>1. CASE o \in orphans
    <3>1. PICK k \in Attempt : step[k] = "lost" /\ signer[k] = o.address /\ nonce[k] = o.message
      BY <2>1 DEF OrphansOK
    <3> QED BY <1>2, <3>1
  <2>2. CASE o = [address |-> signer[l], message |-> nonce[l]]
    BY <1>2, <2>2
  <2> QED BY <2>1, <2>2 DEF GiveUp
<1>6. NonceUsedOnce'
  <2>1. \A k \in Attempt : step'[k] = "accepted" => step[k] = "accepted"
    BY <1>2
  <2> QED BY <1>3, <2>1 DEF NonceUsedOnce
<1> QED BY <1>1, <1>4, <1>5, <1>6

LEMMA OrphanStep ==
    ASSUME IInv, NonceTypeOK', NEW o \in orphans, OrphanRuns(o)
    PROVE  FeedOK' /\ TableOK' /\ LoginOK' /\ OrphansOK' /\ NonceUsedOnce'
<1> USE DEF IInv
<1>1. \A b \in Address : auth_nonce'[b] \in {auth_nonce[b], Absent}
  BY DeletedRow DEF OrphanRuns
<1>2. UNCHANGED <<step, signer, nonce, issued, known, feed, expired>>
  BY DEF OrphanRuns
<1>3. /\ FeedOK' /\ TableOK'
      /\ \A x \in Message : InFeed(x)' <=> InFeed(x)
      /\ \A x \in Message : Stored(x)' => Stored(x)
  BY <1>1, <1>2, ClearingStep
<1>4. LoginOK'
  <2> SUFFICES ASSUME NEW k \in Attempt PROVE LoginOK!(k)'
    BY DEF LoginOK
  <2>1. step[k] \notin {"idle", "badrequest"} => signer[k] \in Address /\ nonce[k] \in Message
    BY DEF LoginOK, NonceTypeOK
  <2>2. step[k] \notin {"idle", "badrequest"} =>
          (Matches(signer[k], nonce[k])' => Matches(signer[k], nonce[k]))
    BY <1>1, <1>2, <2>1, AbsentAssumption DEF Matches
  <2> QED BY <1>2, <1>3, <2>1, <2>2 DEF LoginOK
<1>5. OrphansOK' /\ NonceUsedOnce'
  BY <1>2 DEF OrphansOK, NonceUsedOnce, OrphanRuns
<1> QED BY <1>3, <1>4, <1>5

----------------------------------------------------------------------------
LEMMA InitIInv == NonceInit => IInv
<1> SUFFICES ASSUME NonceInit PROVE IInv
  OBVIOUS
<1>1. NonceTypeOK
  BY DEF NonceInit, NonceTypeOK, Status
<1>2. FeedOK /\ TableOK /\ LoginOK /\ OrphansOK /\ NonceUsedOnce
  BY DEF NonceInit, FeedOK, TableOK, LoginOK, OrphansOK, NonceUsedOnce
<1> QED BY <1>1, <1>2 DEF IInv

LEMMA NextIInv == IInv /\ [NonceNext]_nonceVars => IInv'
<1> SUFFICES ASSUME IInv, [NonceNext]_nonceVars PROVE IInv'
  OBVIOUS
<1> DEFINE Rest == FeedOK /\ TableOK /\ LoginOK /\ OrphansOK /\ NonceUsedOnce
<1>0. NonceTypeOK'
  BY TypeStep
<1> SUFFICES Rest'
  BY <1>0 DEF IInv
<1>1. ASSUME NEW a \in Address, NEW m \in Message, GenerateNonce(a, m) PROVE Rest'
  BY <1>0, <1>1, GenerateStep
<1>2. CASE Replicate
  BY <1>0, <1>2, ReplicateStep
<1>3. ASSUME NEW m \in Message, ExpireNonce(m) PROVE Rest'
  BY <1>0, <1>3, ExpireStep
<1>4. ASSUME NEW l \in Attempt, NEW a \in Address, NEW m \in Message, PostSession(l, a, m)
      PROVE  Rest'
  BY <1>0, <1>4, PostStep
<1>5. ASSUME NEW l \in Attempt, TryTake(l) PROVE Rest'
  BY <1>0, <1>5, TakeStep
<1>6. ASSUME NEW l \in Attempt, Wake(l) PROVE Rest'
  BY <1>0, <1>6, WakeStep
<1>7. ASSUME NEW l \in Attempt, GiveUp(l) PROVE Rest'
  BY <1>0, <1>7, GiveUpStep
<1>8. ASSUME NEW o \in orphans, OrphanRuns(o) PROVE Rest'
  BY <1>0, <1>8, OrphanStep
<1>9. CASE UNCHANGED nonceVars
  BY <1>9 DEF nonceVars, IInv, FeedOK, TableOK, LoginOK, OrphansOK, NonceUsedOnce,
              InFeed, Stored, Matches
<1> QED BY <1>1, <1>2, <1>3, <1>4, <1>5, <1>6, <1>7, <1>8, <1>9 DEF NonceNext, AttemptStep

\* The invariant that carries every safety result below.
THEOREM Invariance == NonceSpec => []IInv
BY InitIInv, NextIInv, PTL DEF NonceSpec

\* Every variable of the nonce protocol keeps its type, so in particular the
\* auth_nonce row of an address never holds anything but one message.
THEOREM TypeCorrect == NonceSpec => []NonceTypeOK
<1>1. IInv => NonceTypeOK
  BY DEF IInv
<1> QED BY <1>1, Invariance, PTL

\* However many logins race, retry or are abandoned, DELETE ... RETURNING lets
\* at most one of them through with a given message.
THEOREM NonceOnce == NonceSpec => []NonceUsedOnce
<1>1. IInv => NonceUsedOnce
  BY DEF IInv
<1> QED BY <1>1, Invariance, PTL

\* A login that create_session accepts signed a message issued to its address.
THEOREM SignerIsOwner == NonceSpec => []SignerOwnsNonce
<1>1. IInv => SignerOwnsNonce
  BY DEF IInv, LoginOK, SignerOwnsNonce
<1> QED BY <1>1, Invariance, PTL

\* When replication takes less than NONCE_REPLICATION_RETRY_DELAY, the single
\* retry of take_nonce never refuses a message that was only late.
THEOREM RetryRecovers == NonceSpec => []LateNonceRecovered
<1>1. IInv => LateNonceRecovered
  BY DEF IInv, LoginOK, LateNonceRecovered, InFeed
<1> QED BY <1>1, Invariance, PTL

\* A row leaves auth_nonce only for a login that signed the message it holds,
\* abandoned statements included.
THEOREM TakeIsSelective == NonceSpec => NewerNonceSurvives
<1>1. IInv /\ [NonceNext]_nonceVars => [RemovesOnlySigned]_nonceVars
  <2> SUFFICES ASSUME IInv, NonceNext, NEW a \in Address, auth_nonce[a] # Absent, auth_nonce'[a] = Absent
               PROVE  \E l \in Attempt : signer[l] = a /\ nonce[l] = auth_nonce[a]
    BY DEF RemovesOnlySigned
  <2>0. NonceTypeOK
    BY DEF IInv
  <2>1. ASSUME NEW l \in Attempt, TryTake(l) PROVE signer[l] = a /\ nonce[l] = auth_nonce[a]
    BY <2>0, <2>1, DeletedRow DEF TryTake
  <2>2. ASSUME NEW o \in orphans, OrphanRuns(o)
        PROVE  o.address = a /\ o.message = auth_nonce[a]
    BY <2>0, <2>2, DeletedRow DEF OrphanRuns
  <2>3. CASE Replicate
    <3>1. Head(feed).address \in Address /\ Head(feed).message \in Message
      BY <2>3, TailFeed DEF IInv, Replicate, Upsert
    <3> QED BY <2>0, <2>3, <3>1, AbsentAssumption DEF Replicate, NonceTypeOK
  <2>4. CASE UNCHANGED auth_nonce
    BY <2>4
  <2>5. \/ UNCHANGED auth_nonce
        \/ Replicate
        \/ \E l \in Attempt : TryTake(l)
        \/ \E o \in orphans : OrphanRuns(o)
    BY DEF NonceNext, AttemptStep, GenerateNonce, ExpireNonce, PostSession, Wake, GiveUp, table
  <2> QED BY <2>1, <2>2, <2>3, <2>4, <2>5 DEF IInv, OrphansOK
<1> QED BY <1>1, Invariance, PTL DEF NonceSpec, NewerNonceSurvives

----------------------------------------------------------------------------
\* A step that accepts nobody and forgets nobody leaves the grants alone.
LEMMA GrantsUnchanged ==
    ASSUME \A l \in Attempt : step'[l] = "accepted" <=> step[l] = "accepted",
           \A l \in Attempt : step[l] = "accepted" =>
                nonce'[l] = nonce[l] /\ signer'[l] = signer[l]
    PROVE  Grants' = Grants
<1>1. {k \in Attempt : step[k] = "accepted"}' = {k \in Attempt : step[k] = "accepted"}
  OBVIOUS
<1> QED BY <1>1 DEF Grants

\* Every step of the nonce store is a step of OneTimeGrant or changes nothing
\* that OneTimeGrant can see.
LEMMA StepRefines == IInv /\ [NonceNext]_nonceVars => [OTG!Next]_(OTG!vars)
<1> SUFFICES ASSUME IInv, [NonceNext]_nonceVars PROVE OTG!Next \/ UNCHANGED <<issued, Grants>>
  BY DEF OTG!vars
<1>0. NonceTypeOK
  BY DEF IInv
<1>1. ASSUME NEW a \in Address, NEW m \in Message, GenerateNonce(a, m) PROVE OTG!Next
  <2>1. Grants' = Grants
    BY <1>1, GrantsUnchanged DEF GenerateNonce
  <2>2. OTG!Issue(a, m)
    BY <1>1, <2>1 DEF GenerateNonce, OTG!Issue
  <2> QED BY <2>2 DEF OTG!Next
<1>2. ASSUME NEW l \in Attempt, TryTake(l) PROVE OTG!Next \/ UNCHANGED <<issued, Grants>>
  <2> DEFINE s == signer[l]
             n == nonce[l]
             g == [login |-> l, message |-> n, account |-> s]
  <2>1. s \in Address /\ n \in Message /\ step[l] # "accepted" /\ n # Absent
    BY <1>0, <1>2, AbsentAssumption DEF IInv, LoginOK, TryTake, NonceTypeOK
  <2>2. UNCHANGED <<issued, signer, nonce>>
    BY <1>2 DEF TryTake
  <2>3. /\ step'[l] = "accepted" <=> Matches(s, n)
        /\ \A k \in Attempt : k # l => step'[k] = step[k]
    BY <1>0, <1>2 DEF TryTake, AfterMiss, NonceTypeOK
  <2>4. CASE ~Matches(s, n)
    BY <2>1, <2>2, <2>3, <2>4, GrantsUnchanged
  <2>5. CASE Matches(s, n)
    <3>1. issued[n] = s
      BY <2>1, <2>5 DEF IInv, TableOK, Matches
    <3>2. \A k \in Attempt : step[k] = "accepted" => nonce[k] # n /\ k # l
      <4>1. Stored(n)
        BY <2>1, <2>5 DEF Stored, Matches
      <4> QED BY <2>1, <4>1 DEF IInv, LoginOK
    <3>3. \A x \in Grants : x.message # n /\ x.login # l
      BY <3>2 DEF Grants
    <3>4. {k \in Attempt : step'[k] = "accepted"} = {k \in Attempt : step[k] = "accepted"} \cup {l}
      BY <2>3, <2>5
    <3>5. Grants' = Grants \cup {g}
      BY <2>2, <3>4 DEF Grants
    <3>6. OTG!Grant(l, n)
      BY <2>1, <2>2, <3>1, <3>3, <3>5 DEF OTG!Grant
    <3> QED BY <2>1, <3>6 DEF OTG!Next
  <2> QED BY <2>4, <2>5
<1>3. ASSUME NEW l \in Attempt, NEW a \in Address, NEW m \in Message, PostSession(l, a, m)
      PROVE  UNCHANGED <<issued, Grants>>
  BY <1>0, <1>3, GrantsUnchanged DEF PostSession, NonceTypeOK, table
<1>4. ASSUME NEW l \in Attempt, Wake(l) \/ GiveUp(l) PROVE UNCHANGED <<issued, Grants>>
  BY <1>0, <1>4, GrantsUnchanged DEF Wake, GiveUp, Waiting, NonceTypeOK, table
<1>5. CASE UNCHANGED <<issued, step, nonce, signer>>
  BY <1>5, GrantsUnchanged
<1>6. \/ UNCHANGED <<issued, step, nonce, signer>>
      \/ \E a \in Address, m \in Message : GenerateNonce(a, m)
      \/ \E l \in Attempt : AttemptStep(l)
  BY DEF NonceNext, Replicate, ExpireNonce, OrphanRuns, nonceVars
<1> QED BY <1>1, <1>2, <1>3, <1>4, <1>5, <1>6 DEF AttemptStep

\* auth_nonce, its replication, the retry and the timeouts together implement a
\* one-time exchange of a message for a login.
THEOREM Refinement == NonceSpec => ImplementsOneTimeGrant
<1>1. NonceInit => OTG!Init
  <2> SUFFICES ASSUME NonceInit PROVE OTG!Init
    OBVIOUS
  <2>1. {k \in Attempt : step[k] = "accepted"} = {}
    BY DEF NonceInit
  <2> QED BY <2>1 DEF NonceInit, OTG!Init, Grants
<1> QED BY <1>1, StepRefines, Invariance, PTL DEF NonceSpec, ImplementsOneTimeGrant, OTG!Spec
=============================================================================
