---------------------------- MODULE SessionProofs ----------------------------
(***************************************************************************)
(* Theorems about Session, for any accounts, logins and requests: a request *)
(* acts for the account that signed the login of its session, and a logout  *)
(* ends no session but its own.                                             *)
(***************************************************************************)
EXTENDS Session, TLAPS

\* The elements of a sequence to which one was appended.
LEMMA AppendElements ==
  ASSUME NEW S, NEW s \in Seq(S), NEW e \in S
  PROVE  /\ Append(s, e) \in Seq(S)
         /\ \A i \in 1..Len(Append(s, e)) :
                Append(s, e)[i] = e \/ \E j \in 1..Len(s) : Append(s, e)[i] = s[j]
OBVIOUS

\* The elements of a sequence without its first one.
LEMMA TailElements ==
  ASSUME NEW S, NEW s \in Seq(S), s # << >>
  PROVE  /\ Tail(s) \in Seq(S)
         /\ Head(s) \in S
         /\ \E j \in 1..Len(s) : Head(s) = s[j]
         /\ \A i \in 1..Len(Tail(s)) : \E j \in 1..Len(s) : Tail(s)[i] = s[j]
OBVIOUS

\* A login has an address once it has begun, and no write is on its way before.
LoginsBegun ==
    \A l \in Login :
        IF pc[l] = "idle"
        THEN account[l] = None /\ pgWrite[l] # "sent" /\ redisWrite[l] # "sent"
        ELSE account[l] \in Account

\* A request that is under way has the cookie of a login that was completed.
CookiesGiven ==
    \A r \in Request : rpc[r] # "idle" => sid[r] \in Login /\ pc[sid[r]] = "ok"

TypeInv == TypeOK /\ LoginsBegun /\ CookiesGiven

\* A change of account_session gives an id to the account of its login, as named by signer.
OwnChange(c, signer) == c.id # None => signer[c.id] = c.account

\* In every store an id is found at the account of its login.
StoredAtOwner ==
    /\ \A a \in Account :
        /\ primary[a] # None => account[primary[a]] = a
        /\ replica[a] # None => account[replica[a]] = a
    /\ \A i \in 1..Len(wal) : OwnChange(wal[i], account)
    /\ \A s \in Login : redis[s] # None => redis[s] = account[s]

\* A login keeps its address, and stays completed.
LEMMA LoginsStay ==
  ASSUME TypeInv, [Next]_vars, NEW l \in Login, pc[l] # "idle"
  PROVE  account'[l] = account[l] /\ (pc[l] = "ok" => pc'[l] = "ok")
<1> USE DEF TypeInv, TypeOK
<1>1. ASSUME NEW m \in Login, NEW a \in Account, StartLogin(m, a)
      PROVE  account'[l] = account[l] /\ pc'[l] = pc[l]
  BY <1>1 DEF StartLogin, LoginsBegun
<1>2. ASSUME NEW m \in Login, WriteSession(m) \/ CacheSession(m) \/ FailLogin(m)
      PROVE  account' = account /\ (pc[l] = "ok" => pc'[l] = "ok")
  BY <1>2 DEF WriteSession, CacheSession, FailLogin, Answered
<1>3. ASSUME NEW r \in Request, RequestStep(r)
      PROVE  UNCHANGED loginVars
  BY <1>3
  DEF RequestStep, Lookup, FallbackFound, FallbackRefused, Recache, Finish, BeginLogout,
      DeletePrimary, DeleteRedis, EndDelete
<1>4. ASSUME Restart
      PROVE  account' = account /\ (pc[l] = "ok" => pc'[l] = "ok")
  BY <1>4 DEF Restart
<1>5. ASSUME ReplicaApply \/ (\E s \in Login : ExpireSession(s)) \/ UNCHANGED vars
      PROVE  UNCHANGED loginVars
  BY <1>5 DEF ReplicaApply, ExpireSession, vars
<1>6. QED
  BY <1>1, <1>2, <1>3, <1>4, <1>5 DEF Next, LoginStep, loginVars

\* A step of a login keeps the types.
LEMMA LoginStepTyped ==
  ASSUME TypeInv, NEW l \in Login, LoginStep(l)
  PROVE  TypeInv'
<1> USE NoneAssumption DEF TypeInv, TypeOK, stores, requestVars
<1>1. ASSUME NEW a \in Account, StartLogin(l, a)
      PROVE  TypeInv'
  <2>1. \A m \in Login : pc'[m] = (IF m = l THEN "join" ELSE pc[m]) /\ pc[l] = "idle"
    BY <1>1 DEF StartLogin
  <2>2. LoginsBegun'
    BY <1>1, <2>1 DEF StartLogin, LoginsBegun
  <2>3. CookiesGiven'
    BY <1>1, <2>1 DEF StartLogin, CookiesGiven
  <2>4. QED
    BY <1>1, <2>2, <2>3 DEF StartLogin
<1>2. CASE WriteSession(l)
  <2>1. account[l] \in Account
    BY <1>2 DEF WriteSession, LoginsBegun
  <2>2. [account |-> account[l], id |-> l] \in Change
    BY <2>1 DEF Change
  <2>3. wal' \in Seq(Change)
    BY <1>2, <2>2, AppendElements DEF WriteSession
  <2>4. pc' \in {pc, [pc EXCEPT ![l] = "ok"]} /\ (pc' # pc => pc[l] = "join")
    BY <1>2 DEF WriteSession, Answered
  <2>5. LoginsBegun'
    BY <1>2, <2>1, <2>4 DEF WriteSession, LoginsBegun
  <2>6. CookiesGiven'
    BY <1>2, <2>4 DEF WriteSession, CookiesGiven
  <2>7. QED
    BY <1>2, <2>1, <2>3, <2>4, <2>5, <2>6 DEF WriteSession
<1>3. CASE CacheSession(l)
  <2>1. account[l] \in Account
    BY <1>3 DEF CacheSession, LoginsBegun
  <2>2. pc' \in {pc, [pc EXCEPT ![l] = "ok"]} /\ (pc' # pc => pc[l] = "join")
    BY <1>3 DEF CacheSession, Answered
  <2>3. LoginsBegun'
    BY <1>3, <2>1, <2>2 DEF CacheSession, LoginsBegun
  <2>4. CookiesGiven'
    BY <1>3, <2>2 DEF CacheSession, CookiesGiven
  <2>5. QED
    BY <1>3, <2>1, <2>2, <2>3, <2>4 DEF CacheSession
<1>4. CASE FailLogin(l)
  BY <1>4 DEF FailLogin, LoginsBegun, CookiesGiven
<1>5. QED
  BY <1>1, <1>2, <1>3, <1>4 DEF LoginStep

\* A request that was answered leaves no cookie behind.
LEMMA AnswerTyped ==
  ASSUME TypeInv, NEW r \in Request, Answer(r), UNCHANGED pc
  PROVE  /\ rpc' \in [Request -> {"idle", "fallback", "recache", "serve", "delete"}]
         /\ sid' \in [Request -> Login \cup {None}]
         /\ who' \in [Request -> Account \cup {None}]
         /\ CookiesGiven'
<1>1. /\ rpc' \in [Request -> {"idle", "fallback", "recache", "serve", "delete"}]
      /\ sid' \in [Request -> Login \cup {None}]
      /\ who' \in [Request -> Account \cup {None}]
  BY DEF TypeInv, TypeOK, Answer
<1>2. \A q \in Request : rpc'[q] # "idle" => rpc[q] # "idle" /\ sid'[q] = sid[q]
  BY DEF TypeInv, TypeOK, Answer
<1>3. CookiesGiven'
  BY <1>2 DEF TypeInv, CookiesGiven
<1>4. QED
  BY <1>1, <1>3

\* A step of a request keeps the types.
LEMMA RequestStepTyped ==
  ASSUME TypeInv, NEW r \in Request, RequestStep(r),
         rpc[r] \in {"recache", "serve", "delete"} => who[r] \in Account,
         \A s \in Login : redis[s] # None => redis[s] \in Account
  PROVE  TypeInv'
<1> USE DEF TypeInv, TypeOK, LoginsBegun, CookiesGiven, stores, loginVars
<1>1. ASSUME NEW s \in Login, Lookup(r, s)
      PROVE  TypeInv'
  <2>1. /\ rpc' = [rpc EXCEPT ![r] = "serve"] \/ rpc' = [rpc EXCEPT ![r] = "fallback"]
        /\ sid' = [sid EXCEPT ![r] = s]
        /\ pc[s] = "ok"
        /\ UNCHANGED <<stores, loginVars, todo, allOk, loggedOut>>
    BY <1>1 DEF Lookup
  <2>2. who' = who \/ \E a \in Account : who' = [who EXCEPT ![r] = a]
    BY <1>1 DEF Lookup
  <2>3. who' \in [Request -> Account \cup {None}]
    BY <2>2
  <2>4. TypeOK' /\ LoginsBegun'
    BY <2>1, <2>3
  <2>5. CookiesGiven'
    <3>1. rpc'[r] # "idle" /\ sid'[r] = s /\ pc'[s] = "ok"
      BY <2>1
    <3>2. \A q \in Request : q # r => rpc'[q] = rpc[q] /\ sid'[q] = sid[q]
      BY <2>1
    <3>3. pc' = pc
      BY <2>1
    <3>4. QED
      BY <3>1, <3>2, <3>3
  <2>6. QED
    BY <2>4, <2>5
<1>2. ASSUME NEW a \in Account, FallbackFound(r, a)
      PROVE  TypeInv'
  BY <1>2 DEF FallbackFound
<1>3. CASE FallbackRefused(r) \/ Finish(r)
  <2>1. Answer(r) /\ UNCHANGED <<stores, loginVars, todo, allOk, loggedOut>>
    BY <1>3 DEF FallbackRefused, Finish
  <2>2. QED
    BY <2>1, AnswerTyped
<1>4. CASE Recache(r)
  <2>1. sid[r] \in Login /\ who[r] \in Account
    BY <1>4 DEF Recache
  <2>2. redis' \in [Login -> Account \cup {None}]
    BY <1>4, <2>1 DEF Recache
  <2>3. \/ rpc' = [rpc EXCEPT ![r] = "serve"] /\ UNCHANGED <<sid, who>>
        \/ Answer(r)
    BY <1>4 DEF Recache
  <2>4. UNCHANGED <<primary, wal, replica, loginVars, todo, allOk, loggedOut>>
    BY <1>4 DEF Recache
  <2>5. CASE rpc' = [rpc EXCEPT ![r] = "serve"] /\ UNCHANGED <<sid, who>>
    BY <1>4, <2>2, <2>4, <2>5 DEF Recache
  <2>6. CASE Answer(r)
    BY <2>2, <2>4, <2>6, AnswerTyped
  <2>7. QED
    BY <2>3, <2>5, <2>6
<1>5. CASE BeginLogout(r)
  BY <1>5 DEF BeginLogout
<1>6. ASSUME NEW ok \in BOOLEAN, NEW which \in {"pg", "redis"}, EndDelete(r, which, ok)
      PROVE  /\ rpc' \in [Request -> {"idle", "fallback", "recache", "serve", "delete"}]
             /\ sid' \in [Request -> Login \cup {None}]
             /\ who' \in [Request -> Account \cup {None}]
             /\ todo' \in [Request -> SUBSET {"pg", "redis"}]
             /\ allOk' \in [Request -> BOOLEAN]
             /\ loggedOut' \subseteq Login
             /\ LoginsBegun'
             /\ CookiesGiven'
             /\ UNCHANGED loginVars
  <2>1. CASE todo[r] = {which}
    <3>1. Answer(r) /\ UNCHANGED loginVars
      BY <1>6, <2>1 DEF EndDelete
    <3>2. todo' \in [Request -> SUBSET {"pg", "redis"}] /\ allOk' \in [Request -> BOOLEAN]
      BY <1>6, <2>1 DEF EndDelete
    <3>3. loggedOut' \subseteq Login
      BY <1>6, <2>1 DEF EndDelete
    <3>4. QED
      BY <3>1, <3>2, <3>3, AnswerTyped
  <2>2. CASE todo[r] # {which}
    <3>1. UNCHANGED <<rpc, sid, who, loggedOut>> /\ UNCHANGED loginVars
      BY <1>6, <2>2 DEF EndDelete
    <3>2. todo' \in [Request -> SUBSET {"pg", "redis"}] /\ allOk' \in [Request -> BOOLEAN]
      BY <1>6, <2>2 DEF EndDelete
    <3>3. QED
      BY <3>1, <3>2
  <2>3. QED
    BY <2>1, <2>2
<1>7. ASSUME NEW ok \in BOOLEAN, DeletePrimary(r, ok)
      PROVE  TypeInv'
  <2>1. CASE UNCHANGED <<primary, wal>>
    BY <1>6, <1>7, <2>1 DEF DeletePrimary
  <2>2. ASSUME NEW b \in Account,
               primary' = [primary EXCEPT ![b] = None],
               wal' = Append(wal, [account |-> b, id |-> None])
        PROVE  TypeInv'
    <3>1. wal' \in Seq(Change)
      BY <2>2, AppendElements DEF Change
    <3>2. QED
      BY <1>6, <1>7, <2>2, <3>1 DEF DeletePrimary
  <2>3. QED
    BY <1>7, <2>1, <2>2 DEF DeletePrimary, RowsOfSession
<1>8. ASSUME NEW ok \in BOOLEAN, DeleteRedis(r, ok)
      PROVE  TypeInv'
  <2>1. redis' \in [Login -> Account \cup {None}]
    BY <1>8 DEF DeleteRedis
  <2>2. QED
    BY <1>6, <1>8, <2>1 DEF DeleteRedis
<1>9. QED
  BY <1>1, <1>2, <1>3, <1>4, <1>5, <1>7, <1>8 DEF RequestStep

\* A step of the environment keeps the types.
LEMMA EnvironmentTyped ==
  ASSUME TypeInv, ReplicaApply \/ (\E s \in Login : ExpireSession(s)) \/ Restart
  PROVE  TypeInv'
<1> USE DEF TypeInv, TypeOK, loginVars, requestVars
<1>1. CASE ReplicaApply
  <2>1. wal' \in Seq(Change) /\ Head(wal) \in Change
    BY <1>1, TailElements DEF ReplicaApply
  <2>2. replica' \in [Account -> Login \cup {None}]
    BY <1>1, <2>1 DEF ReplicaApply, Change
  <2>3. QED
    BY <1>1, <2>1, <2>2 DEF ReplicaApply, LoginsBegun, CookiesGiven
<1>2. ASSUME NEW s \in Login, ExpireSession(s)
      PROVE  TypeInv'
  BY <1>2 DEF ExpireSession, LoginsBegun, CookiesGiven
<1>3. CASE Restart
  BY <1>3 DEF Restart, LoginsBegun, CookiesGiven
<1>4. QED
  BY <1>1, <1>2, <1>3

\* Every write to a store puts an id at the account of its login.
LEMMA StoresStayAtOwner ==
  ASSUME TypeInv, StoredAtOwner, ServedAsOwner, [Next]_vars
  PROVE  StoredAtOwner'
<1> USE NoneAssumption DEF TypeInv, TypeOK
<1>1. \A l \in Login : account[l] # None => account'[l] = account[l]
  BY LoginsStay DEF LoginsBegun
<1>2. \A i \in 1..Len(wal) : wal[i] \in Change
  OBVIOUS
<1>3. \A c \in Change : OwnChange(c, account) => OwnChange(c, account')
  BY <1>1 DEF Change, OwnChange
<1>4. CASE UNCHANGED stores
  BY <1>1, <1>2, <1>3, <1>4 DEF stores, StoredAtOwner
<1>5. ASSUME NEW l \in Login, WriteSession(l)
      PROVE  StoredAtOwner'
  <2>1. account[l] \in Account /\ account' = account
    BY <1>5 DEF WriteSession, LoginsBegun
  <2>2. [account |-> account[l], id |-> l] \in Change /\ OwnChange([account |-> account[l], id |-> l], account)
    BY <2>1 DEF Change, OwnChange
  <2>3. \A i \in 1..Len(wal') :
            wal'[i] = [account |-> account[l], id |-> l] \/ \E j \in 1..Len(wal) : wal'[i] = wal[j]
    BY <1>5, <2>2, AppendElements DEF WriteSession
  <2>4. \A i \in 1..Len(wal') : OwnChange(wal'[i], account')
    BY <1>2, <1>3, <2>2, <2>3 DEF StoredAtOwner
  <2>5. QED
    BY <1>5, <2>1, <2>4 DEF WriteSession, StoredAtOwner
<1>6. ASSUME NEW l \in Login, CacheSession(l)
      PROVE  StoredAtOwner'
  <2>1. UNCHANGED <<primary, wal, replica, account>>
    BY <1>6 DEF CacheSession
  <2>2. \A s \in Login : redis'[s] = IF s = l THEN account[l] ELSE redis[s]
    BY <1>6 DEF CacheSession
  <2>3. QED
    BY <2>1, <2>2 DEF StoredAtOwner, OwnChange
<1>7. ASSUME NEW r \in Request, Recache(r)
      PROVE  StoredAtOwner'
  <2>1. UNCHANGED <<primary, wal, replica, account>>
    BY <1>7 DEF Recache, loginVars
  <2>2. who[r] = account[sid[r]]
    BY <1>7 DEF Recache, ServedAsOwner
  <2>3. \A s \in Login : redis'[s] \in {redis[s], account[s]}
    BY <1>7, <2>2 DEF Recache
  <2>4. QED
    BY <2>1, <2>3 DEF StoredAtOwner, OwnChange
<1>8. ASSUME NEW r \in Request, NEW ok \in BOOLEAN, DeletePrimary(r, ok)
      PROVE  StoredAtOwner'
  <2>1. UNCHANGED <<replica, redis, account>>
    BY <1>8 DEF DeletePrimary, EndDelete, loginVars
  <2>2. ASSUME NEW b \in Account,
               primary' = [primary EXCEPT ![b] = None],
               wal' = Append(wal, [account |-> b, id |-> None])
        PROVE  StoredAtOwner'
    <3>1. [account |-> b, id |-> None] \in Change /\ OwnChange([account |-> b, id |-> None], account)
      BY DEF Change, OwnChange
    <3>2. \A i \in 1..Len(wal') :
            wal'[i] = [account |-> b, id |-> None] \/ \E j \in 1..Len(wal) : wal'[i] = wal[j]
      BY <2>2, <3>1, AppendElements
    <3>3. \A i \in 1..Len(wal') : OwnChange(wal'[i], account')
      BY <1>2, <1>3, <3>1, <3>2 DEF StoredAtOwner
    <3>4. QED
      BY <2>1, <2>2, <3>3 DEF StoredAtOwner
  <2>3. QED
    BY <1>4, <1>8, <2>1, <2>2 DEF DeletePrimary, RowsOfSession, stores
<1>9. ASSUME UNCHANGED <<primary, wal, replica, account>>, \A s \in Login : redis'[s] \in {redis[s], None}
      PROVE  StoredAtOwner'
  BY <1>9 DEF StoredAtOwner, OwnChange
<1>10. ASSUME NEW r \in Request, NEW ok \in BOOLEAN, DeleteRedis(r, ok)
       PROVE  StoredAtOwner'
  <2>1. UNCHANGED <<primary, wal, replica, account>>
    BY <1>10 DEF DeleteRedis, EndDelete, loginVars
  <2>2. \A s \in Login : redis'[s] \in {redis[s], None}
    BY <1>10 DEF DeleteRedis
  <2>3. QED
    BY <1>9, <2>1, <2>2
<1>11. ASSUME NEW s \in Login, ExpireSession(s)
       PROVE  StoredAtOwner'
  BY <1>9, <1>11 DEF ExpireSession, loginVars
<1>12. CASE Restart
  BY <1>9, <1>12 DEF Restart
<1>13. CASE ReplicaApply
  <2>1. Head(wal) \in Change /\ OwnChange(Head(wal), account)
    BY <1>13, TailElements DEF ReplicaApply, StoredAtOwner
  <2>2. \A i \in 1..Len(wal') : \E j \in 1..Len(wal) : wal'[i] = wal[j]
    BY <1>13, TailElements DEF ReplicaApply
  <2>3. \A i \in 1..Len(wal') : OwnChange(wal'[i], account')
    BY <1>2, <1>3, <2>2 DEF StoredAtOwner
  <2>4. UNCHANGED <<primary, redis, account>>
    BY <1>13 DEF ReplicaApply, loginVars
  <2>5. \A a \in Account : replica'[a] = IF a = Head(wal).account THEN Head(wal).id ELSE replica[a]
    BY <1>13 DEF ReplicaApply
  <2>6. \A a \in Account : replica'[a] # None => account[replica'[a]] = a
    BY <2>1, <2>5 DEF OwnChange, StoredAtOwner
  <2>7. QED
    BY <2>3, <2>4, <2>6 DEF StoredAtOwner
<1>14. ASSUME NEW r \in Request,
              \/ \E s \in Login : Lookup(r, s)
              \/ \E a \in Account : FallbackFound(r, a)
              \/ FallbackRefused(r) \/ Finish(r) \/ BeginLogout(r)
       PROVE  StoredAtOwner'
  BY <1>4, <1>14 DEF Lookup, FallbackFound, FallbackRefused, Finish, BeginLogout
<1>15. ASSUME NEW l \in Login, (\E a \in Account : StartLogin(l, a)) \/ FailLogin(l)
       PROVE  StoredAtOwner'
  BY <1>4, <1>15 DEF StartLogin, FailLogin
<1>16. QED
  BY <1>4, <1>5, <1>6, <1>7, <1>8, <1>10, <1>11, <1>12, <1>13, <1>14, <1>15
  DEF Next, LoginStep, RequestStep, vars

\* A request keeps acting for the account of its session.
LEMMA RequestsStayOwned ==
  ASSUME TypeInv, StoredAtOwner, ServedAsOwner, [Next]_vars
  PROVE  ServedAsOwner'
<1> USE NoneAssumption DEF TypeInv, TypeOK
<1> DEFINE Resolved(q) == rpc[q] \in {"recache", "serve", "delete"}
<1>1. ASSUME NEW q \in Request, Resolved(q), sid'[q] = sid[q], who'[q] = who[q]
      PROVE  pc'[sid'[q]] = "ok" /\ who'[q] = account'[sid'[q]]
  <2>1. sid[q] \in Login /\ pc[sid[q]] = "ok" /\ who[q] = account[sid[q]]
    BY <1>1 DEF ServedAsOwner, CookiesGiven
  <2>2. account'[sid[q]] = account[sid[q]] /\ pc'[sid[q]] = "ok"
    BY <2>1, LoginsStay
  <2>3. QED
    BY <1>1, <2>1, <2>2
<1>2. ASSUME \A q \in Request :
                 \/ ~Resolved(q)'
                 \/ Resolved(q) /\ sid'[q] = sid[q] /\ who'[q] = who[q]
      PROVE  ServedAsOwner'
  BY <1>1, <1>2 DEF ServedAsOwner
<1>3. ASSUME NEW r \in Request, NEW s \in Login, Lookup(r, s)
      PROVE  ServedAsOwner'
  <2>1. UNCHANGED <<pc, account>> /\ pc[s] = "ok" /\ sid' = [sid EXCEPT ![r] = s] /\ rpc[r] = "idle"
    BY <1>3 DEF Lookup, loginVars
  <2>2. CASE redis[s] # None /\ rpc' = [rpc EXCEPT ![r] = "serve"] /\ who' = [who EXCEPT ![r] = redis[s]]
    <3>1. redis[s] = account[s]
      BY <2>2 DEF StoredAtOwner
    <3>2. QED
      BY <2>1, <2>2, <3>1 DEF ServedAsOwner
  <2>3. CASE rpc' = [rpc EXCEPT ![r] = "fallback"] /\ UNCHANGED who
    BY <1>2, <2>1, <2>3
  <2>4. QED
    BY <1>3, <2>2, <2>3 DEF Lookup
<1>4. ASSUME NEW r \in Request, NEW a \in Account, FallbackFound(r, a)
      PROVE  ServedAsOwner'
  <2>1. UNCHANGED <<pc, account, sid>>
    BY <1>4 DEF FallbackFound, loginVars
  <2>2. sid[r] \in Login /\ pc[sid[r]] = "ok"
    BY <1>4 DEF FallbackFound, CookiesGiven
  <2>3. account[sid[r]] = a
    BY <1>4, <2>2 DEF FallbackFound, StoredAtOwner
  <2>4. rpc' = [rpc EXCEPT ![r] = "recache"] /\ who' = [who EXCEPT ![r] = a]
    BY <1>4 DEF FallbackFound
  <2>5. QED
    BY <2>1, <2>2, <2>3, <2>4 DEF ServedAsOwner
<1>5. ASSUME NEW r \in Request, Answer(r)
      PROVE  ServedAsOwner'
  BY <1>2, <1>5 DEF Answer
<1>6. ASSUME NEW r \in Request, Resolved(r), UNCHANGED <<sid, who>>,
             rpc' = rpc \/ \E p \in {"serve", "delete"} : rpc' = [rpc EXCEPT ![r] = p]
      PROVE  ServedAsOwner'
  BY <1>2, <1>6
<1>7. ASSUME NEW r \in Request, FallbackRefused(r) \/ Recache(r) \/ Finish(r) \/ BeginLogout(r)
      PROVE  ServedAsOwner'
  BY <1>5, <1>6, <1>7 DEF FallbackRefused, Recache, Finish, BeginLogout
<1>8. ASSUME NEW r \in Request, NEW ok \in BOOLEAN, DeletePrimary(r, ok) \/ DeleteRedis(r, ok)
      PROVE  ServedAsOwner'
  BY <1>5, <1>6, <1>8 DEF DeletePrimary, DeleteRedis, EndDelete
<1>9. ASSUME UNCHANGED <<rpc, sid, who>>
      PROVE  ServedAsOwner'
  BY <1>2, <1>9
<1>10. ASSUME NEW l \in Login, LoginStep(l)
       PROVE  ServedAsOwner'
  BY <1>9, <1>10 DEF LoginStep, StartLogin, WriteSession, CacheSession, FailLogin, requestVars
<1>11. CASE Restart
  <2>1. \A q \in Request : rpc'[q] = "idle"
    BY <1>11 DEF Restart
  <2>2. QED
    BY <1>2, <2>1
<1>12. ASSUME ReplicaApply \/ (\E s \in Login : ExpireSession(s)) \/ UNCHANGED vars
       PROVE  ServedAsOwner'
  BY <1>9, <1>12 DEF ReplicaApply, ExpireSession, vars, requestVars
<1>13. QED
  BY <1>3, <1>4, <1>7, <1>8, <1>10, <1>11, <1>12 DEF Next, RequestStep

SessionInv == TypeInv /\ StoredAtOwner /\ ServedAsOwner

\* The three facts hold together from the start and after every step.
LEMMA SessionInvariant == Spec => []SessionInv
<1>1. Init => SessionInv
  BY DEF Init, SessionInv, TypeInv, TypeOK, LoginsBegun, CookiesGiven, StoredAtOwner, ServedAsOwner
<1>2. SessionInv /\ [Next]_vars => SessionInv'
  <2> SUFFICES ASSUME SessionInv, [Next]_vars
               PROVE  SessionInv'
    OBVIOUS
  <2>1. StoredAtOwner' /\ ServedAsOwner'
    BY StoresStayAtOwner, RequestsStayOwned DEF SessionInv
  <2>2. ASSUME NEW l \in Login, LoginStep(l)
        PROVE  TypeInv'
    BY <2>2, LoginStepTyped DEF SessionInv
  <2>3. ASSUME NEW r \in Request, RequestStep(r)
        PROVE  TypeInv'
    <3>1. ASSUME rpc[r] \in {"recache", "serve", "delete"}
          PROVE  who[r] \in Account
      BY <3>1 DEF SessionInv, ServedAsOwner, TypeInv, LoginsBegun, CookiesGiven
    <3>2. \A s \in Login : redis[s] # None => redis[s] \in Account
      BY DEF SessionInv, TypeInv, TypeOK
    <3>3. QED
      BY <2>3, <3>1, <3>2, RequestStepTyped DEF SessionInv
  <2>4. ASSUME ReplicaApply \/ (\E s \in Login : ExpireSession(s)) \/ Restart
        PROVE  TypeInv'
    BY <2>4, EnvironmentTyped DEF SessionInv
  <2>5. ASSUME UNCHANGED vars
        PROVE  TypeInv'
    <3>1. UNCHANGED <<primary, wal, replica, redis, pc, account, pgWrite, redisWrite,
                      rpc, sid, who, todo, allOk, loggedOut>>
      BY <2>5 DEF vars, stores, loginVars, requestVars
    <3>2. TypeOK'
      BY <3>1 DEF SessionInv, TypeInv, TypeOK
    <3>3. LoginsBegun' /\ CookiesGiven'
      BY <3>1 DEF SessionInv, TypeInv, LoginsBegun, CookiesGiven
    <3>4. QED
      BY <3>2, <3>3 DEF TypeInv
  <2>6. QED
    BY <2>1, <2>2, <2>3, <2>4, <2>5 DEF SessionInv, Next
<1>3. QED
  BY <1>1, <1>2, PTL DEF Spec

\* Every value of the session model has its type, whatever stores, requests and
\* restarts do (create_session, resolve_session_address, delete_session).
THEOREM TypeCorrect == Spec => []TypeOK
<1>1. SessionInv => TypeOK
  BY DEF SessionInv, TypeInv
<1>2. QED
  BY <1>1, SessionInvariant, PTL

\* Whether Redis, the replica or a copy made again answered, a request acts for the
\* account that signed the completed login of its session (resolve_session_address).
THEOREM ActsForOwner == Spec => []ServedAsOwner
<1>1. SessionInv => ServedAsOwner
  BY DEF SessionInv
<1>2. QED
  BY <1>1, SessionInvariant, PTL

\* A row of account_session goes only by a login of its account or by a logout of that
\* very session: an older session of the account takes no newer one with it
\* (set_session, delete_session).
THEOREM NewerSessionStays == Spec => LogoutSparesNewerSession
<1>1. SessionInv /\ [Next]_vars => [EndsOnlyOwnSession]_vars
  <2> SUFFICES ASSUME SessionInv, Next, NEW a \in Account, primary[a] # None, primary'[a] # primary[a]
               PROVE  \/ primary'[a] # None /\ account[primary'[a]] = a
                      \/ \E r \in Request : rpc[r] = "delete" /\ sid[r] = primary[a]
    BY DEF EndsOnlyOwnSession
  <2> USE NoneAssumption DEF SessionInv, TypeInv, TypeOK
  <2>1. ASSUME NEW l \in Login, WriteSession(l)
        PROVE  primary'[a] # None /\ account[primary'[a]] = a
    <3>1. account[l] \in Account
      BY <2>1 DEF WriteSession, LoginsBegun
    <3>2. \A b \in Account : primary'[b] = IF b = account[l] THEN l ELSE primary[b]
      BY <2>1, <3>1 DEF WriteSession
    <3>3. QED
      BY <3>2
  <2>2. ASSUME NEW r \in Request, NEW ok \in BOOLEAN, DeletePrimary(r, ok)
        PROVE  rpc[r] = "delete" /\ sid[r] = primary[a]
    BY <2>2 DEF DeletePrimary, EndDelete, RowsOfSession
  <2>3. CASE UNCHANGED primary
    BY <2>3
  <2>4. QED
    BY <2>1, <2>2, <2>3
    DEF Next, LoginStep, RequestStep, StartLogin, CacheSession, FailLogin, Lookup, FallbackFound,
        FallbackRefused, Recache, Finish, BeginLogout, DeleteRedis, ReplicaApply, ExpireSession,
        Restart, stores
<1>2. QED
  BY <1>1, SessionInvariant, PTL DEF Spec, LogoutSparesNewerSession
=============================================================================
