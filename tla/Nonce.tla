------------------------------- MODULE Nonce --------------------------------
(***************************************************************************)
(* The login nonce: AuthService::generate_nonce writes one row per address *)
(* into auth_nonce, AuthService::create_session takes it back with         *)
(* NonceController::take_nonce (DELETE ... RETURNING, one retry).          *)
(*                                                                         *)
(* A message (the text the wallet signs) is a model value: its uuid makes  *)
(* it fresh.  The row may be written on another database node than the one *)
(* that serves POST /auth/session and arrive there late, in commit order:  *)
(* `feed' holds the upserts that have not arrived.  A statement abandoned  *)
(* by a timeout may still run afterwards: `orphans'.                       *)
(***************************************************************************)
EXTENDS Naturals, Sequences

CONSTANTS
    Address,     \* wallet addresses
    Message,     \* sign-in messages, one per generate_nonce call
    Attempt,     \* POST /auth/session requests
    Absent,      \* absence of a row, an address or a message
    LagBounded   \* TRUE: replication takes less than the retry delay

ASSUME AbsentAssumption == Absent \notin Address \cup Message \cup Attempt
ASSUME LagBoundedAssumption == LagBounded \in BOOLEAN

VARIABLES
    auth_nonce,  \* auth_nonce[a]: the message in the row of address a, or Absent
    expired,     \* messages whose expires_at has passed
    feed,        \* upserts of auth_nonce not yet visible to create_session
    issued,      \* issued[m]: the address the message was generated for
    known,       \* messages that were returned to the client
    step,        \* step[l]: where login l stands
    signer,      \* signer[l]: address recovered by verify_wallet
    nonce,       \* nonce[l]: payload.nonce
    orphans      \* DELETEs abandoned by a timeout that may still run

nonceVars == <<auth_nonce, expired, feed, issued, known, step, signer, nonce, orphans>>

table == <<auth_nonce, expired, feed, issued, known>>

Upsert == [address : Address, message : Message]

Status == {"idle", "take", "sleep", "retake",
           "accepted", "refused", "badrequest", "lost"}

Waiting == {"take", "sleep", "retake"}

NonceTypeOK ==
    /\ auth_nonce \in [Address -> Message \cup {Absent}]
    /\ expired \subseteq Message
    /\ feed \in Seq(Upsert)
    /\ issued \in [Message -> Address \cup {Absent}]
    /\ known \subseteq Message
    /\ step \in [Attempt -> Status]
    /\ signer \in [Attempt -> Address \cup {Absent}]
    /\ nonce \in [Attempt -> Message \cup {Absent}]
    /\ orphans \subseteq Upsert

NonceInit ==
    /\ auth_nonce = [a \in Address |-> Absent]
    /\ expired = {}
    /\ feed = << >>
    /\ issued = [m \in Message |-> Absent]
    /\ known = {}
    /\ step = [l \in Attempt |-> "idle"]
    /\ signer = [l \in Attempt |-> Absent]
    /\ nonce = [l \in Attempt |-> Absent]
    /\ orphans = {}

----------------------------------------------------------------------------
(* POST /auth/nonce *)

\* set_nonce commits the upsert of a fresh message for address a.  The message
\* reaches the client, unless the answer of the database is lost (InternalError).
GenerateNonce(a, m) ==
    /\ issued[m] = Absent
    /\ issued' = [issued EXCEPT ![m] = a]
    /\ feed' = Append(feed, [address |-> a, message |-> m])
    /\ known' \in {known, known \cup {m}}
    /\ UNCHANGED <<auth_nonce, expired, step, signer, nonce, orphans>>

\* The oldest outstanding upsert becomes visible to create_session: the row of
\* the address is inserted, or replaced (ON CONFLICT (address) DO UPDATE).
Replicate ==
    /\ feed # << >>
    /\ auth_nonce' = [auth_nonce EXCEPT ![Head(feed).address] = Head(feed).message]
    /\ feed' = Tail(feed)
    /\ UNCHANGED <<expired, issued, known, step, signer, nonce, orphans>>

\* MESSAGE_EXPIRATION has passed since m was generated.  The row stays.
ExpireNonce(m) ==
    /\ issued[m] # Absent
    /\ m \notin expired
    /\ expired' = expired \cup {m}
    /\ UNCHANGED <<auth_nonce, feed, issued, known, step, signer, nonce, orphans>>

----------------------------------------------------------------------------
(* POST /auth/session up to the nonce check *)

\* A wallet signs any message it has been given, its own or another's.
\* create_session refuses a wrong chain id or an unreadable signature.
PostSession(l, a, m) ==
    /\ step[l] = "idle"
    /\ m \in known
    /\ \/ /\ step' = [step EXCEPT ![l] = "take"]
          /\ signer' = [signer EXCEPT ![l] = a]
          /\ nonce' = [nonce EXCEPT ![l] = m]
       \/ /\ step' = [step EXCEPT ![l] = "badrequest"]
          /\ UNCHANGED <<signer, nonce>>
    /\ UNCHANGED <<table, orphans>>

\* Mutant: WHERE message = $2, without the address.
MatchesAnyAddress(a, m) == (\E b \in Address : auth_nonce[b] = m) /\ m \notin expired

\* Mutant: WHERE address = $1, without the message.
MatchesAnyMessage(a, m) == auth_nonce[a] # Absent /\ auth_nonce[a] \notin expired

\* WHERE address = $1 AND message = $2 AND expires_at > NOW()
Matches(a, m) == auth_nonce[a] = m /\ m \notin expired

\* Mutant: a SELECT instead of DELETE ... RETURNING.
DeletedNever(a, m) == auth_nonce

\* DELETE FROM auth_nonce ... RETURNING message, as a function of the row.
Deleted(a, m) ==
    IF Matches(a, m) THEN [auth_nonce EXCEPT ![a] = Absent] ELSE auth_nonce

\* Mutants: no retry; retry for ever.
AfterMissNoRetry(l) == "refused"
AfterMissForever(l) == "sleep"

\* What take_nonce does when the row was not there: wait once, then refuse.
AfterMiss(l) == IF step[l] = "take" THEN "sleep" ELSE "refused"

TryTake(l) ==
    /\ step[l] \in {"take", "retake"}
    /\ auth_nonce' = Deleted(signer[l], nonce[l])
    /\ step' = [step EXCEPT ![l] =
                IF Matches(signer[l], nonce[l]) THEN "accepted" ELSE AfterMiss(l)]
    /\ UNCHANGED <<expired, feed, issued, known, signer, nonce, orphans>>

\* The sleep of NONCE_REPLICATION_RETRY_DELAY ends.  When replication is faster
\* than the delay, the message has arrived by then: it was committed before the
\* client could sign it.
Wake(l) ==
    /\ step[l] = "sleep"
    /\ LagBounded => \A i \in 1..Len(feed) : feed[i].message # nonce[l]
    /\ step' = [step EXCEPT ![l] = "retake"]
    /\ UNCHANGED <<table, signer, nonce, orphans>>

\* A database error or timeout (Unauthorized), or the HTTP timeout dropping the
\* handler: the client gets no session, the DELETE may still run.
GiveUp(l) ==
    /\ step[l] \in Waiting
    /\ step' = [step EXCEPT ![l] = "lost"]
    /\ orphans' = IF step[l] = "sleep" THEN orphans
                  ELSE orphans \cup {[address |-> signer[l], message |-> nonce[l]]}
    /\ UNCHANGED <<table, signer, nonce>>

\* An abandoned DELETE runs; nobody reads what it returns.
OrphanRuns(o) ==
    /\ o \in orphans
    /\ orphans' = orphans \ {o}
    /\ auth_nonce' = Deleted(o.address, o.message)
    /\ UNCHANGED <<expired, feed, issued, known, step, signer, nonce>>

----------------------------------------------------------------------------
AttemptStep(l) ==
    \/ \E a \in Address, m \in Message : PostSession(l, a, m)
    \/ TryTake(l)
    \/ Wake(l)
    \/ GiveUp(l)

NonceNext ==
    \/ \E a \in Address, m \in Message : GenerateNonce(a, m)
    \/ Replicate
    \/ \E m \in Message : ExpireNonce(m)
    \/ \E l \in Attempt : AttemptStep(l)
    \/ \E o \in orphans : OrphanRuns(o)

NonceSpec == NonceInit /\ [][NonceNext]_nonceVars

\* The database answers or times out, the sleep ends, replication makes progress.
NonceFairness ==
    /\ WF_nonceVars(Replicate)
    /\ \A l \in Attempt : WF_nonceVars(TryTake(l)) /\ WF_nonceVars(Wake(l))

NonceFairSpec == NonceSpec /\ NonceFairness

----------------------------------------------------------------------------
(* Properties *)

\* No nonce is used twice: of two logins that pass get_and_delete_nonce, each
\* consumed a message of its own, whatever retries, timeouts, abandoned deletes
\* and late rows happened ("Atomically get and delete nonce", nonce.rs).
NonceUsedOnce ==
    \A l1, l2 \in Attempt :
        step[l1] = "accepted" /\ step[l2] = "accepted" /\ nonce[l1] = nonce[l2] => l1 = l2

\* A login is accepted only for the address its message was issued to: signing
\* a message generated for somebody else never passes create_session.
SignerOwnsNonce ==
    \A l \in Attempt : step[l] = "accepted" => issued[nonce[l]] = signer[l]

\* The retry of take_nonce recovers a row that is merely late.  When replication
\* is faster than the delay, a login refused with its own message was refused
\* for cause: the message is neither on its way nor waiting unexpired.
LateNonceRecovered ==
    LagBounded =>
        \A l \in Attempt :
            step[l] = "refused" /\ issued[nonce[l]] = signer[l] =>
                /\ \A i \in 1..Len(feed) : feed[i].message # nonce[l]
                /\ ~Matches(signer[l], nonce[l])

\* A take removes only the message its request signed: a newer nonce that landed
\* while take_nonce slept stays for its own login (retry_does_not_consume_a_
\* different_nonce, nonce.rs).
RemovesOnlySigned ==
    \A a \in Address :
        auth_nonce[a] # Absent /\ auth_nonce'[a] = Absent =>
            \E l \in Attempt : signer[l] = a /\ nonce[l] = auth_nonce[a]

NewerNonceSurvives == [][RemovesOnlySigned]_nonceVars

----------------------------------------------------------------------------
(* The inductive invariant behind the safety properties *)

InFeed(m) == \E i \in 1..Len(feed) : feed[i].message = m

Stored(m) == \E a \in Address : auth_nonce[a] = m

\* An upsert on its way carries the address its message was issued for, and no
\* message is on its way twice.
FeedOK ==
    /\ \A i \in 1..Len(feed) : issued[feed[i].message] = feed[i].address
    /\ \A i, j \in 1..Len(feed) : feed[i].message = feed[j].message => i = j

\* A stored message is in the row of its address and has left the feed.
TableOK ==
    /\ \A a \in Address : auth_nonce[a] # Absent =>
          issued[auth_nonce[a]] = a /\ ~InFeed(auth_nonce[a])
    /\ \A m \in known : issued[m] # Absent

\* A login past PostSession carries an address and an issued message; once it
\* is accepted its message is nowhere; once it waited out the lag, or was
\* refused after that, its message is not on its way any more.
LoginOK ==
    \A l \in Attempt :
        /\ step[l] \notin {"idle", "badrequest"} =>
              signer[l] \in Address /\ nonce[l] \in known
        /\ step[l] = "accepted" =>
              /\ issued[nonce[l]] = signer[l]
              /\ ~InFeed(nonce[l]) /\ ~Stored(nonce[l])
        /\ LagBounded /\ step[l] \in {"retake", "refused"} => ~InFeed(nonce[l])
        /\ LagBounded /\ step[l] = "refused" => ~Matches(signer[l], nonce[l])

\* An abandoned DELETE was sent by a login that gave up.
OrphansOK ==
    \A o \in orphans : \E l \in Attempt :
        step[l] = "lost" /\ signer[l] = o.address /\ nonce[l] = o.message

IInv == NonceTypeOK /\ FeedOK /\ TableOK /\ LoginOK /\ OrphansOK /\ NonceUsedOnce

----------------------------------------------------------------------------
\* Every posted login is answered: the retry does not loop and the sleep ends,
\* provided the database answers or fails and replication makes progress.
EveryLoginAnswered ==
    \A l \in Attempt : step[l] \in Waiting ~> step[l] \in {"accepted", "refused", "lost"}

\* The nonce store implements the one-time exchange of OneTimeGrant.
Grants ==
    {[login |-> l, message |-> nonce[l], account |-> signer[l]] :
        l \in {k \in Attempt : step[k] = "accepted"}}

OTG == INSTANCE OneTimeGrant WITH
    Login <- Attempt, None <- Absent, owner <- issued, grants <- Grants

ImplementsOneTimeGrant == OTG!Spec
=============================================================================
