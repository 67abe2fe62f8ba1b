------------------------------ MODULE Accounts ------------------------------
(***************************************************************************)
(* Account profiles.  GET /account reads the replica and inserts a default  *)
(* row on the primary when it finds none (AccountController); PATCH         *)
(* /account sets the fields it is given.  Both answer from the snapshot of  *)
(* their statement, taken before its own write.  The in-process copy of a   *)
(* profile is a copy like any other, see ResponseCache.                     *)
(***************************************************************************)
EXTENDS Naturals

CONSTANTS
    Address,    \* session addresses
    Request,    \* concurrent GET requests
    Text,       \* contents of a field
    Field,      \* nickname, bio, image_uri
    Default,    \* content of every field of AccountInfo::new
    None,       \* no row, no value
    MaxEdits    \* bound: edits

ASSUME TextAssumption == Default \in Text /\ None \notin Text /\ None \notin [Field -> Text]
ASSUME EditsAssumption == MaxEdits \in Nat

VARIABLES
    account,    \* table account on the primary: a profile, or None
    replica,    \* the same table on the replica
    info,       \* Redis account:info
    looking,    \* looking[r]: the address whose row request r is to insert, or None
    answer,     \* answer[r]: the profile request r was given, or None
    written,    \* written[a][f]: content of the newest edit of f that was accepted, or None
    edits       \* number of edits

accountVars == <<account, replica, info, looking, answer, written, edits>>

Profile == [Field -> Text]
NewProfile == [f \in Field |-> Default]

AccountsTypeOK ==
    /\ account \in [Address -> Profile \cup {None}]
    /\ replica \in [Address -> Profile \cup {None}]
    /\ info \in [Address -> Profile \cup {None}]
    /\ looking \in [Request -> Address \cup {None}]
    /\ answer \in [Request -> Profile \cup {None}]
    /\ written \in [Address -> [Field -> Text \cup {None}]]
    /\ edits \in 0..MaxEdits

AccountsInit ==
    /\ account = [a \in Address |-> None]
    /\ replica = account
    /\ info = account
    /\ looking = [r \in Request |-> None]
    /\ answer = [r \in Request |-> None]
    /\ written = [a \in Address |-> [f \in Field |-> None]]
    /\ edits = 0

\* fetch_account finds the row on the replica.
FetchHit(r, a) ==
    /\ looking[r] = None
    /\ replica[a] # None
    /\ answer' = [answer EXCEPT ![r] = replica[a]]
    /\ UNCHANGED <<account, replica, info, looking, written, edits>>

\* fetch_account finds no row: one is to be inserted.
FetchMiss(r, a) ==
    /\ looking[r] = None
    /\ replica[a] = None
    /\ looking' = [looking EXCEPT ![r] = a]
    /\ UNCHANGED <<account, replica, info, answer, written, edits>>

\* Mutant: ON CONFLICT DO UPDATE.
Inserted_update(a) == NewProfile

\* ON CONFLICT (account_id) DO NOTHING
Inserted(a) == IF account[a] = None THEN NewProfile ELSE account[a]

\* upsert_account on the primary.  SELECT sees the table as it was before the
\* INSERT: the request that inserts the row finds none and is refused.
Upsert(r) ==
    /\ looking[r] # None
    /\ LET a == looking[r] IN
        /\ account' = [account EXCEPT ![a] = Inserted(a)]
        /\ answer' = [answer EXCEPT ![r] = account[a]]
    /\ looking' = [looking EXCEPT ![r] = None]
    /\ UNCHANGED <<replica, info, written, edits>>

\* The request ends before its statement was sent, or the statement fails.
GiveUp(r) ==
    /\ looking[r] # None
    /\ looking' = [looking EXCEPT ![r] = None]
    /\ answer' = [answer EXCEPT ![r] = None]
    /\ UNCHANGED <<account, replica, info, written, edits>>

\* Mutant: fields that are not sent are set to NULL.
Edited_null(a, new) == [f \in Field |-> new[f]]

\* UPDATE account SET: the fields that were sent.
Edited(a, new) == [f \in Field |-> IF new[f] = None THEN account[a][f] ELSE new[f]]

\* update_account: without a field, or without a row, it is refused.  The profile
\* it answers with and writes to Redis, if Redis can be reached, is the one the
\* statement found.
Update(a, new) ==
    /\ edits < MaxEdits
    /\ \E f \in Field : new[f] # None
    /\ account[a] # None
    /\ account' = [account EXCEPT ![a] = Edited(a, new)]
    /\ info' \in {info, [info EXCEPT ![a] = account[a]]}
    /\ written' = [written EXCEPT ![a] = [f \in Field |-> IF new[f] = None THEN @[f] ELSE new[f]]]
    /\ edits' = edits + 1
    /\ UNCHANGED <<replica, looking, answer>>

\* The replica catches up with a row.
Apply(a) ==
    /\ replica' = [replica EXCEPT ![a] = account[a]]
    /\ UNCHANGED <<account, info, looking, answer, written, edits>>

\* account:info runs out.
ExpireInfo(a) ==
    /\ info' = [info EXCEPT ![a] = None]
    /\ UNCHANGED <<account, replica, looking, answer, written, edits>>

AccountsNext ==
    \/ \E r \in Request :
        \/ Upsert(r)
        \/ GiveUp(r)
        \/ \E a \in Address : FetchHit(r, a) \/ FetchMiss(r, a)
    \/ \E a \in Address :
        \/ Apply(a)
        \/ ExpireInfo(a)
        \/ \E new \in [Field -> Text \cup {None}] : Update(a, new)

AccountsSpec == AccountsInit /\ [][AccountsNext]_accountVars

----------------------------------------------------------------------------
(* Properties *)

\* What a user wrote into a field stays: neither a request that did not see the row
\* and inserts the default one, nor an edit of another field, replaces it; and a
\* field nobody wrote has its default (upsert_account, update_account).
ProfileStands ==
    \A a \in Address, f \in Field :
        IF written[a][f] # None
        THEN account[a] # None /\ account[a][f] = written[a][f]
        ELSE account[a] # None => account[a][f] = Default
=============================================================================
