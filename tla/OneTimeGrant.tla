---------------------------- MODULE OneTimeGrant ----------------------------
(***************************************************************************)
(* What the nonce store promises to create_session: a message issued for   *)
(* an account is exchanged for a login at most once, by one login, and     *)
(* that login speaks for the account the message was issued for.  No       *)
(* storage, no delays, no failures.                                        *)
(***************************************************************************)
CONSTANTS Address, Message, Login, None

VARIABLES
    owner,     \* owner[m]: the account message m was issued for, or None
    grants     \* the exchanges that have happened

vars == <<owner, grants>>

Init ==
    /\ owner = [m \in Message |-> None]
    /\ grants = {}

Issue(a, m) ==
    /\ owner[m] = None
    /\ owner' = [owner EXCEPT ![m] = a]
    /\ UNCHANGED grants

\* Login l exchanges message m and becomes a login of the message's owner.
Grant(l, m) ==
    /\ owner[m] \in Address
    /\ \A g \in grants : g.message # m /\ g.login # l
    /\ grants' = grants \cup {[login |-> l, message |-> m, account |-> owner[m]]}
    /\ UNCHANGED owner

Next ==
    \/ \E a \in Address, m \in Message : Issue(a, m)
    \/ \E l \in Login, m \in Message : Grant(l, m)

Spec == Init /\ [][Next]_vars
=============================================================================
