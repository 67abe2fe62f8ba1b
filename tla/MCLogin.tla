------------------------------ MODULE MCLogin -------------------------------
(***************************************************************************)
(* The two halves of POST /auth/session side by side: the nonce that an     *)
(* attempt takes, and the sessions of the attempts that were accepted.      *)
(* They share no variable; "part" says which of them moves in a behaviour.  *)
(* The other one rests in its first state, where fairness asks nothing.     *)
(***************************************************************************)
EXTENDS Nonce, Session

CONSTANTS
    l1,     \* the first login
    a1      \* its account

VARIABLE part

loginParts == <<nonceVars, vars, part>>

\* The types of both halves.
LoginTypeOK == NonceTypeOK /\ TypeOK

LoginInit == part \in {"nonce", "session"} /\ NonceInit /\ Init

NoncePart == part = "nonce" /\ NonceNext /\ UNCHANGED <<vars, part>>

\* Accounts are interchangeable: which of them the first login is of tells nothing.
SessionPart ==
    /\ part = "session"
    /\ Next
    /\ account'[l1] \in {None, a1}
    /\ UNCHANGED <<nonceVars, part>>

LoginNext == NoncePart \/ SessionPart

LoginSpec == LoginInit /\ [][LoginNext]_loginParts /\ NonceFairness /\ Fairness
=============================================================================
