------------------------------ MODULE AnyMatch ------------------------------
(***************************************************************************)
(* What mine_salt promises: one answer, a salt out of the searched range   *)
(* that gives a vanity address, or nothing when the range holds none.      *)
(***************************************************************************)
CONSTANTS Range0, NoSalt

VARIABLES
    good,     \* the members of the range that give a vanity address
    answer    \* << >> while searching, then <<member>> or <<NoSalt>>

vars == <<good, answer>>

Init ==
    /\ good \subseteq Range0
    /\ answer = << >>

Answer ==
    /\ answer = << >>
    /\ \/ \E i \in good : answer' = <<i>>
       \/ good = {} /\ answer' = <<NoSalt>>
    /\ UNCHANGED good

Spec == Init /\ [][Answer]_vars
=============================================================================
