----------------------------- MODULE TrendList ------------------------------
(***************************************************************************)
(* Table trend.  POST /cms/trend/insert replaces all its rows in one        *)
(* statement (insert_trend_with_admin_check): under READ COMMITTED its      *)
(* DELETE sees the rows of the snapshot taken when the statement began, its *)
(* INSERT ... ON CONFLICT meets the rows that are there when it ends.       *)
(***************************************************************************)
EXTENDS Naturals, Sequences

CONSTANTS
    TrendToken,     \* tokens that may be listed
    Admin,          \* accounts that are, or are not, rows of table admin
    Insert,         \* concurrent statements
    MaxTrendTokens, \* MAX_TREND_TOKENS
    MaxInserts      \* bound: statements that commit

ASSUME TrendAssumption == MaxTrendTokens \in Nat /\ MaxInserts \in Nat

VARIABLES
    trend,         \* rows: token -> display_order
    born,          \* born[t]: number of the commit that created the row of t
    admins,        \* rows of table admin
    running,       \* running[i]: statement i has begun
    list,          \* list[i]: its token_ids
    snapshot,      \* snapshot[i]: number of commits when it began
    allowed,       \* allowed[i]: its account was an admin then
    commits,       \* statements that replaced the list
    newest,        \* token_ids of the last of them
    overlapped     \* a commit fell between its beginning and its end

trendVars == <<trend, born, admins, running, list, snapshot, allowed, commits, newest, overlapped>>

\* Without duplicates: a duplicate makes the statement fail.
Lists ==
    UNION {{s \in [1..n -> TrendToken] : \A i, j \in 1..n : s[i] = s[j] => i = j} : n \in 0..MaxTrendTokens}

Listing(s) == {s[i] : i \in DOMAIN s}

TrendTypeOK ==
    /\ DOMAIN trend \subseteq TrendToken
    /\ \A t \in DOMAIN trend : trend[t] \in Nat
    /\ born \in [TrendToken -> 0..MaxInserts]
    /\ admins \subseteq Admin
    /\ running \in [Insert -> BOOLEAN]
    /\ list \in [Insert -> Lists]
    /\ snapshot \in [Insert -> 0..MaxInserts]
    /\ allowed \in [Insert -> BOOLEAN]
    /\ commits \in 0..MaxInserts
    /\ newest \in Lists
    /\ overlapped \in BOOLEAN

TrendInit ==
    /\ trend = [t \in {} |-> 0]
    /\ born = [t \in TrendToken |-> 0]
    /\ admins = Admin
    /\ running = [i \in Insert |-> FALSE]
    /\ list = [i \in Insert |-> <<>>]
    /\ snapshot = [i \in Insert |-> 0]
    /\ allowed = [i \in Insert |-> FALSE]
    /\ commits = 0
    /\ newest = <<>>
    /\ overlapped = FALSE

\* The statement begins: adm, del and ins share this snapshot.
Begin(i, a, s) ==
    /\ ~running[i]
    /\ running' = [running EXCEPT ![i] = TRUE]
    /\ list' = [list EXCEPT ![i] = s]
    /\ snapshot' = [snapshot EXCEPT ![i] = commits]
    /\ allowed' = [allowed EXCEPT ![i] = a \in admins]
    /\ UNCHANGED <<trend, born, admins, commits, newest, overlapped>>

\* del: rows of the snapshot that are not in the list.
Removed(i) == {t \in DOMAIN trend : born[t] <= snapshot[i] /\ t \notin Listing(list[i])}

\* Mutant: ON CONFLICT DO NOTHING.
DisplayOrder_kept(i, t) ==
    IF t \in DOMAIN trend THEN trend[t] ELSE (CHOOSE n \in DOMAIN list[i] : list[i][n] = t) - 1

\* display_order is the position in the list, for a row that is there as well.
DisplayOrder(i, t) == (CHOOSE n \in DOMAIN list[i] : list[i][n] = t) - 1

\* Nothing is left of statement i.
End(i) ==
    /\ running' = [running EXCEPT ![i] = FALSE]
    /\ list' = [list EXCEPT ![i] = <<>>]
    /\ snapshot' = [snapshot EXCEPT ![i] = 0]
    /\ allowed' = [allowed EXCEPT ![i] = FALSE]

\* The statement of an admin commits.
Replace(i) ==
    /\ running[i]
    /\ allowed[i]
    /\ commits < MaxInserts
    /\ trend' = [t \in (DOMAIN trend \ Removed(i)) \cup Listing(list[i]) |->
                    IF t \in Listing(list[i]) THEN DisplayOrder(i, t) ELSE trend[t]]
    /\ born' = [t \in TrendToken |->
                    IF t \in Listing(list[i]) \ DOMAIN trend THEN commits + 1 ELSE born[t]]
    /\ commits' = commits + 1
    /\ newest' = list[i]
    /\ overlapped' = (snapshot[i] # commits)
    /\ End(i)
    /\ UNCHANGED admins

\* The statement of somebody else changes nothing, or a statement fails.
Refuse(i) ==
    /\ running[i]
    /\ End(i)
    /\ UNCHANGED <<trend, born, admins, commits, newest, overlapped>>

\* Rows of table admin come and go.
ChangeAdmins(a) ==
    /\ admins' = IF a \in admins THEN admins \ {a} ELSE admins \cup {a}
    /\ UNCHANGED <<trend, born, running, list, snapshot, allowed, commits, newest, overlapped>>

TrendNext ==
    \/ \E i \in Insert :
        \/ Replace(i)
        \/ Refuse(i)
        \/ \E a \in Admin, s \in Lists : Begin(i, a, s)
    \/ \E a \in Admin : ChangeAdmins(a)

TrendSpec == TrendInit /\ [][TrendNext]_trendVars

----------------------------------------------------------------------------
(* Properties *)

\* The list that was stored last stands with its positions, whatever statements ran
\* beside it; if none did, it is the whole list (insert_trend_with_admin_check).
NewestListStands ==
    /\ Listing(newest) \subseteq DOMAIN trend
    /\ \A n \in DOMAIN newest : trend[newest[n]] = n - 1
    /\ ~overlapped => DOMAIN trend = Listing(newest)
=============================================================================
