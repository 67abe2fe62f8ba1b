------------------------------- MODULE MCFeed -------------------------------
(***************************************************************************)
(* The terminal feed over tables that grow, and searches over tables that   *)
(* stand still.  "part" says which of the two a behaviour is of.  In the    *)
(* feed the first token is either side of the quote, so that pools of both  *)
(* orders trade.                                                            *)
(***************************************************************************)
EXTENDS Market, SearchCache

CONSTANT word

VARIABLE part

feedParts == <<db, searchVars, part>>

\* Nobody asks for a swap history.
NoSwapQueries == {}

MCWord == {word}

\* Without the blanks the word is in every text, with them in one name.
MCSymbolHas == [q \in MCWord \X Padding |-> IF q[2] THEN {} ELSE Token]
MCNameHas == [q \in MCWord \X Padding |-> {1}]
MCNicknameHas == [q \in MCWord \X Padding |-> IF q[2] THEN {} ELSE Account]

\* The address of a token, and the word.
MCSearchRequests == {r \in SearchRequests : r.query.by = "word" \/ r.query.of = 1}

\* Two listed tokens that were never traded.
TwoListed ==
    /\ block = 2
    /\ tx = 0
    /\ token = [t \in Token |-> [creator |-> 1, created_at |-> 1, is_nsfw |-> FALSE]]
    /\ market = [t \in Token |-> [market_type |-> "CURVE", price |-> 1]]
    /\ pool = [t \in {} |-> NewPool(t)]
    /\ swap = <<>>
    /\ liquidity = <<>>
    /\ price = <<[token |-> 1, price |-> 1, block |-> 1, tx |-> 0],
                 [token |-> 3, price |-> 1, block |-> 1, tx |-> 1]>>
    /\ balance = [t \in Token |-> [a \in Account |-> 0]]
    /\ lp = [t \in Token |-> [a \in Account |-> 0]]

FeedInit ==
    /\ SearchInit
    /\ \/ part = "feed" /\ DbInit
       \/ part = "search" /\ TwoListed

FeedPart == part = "feed" /\ DbNext /\ UNCHANGED <<searchVars, part>>

SearchPart == part = "search" /\ SearchNext(MCSearchRequests) /\ UNCHANGED <<db, part>>

FeedNext == FeedPart \/ SearchPart

FeedSpec == FeedInit /\ [][FeedNext]_feedParts
=============================================================================
