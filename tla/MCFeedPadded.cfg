SPECIFICATION FeedSpec
CONSTANTS
    Token = {1, 3}
    Quote = 2
    Account = {1}
    Amount = {1, 4}
    MaxBlock = 2
    MaxRows = 4
    Day = 1
    MinTrade = 1
    MaxFound = 2
    MaxCountback = 2
    MediumValue = 1
    LargeValue = 4
    MinShown = 2
    NewCreates = 1
    NewTrades = 1
    MaxRange = 1
    AskedPage = {1, 2}
    AskedLimit = {1}
    MaxLimit = 1
    Time = {1, 2}
    SwapQueries <- NoSwapQueries
    word = word
    Word <- MCWord
    Padding = {FALSE, TRUE}
    SymbolHas <- MCSymbolHas
    NameHas <- MCNameHas
    NicknameHas <- MCNicknameHas
    Client = {c1, c2}
    NoAnswer = NoAnswer
INVARIANT
    SearchFinds
CHECK_DEADLOCK FALSE
