SPECIFICATION Spec
CONSTANTS
    Token = {1, 3}
    Quote = 2
    Account = {1, 2}
    Amount = {1, 4}
    MaxBlock = 2
    MaxRows = 3
    Day = 1
    MinTrade = 1
    MaxFound = 1
    MaxCountback = 2
    MediumValue = 1
    LargeValue = 4
    MinShown = 2
    NewCreates = 1
    NewTrades = 1
    MaxRange = 1
    AskedPage = {0, 1, 2}
    AskedLimit = {0, 1, 2, 3}
    MaxLimit = 2
    Time = {1, 2}
    SwapQueries <- MCSwapQueries
    Word = {w1}
    Padding = {FALSE, TRUE}
    SymbolHas <- MCTextHas
    NameHas <- MCTextHas
    NicknameHas <- MCTextHas
    Client = {c1, c2}
    Address = {a1}
    Request = {r1, r2}
    Text = {default, x, y}
    Field = {nickname, bio}
    Default = default
    None = None
    MaxEdits = 2
    TrendToken = {t1, t2}
    Admin = {m1, m2}
    Insert = {i1, i2}
    MaxTrendTokens = 2
    MaxInserts = 3
INVARIANTS
    TypeOK
    PagesAddUp
    ListsAgree
    
    NewestListStands
    ProfileStands
CHECK_DEADLOCK FALSE
