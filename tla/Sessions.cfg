SPECIFICATION FairSessions
CONSTANTS
    root = root
    ann = ann
    tab1 = tab1
    tab2 = tab2
    None = None
    Accounts <- MCAccounts
    Tabs <- MCTabs
    Watched <- MCWatched
    Left <- MCLeft
    Slots = {1}
    Role <- MCRole
    MaxSignIns = 1
    MaxClicks = 2
INVARIANTS SessionsTypeOK OneStory
PROPERTIES StoreIsRecentAccounts ExpiredTabLeaves SignedOutEverywhere
CHECK_DEADLOCK FALSE
