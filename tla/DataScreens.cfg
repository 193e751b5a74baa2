SPECIFICATION DataScreensSpec
CONSTANTS
    e1 = e1
    e2 = e2
    MaxPages = 2
    MaxChanges = 2
    MaxLosses = 1
    MaxTyped = 1
    MaxSaves = 1
    MaxEditors = 1
    Proxies <- MCProxies
    MaxTests = 3
    MaxUpdates = 1
    MaxAsks = 2
INVARIANTS DataScreensTypeOK OwnWritesShown ShownDecides StateFollowsStream SecretsReach
PROPERTY UntouchedSaveKeeps
VIEW DataScreensView
CHECK_DEADLOCK FALSE
