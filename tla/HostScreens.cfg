SPECIFICATION HostScreensSpec
CONSTANTS
    k1 = k1
    k2 = k2
    forced = forced
    i1 = i1
    i2 = i2
    c1 = c1
    c2 = c2
    NoRule = NoRule
    Nothing = Nothing
    Rules <- MCRules
    Short <- MCRules
    Presets <- MCPresets
    MaxEdits = 1
    MaxApplies = 2
    MaxVisits = 1
    MaxRequests = 2
    MaxPageViews = 2
    Ips <- MCIps
    Contents <- MCContents
    MaxClicks = 2
    MaxOthers = 1
    Drive = "C:"
    Letter = "c"
    Folders <- MCFolders
    Refused <- MCRefused
    Inside <- MCInside
    Begins <- MCBegins
    Texts <- MCTexts
    NoMounts = NoMounts
    MaxRows = 2
    MaxSteps = 3
SYMMETRY Sym
VIEW HostScreensView
INVARIANTS HostScreensTypeOK ShortAcknowledged BoundAfterChange TypedKept
PROPERTIES MarksWhatRuns  PasswordKept PicksMounted
CHECK_DEADLOCK FALSE
