SPECIFICATION ConsoleSpec
SYMMETRY RequestSymmetry
CONSTANTS
    Requests = {r1, r2}
    PolicyIds = {p1, p2}
    None = None
    Sent <- MCSent
    Sizes = {1, 1025}
    LogCap = 3
    DefaultShown = 1
    MaxShown = 2
    Asked = {0, 2, 3}
    MaxChanges = 4
INVARIANTS
    RecentEntriesAreListed
    PoliciesLiveOnce
    SettingsApply
