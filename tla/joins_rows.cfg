SPECIFICATION Spec
CONSTANTS
    Users = {u1, u2}
    Sessions = {s1, s2}
    Amounts = {1}
    Last = 8
    Short = 2
    Half = 4
    Hour = 4
    Day = 6
    From = 2
    To = 7
    None = None
    MaxEvents = 3
SYMMETRY Symmetry
INVARIANTS TypeOK OwnWindowsAreJoined OfflineEqualsOnline
