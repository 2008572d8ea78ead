SPECIFICATION MirrorFairSpec
CONSTANTS
    File = {a, b}
    Size = {1, 2}
    Settle = 1
    Absent = Absent
    MaxTime = 4
    MaxWrites = 3
    MaxMishaps = 2
INVARIANTS
    RecordsTrue
PROPERTIES
    AllMirrored
