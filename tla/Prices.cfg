CONSTANTS
    NPaths = 2
    Contents = {a, b, broken}
    Broken = {broken}
    Sessions = {s1, s2}
    MaxSyncs = 3
    MaxWrites = 2
    Absent = Absent
    NoVersion = NoVersion
    a = a
    b = b
    broken = broken
    s1 = s1
    s2 = s2
SPECIFICATION MCSpec
INVARIANTS TypeOK OneVersionOffered NoCircularWait
PROPERTIES PricesStay SyncCatchesUp SyncsEnd
\* In the end the folder changes no more and no synchronization is started.
CHECK_DEADLOCK FALSE
