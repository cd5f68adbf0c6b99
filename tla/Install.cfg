\* Two windows install at once; files, tables and the process may fail.
SPECIFICATION Spec
CONSTANTS
    Windows = {w1, w2}
    Opened = {w1}
    Backends = {"sql", "mongodb"}
    WithFaults = TRUE
    MaxActs <- TwoAndOne
    MaxDomains = 2
    MaxFaults = 1
INVARIANTS TypeOK InstalledMeansComplete AnswerIsTrue
