\* Two requests at once on three pages: adding, editing, renaming, reverting,
\* reading, indexing.
SPECIFICATION Spec
SYMMETRY ThreadSymmetry
CONSTANTS
    Threads = {t1, t2}
    MaxRequests = 2
    Ops = {"add", "update", "revert", "renametag", "get", "list", "createindex"}
    Lists = {"createdby"}
    MaxPages = 4
    Titles = {"A", "B", "C", "D"}
    Tags = {"homepage"}
    HomepageTag = "homepage"
    Users = {"editor"}
    Bodies = {"x"}
    Seed <- HubSeed
    ForeignKey = TRUE
    CoarseClock = FALSE
    UseObjectCache = TRUE
    UncacheableBodies = {}
    SearchMayFail = FALSE
    IgnoreSearchIndexErrors = FALSE
    NewTags <- NoTags
    NewLinks <- NoLinks
    Admins = {FALSE}
    Editors = {e1, e2}
    DatabaseMayFail = TRUE
PROPERTIES HistoryIsKept KeepsVersions
