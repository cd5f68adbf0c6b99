\* A patient user and one who does not wait, folders two deep.
SPECIFICATION Spec
CONSTANTS
    Windows = {w1, w2}
    Patient = {w1}
    MaxActs <- TwoAndOne
    Unreliable = {w2}
    FolderNames = {"a"}
    FileNames = {"f"}
    Bodies = {"x"}
    AllowedFiles = {"f"}
    MaxDepth = 2
    SeedFolders <- OneFolder
    SeedFiles <- FileInRoot
    OverwriteExistingFiles = FALSE
INVARIANTS TypeOK TrailLeadsToTable TableIsCurrent
PROPERTIES FilesAreDeletedByName
