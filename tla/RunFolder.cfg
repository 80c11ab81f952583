SPECIFICATION Spec
CONSTANTS Settings <- FolderSettings
    None = None
    Torn = Torn
INVARIANTS
    JobsSaveEachShotOnce RowsAreUncutRuns CalibratorsLearnInOrder
    RootIsOfOneFold
