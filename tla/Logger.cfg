SPECIFICATION Spec
CONSTANTS
    Lines <- MCLines
    MaxFileSize = 2
    MaxFilesChoices = {0, 2, 3}
    MaxCrashes = 1
    Threads = {t1, t2}
    Levels = {1, 2}
    MaxCalls = 4
    MaxInits = 1
SYMMETRY ThreadSymmetry
INVARIANTS LogContiguous ShutdownFlushes
