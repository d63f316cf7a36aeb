\* All commands, a file that others write, a reload at any time.
CONSTANTS
    NULL = NULL
    ANY = ANY
    tcp = tcp
    ipc = ipc
    main = main
    Port <- MCPort
    InUse <- MCInUse
    Files <- MCFiles
    Written <- MCWritten
    Sizes <- MCSizes
    Settings <- MCSettings
    MaxTime = 1
    MaxPipe = 2
SPECIFICATION Spec
INVARIANTS TypeOK RepliesMatchQuestions PortIsBound AppHasFileTree DerivedFollowsTree TreeIsFile
