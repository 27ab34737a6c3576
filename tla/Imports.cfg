CONSTANTS
    FileSystems <- MCFiles
    Directories <- MCDirectories
    WorkingDir <- MCWorkingDir
    PkgDataDir <- MCPkgDataDir
    Main <- MCMain
    MaxDirs = 1
    MaxOpen = 6
SPECIFICATION Spec
INVARIANTS DirectoriesFollowFiles NoFileWithinItself ChunksAreAllInOrder
PROPERTY ParseEnds
CHECK_DEADLOCK FALSE
