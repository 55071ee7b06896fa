\* The display beside two workers; a directory may not be readable.
SPECIFICATION ProgressSpec
CONSTANTS
    root = root  home = home  etc = etc  file = file  disk1 = disk1
    Workers = {w1, w2}
    Dirs = {root, home, etc}
    Files = {file}
    Symlinks = {}
    Root = root
    Entries <- FewEntries
    InodeOf <- Inodes
    Linked = {}
    SizeOf <- Sizes
    DeviceOf <- OneDevice
    Depth = 0
    CrossDevice = FALSE
    PriorityPaths = {}
    MaxPriority = 100
    Unreliable = {etc}
    MaxDeniedSample = 1
    None = None
INVARIANTS FractionAtMostOne LastShownIsFinal
PROPERTIES CommandEnds
