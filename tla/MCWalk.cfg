\* Three workers on the wide tree; ReadDir and Stat may fail.
SPECIFICATION FairSpec
CONSTANTS
    root = root  home = home  etc = etc  mnt = mnt  cache = cache
    link1 = link1  link2 = link2  sym = sym  disk1 = disk1  disk2 = disk2
    Workers = {w1, w2, w3}
    Dirs = {root, home, etc, mnt, cache}
    Files = {link1, link2}
    Symlinks = {sym}
    Root = root
    Entries <- WideEntries
    InodeOf <- Inodes
    Linked = {link1, link2}
    SizeOf <- Sizes
    DeviceOf <- WideDevices
    Depth = 2
    CrossDevice = FALSE
    PriorityPaths = {etc}
    MaxPriority = 100
    Unreliable = {home, etc, link2}
    MaxDeniedSample = 1
    None = None
INVARIANTS
    TypeOK PendingCountsOutstanding ClosedMeansDrained NoLostWakeup
    EveryDirectoryAccounted LinksCountedOnce TotalsExact StateExact
    StatsReconcile
PROPERTIES
    NoAddFromZero PriorityFirst Traverses WalkReturns
