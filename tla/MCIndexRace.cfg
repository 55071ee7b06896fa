\* Two processes rescan: a total read outside the transaction is stale.
SPECIFICATION Spec
CONSTANTS
    top = top  a_b = a_b  f = f  sub = sub  g = g  aXb = aXb  h = h
    Procs = {p1, p2}
    Paths = {top, a_b, f, sub, g, aXb, h}
    ParentOf <- Parents
    NoPath = NoPath
    Below <- Under
    LikeAlso <- LikeExact
    Sizes = {1, 3}
    InodeOf <- Alone
    Skippable = {}
    FirstDisk <- Disk
    Changing = {f}
    KindOf <- KindsOfPaths
    Retyped = {}
    MaxRuns = 3
INVARIANTS RollupConsistent
