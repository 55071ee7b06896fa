\* Two processes, a path that turns from a file into a directory and back, and a name with an underscore.
SPECIFICATION Spec
CONSTANTS
    top = top  a_b = a_b  f = f  sub = sub  g = g  aXb = aXb  h = h
    Procs = {p1, p2}
    Paths = {top, a_b, f, sub, g, aXb, h}
    ParentOf <- Parents
    NoPath = NoPath
    Below <- Under
    LikeAlso <- LikeWild
    Sizes = {1}
    InodeOf <- Alone
    Skippable = {}
    FirstDisk <- Disk
    Changing = {g}
    KindOf <- KindsOfPaths
    Retyped = {g}
    MaxRuns = 3
INVARIANTS ParentsExist RunsNested
