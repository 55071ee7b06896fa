\* An underscore in the name of a rescanned directory: LIKE deletes the rows of a_b's look-alike.
SPECIFICATION Spec
CONSTANTS
    top = top  a_b = a_b  f = f  sub = sub  g = g  aXb = aXb  h = h
    Procs = {p1}
    Paths = {top, a_b, f, sub, g, aXb, h}
    ParentOf <- Parents
    NoPath = NoPath
    Below <- Under
    LikeAlso <- LikeWild
    Sizes = {1, 3}
    InodeOf <- Alone
    Skippable = {}
    FirstDisk <- Disk
    Changing = {f}
    KindOf <- KindsOfPaths
    Retyped = {}
    MaxRuns = 3
PROPERTIES RescanLocal
