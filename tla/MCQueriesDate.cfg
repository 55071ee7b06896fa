\* The rows behind a result, and the run that dates it.
SPECIFICATION QSpec
CONSTANTS
    top = top  d = d  e = e  f = f  g = g  h = h
    Procs = {p1}
    Paths = {top, d, e, f, g, h}
    ParentOf <- Parents
    NoPath = NoPath
    Below <- Under
    LikeAlso <- LikeExact
    Sizes = {2}
    InodeOf <- Links
    Skippable = {d}
    FirstDisk <- Disk
    Changing = {d, h}
    KindOf <- KindsOfPaths
    Retyped = {}
    MaxRuns = 3
    KnownPaths = {d}
    Roots = {top}
    Depths = {1, 3}
    MinSizes = {1, 2}
    Limits = {1}
INVARIANTS DatedByAll
