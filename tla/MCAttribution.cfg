\* Every query, over indexes with one or two versions, with and without second links.
SPECIFICATION Spec
CONSTANTS
    home = home  cache = cache  kb = kb  lib = lib  inner = inner  dl = dl  s = s
    work = work  vm = vm  k = k  m = m  z1 = z1  z2 = z2  a = a  t = t  u = u
    g = g  x = x  v = v  z = z  NoFamily = NoFamily  NoPath = NoPath
    Paths = {home, cache, kb, lib, inner, dl, s, work, vm, k, m, z1, z2, a, t, u, g, x, v}
    Dirs = {home, cache, kb, lib, inner, dl, s, work, vm}
    Below <- MCBelow
    Indexes <- MCIndexes
    Known = {cache, vm}
    KindOf <- MCKindOf
    DefaultOf <- MCDefaultOf
    Bundles = {kb, lib, inner}
    Archives = {m, z1, z2, a, x}
    Dmgs = {x}
    FamilyOf <- MCFamilyOf
    SiblingOf <- MCSiblingOf
    BackupLike = {z2}
    Contents <- MCContents
    Filters <- MCFilters
    MinSizes = {2}
    Cuts = {0, 2}
    DefaultLimit = 2
    Limits = {1, 2}
    Absent = {z2, t}
    LinkSets = {{}, {z1}, {a, u}}
    Large = {1, 3}
INVARIANTS NoOverlap ArchivesOnce RemainderExact TiersBounded Conservative
