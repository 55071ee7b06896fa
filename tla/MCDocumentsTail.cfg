SPECIFICATION Spec
CONSTANTS
    home = home
    dl = dl
    z1 = z1
    z2 = z2
    t = t
    td = td
    work = work
    c = c
    q = q
    qd = qd
    shop = shop
    opt = opt
    reg = reg
    side = side
    dir = dir
    link = link
    photo = photo
    thumb = thumb
    Paths = {home, dl, z1, z2, t, td, work, c, q, qd, shop, opt}
    Pieces <- MCPieces
    Spelling <- MCSpelling
    Home = home
    NameOf <- MCNameOf
    Stops <- MCStops
    Width <- MCWidth
    Members = {reg, side, dir, link, photo, thumb}
    TypeOf <- MCTypeOf
    SizeOf <- MCSizeOf
    Sidecars = {side}
    InLibrary = {photo, thumb}
    Originals = {photo}
    MaxCompressed = 2
    Candidates <- MCCandidates
    Results <- MCResults
    Requests <- MCRequests
    HotspotLimit = 1
    PairsMinSize = 2
    PathRank <- MCPathRank
    Off = Off
    Commands = 2
INVARIANTS
    NoTailLeft
CHECK_DEADLOCK FALSE
