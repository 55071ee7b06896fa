\* Every finding, in every order of the map, over an index that may hold unparented rows.
SPECIFICATION FairSpec
CONSTANTS
    top = top  left = left  right = right  inner = inner
    a = a  b = b  c = c  d = d  x = x
    Paths = {top, left, right, inner, a, b, c, d, x}
    Dirs = {top, left, right, inner}
    ParentOf <- Parents
    NoPath = NoPath
    Below <- Under
INVARIANTS CoversTheFinding HighestDirectories
PROPERTIES CollapseReturns
