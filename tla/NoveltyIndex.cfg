SPECIFICATION IndexSpec
CONSTANTS
  Seeds = {s1, s2}
  Children = {c1}
  Places = {p1, p2}
  Writes = {w1, w2}
  Rarest = 2
  Sample = 2
  Interval = 2
  MaxEpoch = 6
SYMMETRY Symmetric
INVARIANT IndexLive
PROPERTY NoveltyExact
CHECK_DEADLOCK FALSE
