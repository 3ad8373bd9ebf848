SPECIFICATION Spec
CONSTANTS
  short = short
  long = long
  huge = huge
  Writers = {w1, w2}
  Readers = {r}
  Docs = {short, long}
  Parts <- TwoParts
  BufParts = 3
  Inodes = {1, 2, 3, 4}
  NoFile = NoFile
  Hole = Hole
INVARIANTS
  ReadsAreWhole
