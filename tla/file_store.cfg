SPECIFICATION Spec
CONSTANTS
  short = short
  long = long
  huge = huge
  Writers = {w}
  Readers = {r}
  Docs = {short, long, huge}
  Parts <- SomeParts
  BufParts = 3
  Inodes = {1, 2, 3}
  NoFile = NoFile
  Hole = Hole
PROPERTIES
  NeverWithoutAgain
  ActsLikeAtomicCache
