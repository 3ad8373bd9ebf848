SPECIFICATION Spec
CONSTANTS
  Threads = {t1, t2}
  Candidates = 2
  NoLib = NoLib
INVARIANTS
  HandlesAreWhole
