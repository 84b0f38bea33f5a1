SPECIFICATION CopySpec
CONSTANTS
  d1 = d1  d2 = d2
  Pages = 2
  MaxCommits = 4
  Writes <- MCWrites
  Dirs = {d1}
INVARIANTS
  CopyIsExact
