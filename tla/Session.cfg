CONSTANTS
  Id = {i1}
  Value = {v1}
  Blank = Blank
  Nothing = Nothing
  Faults = {"crash", "write", "short", "sync", "file"}
  MaxLines = 2
  MaxFaults = 1
  Run = {r1, r2}
  NoRun = NoRun
SPECIFICATION FairSpec
INVARIANTS FileTellsLast
PROPERTIES JournalKeeps StatusTells
