CONSTANTS
  MapSize = 2
  MaxEntries = 3
  MaxFactor = 1
  InputSeeds = {"i1"}
  FoundSeeds = {"f1"}
  Crashes = {"c1"}
  TargetNum = 1
  Nodes <- OneTargetPaths
SPECIFICATION CorpusSpec
INVARIANTS MarksSound CheapestHolds FavoredCover 
CHECK_DEADLOCK FALSE
