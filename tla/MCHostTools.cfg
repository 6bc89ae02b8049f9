SPECIFICATION SpecAll
CONSTANTS
  Trees <- AllTrees
  Tables <- ParsedTrees
  Edits <- EditsA
  Defconfigs <- DefsA
  Seeds <- DefsA
  Numbers = {1,3,7}
  NoFile = NoFile
  Tools = {"checksum","a","d","fwinfo"}
  Junk = "junk"
  MinSize = 1
  MaxSize = 5
  Builds <- MCBuilds
  Mini <- MCMini
  MaxLoads = 3
  MaxFaults = 1
  MaxDepth = 2
INVARIANTS SessionSound FilesAgree LanguageSound ImageSound
PROPERTIES KilledSafely

CHECK_DEADLOCK FALSE
