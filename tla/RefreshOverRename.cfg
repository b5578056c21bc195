SPECIFICATION Spec
CONSTANTS
  FileId = {0, 1, 2, 3, 4, 5, 6, 7, 8, 9, 10, 11}
  Root = 0
  Stem = {"a", "b", "c", "d"}
  Alike = {}
  Rank <- Alphabetical
  PageSize = 4
  Thread = {t1}
  UserPath <- TwoFiles
  OtherPath <- ThreeNames
  UserOps = {"rename"}
  OtherOps = {}
  Fault = {}
  Limits <- OneCall
  InitTree <- CachedA
PROPERTIES RenameKept
