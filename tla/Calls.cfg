SPECIFICATION Spec
CONSTANTS
  FileId = {0, 1, 2, 3, 4, 5, 6, 7, 8, 9, 10, 11}
  Root = 0
  Stem = {"a", "b", "c", "d"}
  Alike = {}
  Rank <- Alphabetical
  PageSize = 1
  Thread = {t1, t2}
  UserPath <- MixedPaths
  OtherPath <- MixedPaths
  UserOps = {"create", "write", "mkdir", "unlink", "rename", "read"}
  OtherOps = {"put", "delete"}
  Fault = {"retry", "fatal", "lost"}
  Limits <- CallLimits
  InitTree <- DirTree
INVARIANTS TypeOK JobKeepsItsId QueueBacked DeleteSupersedes
PROPERTIES RefreshMirrors
