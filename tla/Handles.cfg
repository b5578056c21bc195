SPECIFICATION Spec
CONSTANTS
    Thread = {t1, t2}
    Letter <- Letters
    Alike <- CaseOfD
    Name <- FewNames
    Tree <- FileInDir
    NameOps <- AllOps
    Limits <- HandleLimits
INVARIANTS TypeOK PathsResolve
PROPERTIES CloseKeeps
CHECK_DEADLOCK FALSE
