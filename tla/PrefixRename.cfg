SPECIFICATION Spec
CONSTANTS
    Thread = {t1}
    Letter <- Letters
    Alike = {}
    Name <- CommonStart
    Tree <- ThreeFiles
    NameOps <- OnlyRename
    Limits <- SaveLimits
PROPERTIES CommitsReachTheirFile
CHECK_DEADLOCK FALSE
