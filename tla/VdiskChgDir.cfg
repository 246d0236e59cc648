CONSTANTS
    None = None
    p1 = p1 f1 = f1 f2 = f2 root = root da = da db = db above = above
    Above = above Low <- MCLow EntryName <- MCEntryName
    Procs = {p1}
    Paths <- MCPaths
    FileNodes = {f1, f2}
    DirNodes = {root, da, db}
    Systems <- MCSystems
    CdtSize = 3
    ByteSize = 2
    ModeByte <- MCModes
    Letters = {32}
    MaxLine = 1
SPECIFICATION Spec
INVARIANT ErrorTold
