CONSTANTS
    x1 = x1 x2 = x2 y1 = y1 y2 = y2 imgA = imgA imgB = imgB
    Blank = Blank NoDisk = NoDisk
    Data = {x1, x2, y1, y2, Blank}
    ByteMod = 4 Blocks = 2 BlockSize = 4 SectorSize = 2 IoBlock = 3
    ReadCode = 2 WriteCode = 1
    Images = {imgA, imgB}
    Boards <- MCBoards
    Stores <- MCStores
    Maps <- MCMaps
    MaxCalls = 2 MaxMoves = 2
SPECIFICATION Spec
INVARIANTS TypeOK
PROPERTIES BoardRefined
CHECK_DEADLOCK FALSE
