SPECIFICATION Spec
CONSTANTS
    OffSet = 2
    MaxObjSize = 4
    Blocks = 2
    MaxChunks <- MCMaxChunks
    Sizes = {2, 3, 5, 6, 7}
    MaxLarge = 1
    MaxHeld = 5
INVARIANT TypeOK
INVARIANT ListsOK
INVARIANT BlocksOK
INVARIANT RoomOK
