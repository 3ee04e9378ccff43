SPECIFICATION RowSpec
CONSTANTS
    Clients = {c1, c2}
    Schema <- Application
    Drafts <- AllDrafts
    RowidTables <- TheRowidTables
    RequestLimit = 2
    MaxSubmits = 2
SYMMETRY Symmetry
CHECK_DEADLOCK FALSE
INVARIANTS  LastWriteWins TablesHoldState
