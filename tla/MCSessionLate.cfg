\* One page; nobody repeats the announcement for a page that joins late.
CONSTANTS
    Lists <- MCLists
    Refused = {}
    MockTracks <- MCMock
    Pages = {page}
    Tools = {}
    SendBuf = 2
SPECIFICATION LiveSpec
PROPERTY ListShown
