\* A page and a mock subscriber, queues of two messages; one list is refused.
CONSTANTS
    Lists <- MCLists
    Refused <- MCRefused
    MockTracks <- MCMock
    Pages = {page}
    Tools = {tool}
    SendBuf = 2
SPECIFICATION LiveSpec
INVARIANT RoutedRight
INVARIANT CaughtUp
PROPERTY Relisted
