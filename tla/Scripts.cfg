\* Two scripts, two events, six handlers in all: the vector of five has room for
\* six, so that a handler can be registered without and with a move of it.
CONSTANTS
    Event = {playerJoin, tick}
    Files = 2
    MaxHandlers = 6
SPECIFICATION ScriptsSpec
CHECK_DEADLOCK FALSE
INVARIANTS
    EachCalledOnce
    LoadOrderKept
