SPECIFICATION FairSpec
CONSTANTS
    here = here
    there = there
    x = x
    y = y
    lock = lock
    Proc = {here, there}
    KeyID = {x, y}
    MaxCalls = 3
    Lock = {lock}
    NoLock = NoLock
    World <- MCWorld
INVARIANTS OneKey
PROPERTIES ProvideKeeps QuietReads CallsEnd
CHECK_DEADLOCK FALSE
