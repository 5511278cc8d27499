SPECIFICATION ListsFailSpec
CONSTANTS
    Names = {u1, u2}
    User = u1
    Fds = {f1, f2}
    Handlers = {h1, h2}
    TimerPtrs = {p1, p2}
    Notifiers = {n1}
    NoName = NoName
    NoFd = NoFd
    NoPtr = NoPtr
INVARIANT DepartedAwaitAdoption
