SPECIFICATION Spec
CONSTANTS
    Names = {u1, u2}
    Fds = {f1, f2, f3}
    Handlers = {h1, h2, h3}
    TimerPtrs = {p1, p2}
    Notifiers = {n1}
    NoName = NoName
    NoFd = NoFd
    NoPtr = NoPtr
SYMMETRY Symmetry
INVARIANTS
    TypeOK
    OneSessionPerName
    UsersAreTheSessions
    HandlersOwnTheirConnection
    ConnectionsAreTheHandlers
    OneTimerPerName
    RunningHandlersAreListed
