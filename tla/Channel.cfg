SPECIFICATION Spec
CONSTANTS
    handler = handler
    updater = updater
    Writers = {handler, updater}
    Program <- ListAndUpdates
    Capacity = 5
    HasTimeOut = TRUE
INVARIANTS
    TypeOK
    TornOnlyWhenFull
    KeepsItsPlace
PROPERTIES
    ImplementsPipe
    MessagesArrive
\* Both ends are closed in the end, or have nothing more to say.
CHECK_DEADLOCK FALSE
