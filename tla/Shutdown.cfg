SPECIFICATION Spec
CONSTANTS
    Main = Main
    Updater = Updater
    Nobody = Nobody
    Handlers = {h1, h2}
    Notifiers = {n1}
    MaxSignals = 2
    MaxQueued = 1
INVARIANTS
    TypeOK
    NobodyIsLeftBehind
    OneSignalIsSafe
PROPERTIES
    EndsOrGoesOn
    CaughtForEver
\* The process ends, or deadlocks when it is caught.
CHECK_DEADLOCK FALSE
