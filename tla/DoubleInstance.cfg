SPECIFICATION FairSpec
CONSTANTS
    Readers = {gui, input}
    MaxUpdates = 3
INVARIANTS
    TypeOK
    NoTornLook
PROPERTIES
    IsRegularRegister
    LooksEnd
