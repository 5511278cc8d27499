SPECIFICATION Spec
CONSTANTS
    u1 = u1
    u2 = u2
    None = None
    Clients = {u1, u2}
    Lines <- TwoUsers
    Value <- Numerals
    MaxTyped = 3
    MaxAdopts = 1
INVARIANTS
    TypeOK
    NeverBackInTime
    SelectHitsTheListed
    OthersWorkSurvives
    MineIsSinceAdoption
    HashTellsARepeat
PROPERTY NewestIsNeverLost
