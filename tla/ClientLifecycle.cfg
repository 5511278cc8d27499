SPECIFICATION Spec
INVARIANTS
    TypeOK
    NobodyIsForgotten
PROPERTY StopsOnceStarted
