SPECIFICATION Spec
PROPERTY ClientEndsWithServer
