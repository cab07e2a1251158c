SPECIFICATION Spec
CONSTANTS
    o1 = o1
    o2 = o2
CHECK_DEADLOCK FALSE
INVARIANTS
    TypeOK
PROPERTIES
    FilesAreExact
    WindowsStay
