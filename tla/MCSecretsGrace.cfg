SPECIFICATION Spec
CONSTANTS
    Session = {s1}
    MaxGen = 2
    MaxShort = 2
    MaxCuts = 2
    FirstAlone = TRUE
INVARIANTS
    GraceHonoured
CHECK_DEADLOCK FALSE
