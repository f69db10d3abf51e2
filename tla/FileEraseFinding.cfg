SPECIFICATION Spec
CONSTANTS
    f1 = f1
    f2 = f2
    j1 = j1
    j2 = j2
    File = {f1, f2}
    Job = {j1, j2}
    MaxFailures = 1
CHECK_DEADLOCK FALSE
PROPERTIES
    ActiveInputsKept
