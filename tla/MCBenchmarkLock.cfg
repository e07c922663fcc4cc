CONSTANTS
    Runs = {b1, b2}
    Events = 1
    Free = Free
SPECIFICATION Spec
PROPERTY MeasuresAlone
CHECK_DEADLOCK FALSE
