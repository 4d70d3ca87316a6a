SPECIFICATION SetupSpec
CONSTANTS
    MaxOutage = 0
    MaxSnare = 0
CHECK_DEADLOCK FALSE
PROPERTIES
    ResumeConverges
