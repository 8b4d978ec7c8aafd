CONSTANTS
    MaxStarts = 2
    AllStarts = 2

SPECIFICATION Spec
CHECK_DEADLOCK FALSE

INVARIANTS
    OneProber
    OnlyMishapsPanic
    LabelsAgree
PROPERTIES
    ButtonsReturn
