SPECIFICATION Spec
CONSTANTS
    Values = {a, b}
    TTLs = {0, 2}
    MaxAnswers = 2
    MaxResults = 3
INVARIANTS
    ConvergedMeansUnanimous
    OrderIrrelevant
    ConvergesByEta
CHECK_DEADLOCK FALSE
