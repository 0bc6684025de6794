SPECIFICATION Spec
CONSTANTS
    Fuel = 3
    MaxOutcomes = 2
INVARIANTS
    QcisIsTheCircuit
    MeasuredQubitsAreDone
    PassesKeepTheRun
    SameRunInOpenQASM3
CHECK_DEADLOCK FALSE
