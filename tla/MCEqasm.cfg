SPECIFICATION Spec
CONSTANTS
    Fuel = 3
    QMemStart = 1000
    Programs <- MCPrograms
    FuncOrder <- MCOrder
INVARIANTS
    SameGatesAsTheKernel
    ReadsAreWritten
PROPERTIES
    ReturnsToItsCall
    EveryRunHalts
