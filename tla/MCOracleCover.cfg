SPECIFICATION Spec
CONSTANT Tables <- MCTables
INVARIANT CubesAreTheTable
