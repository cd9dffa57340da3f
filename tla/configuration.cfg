SPECIFICATION Spec
CONSTANT Setups <- AllSetups
CONSTANT Language <- Languages
CONSTANT Tables <- AllTables
CONSTANT Columns <- AllColumns
CONSTANT MessagePrefixes <- AllMessages
CONSTANT MaxEdits = 2
INVARIANT SameStreamResumed
INVARIANT RefusedForAReason
INVARIANT WarningsMatchReaders
