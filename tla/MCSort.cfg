CONSTANTS
  Names <- SortNames
  Exprs <- SortExprs
  Programs <- SortPrograms
SPECIFICATION Compiler
INVARIANT AcceptedCompiles
