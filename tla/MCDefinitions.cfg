CONSTANTS
  Names <- XY
  Exprs <- TwoExprs
  Programs <- TwoDefinitions
SPECIFICATION Compiler
INVARIANT CallsReachDefinitions
