CONSTANTS
  Names <- XY
  Exprs <- TheExprs
  Programs <- OneNamePrograms
SPECIFICATION Compiler
INVARIANT ReferencesAreLexical
