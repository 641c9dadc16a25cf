CONSTANTS
  Names <- XY
  Exprs <- ResourceExprs
  Programs <- DeferPrograms
SPECIFICATION Compiler
INVARIANT DefersAreEmitted
