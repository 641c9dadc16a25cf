CONSTANTS
  Names <- VarNames
  Exprs <- DeferExprs
  Programs <- DeferPrograms
SPECIFICATION Spec
INVARIANT DefersAreTypeChecked
