CONSTANTS
  Names <- XY
  Exprs <- StoreExprs
  Programs <- StorePrograms
SPECIFICATION Compiler
INVARIANT StoresMatchTypes
