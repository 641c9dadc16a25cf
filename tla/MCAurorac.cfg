CONSTANTS
  Names <- XY
  Exprs <- TheExprs
  Programs <- ThePrograms
SPECIFICATION Compiler
INVARIANTS SemaCoversErrors JumpsMatchSource LiveCodeStaysLive RejectionsExplained LexicalUnlessShadowed
