CONSTANTS
  Names <- VarNames
  Exprs <- TheExprs
  Programs <- ThePrograms
SPECIFICATION Spec
INVARIANTS TypeOK StacksMirrorBlocks LoopDepthIsExact ScopeIsLexical DefersOfOpenBlocks
PROPERTY ImplementsJudge
