CONSTANTS
  Names <- AllNames
  Exprs <- AllExprs
  Programs <- AllPrograms
SPECIFICATION Spec
INVARIANTS TypeOK StacksMirrorNesting NamesAreFlat EvaluatesInOrder
