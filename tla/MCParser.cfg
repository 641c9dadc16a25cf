CONSTANTS
  Names <- AllNames
  Exprs = {}
  Programs = {}
  Inputs <- AllInputs
SPECIFICATION Spec
INVARIANTS TypeOK OpenMirrorsBody ReturnsParsed ParsesGrammar
PROPERTY TakesTokens
