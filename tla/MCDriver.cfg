CONSTANTS
  Jobs = {j1, j2}
  Calls <- AllCalls
  Sources <- TwoSources
  Basename <- Names
  Outputs <- Files
  Contents = {empty, unlinkable, p1, p2, wrong}
  Empty = empty
  Rejected = {wrong}
  Linkable = {p1, p2}
SYMMETRY Renamings
SPECIFICATION Spec
INVARIANTS TypeOK RunsItsSource FailsForAReason
PROPERTY CompiledWhole
