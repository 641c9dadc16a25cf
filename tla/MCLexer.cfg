CONSTANTS
  Texts <- AllTexts
  MaxInt = 230
SPECIFICATION Spec
INVARIANTS TypeOK LongestMatch LiteralsFit
PROPERTY Ends
