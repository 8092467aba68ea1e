CONSTANTS
  Supported <- MCSupported
  ByName <- MCByName
  ByHead <- MCByHead
  Readers <- MCReaders
  Generated <- MCGenerated
  Dotted <- MCDotted
  Setups <- MCSetups
  Texts <- MCTexts
SPECIFICATION Spec
INVARIANTS TraceAgrees RulesFollowTheFile Accounted CodeTellsTheTree
