SPECIFICATION Spec
CONSTANTS
  MaxDepth = 3
  MaxTokens = 6
  Lexical <- MCLexical
  NumberOf <- MCNumberOf
  Inside <- MCInside
  Attributes <- MCAttributes
  MaxLogic = 7
  MaxComparison = 5
  MaxText = 5
  MaxTemplate = 5
  MaxLines = 4
  MaxInline = 6
  MaxPath = 3
  MaxNodes = 6
  MaxReading = 6
INVARIANTS
  ParsesItsGrammar
  FormsAgree
  TextIsFaithful
  SettingsAreFound
  JailIsExact
CHECK_DEADLOCK FALSE
