SPECIFICATION MCSpec
CONSTANTS
  Strings <- MCStrings
  Decode <- MCDecode
  MaxDepth = 2
  Texts <- MCTexts
  Parses <- InGrammar
INVARIANTS
  NothingAmbiguousAccepted
  NothingElseRefused
