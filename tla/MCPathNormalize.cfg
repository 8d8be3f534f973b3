CONSTANTS
  Chars <- MCChars
  Paths <- MCPaths
  FlagSets <- MCFlagSets
  Caps <- MCCaps
SPECIFICATION Spec
INVARIANTS
  NormalizeIsNormal
  NeverOvertakes
