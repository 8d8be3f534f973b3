CONSTANTS
  Paths <- MCPaths
  Caps <- MCCaps
  MaxParts = 7
SPECIFICATION Spec
INVARIANT NormIsNormal
