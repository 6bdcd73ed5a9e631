CONSTANTS
  PerPage = 2
SPECIFICATION Spec
INVARIANT SizesClassifiedByPrefix
