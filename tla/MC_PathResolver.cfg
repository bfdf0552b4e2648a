SPECIFICATION ResolverSpec
CONSTANTS
  Directories <- SomeDirectories
  Lookups <- SomeLookups
  Values = {v1, v2}
  NoValue = NoValue
INVARIANTS ResolverTypeOK ItemsSorted
PROPERTIES ResolverIsMap
