SPECIFICATION Spec
CONSTANTS
  CodesOf <- MCCodesOf
  InitialSize = 2
  Names = {"", "a", "i"}
  Strings = {"s"}
  Lists = {"l"}
  Fallbacks <- MCFallbacks
  MaxEntries = 3
INVARIANTS TypeOK LookupIsInnermost ListingsComplete DumpRestores
PROPERTY ImplementsTree
