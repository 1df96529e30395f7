SPECIFICATION Spec
CONSTANTS
  HashBits = 8
  Global = 71
  Anonymous = 65
  Documents <- MCDocuments
  Configs <- MCConfigs
  Options <- MCOptions
  ResultLists <- MCResultLists
  TopKs <- MCTopKs
  Flags <- MCFlags
  Defaults = {"fallback"}
  Contexts <- MCContexts
INVARIANTS
  ChildrenOverlap
