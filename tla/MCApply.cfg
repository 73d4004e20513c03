CONSTANTS
  s1 = s1
  s2 = s2
  f1 = f1
  bad = bad
  odd = odd
  v = v
  Sheet <- TwoSheets
  Value <- ThreeValues
  Formula <- ThreeFormulas
  Unsafe <- BadFormulas
  Untranslatable <- OddFormulas
  Merged <- MergedCells
  MaxRow = 2
  MaxColumn = 4
  MaxOperations = 4
  MaxOperationCells = 5
  MaxPlanWrites = 12
  Task <- Tasks
  Source <- TwoBooks
  Session <- Sessions
  Fault = {"io", "late"}
  Absent = Absent
  Torn = Torn
  None = None
  SampleReserve = 5
  LookBack = 3
  SectionMarker = 4
  FallbackMarker = 3
  ContextMarker = 5
  OmissionLine = 3
  Contexts <- FourSections
  Budgets <- FewCharacters
SPECIFICATION FairSpec
CHECK_DEADLOCK FALSE
INVARIANTS CoverIsExact ArraysAnchored NothingLeftBehind SharesAreFair ContextFits
PROPERTIES ImplementsPromise OnlyDeclaredCellsChange ApplicationEnds
