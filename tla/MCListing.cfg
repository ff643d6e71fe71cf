SPECIFICATION Spec
CONSTANTS
  Keys <- AllKeys
  Paths <- WrittenPaths
  Outside <- OutsidePaths
  Requests = {r1, r2}
  Writers = {"w1"}
  Refreshers = {t1, t2}
  Flights = {f1, f2}
  Sizes = {1, 2, 4}
  Budget = 3
  MaxEntries = 2
  Slots = 2
  RefreshSlots = 2
  Scenes <- AllScenes
SYMMETRY Symmetry
CHECK_DEADLOCK FALSE
INVARIANTS
  ListingsAreNew
  BooksAreKept
